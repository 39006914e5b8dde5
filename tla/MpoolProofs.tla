---------------------------- MODULE MpoolProofs -----------------------------
(***************************************************************************)
(* The buffer pool keeps the pages a user holds where they are and, when   *)
(* the file needs no conversion and has no more pages than 2^32 bytes,     *)
(* keeps their contents, for any number of pages, buffers and values.      *)
(***************************************************************************)
EXTENDS Mpool, PositionsProofs, FiniteSetTheorems, TLAPS

Buf == [pgno : Pages, pinned : BOOLEAN, dirty : BOOLEAN, data : Int]

\* A chain of buffers, each for a page of its own.
Chain(l) == /\ l \in Seq(Buf)
            /\ \A i, j \in DOMAIN l : l[i].pgno = l[j].pgno => i = j

\* What the pool has, whatever is in the pages.
Sound ==
    /\ Chain(lru)
    /\ curcache \in Nat /\ Len(lru) <= curcache
    /\ npages \in 0..MaxPages
    /\ file \in [0..Wrap - 1 -> Int] /\ eof \in 0..Wrap /\ eof <= MaxPages
    /\ touched \subseteq held /\ synced \in BOOLEAN
    /\ written \subseteq 0..npages - 1
    /\ \A b \in Range(lru) : b.pgno < npages
    /\ \A p \in held : \E b \in Range(lru) : b.pgno = p /\ b.pinned

\* What is in the pages: a buffer that is clean is stored, a page whose
\* changes are not in the file yet is in memory, and nothing is dirty when
\* mpool_sync() has returned.
Data == Values \cup {0}
Faithful ==
    /\ \A b \in Range(lru) : b.data \in Data
    /\ file \in [0..Wrap - 1 -> Data]
    /\ \A b \in Range(lru) :
          b.pgno \in written /\ ~b.dirty /\ b.pgno \notin touched
              => b.data = file[b.pgno]
    /\ \A p \in written \ touched :
          p < eof \/ \E b \in Range(lru) : b.pgno = p /\ b.dirty
    /\ synced => \A b \in Range(lru) : ~b.dirty

-----------------------------------------------------------------------------
(* Chains.                                                                 *)

LEMMA PageType ==
    Pages \subseteq Nat /\ MaxPages \in Nat \ {0} /\ Wrap \in Nat \ {0}
    /\ maxcache \in Nat /\ MaxLost \in Nat
  BY MpoolAssumption DEF Pages

\* The place of a page, and where it is as long as nothing wraps.
LEMMA PlaceIs ==
    \A p \in Pages : /\ Place(p) \in 0..Wrap - 1 /\ Place(p) <= p
                     /\ MaxPages <= Wrap => Place(p) = p
<1> SUFFICES ASSUME NEW p \in Pages
             PROVE  /\ Place(p) \in 0..Wrap - 1 /\ Place(p) <= p
                    /\ MaxPages <= Wrap => Place(p) = p
  OBVIOUS
<1>1. p \in Nat /\ Wrap \in Nat \ {0} /\ MaxPages \in Nat /\ p < MaxPages
  BY PageType DEF Pages
<1>2. QED
  BY <1>1 DEF Place

LEMMA ChainIs ==
    ASSUME NEW l, Chain(l)
    PROVE  /\ l \in Seq(Buf) /\ Len(l) \in Nat /\ DOMAIN l = 1..Len(l)
           /\ \A i \in DOMAIN l : l[i] \in Buf
           /\ \A b \in Range(l) : b \in Buf /\ \E i \in DOMAIN l : b = l[i]
           /\ \A i \in DOMAIN l : l[i] \in Range(l)
           /\ \A b, c \in Range(l) : b.pgno = c.pgno => b = c
<1>1. l \in Seq(Buf) /\ Len(l) \in Nat /\ DOMAIN l = 1..Len(l)
  BY LenProperties DEF Chain
<1>2. \A i \in DOMAIN l : l[i] \in Buf
  BY <1>1
<1>3. QED
  BY <1>1, <1>2 DEF Chain, Range

LEMMA ChainRemove ==
    ASSUME NEW l, Chain(l), NEW i \in DOMAIN l
    PROVE  /\ Chain(RemoveAt(l, i)) /\ Len(RemoveAt(l, i)) = Len(l) - 1
           /\ Range(RemoveAt(l, i)) = Range(l) \ {l[i]}
<1> DEFINE a == SubSeq(l, 1, i - 1)
           c == SubSeq(l, i + 1, Len(l))
           r == a \o c
           from(k) == IF k < i THEN k ELSE k + 1
<1>1. l \in Seq(Buf) /\ Len(l) \in Nat /\ DOMAIN l = 1..Len(l) /\ i \in 1..Len(l)
  BY ChainIs
<1>2. /\ a \in Seq(Buf) /\ Len(a) = i - 1
      /\ \A k \in 1..i - 1 : a[k] = l[k]
  <2>1. 1 \in Int /\ i - 1 \in Int /\ \A k \in 1..i - 1 : l[k] \in Buf
    BY <1>1
  <2>2. /\ SubSeq(l, 1, i - 1) \in Seq(Buf)
        /\ Len(SubSeq(l, 1, i - 1)) = IF 1 <= i - 1 THEN i - 1 - 1 + 1 ELSE 0
        /\ \A k \in 1..i - 1 - 1 + 1 : SubSeq(l, 1, i - 1)[k] = l[1 + k - 1]
    BY <1>1, <2>1, SubSeqProperties
  <2>3. QED
    BY <1>1, <2>2
<1>3. /\ c \in Seq(Buf) /\ Len(c) = Len(l) - i
      /\ \A k \in 1..Len(l) - i : c[k] = l[i + k]
  <2>1. i + 1 \in Int /\ Len(l) \in Int /\ \A k \in i + 1..Len(l) : l[k] \in Buf
    BY <1>1
  <2>2. /\ SubSeq(l, i + 1, Len(l)) \in Seq(Buf)
        /\ Len(SubSeq(l, i + 1, Len(l))) = IF i + 1 <= Len(l) THEN Len(l) - (i + 1) + 1
                                           ELSE 0
        /\ \A k \in 1..Len(l) - (i + 1) + 1 :
               SubSeq(l, i + 1, Len(l))[k] = l[i + 1 + k - 1]
    BY <1>1, <2>1, SubSeqProperties
  <2>3. QED
    BY <1>1, <2>2
<1> HIDE DEF a, c
<1>4. /\ r \in Seq(Buf) /\ Len(r) = Len(l) - 1
      /\ \A k \in 1..Len(r) : r[k] = IF k <= Len(a) THEN a[k] ELSE c[k - Len(a)]
  <2>1. /\ r \in Seq(Buf) /\ Len(r) = Len(a) + Len(c)
        /\ \A k \in 1..Len(a) + Len(c) :
               r[k] = IF k <= Len(a) THEN a[k] ELSE c[k - Len(a)]
    BY <1>2, <1>3, ConcatProperties
  <2>2. QED
    BY <1>1, <1>2, <1>3, <2>1
<1>5. ASSUME NEW k \in 1..Len(r)
      PROVE  from(k) \in 1..Len(l) /\ from(k) # i /\ r[k] = l[from(k)]
  <2>1. CASE k < i
    BY <1>1, <1>2, <1>4, <2>1
  <2>2. CASE ~(k < i)
    <3>1. k - (i - 1) \in 1..Len(l) - i /\ i + (k - (i - 1)) = k + 1 /\ ~(k <= i - 1)
      BY <1>1, <1>4, <2>2
    <3>2. r[k] = c[k - (i - 1)]
      BY <1>2, <1>4, <3>1
    <3>3. c[k - (i - 1)] = l[k + 1]
      BY <1>3, <3>1
    <3>4. from(k) = k + 1 /\ k + 1 \in 1..Len(l) /\ k + 1 # i
      BY <1>1, <1>4, <2>2
    <3>5. QED
      BY <3>2, <3>3, <3>4
  <2>3. QED
    BY <2>1, <2>2
<1> HIDE DEF r
<1>6. \A k, m \in 1..Len(r) : from(k) = from(m) => k = m
  BY <1>1, <1>4
<1>7. ASSUME NEW j \in 1..Len(l), j # i
      PROVE  \E k \in 1..Len(r) : j = from(k)
  <2>1. CASE j < i
    BY <1>1, <1>4, <2>1
  <2>2. CASE ~(j < i)
    <3>1. j - 1 \in 1..Len(r) /\ ~(j - 1 < i) /\ j = (j - 1) + 1
      BY <1>1, <1>4, <1>7, <2>2
    <3>2. j = from(j - 1)
      BY <3>1
    <3>3. QED
      BY <3>1, <3>2
  <2>3. QED
    BY <2>1, <2>2
<1> HIDE DEF from
<1>8. DOMAIN r = 1..Len(r)
  BY <1>4, LenProperties
<1>9. Chain(r)
  <2>1. ASSUME NEW k \in DOMAIN r, NEW m \in DOMAIN r, r[k].pgno = r[m].pgno
        PROVE  k = m
    <3>1. l[from(k)].pgno = l[from(m)].pgno /\ from(k) \in DOMAIN l /\ from(m) \in DOMAIN l
      BY <1>1, <1>5, <1>8, <2>1
    <3>2. from(k) = from(m)
      BY <3>1 DEF Chain
    <3>3. QED
      BY <1>6, <1>8, <2>1, <3>2
  <2>2. QED
    BY <1>4, <2>1 DEF Chain
<1>10. Range(r) = Range(l) \ {l[i]}
  <2>1. ASSUME NEW b \in Range(r)
        PROVE  b \in Range(l) /\ b # l[i]
    <3>1. PICK k \in 1..Len(r) : b = r[k]
      BY <1>8 DEF Range
    <3>2. b = l[from(k)] /\ from(k) \in DOMAIN l /\ from(k) # i
      BY <1>1, <1>5, <3>1
    <3>3. QED
      BY <3>2 DEF Chain, Range
  <2>2. ASSUME NEW b \in Range(l), b # l[i]
        PROVE  b \in Range(r)
    <3>1. PICK j \in 1..Len(l) : b = l[j]
      BY <1>1 DEF Range
    <3>2. j # i
      BY <2>2, <3>1
    <3>3. PICK k \in 1..Len(r) : j = from(k)
      BY <1>7, <3>2
    <3>4. b = r[k]
      BY <1>5, <3>1, <3>3
    <3>5. QED
      BY <1>8, <3>4 DEF Range
  <2>3. QED
    BY <2>1, <2>2
<1>11. r = RemoveAt(l, i)
  BY DEF r, a, c, RemoveAt
<1>12. QED
  BY <1>4, <1>9, <1>10, <1>11, Zenon

LEMMA ChainAppend ==
    ASSUME NEW l, Chain(l), NEW b \in Buf, \A c \in Range(l) : c.pgno # b.pgno
    PROVE  /\ Chain(Append(l, b)) /\ Len(Append(l, b)) = Len(l) + 1
           /\ Range(Append(l, b)) = Range(l) \cup {b}
<1> DEFINE r == Append(l, b)
<1>1. l \in Seq(Buf) /\ Len(l) \in Nat /\ DOMAIN l = 1..Len(l)
  BY ChainIs
<1>2. /\ r \in Seq(Buf) /\ Len(r) = Len(l) + 1 /\ DOMAIN r = 1..Len(l) + 1
      /\ \A k \in 1..Len(l) : r[k] = l[k]
      /\ r[Len(l) + 1] = b
  BY <1>1, AppendProperties
<1> HIDE DEF r
<1>3. \A k \in 1..Len(l) + 1 : k \in 1..Len(l) \/ k = Len(l) + 1
  BY <1>1
<1>4. \A k \in 1..Len(l) : l[k].pgno # b.pgno
  BY <1>1 DEF Range
<1>5. Chain(r)
  BY <1>1, <1>2, <1>3, <1>4 DEF Chain
<1>6. Range(r) = Range(l) \cup {b}
  <2>1. Len(l) + 1 \in DOMAIN r /\ 1..Len(l) \subseteq DOMAIN r
    BY <1>1, <1>2
  <2>2. QED
    BY <1>1, <1>2, <1>3, <2>1 DEF Range
<1>7. QED
  BY <1>2, <1>5, <1>6 DEF r

Replaced(l, i, b, r) == r = [l EXCEPT ![i] = b]

LEMMA ChainReplace ==
    ASSUME NEW l, Chain(l), NEW i \in DOMAIN l, NEW b \in Buf, b.pgno = l[i].pgno,
           NEW r, Replaced(l, i, b, r)
    PROVE  /\ Chain(r) /\ Len(r) = Len(l)
           /\ Range(r) = (Range(l) \ {l[i]}) \cup {b}
<1>1. l \in Seq(Buf) /\ Len(l) \in Nat /\ DOMAIN l = 1..Len(l)
  BY ChainIs
<1>2. /\ r \in Seq(Buf) /\ Len(r) = Len(l) /\ DOMAIN r = DOMAIN l
      /\ \A k \in DOMAIN l : r[k] = IF k = i THEN b ELSE l[k]
  BY <1>1, ExceptSeq DEF Replaced
<1>3. \A k \in DOMAIN l : r[k].pgno = l[k].pgno
  BY <1>2
<1>4. Chain(r)
  BY <1>2, <1>3 DEF Chain
<1>5. Range(r) = (Range(l) \ {l[i]}) \cup {b}
  <2>1. \A k \in DOMAIN l : k # i => l[k] # l[i]
    BY DEF Chain
  <2>2. QED
    BY <1>2, <2>1 DEF Range
<1>6. QED
  BY <1>2, <1>4, <1>5

\* A buffer is found where Index says it is.
IndexIs ==
    /\ \A p \in Cached : /\ Index(p) \in DOMAIN lru /\ lru[Index(p)] \in Range(lru)
                         /\ lru[Index(p)].pgno = p
    /\ \A b \in Range(lru) : b.pgno \in Cached /\ lru[Index(b.pgno)] = b

LEMMA IndexForm == Sound => IndexIs
<1> SUFFICES ASSUME Sound
             PROVE  IndexIs
  OBVIOUS
<1>1. Chain(lru)
  BY DEF Sound
<1>2. ASSUME NEW p \in Cached
      PROVE  /\ Index(p) \in DOMAIN lru /\ lru[Index(p)] \in Range(lru)
             /\ lru[Index(p)].pgno = p
  <2>1. \E i \in DOMAIN lru : lru[i].pgno = p
    BY DEF Cached
  <2>2. Index(p) \in DOMAIN lru /\ lru[Index(p)].pgno = p
    BY <2>1 DEF Index
  <2>3. QED
    BY <2>2 DEF Range
<1>3. ASSUME NEW b \in Range(lru)
      PROVE  b.pgno \in Cached /\ lru[Index(b.pgno)] = b
  <2>1. b.pgno \in Cached
    BY DEF Cached, Range
  <2>2. QED
    BY <1>1, <1>2, <2>1, ChainIs
<1>4. QED
  BY <1>2, <1>3 DEF IndexIs

-----------------------------------------------------------------------------
(* The file, and mpool_bkt().                                              *)

LEMMA MaxIs ==
    ASSUME NEW N \in Nat, NEW T \in SUBSET (0..N), T # {}
    PROVE  Max(T) \in T /\ \A y \in T : y <= Max(T)
<1> DEFINE U == {N - y : y \in T}
<1>1. U \in SUBSET Nat /\ U # {}
  <2>1. \A y \in T : N - y \in Nat
    OBVIOUS
  <2>2. \E y : y \in T
    OBVIOUS
  <2>3. QED
    BY <2>1, <2>2, Zenon
<1>2. PICK x \in U : \A y \in U : x <= y
  BY <1>1, Least
<1>3. PICK m \in T : x = N - m
  BY <1>2
<1>4. \A y \in T : m >= y
  <2>1. \A y \in T : N - m <= N - y
    BY <1>2, <1>3
  <2>2. m \in Nat /\ \A y \in T : y \in Nat
    <3>1. m \in 0..N /\ \A y \in T : y \in 0..N
      BY Zenon
    <3>2. \A y \in 0..N : y \in Nat
      OBVIOUS
    <3>3. QED
      BY <3>1, <3>2, Zenon
  <2>3. \A y \in Nat : N - m <= N - y => m >= y
    BY <2>2
  <2>4. QED
    BY <2>1, <2>2, <2>3
<1>5. Max(T) \in T /\ \A y \in T : Max(T) >= y
  BY <1>4 DEF Max
<1>6. QED
  BY <1>5

LEMMA MinIs ==
    ASSUME NEW T \in SUBSET Nat, T # {}
    PROVE  Min(T) \in T
<1>1. \E x \in T : \A y \in T : x <= y
  BY Least
<1>2. QED
  BY <1>1 DEF Min

LEMMA SwapType == \A d \in Int : Swap(d) \in Int /\ (~Filter => Swap(d) = d)
  BY DEF Swap

LEMMA BufIs ==
    ASSUME NEW b \in Buf
    PROVE  /\ b.pgno \in Pages /\ b.pinned \in BOOLEAN /\ b.dirty \in BOOLEAN
           /\ b.data \in Int /\ Place(b.pgno) \in 0..Wrap - 1
           /\ Place(b.pgno) + 1 \in 0..Wrap /\ Place(b.pgno) + 1 <= MaxPages
<1>1. /\ b.pgno \in Pages /\ b.pinned \in BOOLEAN /\ b.dirty \in BOOLEAN
      /\ b.data \in Int
  BY Zenon DEF Buf
<1>2. Place(b.pgno) \in 0..Wrap - 1 /\ Place(b.pgno) <= b.pgno
  BY <1>1, PlaceIs
<1>3. QED
  BY <1>1, <1>2, PageType DEF Pages

LEMMA ConvertedIs ==
    ASSUME NEW b \in Buf
    PROVE  /\ Converted(b) \in Buf /\ Converted(b).pgno = b.pgno
           /\ Converted(b).pinned = b.pinned /\ Converted(b).dirty = b.dirty
           /\ Converted(b).data = Swap(b.data)
           /\ ~Filter => Converted(b) = b
           /\ Clean(b) \in Buf /\ Clean(b).pgno = b.pgno
           /\ Clean(b).pinned = b.pinned /\ Clean(b).dirty = FALSE
           /\ Clean(b).data = Swap(b.data)
<1>1. Swap(b.data) \in Int /\ (~Filter => Swap(b.data) = b.data)
  BY BufIs, SwapType
<1>2. /\ Converted(b) \in Buf /\ Converted(b).pgno = b.pgno
      /\ Converted(b).pinned = b.pinned /\ Converted(b).dirty = b.dirty
      /\ Converted(b).data = Swap(b.data)
  BY <1>1 DEF Converted, Buf
<1>3. ~Filter => Converted(b) = b
  BY <1>1 DEF Converted, Buf
<1>4. /\ Clean(b) \in Buf /\ Clean(b).pgno = b.pgno
      /\ Clean(b).pinned = b.pinned /\ Clean(b).dirty = FALSE
      /\ Clean(b).data = Swap(b.data)
  BY <1>2 DEF Clean, Buf
<1>5. QED
  BY <1>2, <1>3, <1>4

\* A file that has grown out of this one.
Grows(f, e) == /\ f \in [0..Wrap - 1 -> Int]
               /\ e \in 0..Wrap /\ e <= MaxPages /\ eof <= e

LEMMA StoredIs ==
    ASSUME Sound, NEW B \in SUBSET Buf
    PROVE  /\ Grows(Stored(B), Grown(B))
           /\ \A b \in B : Place(b.pgno) < Grown(B)
           /\ \A s \in 0..Wrap - 1 :
                 \/ \E b \in B : Place(b.pgno) = s /\ Stored(B)[s] = Swap(b.data)
                 \/ (\A b \in B : Place(b.pgno) # s) /\ Stored(B)[s] = file[s]
<1> DEFINE T == {eof} \cup {Place(b.pgno) + 1 : b \in B}
<1>1. Wrap \in Nat /\ MaxPages \in Nat /\ eof \in 0..Wrap /\ eof <= MaxPages
  BY PageType DEF Sound
<1>2. \A x \in T : x \in 0..Wrap /\ x <= MaxPages
  BY <1>1, BufIs
<1>3. T \in SUBSET (0..Wrap) /\ T # {}
  BY <1>2
<1>4. Max(T) \in T /\ \A y \in T : y <= Max(T)
  <2> HIDE DEF T
  <2> QED BY <1>1, <1>3, MaxIs
<1>5. /\ Grown(B) \in 0..Wrap /\ Grown(B) <= MaxPages /\ eof <= Grown(B)
      /\ \A b \in B : Place(b.pgno) + 1 <= Grown(B)
  BY <1>2, <1>4 DEF Grown
<1>6. ASSUME NEW s \in 0..Wrap - 1
      PROVE  \/ \E b \in B : Place(b.pgno) = s /\ Stored(B)[s] = Swap(b.data)
             \/ (\A b \in B : Place(b.pgno) # s) /\ Stored(B)[s] = file[s]
  BY DEF Stored
<1>7. Stored(B) \in [0..Wrap - 1 -> Int]
  <2>1. \A s \in 0..Wrap - 1 : Stored(B)[s] \in Int
    <3> SUFFICES ASSUME NEW s \in 0..Wrap - 1
                 PROVE  Stored(B)[s] \in Int
      OBVIOUS
    <3>1. file[s] \in Int
      BY DEF Sound
    <3>2. \A b \in B : Swap(b.data) \in Int
      BY BufIs, SwapType
    <3>3. Stored(B)[s] = file[s] \/ \E b \in B : Stored(B)[s] = Swap(b.data)
      BY <1>6
    <3>4. QED
      BY <3>1, <3>2, <3>3, Zenon
  <2>2. QED
    BY <2>1 DEF Stored
<1>8. \A b \in B : Place(b.pgno) < Grown(B)
  BY <1>1, <1>5, BufIs
<1>9. QED
  BY <1>5, <1>6, <1>7, <1>8 DEF Grows

LEMMA TornIs ==
    ASSUME Sound, NEW f, NEW e, Grows(f, e), NEW b \in Buf, NEW x \in Torn(f, e, b)
    PROVE  /\ Grows(x.file, x.eof) /\ e <= x.eof
           /\ \A s \in 0..Wrap - 1 : \/ x.file[s] = f[s]
                                     \/ s = Place(b.pgno) /\ x.file[s] = 0
<1>1. /\ Wrap \in Nat /\ e \in 0..Wrap /\ e <= MaxPages /\ eof <= e /\ eof \in 0..Wrap
      /\ f \in [0..Wrap - 1 -> Int] /\ MaxPages \in Nat
  BY PageType DEF Grows, Sound
<1>2. Place(b.pgno) \in 0..Wrap - 1 /\ Place(b.pgno) + 1 <= MaxPages
  BY BufIs
<1>3. CASE x = [file |-> f, eof |-> e]
  BY <1>1, <1>3 DEF Grows
<1>4. CASE x = [file |-> [f EXCEPT ![Place(b.pgno)] = 0],
                eof |-> Max({e, Place(b.pgno)})]
  <2> DEFINE m == Max({e, Place(b.pgno)})
  <2>1. m \in {e, Place(b.pgno)} /\ \A y \in {e, Place(b.pgno)} : y <= m
    <3>1. {e, Place(b.pgno)} \in SUBSET (0..Wrap) /\ {e, Place(b.pgno)} # {}
      BY <1>1, <1>2
    <3>2. QED
      BY <1>1, <3>1, MaxIs
  <2> HIDE DEF m
  <2>2. m \in 0..Wrap /\ m <= MaxPages /\ e <= m /\ eof <= m
    BY <1>1, <1>2, <2>1
  <2>3. x.eof = m /\ x.file = [f EXCEPT ![Place(b.pgno)] = 0]
    BY <1>4 DEF m
  <2>4. QED
    BY <1>1, <1>2, <2>2, <2>3 DEF Grows
<1>5. QED
  BY <1>3, <1>4 DEF Torn

\* The three ways to a buffer: it is new (or there is none), another page had
\* it, or the other page could not be written.
Another(o) == Range(o.lru) = Range(lru) /\ o.file = file /\ o.eof = eof
Evicted(o, b) ==
    /\ o.ok /\ ~b.pinned /\ Range(o.lru) = Range(lru) \ {b}
    /\ IF b.dirty THEN o.file = Stored({b}) /\ Place(b.pgno) < o.eof
       ELSE o.file = file
Refused(o, b) ==
    /\ ~o.ok /\ ~b.pinned /\ b.dirty
    /\ Range(o.lru) = (Range(lru) \ {b}) \cup {Converted(b)}
    /\ \A s \in 0..Wrap - 1 : \/ o.file[s] = file[s]
                              \/ s = Place(b.pgno) /\ o.file[s] = 0

LEMMA BktIs ==
    ASSUME Sound, NEW o \in Bkt
    PROVE  /\ Chain(o.lru) /\ Grows(o.file, o.eof)
           /\ o.curcache \in Nat /\ curcache <= o.curcache
           /\ Len(o.lru) <= o.curcache /\ (o.ok => Len(o.lru) + 1 <= o.curcache)
           /\ Another(o) \/ \E b \in Range(lru) : Evicted(o, b) \/ Refused(o, b)
<1>1. /\ Chain(lru) /\ Grows(file, eof) /\ curcache \in Nat /\ Len(lru) <= curcache
      /\ Len(lru) \in Nat
  BY ChainIs DEF Sound, Grows
<1>2. CASE o \in NewBuffer
  BY <1>1, <1>2 DEF NewBuffer, Pool, Another
<1>3. CASE Free # {} /\ o \in Take(Min(Free))
  <2> DEFINE i == Min(Free)
             b == lru[i]
  <2>1. i \in DOMAIN lru /\ ~b.pinned
    <3>1. Free \in SUBSET Nat
      BY <1>1, ChainIs DEF Free
    <3>2. i \in Free
      BY <1>3, <3>1, MinIs
    <3>3. QED
      BY <3>2 DEF Free
  <2>2. o \in Take(i)
    BY <1>3
  <2> HIDE DEF i
  <2>3. b \in Buf /\ b \in Range(lru) /\ {b} \in SUBSET Buf
    BY <1>1, <2>1, ChainIs
  <2>4. /\ Chain(RemoveAt(lru, i)) /\ Len(RemoveAt(lru, i)) = Len(lru) - 1
        /\ Range(RemoveAt(lru, i)) = Range(lru) \ {b}
    BY <1>1, <2>1, ChainRemove
  <2>5. Len(RemoveAt(lru, i)) <= curcache /\ Len(RemoveAt(lru, i)) + 1 <= curcache
    BY <1>1, <2>4
  <2>6. CASE o = Pool(TRUE, RemoveAt(lru, i), curcache, Stored({b}), Grown({b})) /\ b.dirty
    <3>1. /\ o.ok /\ o.lru = RemoveAt(lru, i) /\ o.curcache = curcache
          /\ o.file = Stored({b}) /\ o.eof = Grown({b})
      BY <2>6 DEF Pool
    <3>2. Grows(o.file, o.eof) /\ Place(b.pgno) < o.eof
      BY <2>3, <3>1, StoredIs
    <3>3. Evicted(o, b)
      BY <2>1, <2>4, <2>6, <3>1, <3>2 DEF Evicted
    <3>4. QED
      BY <1>1, <2>3, <2>4, <2>5, <3>1, <3>2, <3>3
  <2>7. CASE o = Pool(TRUE, RemoveAt(lru, i), curcache, file, eof) /\ ~b.dirty
    <3>1. /\ o.ok /\ o.lru = RemoveAt(lru, i) /\ o.curcache = curcache
          /\ o.file = file /\ o.eof = eof
      BY <2>7 DEF Pool
    <3>2. Evicted(o, b)
      BY <2>1, <2>4, <2>7, <3>1 DEF Evicted
    <3>3. QED
      BY <1>1, <2>3, <2>4, <2>5, <3>1, <3>2
  <2>8. ASSUME NEW x \in Torn(file, eof, b), b.dirty,
               o = Pool(FALSE, [lru EXCEPT ![i] = Converted(b)], curcache, x.file, x.eof)
        PROVE  /\ Chain(o.lru) /\ Grows(o.file, o.eof) /\ ~o.ok
               /\ o.curcache = curcache /\ Len(o.lru) = Len(lru) /\ Refused(o, b)
    <3>1. /\ o.ok = FALSE /\ o.lru = [lru EXCEPT ![i] = Converted(b)]
          /\ o.curcache = curcache /\ o.file = x.file /\ o.eof = x.eof
      BY <2>8 DEF Pool
    <3>2. /\ Grows(x.file, x.eof)
          /\ \A s \in 0..Wrap - 1 : \/ x.file[s] = file[s]
                                    \/ s = Place(b.pgno) /\ x.file[s] = 0
      BY <1>1, <2>3, <2>8, TornIs
    <3>3. Converted(b) \in Buf /\ Converted(b).pgno = b.pgno
      BY <2>3, ConvertedIs
    <3>4. /\ Chain(o.lru) /\ Len(o.lru) = Len(lru)
          /\ Range(o.lru) = (Range(lru) \ {b}) \cup {Converted(b)}
      <4> DEFINE r == o.lru
                 c == Converted(b)
      <4>1. Replaced(lru, i, c, r) /\ c \in Buf /\ c.pgno = lru[i].pgno
        BY <3>1, <3>3, Zenon DEF Replaced
      <4> HIDE DEF r, c
      <4>2. Chain(r) /\ Len(r) = Len(lru) /\ Range(r) = (Range(lru) \ {lru[i]}) \cup {c}
        BY <1>1, <2>1, <4>1, ChainReplace
      <4>3. QED
        BY <4>2, Zenon DEF r, c
    <3>5. QED
      <4>1. Refused(o, b)
        BY <2>1, <2>8, <3>1, <3>2, <3>4, ZenonT(60) DEF Refused
      <4>2. QED
        BY <3>1, <3>2, <3>4, <4>1, ZenonT(60)
  <2>9. CASE \E x \in Torn(file, eof, b) : b.dirty /\
             o = Pool(FALSE, [lru EXCEPT ![i] = Converted(b)], curcache, x.file, x.eof)
    <3>1. /\ Chain(o.lru) /\ Grows(o.file, o.eof) /\ ~o.ok
          /\ o.curcache = curcache /\ Len(o.lru) = Len(lru) /\ Refused(o, b)
      BY <2>8, <2>9
    <3>2. QED
      BY <1>1, <2>3, <3>1
  <2>10. \/ b.dirty /\ o = Pool(TRUE, RemoveAt(lru, i), curcache, Stored({b}), Grown({b}))
         \/ ~b.dirty /\ o = Pool(TRUE, RemoveAt(lru, i), curcache, file, eof)
         \/ \E x \in Torn(file, eof, b) : b.dirty /\
               o = Pool(FALSE, [lru EXCEPT ![i] = Converted(b)], curcache, x.file, x.eof)
    BY <2>2, Zenon DEF Take, MustWrite
  <2>11. QED
    BY <2>6, <2>7, <2>9, <2>10
<1>4. QED
  BY <1>2, <1>3 DEF Bkt

LEMMA BktPages ==
    ASSUME Sound, NEW o \in Bkt
    PROVE  /\ \A c \in Range(o.lru) : \E b \in Range(lru) : b.pgno = c.pgno
           /\ \A b \in Range(lru) : b.pinned =>
                 \E c \in Range(o.lru) : c.pgno = b.pgno /\ c.pinned
<1>1. \A b \in Range(lru) : b \in Buf
  BY ChainIs DEF Sound
<1>2. CASE Another(o)
  BY <1>2 DEF Another
<1>3. ASSUME NEW b \in Range(lru), Evicted(o, b)
      PROVE  /\ \A c \in Range(o.lru) : c \in Range(lru)
             /\ \A d \in Range(lru) : d.pinned => d \in Range(o.lru)
  BY <1>3 DEF Evicted
<1>4. ASSUME NEW b \in Range(lru), Refused(o, b)
      PROVE  /\ \A c \in Range(o.lru) : c \in Range(lru) \/ c.pgno = b.pgno
             /\ \A d \in Range(lru) : d.pinned => d \in Range(o.lru)
  <2>1. Converted(b).pgno = b.pgno
    BY <1>1, ConvertedIs
  <2>2. QED
    BY <1>4, <2>1 DEF Refused
<1>5. QED
  BY <1>2, <1>3, <1>4, BktIs

-----------------------------------------------------------------------------
(* The invariant.                                                          *)

LEMMA SoundInit == Init => Sound
<1> SUFFICES ASSUME Init
             PROVE  Sound
  OBVIOUS
<1>1. Chain(<<>>) /\ Len(<<>>) = 0 /\ Range(<<>>) = {}
  BY EmptySeq DEF Chain, Range
<1>2. Chain(lru) /\ Range(lru) = {} /\ Len(lru) = 0
  BY <1>1 DEF Init
<1>3. file \in [0..Wrap - 1 -> Int] /\ eof \in 0..Wrap /\ eof <= MaxPages
  BY PageType DEF Init
<1>4. synced \in BOOLEAN
  BY DEF Init
<1>5. curcache \in Nat /\ Len(lru) <= curcache /\ npages \in 0..MaxPages
  BY <1>2, PageType DEF Init
<1>6. held = {} /\ touched = {} /\ written = {}
  BY DEF Init
<1>7. QED
  BY <1>2, <1>3, <1>4, <1>5, <1>6 DEF Sound

\* mpool_new() and mpool_get() with a buffer for page p.
LEMMA SoundFill ==
    ASSUME Sound, NEW o \in Bkt, o.ok, Becomes(o), NEW b \in Buf, b.pinned,
           b.pgno \notin Cached, lru' = Append(o.lru, b), b.pgno < npages',
           npages' \in npages..MaxPages, Hold(b.pgno), UNCHANGED <<touched, written>>
    PROVE  Sound' /\ Range(lru') = Range(o.lru) \cup {b}
<1>1. /\ Chain(o.lru) /\ Grows(o.file, o.eof) /\ o.curcache \in Nat
      /\ Len(o.lru) + 1 <= o.curcache
  BY BktIs
<1>2. \A c \in Range(o.lru) : \E d \in Range(lru) : d.pgno = c.pgno
  BY BktPages
<1>3. \A c \in Range(lru) : c.pgno # b.pgno
  BY DEF Cached, Range
<1>4. \A c \in Range(o.lru) : c.pgno # b.pgno
  BY <1>2, <1>3
<1>5. /\ Chain(lru') /\ Len(lru') = Len(o.lru) + 1
      /\ Range(lru') = Range(o.lru) \cup {b}
  BY <1>1, <1>4, ChainAppend
<1>6. /\ npages \in Nat /\ npages' \in 0..MaxPages /\ npages <= npages'
  BY PageType DEF Sound
<1>7. \A c \in Range(lru') : c.pgno < npages'
  <2>1. \A c \in Range(o.lru) : c.pgno \in Nat /\ c.pgno < npages
    BY <1>1, <1>2, ChainIs, BufIs, PageType DEF Sound
  <2>2. QED
    BY <1>5, <1>6, <2>1
<1>8. \A q \in held' : \E c \in Range(lru') : c.pgno = q /\ c.pinned
  <2>1. \A q \in held : \E c \in Range(o.lru) : c.pgno = q /\ c.pinned
    BY BktPages DEF Sound
  <2>2. QED
    BY <1>5, <2>1 DEF Hold
<1>9. written' \subseteq 0..npages' - 1
  <2>1. 0..npages - 1 \subseteq 0..npages' - 1
    <3>1. npages \in Int /\ npages' \in Int /\ npages <= npages'
      BY <1>6, PageType
    <3>2. \A m, n \in Int : m <= n => 0..m - 1 \subseteq 0..n - 1
      OBVIOUS
    <3>3. QED
      BY <3>1, <3>2, Zenon
  <2>2. QED
    BY <2>1 DEF Sound
<1>10. /\ curcache' = o.curcache /\ file' = o.file /\ eof' = o.eof /\ synced' = FALSE
  BY DEF Becomes
<1>11. touched' \subseteq held'
  BY DEF Sound, Hold
<1>12. curcache' \in Nat /\ Len(lru') <= curcache'
  BY <1>1, <1>5, <1>10
<1>13. file' \in [0..Wrap - 1 -> Int] /\ eof' \in 0..Wrap /\ eof' <= MaxPages
  BY <1>1, <1>10 DEF Grows
<1>14. synced' \in BOOLEAN
  BY <1>10
<1>15. QED
  BY <1>5, <1>6, <1>7, <1>8, <1>9, <1>11, <1>12, <1>13, <1>14 DEF Sound

\* mpool_get() fails, or mpool_new(): the buffer is lost or there was none.
LEMMA SoundLose ==
    ASSUME Sound, NEW o \in Bkt, Becomes(o), lru' = o.lru,
           UNCHANGED <<npages, held, touched, written>>
    PROVE  Sound'
<1>1. /\ Chain(o.lru) /\ Grows(o.file, o.eof) /\ o.curcache \in Nat
      /\ Len(o.lru) <= o.curcache
  BY BktIs
<1>2. \A c \in Range(lru') : c.pgno < npages
  BY BktPages DEF Sound
<1>3. \A q \in held : \E c \in Range(lru') : c.pgno = q /\ c.pinned
  BY BktPages DEF Sound
<1>4. /\ curcache' = o.curcache /\ file' = o.file /\ eof' = o.eof /\ synced' = FALSE
  BY DEF Becomes
<1>5. synced' \in BOOLEAN
  BY <1>4
<1>6. /\ npages' \in 0..MaxPages /\ touched' \subseteq held'
      /\ written' \subseteq 0..npages' - 1
  BY DEF Sound
<1>7. QED
  BY <1>1, <1>2, <1>3, <1>4, <1>5, <1>6 DEF Sound, Grows

\* One buffer is replaced by another for the same page.
LEMMA SoundChange ==
    ASSUME Sound, NEW p \in Cached, NEW b \in Buf, b.pgno = p,
           Replaced(lru, Index(p), b, lru'), touched' \subseteq held',
           \A q \in held' : q # p => q \in held,
           p \in held' => b.pinned,
           written' \in {written, written \cup {p}},
           UNCHANGED <<curcache, npages, file, eof>>, synced' \in BOOLEAN
    PROVE  /\ Sound'
           /\ Range(lru') = (Range(lru) \ {lru[Index(p)]}) \cup {b}
<1>1. /\ Index(p) \in DOMAIN lru /\ lru[Index(p)].pgno = p /\ lru[Index(p)] \in Range(lru)
      /\ \A c \in Range(lru) : c.pgno = p => c = lru[Index(p)]
  BY IndexForm DEF IndexIs
<1> DEFINE i == Index(p)
           old == lru[i]
<1> HIDE DEF i
<1>2. /\ Chain(lru') /\ Len(lru') = Len(lru)
      /\ Range(lru') = (Range(lru) \ {old}) \cup {b}
  <2>1. i \in DOMAIN lru /\ b.pgno = lru[i].pgno /\ Replaced(lru, i, b, lru') /\ Chain(lru)
    BY <1>1 DEF i, Sound
  <2>2. QED
    BY <2>1, ChainReplace
<1>3. old.pgno = p /\ old \in Range(lru) /\ \A c \in Range(lru) : c # old => c.pgno # p
  BY <1>1 DEF i
<1>4. p < npages /\ p \in Nat /\ npages \in 0..MaxPages
  <2>1. old \in Buf /\ old.pgno < npages
    BY <1>3, ChainIs DEF Sound
  <2>2. p \in Nat
    BY <1>3, <2>1, BufIs, PageType
  <2>3. npages \in 0..MaxPages
    BY DEF Sound
  <2>4. QED
    BY <1>3, <2>1, <2>2, <2>3
<1>5. \A c \in Range(lru') : c.pgno < npages
  BY <1>2, <1>4 DEF Sound
<1>6. \A q \in held' : \E c \in Range(lru') : c.pgno = q /\ c.pinned
  <2> SUFFICES ASSUME NEW q \in held'
               PROVE  \E c \in Range(lru') : c.pgno = q /\ c.pinned
    OBVIOUS
  <2>1. CASE q = p
    BY <1>2, <2>1
  <2>2. CASE q # p
    <3>1. PICK c \in Range(lru) : c.pgno = q /\ c.pinned
      BY <2>2 DEF Sound
    <3>2. c # old
      BY <1>3, <2>2, <3>1
    <3>3. QED
      BY <1>2, <3>1, <3>2
  <2>3. QED
    BY <2>1, <2>2
<1>7. written' \subseteq 0..npages - 1
  <2>1. p \in 0..npages - 1
    BY <1>4, PageType
  <2>2. QED
    BY <2>1 DEF Sound
<1>8. /\ curcache' \in Nat /\ Len(lru') <= curcache' /\ npages' \in 0..MaxPages
      /\ file' \in [0..Wrap - 1 -> Int] /\ eof' \in 0..Wrap /\ eof' <= MaxPages
  BY <1>2 DEF Sound
<1>9. Sound'
  BY <1>2, <1>5, <1>6, <1>7, <1>8 DEF Sound
<1>10. QED
  BY <1>2, <1>9 DEF i

-----------------------------------------------------------------------------
(* What each operation does to the buffers.                                *)

NewIs(o, b) ==
    /\ o \in Bkt /\ Becomes(o) /\ Range(lru') = Range(o.lru) \cup {b}
    /\ o.ok /\ b.pgno \notin Cached /\ ~b.dirty

LEMMA NewSound ==
    ASSUME Sound, New
    PROVE  Sound' /\ \E o \in Bkt : NewIs(o, Buffer(npages, 0))
<1>1. npages \in Nat /\ npages < MaxPages /\ MaxPages \in Nat
  BY PageType DEF New, CanGrow, Sound
<1>2. PICK o \in Bkt : /\ o.ok /\ Becomes(o)
                       /\ lru' = Append(o.lru, Buffer(npages, 0))
  BY DEF New
<1> DEFINE b == Buffer(npages, 0)
<1>3. b \in Buf /\ b.pinned /\ b.pgno = npages /\ ~b.dirty
  BY <1>1 DEF Buffer, Buf, Pages
<1>4. npages \notin Cached
  <2>1. \A c \in Range(lru) : c.pgno \in Nat /\ c.pgno < npages
    BY ChainIs, BufIs, PageType DEF Sound
  <2>2. \A q \in Cached : q < npages
    BY <2>1 DEF Cached, Range
  <2>3. QED
    BY <1>1, <2>2
<1> HIDE DEF b
<1>5. /\ lru' = Append(o.lru, b) /\ Hold(b.pgno) /\ UNCHANGED <<touched, written>>
      /\ npages' = npages + 1
  BY <1>2, <1>3 DEF b, New
<1>6. b.pgno < npages' /\ npages' \in npages..MaxPages
  BY <1>1, <1>3, <1>5
<1>7. Sound' /\ Range(lru') = Range(o.lru) \cup {b}
  BY <1>2, <1>3, <1>4, <1>5, <1>6, SoundFill
<1>8. NewIs(o, b)
  BY <1>2, <1>3, <1>4, <1>7 DEF NewIs
<1>9. QED
  BY <1>7, <1>8 DEF b

LEMMA MissSound ==
    ASSUME Sound, NEW p \in Pages, Miss(p)
    PROVE  Sound' /\ \E o \in Bkt : /\ NewIs(o, Buffer(p, Swap(o.file[Place(p)])))
                                    /\ Place(p) < o.eof
<1>1. PICK o \in Bkt : /\ o.ok /\ Becomes(o) /\ Place(p) < o.eof
                       /\ lru' = Append(o.lru, Buffer(p, Swap(o.file[Place(p)])))
  BY DEF Miss
<1> DEFINE b == Buffer(p, Swap(o.file[Place(p)]))
<1>2. Swap(o.file[Place(p)]) \in Int
  <2>1. Place(p) \in 0..Wrap - 1
    BY PlaceIs
  <2>2. o.file[Place(p)] \in Int
    BY <2>1, BktIs DEF Grows
  <2>3. QED
    BY <2>2, SwapType
<1>3. b \in Buf /\ b.pinned /\ b.pgno = p /\ ~b.dirty
  BY <1>2 DEF Buffer, Buf
<1> HIDE DEF b
<1>4. /\ lru' = Append(o.lru, b) /\ Hold(b.pgno) /\ UNCHANGED <<npages, touched, written>>
      /\ b.pgno < npages /\ b.pgno \notin Cached
  BY <1>1, <1>3 DEF b, Miss
<1>5. npages' \in npages..MaxPages
  BY <1>4, PageType DEF Sound
<1>6. Sound' /\ Range(lru') = Range(o.lru) \cup {b}
  BY <1>1, <1>3, <1>4, <1>5, SoundFill
<1>7. NewIs(o, b)
  BY <1>1, <1>3, <1>4, <1>6 DEF NewIs
<1>8. QED
  BY <1>1, <1>6, <1>7 DEF b

\* One buffer changes.
Swapped(b, c) ==
    /\ b \in Range(lru) /\ c \in Buf /\ c.pgno = b.pgno
    /\ Range(lru') = (Range(lru) \ {b}) \cup {c}

LEMMA HitSound ==
    ASSUME Sound, NEW p \in Pages, Hit(p)
    PROVE  /\ Sound'
           /\ \E b \in Range(lru) : b.pgno = p /\ Swapped(b, [b EXCEPT !.pinned = TRUE])
<1> DEFINE i == Index(p)
           b == lru[i]
           c == [b EXCEPT !.pinned = TRUE]
           r == RemoveAt(lru, i)
<1>1. /\ i \in DOMAIN lru /\ b.pgno = p /\ b \in Range(lru)
      /\ \A d \in Range(lru) : d.pgno = p => d = b
  BY IndexForm DEF IndexIs, Hit
<1>2. Chain(lru) /\ b \in Buf
  BY <1>1, ChainIs DEF Sound
<1>3. c \in Buf /\ c.pgno = p /\ c.pinned
  BY <1>1, <1>2 DEF Buf
<1>4. lru' = Append(r, c)
  BY DEF Hit
<1> HIDE DEF i, c
<1>5. Chain(r) /\ Len(r) = Len(lru) - 1 /\ Range(r) = Range(lru) \ {b}
  BY <1>1, <1>2, ChainRemove
<1> HIDE DEF r
<1>6. \A d \in Range(r) : d.pgno # c.pgno
  BY <1>1, <1>3, <1>5
<1>7. /\ Chain(lru') /\ Len(lru') = Len(r) + 1 /\ Range(lru') = Range(r) \cup {c}
  BY <1>3, <1>4, <1>5, <1>6, ChainAppend
<1>8. Len(lru') = Len(lru)
  BY <1>2, <1>5, <1>7, ChainIs
<1>9. /\ UNCHANGED <<curcache, npages, file, eof, touched, written>> /\ synced' = FALSE
      /\ held' = held \cup {p}
  BY DEF Hit, Hold
<1>10. synced' \in BOOLEAN
  BY <1>9
<1>11. /\ curcache' \in Nat /\ Len(lru') <= curcache' /\ npages' \in 0..MaxPages
       /\ file' \in [0..Wrap - 1 -> Int] /\ eof' \in 0..Wrap /\ eof' <= MaxPages
  BY <1>8, <1>9 DEF Sound
<1>12. touched' \subseteq held' /\ written' \subseteq 0..npages' - 1
  BY <1>9 DEF Sound
<1>13. \A d \in Range(lru') : d.pgno < npages'
  BY <1>1, <1>3, <1>5, <1>7, <1>9 DEF Sound
<1>14. \A q \in held' : \E d \in Range(lru') : d.pgno = q /\ d.pinned
  <2> SUFFICES ASSUME NEW q \in held'
               PROVE  \E d \in Range(lru') : d.pgno = q /\ d.pinned
    OBVIOUS
  <2>1. CASE q = p
    BY <1>3, <1>7, <2>1
  <2>2. CASE q # p
    <3>1. PICK d \in Range(lru) : d.pgno = q /\ d.pinned
      BY <1>9, <2>2 DEF Sound
    <3>2. QED
      BY <1>1, <1>5, <1>7, <2>2, <3>1
  <2>3. QED
    BY <2>1, <2>2
<1>15. Sound'
  BY <1>7, <1>10, <1>11, <1>12, <1>13, <1>14 DEF Sound
<1>16. Swapped(b, c)
  BY <1>1, <1>3, <1>5, <1>7 DEF Swapped
<1>17. QED
  BY <1>1, <1>15, <1>16 DEF c

LEMMA ModifySound ==
    ASSUME Sound, NEW p \in Pages, NEW d \in Values, Modify(p, d)
    PROVE  /\ Sound'
           /\ \E b \in Range(lru) : b.pgno = p /\ Swapped(b, [b EXCEPT !.data = d])
<1> DEFINE b == lru[Index(p)]
           c == [b EXCEPT !.data = d]
<1>1. /\ p \in Cached /\ p \in held /\ b.pgno = p /\ b \in Range(lru)
      /\ \A e \in Range(lru) : e.pgno = p => e = b
  BY IndexForm DEF IndexIs, Modify
<1>2. b \in Buf /\ b.pinned
  BY <1>1, ChainIs DEF Sound
<1>3. c \in Buf /\ c.pgno = p /\ c.pinned
  BY <1>1, <1>2, MpoolAssumption DEF Buf
<1>4. Replaced(lru, Index(p), c, lru')
  BY DEF Modify, Replaced
<1> HIDE DEF c
<1>5. /\ touched' = touched \cup {p} /\ written' = written \cup {p} /\ synced' = FALSE
      /\ UNCHANGED <<curcache, npages, file, eof, held>>
  BY DEF Modify
<1>6. touched' \subseteq held' /\ synced' \in BOOLEAN
  BY <1>1, <1>5 DEF Sound
<1>7. Sound' /\ Range(lru') = (Range(lru) \ {b}) \cup {c}
  BY <1>1, <1>3, <1>4, <1>5, <1>6, SoundChange
<1>8. QED
  BY <1>1, <1>3, <1>7 DEF Swapped, c

LEMMA PutSound ==
    ASSUME Sound, NEW p \in Pages, Put(p)
    PROVE  /\ Sound'
           /\ \E b \in Range(lru) : /\ b.pgno = p
                 /\ Swapped(b, [b EXCEPT !.pinned = FALSE,
                                         !.dirty = DirtyAfter(b, p \in touched)])
<1> DEFINE b == lru[Index(p)]
           c == [b EXCEPT !.pinned = FALSE, !.dirty = DirtyAfter(b, p \in touched)]
<1>1. /\ p \in Cached /\ b.pgno = p /\ b \in Range(lru)
  BY IndexForm DEF IndexIs, Put
<1>2. b \in Buf
  BY <1>1, ChainIs DEF Sound
<1>3. c \in Buf /\ c.pgno = p
  <2>1. DirtyAfter(b, p \in touched) \in BOOLEAN
    BY DEF DirtyAfter
  <2>2. QED
    BY <1>1, <1>2, <2>1 DEF Buf
<1>4. Replaced(lru, Index(p), c, lru')
  BY DEF Put, Replaced
<1> HIDE DEF c
<1>5. /\ touched' = touched \ {p} /\ held' = held \ {p} /\ synced' = FALSE
      /\ UNCHANGED <<curcache, npages, file, eof, written>>
  BY DEF Put
<1>6. touched' \subseteq held' /\ synced' \in BOOLEAN /\ p \notin held'
      /\ \A q \in held' : q \in held
  BY <1>5 DEF Sound
<1>7. Sound' /\ Range(lru') = (Range(lru) \ {b}) \cup {c}
  BY <1>1, <1>3, <1>4, <1>5, <1>6, SoundChange
<1>8. QED
  BY <1>1, <1>3, <1>7 DEF Swapped, c

\* mpool_sync() has written the buffers W and failed to write those in E.
Synced(W, E) ==
    /\ W \subseteq Range(lru) /\ E \subseteq Range(lru) /\ W \cap E = {}
    /\ \A b \in W \cup E : b.dirty
    /\ \A c \in Range(lru') :
          \/ \E b \in W : c = Clean(b)
          \/ \E b \in Range(lru) \ W : c = b \/ c = Converted(b)
    /\ \A b \in W : Clean(b) \in Range(lru')
    /\ \A b \in Range(lru) \ W : b \in Range(lru') \/ Converted(b) \in Range(lru')
    /\ \A s \in 0..Wrap - 1 :
          \/ \E b \in W : Place(b.pgno) = s /\ file'[s] = Swap(b.data)
          \/ (\A b \in W : Place(b.pgno) # s) /\ file'[s] = file[s]
          \/ \E b \in E : Place(b.pgno) = s /\ file'[s] = 0
    /\ \A b \in W : Place(b.pgno) < eof'
    /\ eof <= eof'
    /\ UNCHANGED <<curcache, npages, held, touched, written>>

\* The chain is as it was but for the flags and the order of bytes.
LEMMA SoundMap ==
    ASSUME Sound, Grows(file', eof'), lru' \in Seq(Buf), Len(lru') = Len(lru),
           \A i \in DOMAIN lru : /\ lru'[i].pgno = lru[i].pgno
                                 /\ lru'[i].pinned = lru[i].pinned,
           synced' \in BOOLEAN, UNCHANGED <<curcache, npages, held, touched, written>>
    PROVE  Sound'
<1>1. DOMAIN lru = DOMAIN lru' /\ DOMAIN lru = 1..Len(lru)
  BY ChainIs, LenProperties DEF Sound
<1>2. Chain(lru')
  BY <1>1 DEF Chain, Sound
<1>3. \A c \in Range(lru') : c.pgno < npages
  BY <1>1 DEF Sound, Range
<1>4. \A q \in held : \E c \in Range(lru') : c.pgno = q /\ c.pinned
  <2> SUFFICES ASSUME NEW q \in held
               PROVE  \E c \in Range(lru') : c.pgno = q /\ c.pinned
    OBVIOUS
  <2>1. PICK i \in DOMAIN lru : lru[i].pgno = q /\ lru[i].pinned
    BY DEF Sound, Range
  <2>2. QED
    BY <1>1, <2>1 DEF Range
<1>5. QED
  BY <1>2, <1>3, <1>4 DEF Sound, Grows

LEMMA DirtyIs ==
    ASSUME Sound, NEW n \in 0..Len(lru)
    PROVE  /\ DirtyTo(n) = {i \in 1..n : lru[i].dirty} /\ DirtyTo(n) \subseteq DOMAIN lru
           /\ {lru[i] : i \in DirtyTo(n)} \in SUBSET Buf
           /\ {lru[i] : i \in DirtyTo(n)} \subseteq Range(lru)
<1>1. DOMAIN lru = 1..Len(lru) /\ Len(lru) \in Nat /\ \A i \in DOMAIN lru : lru[i] \in Buf
  BY ChainIs DEF Sound
<1>2. DirtyTo(n) \subseteq DOMAIN lru
  BY <1>1 DEF DirtyTo
<1>3. QED
  BY <1>1, <1>2 DEF DirtyTo, Range

LEMMA SyncSound ==
    ASSUME Sound, Sync
    PROVE  /\ Sound' /\ \A c \in Range(lru') : ~c.dirty
           /\ \E W \in SUBSET Range(lru) : Synced(W, {})
<1> DEFINE D == DirtyTo(Len(lru))
           W == {lru[i] : i \in D}
<1>1. /\ DOMAIN lru = 1..Len(lru) /\ Len(lru) \in Nat /\ Chain(lru)
      /\ \A i \in DOMAIN lru : lru[i] \in Buf
  BY ChainIs DEF Sound
<1>2. /\ D = {i \in DOMAIN lru : lru[i].dirty} /\ D \subseteq DOMAIN lru
      /\ W \in SUBSET Buf /\ W \subseteq Range(lru)
  <2>1. Len(lru) \in 0..Len(lru)
    BY <1>1
  <2>2. QED
    BY <1>1, <2>1, DirtyIs
<1>3. /\ lru' = [i \in DOMAIN lru |-> IF i \in D THEN Clean(lru[i]) ELSE lru[i]]
      /\ file' = Stored(W) /\ eof' = Grown(W) /\ synced' \in BOOLEAN
      /\ UNCHANGED <<curcache, npages, held, touched, written>>
  BY DEF Sync, WriteTo
<1> HIDE DEF D
<1>4. \A i \in DOMAIN lru : /\ lru'[i] = IF i \in D THEN Clean(lru[i]) ELSE lru[i]
                            /\ lru'[i] \in Buf
                            /\ lru'[i].pgno = lru[i].pgno /\ lru'[i].pinned = lru[i].pinned
  BY <1>1, <1>3, ConvertedIs
<1>5. lru' \in Seq(Buf) /\ Len(lru') = Len(lru) /\ DOMAIN lru' = DOMAIN lru
  BY <1>1, <1>3, <1>4
<1> HIDE DEF W
<1>6. /\ Grows(file', eof') /\ \A b \in W : Place(b.pgno) < eof'
      /\ \A s \in 0..Wrap - 1 :
            \/ \E b \in W : Place(b.pgno) = s /\ file'[s] = Swap(b.data)
            \/ (\A b \in W : Place(b.pgno) # s) /\ file'[s] = file[s]
  BY <1>2, <1>3, StoredIs
<1>7. Sound'
  BY <1>3, <1>4, <1>5, <1>6, SoundMap
<1>8. \A i \in DOMAIN lru : i \in D <=> lru[i] \in W
  <2>1. \A i \in DOMAIN lru : i \in D <=> lru[i].dirty
    BY <1>2
  <2>2. QED
    BY <2>1, <1>2 DEF W
<1>9. \A b \in W : b.dirty
  BY <1>2 DEF W
<1>10. /\ \A c \in Range(lru') : \/ \E b \in W : c = Clean(b)
                                 \/ \E b \in Range(lru) \ W : c = b /\ ~b.dirty
       /\ \A b \in W : Clean(b) \in Range(lru')
       /\ \A b \in Range(lru) \ W : b \in Range(lru')
  BY <1>2, <1>4, <1>5, <1>8 DEF Range
<1>11. \A c \in Range(lru') : ~c.dirty
  <2>1. \A b \in W : Clean(b).dirty = FALSE
    BY <1>2, ConvertedIs
  <2>2. QED
    BY <1>10, <2>1
<1>12. Synced(W, {})
  BY <1>2, <1>3, <1>6, <1>9, <1>10 DEF Synced, Grows
<1>13. QED
  BY <1>2, <1>7, <1>11, <1>12

LEMMA SyncFailsSound ==
    ASSUME Sound, NEW n \in 0..Len(lru) - 1, SyncFails(n)
    PROVE  Sound' /\ \E W, E \in SUBSET Range(lru) : Synced(W, E) /\ synced' = FALSE
<1> DEFINE D == DirtyTo(n)
           W == {lru[i] : i \in D}
           e == lru[n + 1]
<1>1. /\ DOMAIN lru = 1..Len(lru) /\ Len(lru) \in Nat /\ Chain(lru)
      /\ \A i \in DOMAIN lru : lru[i] \in Buf
  BY ChainIs DEF Sound
<1>2. /\ D = {i \in 1..n : lru[i].dirty} /\ D \subseteq DOMAIN lru
      /\ W \in SUBSET Buf /\ W \subseteq Range(lru)
  <2>1. n \in 0..Len(lru)
    BY <1>1
  <2>2. QED
    BY <2>1, DirtyIs
<1>3. n + 1 \in DOMAIN lru /\ n + 1 \notin D
  BY <1>1, <1>2
<1>4. e.dirty
  BY DEF SyncFails, DirtyTo
<1>5. e \in Buf /\ e \in Range(lru)
  BY <1>1, <1>3, ChainIs
<1>6. PICK x \in Torn(Stored(W), Grown(W), e) : file' = x.file /\ eof' = x.eof
  BY DEF SyncFails
<1>7. /\ lru' = [i \in DOMAIN lru |-> IF i \in D THEN Clean(lru[i])
                                      ELSE IF i = n + 1 THEN Converted(lru[i])
                                      ELSE lru[i]]
      /\ synced' = FALSE
      /\ UNCHANGED <<curcache, npages, held, touched, written>>
  BY DEF SyncFails
<1> HIDE DEF D
<1>8. \A i \in DOMAIN lru : /\ lru'[i] = IF i \in D THEN Clean(lru[i])
                                         ELSE IF i = n + 1 THEN Converted(lru[i])
                                         ELSE lru[i]
                            /\ lru'[i] \in Buf
                            /\ lru'[i].pgno = lru[i].pgno /\ lru'[i].pinned = lru[i].pinned
  BY <1>1, <1>7, ConvertedIs
<1>9. lru' \in Seq(Buf) /\ Len(lru') = Len(lru) /\ DOMAIN lru' = DOMAIN lru
  BY <1>1, <1>7, <1>8
<1>10. /\ \A i \in DOMAIN lru : i \in D <=> lru[i] \in W
       /\ \A b \in W : b.dirty
  <2>1. \A i \in D : lru[i].dirty
    BY <1>2
  <2>2. \A i, j \in DOMAIN lru : lru[i] = lru[j] => i = j
    BY <1>1 DEF Chain
  <2>3. QED
    BY <1>2, <2>1, <2>2
<1>11. e \notin W
  BY <1>3, <1>10
<1> HIDE DEF W, e
<1>12. /\ Grows(Stored(W), Grown(W)) /\ \A b \in W : Place(b.pgno) < Grown(W)
       /\ \A s \in 0..Wrap - 1 :
            \/ \E b \in W : Place(b.pgno) = s /\ Stored(W)[s] = Swap(b.data)
            \/ (\A b \in W : Place(b.pgno) # s) /\ Stored(W)[s] = file[s]
  BY <1>2, StoredIs
<1>13. /\ Grows(x.file, x.eof) /\ Grown(W) <= x.eof
       /\ \A s \in 0..Wrap - 1 : \/ x.file[s] = Stored(W)[s]
                                 \/ s = Place(e.pgno) /\ x.file[s] = 0
  BY <1>5, <1>6, <1>12, TornIs
<1>14. Sound'
  <2>1. synced' \in BOOLEAN /\ Grows(file', eof')
    BY <1>6, <1>7, <1>13
  <2>2. QED
    BY <1>7, <1>8, <1>9, <2>1, SoundMap
<1>15. /\ \A c \in Range(lru') : \/ \E b \in W : c = Clean(b)
                                 \/ \E b \in Range(lru) \ W : c = b \/ c = Converted(b)
       /\ \A b \in W : Clean(b) \in Range(lru')
       /\ \A b \in Range(lru) \ W : b \in Range(lru') \/ Converted(b) \in Range(lru')
  BY <1>8, <1>9, <1>2, <1>10 DEF Range
<1>16. \A s \in 0..Wrap - 1 :
          \/ \E b \in W : Place(b.pgno) = s /\ file'[s] = Swap(b.data)
          \/ (\A b \in W : Place(b.pgno) # s) /\ file'[s] = file[s]
          \/ \E b \in {e} : Place(b.pgno) = s /\ file'[s] = 0
  BY <1>6, <1>12, <1>13
<1>17. \A b \in W : Place(b.pgno) < eof'
  <2>1. \A b \in W : Place(b.pgno) \in Int
    BY <1>2, BufIs
  <2>2. Grown(W) \in Int /\ x.eof \in Int
    BY <1>12, <1>13 DEF Grows
  <2>3. QED
    BY <1>6, <1>12, <1>13, <2>1, <2>2
<1>18. eof <= eof'
  BY <1>6, <1>13 DEF Grows
<1>19. Synced(W, {e})
  BY <1>2, <1>4, <1>5, <1>7, <1>10, <1>11, <1>15, <1>16, <1>17, <1>18 DEF Synced, e
<1>20. QED
  BY <1>2, <1>5, <1>7, <1>14, <1>19

LEMMA ReopenSound ==
    ASSUME Sound, Reopen
    PROVE  Sound' /\ Range(lru') = {}
<1>1. /\ lru' = <<>> /\ curcache' = 0 /\ npages' = eof /\ held' = {}
      /\ written' = {p \in written : p < eof} /\ synced' = FALSE
      /\ UNCHANGED <<file, eof, held, touched>>
  BY DEF Reopen
<1>2. Chain(<<>>) /\ Len(<<>>) = 0 /\ Range(<<>>) = {}
  BY EmptySeq DEF Chain, Range
<1>3. Chain(lru') /\ Len(lru') = 0 /\ Range(lru') = {}
  BY <1>1, <1>2
<1>4. synced' \in BOOLEAN
  BY <1>1
<1>5. written' \subseteq 0..npages' - 1
  <2>1. \A p \in written : p \in Nat
    BY DEF Sound
  <2>2. \A p \in Nat : p < eof => p \in 0..eof - 1
    BY DEF Sound
  <2>3. QED
    BY <1>1, <2>1, <2>2
<1>6. /\ curcache' \in Nat /\ Len(lru') <= curcache' /\ npages' \in 0..MaxPages
      /\ file' \in [0..Wrap - 1 -> Int] /\ eof' \in 0..Wrap /\ eof' <= MaxPages
  BY <1>1, <1>3, PageType DEF Sound
<1>7. QED
  BY <1>1, <1>3, <1>4, <1>5, <1>6 DEF Sound

LEMMA SoundNext == Sound /\ [Next]_vars => Sound'
<1> SUFFICES ASSUME Sound, [Next]_vars
             PROVE  Sound'
  OBVIOUS
<1>1. CASE UNCHANGED vars
  BY <1>1 DEF vars, Sound
<1>2. CASE \E p \in Pages : ReadFails(p)
  BY <1>2, SoundLose DEF ReadFails
<1>3. CASE NoBuffer
  BY <1>3, SoundLose DEF NoBuffer
<1>4. CASE New \/ Sync \/ Reopen
  BY <1>4, NewSound, SyncSound, ReopenSound
<1>5. CASE \E p \in Pages : Hit(p) \/ Miss(p) \/ Put(p) \/ \E d \in Values : Modify(p, d)
  BY <1>5, HitSound, MissSound, PutSound, ModifySound
<1>6. CASE \E n \in 0..Len(lru) - 1 : SyncFails(n)
  BY <1>6, SyncFailsSound
<1>7. QED
  BY <1>1, <1>2, <1>3, <1>4, <1>5, <1>6 DEF Next

\* HeldPinned of the mpool run for any pool and file: what mpool_bkt() takes
\* is never a page that mpool_get() or mpool_new() has handed out.
THEOREM Pinned == Spec => []HeldPinned
<1>1. Sound => HeldPinned
  <2> SUFFICES ASSUME Sound
               PROVE  HeldPinned
    OBVIOUS
  <2>1. Chain(lru) /\ DOMAIN lru = 1..Len(lru) /\ Len(lru) \in Nat /\ lru \in Seq(Buf)
    BY ChainIs DEF Sound
  <2>2. \A p \in held : p \in Cached /\ lru[Index(p)].pinned
    BY IndexForm DEF Sound, IndexIs
  <2>3. lru \in Seq([pgno : 0..npages - 1, pinned : BOOLEAN, dirty : BOOLEAN, data : Int])
    <3>1. \A i \in 1..Len(lru) : lru[i] \in Buf /\ lru[i].pgno < npages
      BY <2>1, ChainIs DEF Sound
    <3>2. npages \in Nat
      BY PageType DEF Sound
    <3> DEFINE T == [pgno : 0..npages - 1, pinned : BOOLEAN, dirty : BOOLEAN, data : Int]
    <3>3. ASSUME NEW b \in Buf, b.pgno < npages
          PROVE  b \in T
      <4>1. b.pgno \in 0..npages - 1
        <5>1. b.pgno \in Nat
          BY BufIs, PageType
        <5>2. QED
          BY <3>2, <3>3, <5>1
      <4>2. QED
        BY <4>1, Zenon DEF Buf
    <3> HIDE DEF T
    <3>4. \A i \in 1..Len(lru) : lru[i] \in T
      BY <3>1, <3>3
    <3>5. lru \in Seq(T)
      BY <2>1, <3>4
    <3>6. QED
      BY <3>5 DEF T
  <2>4. held \subseteq Pages /\ written \subseteq Pages
    <3>1. held \subseteq Pages
      <4> SUFFICES ASSUME NEW p \in held
                   PROVE  p \in Pages
        OBVIOUS
      <4>1. PICK b \in Range(lru) : b.pgno = p
        BY DEF Sound
      <4>2. b \in Buf
        BY ChainIs DEF Sound
      <4>3. QED
        BY <4>1, <4>2, BufIs
    <3>2. \A p \in 0..npages - 1 : p \in Pages
      BY PageType DEF Sound, Pages
    <3>3. QED
      BY <3>1, <3>2 DEF Sound
  <2>5. TypeOK
    BY <2>3, <2>4 DEF Sound, TypeOK
  <2>6. QED
    BY <2>1, <2>2, <2>5 DEF HeldPinned, Chain
<1>2. QED
  BY <1>1, SoundInit, SoundNext, PTL DEF Spec

-----------------------------------------------------------------------------
(* The contents of the pages.                                              *)

\* The file needs no conversion, and every page has a place of its own.
Plain == ~Filter /\ MaxPages <= Wrap

LEMMA PlainIs ==
    ASSUME Plain, NEW b \in Buf
    PROVE  /\ Place(b.pgno) = b.pgno /\ b.pgno \in 0..Wrap - 1
           /\ Converted(b) = b /\ Swap(b.data) = b.data /\ Clean(b).data = b.data
           /\ Clean(b).pgno = b.pgno /\ Clean(b).dirty = FALSE
<1>1. b.pgno \in Pages /\ b.data \in Int
  BY BufIs
<1>2. Place(b.pgno) = b.pgno /\ Place(b.pgno) \in 0..Wrap - 1
  BY <1>1, PlaceIs DEF Plain
<1>3. Swap(b.data) = b.data
  BY <1>1, SwapType DEF Plain
<1>4. QED
  BY <1>2, <1>3, ConvertedIs DEF Plain

\* Two buffers of the chain are for two pages.
LEMMA Apart ==
    ASSUME Sound
    PROVE  /\ \A b \in Range(lru) : b \in Buf
           /\ \A b, c \in Range(lru) : b.pgno = c.pgno => b = c
  BY ChainIs DEF Sound

\* A page that leaves the pool is in the file; nothing else changes there but
\* the place of a page that is dirty.
LEMMA BktPlain ==
    ASSUME Plain, Sound, Faithful, NEW o \in Bkt
    PROVE  /\ \A c \in Range(o.lru) : c \in Range(lru)
           /\ o.file \in [0..Wrap - 1 -> Data] /\ eof <= o.eof /\ o.eof \in Nat
           /\ \A b \in Range(lru) :
                 b \notin Range(o.lru) /\ b.pgno \in written =>
                    o.file[b.pgno] = b.data /\ b.pgno < o.eof /\ b.pgno \notin touched
           /\ \A s \in 0..Wrap - 1 : \/ o.file[s] = file[s]
                                     \/ \E b \in Range(lru) : b.pgno = s /\ b.dirty
<1>1. /\ \A b \in Range(lru) : b \in Buf
      /\ \A b, c \in Range(lru) : b.pgno = c.pgno => b = c
  BY Apart
<1>2. \A b \in Range(lru) : /\ Place(b.pgno) = b.pgno /\ b.pgno \in 0..Wrap - 1
                            /\ Converted(b) = b /\ Swap(b.data) = b.data
                            /\ b.dirty \in BOOLEAN
  BY <1>1, PlainIs, BufIs
<1>3. Grows(o.file, o.eof) /\ eof <= o.eof /\ o.eof \in Nat
  BY BktIs, PageType DEF Grows
<1>4. CASE Another(o)
  BY <1>3, <1>4 DEF Another, Faithful
<1>5. ASSUME NEW b \in Range(lru), Evicted(o, b)
      PROVE  /\ \A c \in Range(o.lru) : c \in Range(lru)
             /\ \A s \in 0..Wrap - 1 : o.file[s] \in Data
             /\ \A d \in Range(lru) : d \notin Range(o.lru) => d = b
             /\ b.pgno \in written =>
                   o.file[b.pgno] = b.data /\ b.pgno < o.eof /\ b.pgno \notin touched
             /\ \A s \in 0..Wrap - 1 : o.file[s] = file[s] \/ (b.pgno = s /\ b.dirty)
  <2>1. b.pgno \notin touched
    <3>1. ~b.pinned
      BY <1>5 DEF Evicted
    <3>2. b.pgno \notin held
      BY <1>1, <3>1 DEF Sound
    <3>3. QED
      BY <3>2 DEF Sound
  <2>2. CASE b.dirty
    <3>1. o.file = Stored({b}) /\ b.pgno < o.eof
      BY <1>2, <1>5, <2>2 DEF Evicted
    <3>2. \A s \in 0..Wrap - 1 : IF b.pgno = s THEN Stored({b})[s] = b.data
                                 ELSE Stored({b})[s] = file[s]
      <4>1. {b} \in SUBSET Buf
        BY <1>1
      <4>2. \A s \in 0..Wrap - 1 :
              \/ \E c \in {b} : Place(c.pgno) = s /\ Stored({b})[s] = Swap(c.data)
              \/ (\A c \in {b} : Place(c.pgno) # s) /\ Stored({b})[s] = file[s]
        BY <4>1, StoredIs
      <4>3. QED
        BY <1>2, <4>2
    <3>3. \A s \in 0..Wrap - 1 : o.file[s] \in Data
      BY <3>1, <3>2 DEF Faithful
    <3>4. o.file[b.pgno] = b.data
      BY <1>2, <3>1, <3>2
    <3>5. QED
      BY <1>5, <2>1, <2>2, <3>1, <3>2, <3>3, <3>4 DEF Evicted
  <2>3. CASE ~b.dirty
    <3>1. o.file = file
      BY <1>5, <2>3 DEF Evicted
    <3>2. b.pgno \in written => file[b.pgno] = b.data
      BY <2>1, <2>3 DEF Faithful
    <3>3. b.pgno \in written => b.pgno < eof
      BY <1>1, <2>1, <2>3 DEF Faithful
    <3>4. b.pgno \in written => b.pgno < o.eof
      <4>1. b.pgno \in Int /\ eof \in Int
        BY <1>2 DEF Sound
      <4>2. QED
        BY <1>3, <3>3, <4>1
    <3>5. QED
      BY <1>5, <2>1, <3>1, <3>2, <3>4 DEF Evicted, Faithful
  <2>4. QED
    BY <2>2, <2>3
<1>6. ASSUME NEW b \in Range(lru), Refused(o, b)
      PROVE  /\ Range(o.lru) = Range(lru)
             /\ \A s \in 0..Wrap - 1 : o.file[s] \in Data
             /\ \A s \in 0..Wrap - 1 : o.file[s] = file[s] \/ (b.pgno = s /\ b.dirty)
  <2>1. Range(o.lru) = Range(lru)
    BY <1>2, <1>6 DEF Refused
  <2>2. \A s \in 0..Wrap - 1 : o.file[s] = file[s] \/ (b.pgno = s /\ b.dirty /\ o.file[s] = 0)
    BY <1>2, <1>6 DEF Refused
  <2>3. QED
    BY <2>1, <2>2 DEF Faithful, Data
<1>7. ASSUME \A s \in 0..Wrap - 1 : o.file[s] \in Data
      PROVE  o.file \in [0..Wrap - 1 -> Data]
  BY <1>3, <1>7 DEF Grows
<1>8. QED
  BY <1>3, <1>4, <1>5, <1>6, <1>7, BktIs

LEMMA FaithfulInit == Init => Faithful
<1>1. Range(<<>>) = {}
  BY DEF Range
<1>2. QED
  BY <1>1 DEF Init, Faithful, Data

\* A buffer is taken; at most a clean one is added that agrees with the file.
LEMMA FaithfulTake ==
    ASSUME Plain, Sound, Faithful, NEW o \in Bkt, Becomes(o), NEW B,
           Range(lru') = Range(o.lru) \cup B,
           \A b \in B : /\ ~b.dirty /\ b.data \in Data /\ b.pgno \notin Cached
                        /\ b.pgno \in written => b.data = o.file[b.pgno],
           UNCHANGED <<touched, written>>
    PROVE  Faithful'
<1>1. /\ \A c \in Range(o.lru) : c \in Range(lru)
      /\ o.file \in [0..Wrap - 1 -> Data] /\ eof <= o.eof /\ o.eof \in Nat
      /\ \A b \in Range(lru) :
             b \notin Range(o.lru) /\ b.pgno \in written =>
                o.file[b.pgno] = b.data /\ b.pgno < o.eof /\ b.pgno \notin touched
      /\ \A s \in 0..Wrap - 1 : \/ o.file[s] = file[s]
                                \/ \E b \in Range(lru) : b.pgno = s /\ b.dirty
  BY BktPlain
<1>2. file' = o.file /\ eof' = o.eof /\ synced' = FALSE
  BY DEF Becomes
<1>3. /\ \A b \in Range(lru) : b.pgno \in 0..Wrap - 1
      /\ \A b, c \in Range(lru) : b.pgno = c.pgno => b = c
  BY Apart, PlainIs
<1>4. \A c \in Range(lru') : c.data \in Data
  BY <1>1 DEF Faithful
<1>5. ASSUME NEW c \in Range(lru'), c.pgno \in written, ~c.dirty, c.pgno \notin touched
      PROVE  c.data = o.file[c.pgno]
  <2>1. CASE c \in B
    BY <1>5, <2>1
  <2>2. CASE c \in Range(o.lru)
    <3>1. c \in Range(lru) /\ c.data = file[c.pgno]
      BY <1>1, <1>5, <2>2 DEF Faithful
    <3>2. o.file[c.pgno] = file[c.pgno]
      BY <1>1, <1>3, <1>5, <3>1
    <3>3. QED
      BY <3>1, <3>2
  <2>3. QED
    BY <2>1, <2>2
<1>6. ASSUME NEW p \in written \ touched
      PROVE  p < o.eof \/ \E b \in Range(lru') : b.pgno = p /\ b.dirty
  <2>1. CASE p < eof
    <3>1. p \in Int /\ eof \in Int
      BY DEF Sound
    <3>2. QED
      BY <1>1, <2>1, <3>1
  <2>2. CASE ~(p < eof)
    <3>1. PICK b \in Range(lru) : b.pgno = p /\ b.dirty
      BY <2>2 DEF Faithful
    <3>2. QED
      BY <1>1, <3>1
  <2>3. QED
    BY <2>1, <2>2
<1>7. QED
  BY <1>1, <1>2, <1>4, <1>5, <1>6 DEF Faithful

\* One buffer changes: the user pins it, writes into it or returns it.
LEMMA FaithfulSwap ==
    ASSUME Sound, Faithful, NEW b, NEW c, Swapped(b, c),
           c.data \in Data, UNCHANGED <<file, eof>>, synced' = FALSE,
           \A q : q # b.pgno => /\ q \in touched' <=> q \in touched
                                /\ q \in written' <=> q \in written,
           \/ b.pgno \in touched'
           \/ c.dirty
           \/ /\ c.data = b.data /\ ~b.dirty /\ b.pgno \notin touched
              /\ b.pgno \in written' => b.pgno \in written
    PROVE  Faithful'
<1>1. /\ b \in Range(lru) /\ c.pgno = b.pgno
      /\ Range(lru') = (Range(lru) \ {b}) \cup {c}
      /\ \A d, e \in Range(lru) : d.pgno = e.pgno => d = e
  BY Apart DEF Swapped
<1>2. \A d \in Range(lru') : d.data \in Data
  BY <1>1 DEF Faithful
<1>3. ASSUME NEW d \in Range(lru'), d.pgno \in written', ~d.dirty, d.pgno \notin touched'
      PROVE  d.data = file[d.pgno]
  BY <1>1, <1>3 DEF Faithful
<1>4. ASSUME NEW p \in written' \ touched'
      PROVE  p < eof \/ \E d \in Range(lru') : d.pgno = p /\ d.dirty
  <2>1. CASE p = b.pgno
    BY <1>1, <1>4, <2>1 DEF Faithful
  <2>2. CASE p # b.pgno
    BY <1>1, <1>4, <2>2 DEF Faithful
  <2>3. QED
    BY <2>1, <2>2
<1>5. QED
  BY <1>2, <1>3, <1>4 DEF Faithful

LEMMA FaithfulSync ==
    ASSUME Plain, Sound, Faithful, NEW W, NEW E, Synced(W, E), Sound',
           synced' => \A c \in Range(lru') : ~c.dirty
    PROVE  Faithful'
<1>1. /\ \A b \in Range(lru) : b \in Buf
      /\ \A b, c \in Range(lru) : b.pgno = c.pgno => b = c
  BY Apart
<1>2. /\ W \subseteq Range(lru) /\ E \subseteq Range(lru) /\ W \cap E = {}
      /\ \A b \in W \cup E : b.dirty
      /\ UNCHANGED <<touched, written>>
  BY DEF Synced
<1>3. \A b \in Range(lru) : /\ Place(b.pgno) = b.pgno /\ b.pgno \in 0..Wrap - 1
                            /\ Converted(b) = b /\ Swap(b.data) = b.data
                            /\ Clean(b).data = b.data /\ Clean(b).pgno = b.pgno
                            /\ Clean(b).dirty = FALSE
  BY <1>1, PlainIs
<1>4. /\ \A c \in Range(lru') : (\E b \in W : c = Clean(b)) \/ c \in Range(lru) \ W
      /\ \A b \in Range(lru) \ W : b \in Range(lru')
  BY <1>3 DEF Synced
<1>5. \A s \in 0..Wrap - 1 :
          \/ \E b \in W : b.pgno = s /\ file'[s] = b.data
          \/ (\A b \in W : b.pgno # s) /\ file'[s] = file[s]
          \/ \E b \in E : b.pgno = s /\ file'[s] = 0
  BY <1>2, <1>3 DEF Synced
<1>6. \A c \in Range(lru') : c.data \in Data
  BY <1>2, <1>3, <1>4 DEF Faithful
<1>7. file' \in [0..Wrap - 1 -> Data]
  <2>1. file' \in [0..Wrap - 1 -> Int]
    BY DEF Sound
  <2>2. \A s \in 0..Wrap - 1 : file'[s] \in Data
    BY <1>2, <1>5 DEF Faithful, Data
  <2>3. QED
    BY <2>1, <2>2
<1>8. ASSUME NEW b \in W
      PROVE  file'[b.pgno] = b.data
  BY <1>1, <1>2, <1>3, <1>5
<1>9. ASSUME NEW b \in Range(lru) \ W, ~b.dirty
      PROVE  file'[b.pgno] = file[b.pgno]
  BY <1>1, <1>2, <1>3, <1>5, <1>9
<1>10. ASSUME NEW c \in Range(lru'), c.pgno \in written, ~c.dirty, c.pgno \notin touched
       PROVE  c.data = file'[c.pgno]
  <2>1. CASE \E b \in W : c = Clean(b)
    BY <1>2, <1>3, <1>8, <2>1
  <2>2. CASE c \in Range(lru) \ W
    BY <1>9, <1>10, <2>2 DEF Faithful
  <2>3. QED
    BY <1>4, <2>1, <2>2
<1>11. ASSUME NEW p \in written \ touched
       PROVE  p < eof' \/ \E c \in Range(lru') : c.pgno = p /\ c.dirty
  <2>1. CASE p < eof
    <3>1. p \in Int /\ eof \in Int /\ eof' \in Int /\ eof <= eof'
      BY DEF Sound, Synced
    <3>2. QED
      BY <2>1, <3>1
  <2>2. CASE ~(p < eof)
    <3>1. PICK b \in Range(lru) : b.pgno = p /\ b.dirty
      BY <2>2 DEF Faithful
    <3>2. CASE b \in W
      BY <1>3, <3>1, <3>2 DEF Synced
    <3>3. CASE b \notin W
      BY <1>4, <3>1, <3>3
    <3>4. QED
      BY <3>2, <3>3
  <2>3. QED
    BY <2>1, <2>2
<1>12. QED
  BY <1>2, <1>6, <1>7, <1>10, <1>11 DEF Faithful

LEMMA FaithfulNext ==
    ASSUME Plain, Sound, Sound', Faithful, [Next]_vars
    PROVE  Faithful'
<1>1. CASE UNCHANGED vars
  BY <1>1 DEF vars, Faithful
<1>2. CASE (\E p \in Pages : ReadFails(p)) \/ NoBuffer
  <2>1. PICK o \in Bkt : /\ Becomes(o) /\ lru' = o.lru
                         /\ UNCHANGED <<touched, written>>
    BY <1>2 DEF ReadFails, NoBuffer
  <2> DEFINE B == {}
  <2>2. Range(lru') = Range(o.lru) \cup B
    BY <2>1
  <2>3. \A b \in B : FALSE
    OBVIOUS
  <2> HIDE DEF B
  <2>4. QED
    BY <2>1, <2>2, <2>3, FaithfulTake
<1>3. CASE New
  <2>1. PICK o \in Bkt : NewIs(o, Buffer(npages, 0))
    BY <1>3, NewSound
  <2> DEFINE b == Buffer(npages, 0)
             B == {b}
  <2>2. b.pgno = npages /\ b.data = 0 /\ ~b.dirty
    BY DEF Buffer
  <2>3. npages \notin written
    BY PageType DEF Sound
  <2>4. /\ Becomes(o) /\ Range(lru') = Range(o.lru) \cup B /\ b.pgno \notin Cached
        /\ UNCHANGED <<touched, written>>
    BY <1>3, <2>1 DEF NewIs, New
  <2> HIDE DEF b
  <2>5. \A c \in B : /\ ~c.dirty /\ c.data \in Data /\ c.pgno \notin Cached
                     /\ c.pgno \in written => c.data = o.file[c.pgno]
    BY <2>2, <2>3, <2>4 DEF Data
  <2> HIDE DEF B
  <2>6. QED
    BY <2>4, <2>5, FaithfulTake
<1>4. CASE \E p \in Pages : Miss(p)
  <2>1. PICK p \in Pages : Miss(p)
    BY <1>4
  <2>2. PICK o \in Bkt : NewIs(o, Buffer(p, Swap(o.file[Place(p)])))
    BY <2>1, MissSound
  <2> DEFINE b == Buffer(p, Swap(o.file[Place(p)]))
             B == {b}
  <2>3. b.pgno = p /\ b.data = Swap(o.file[Place(p)]) /\ ~b.dirty
    BY DEF Buffer
  <2>4. /\ Becomes(o) /\ Range(lru') = Range(o.lru) \cup B /\ b.pgno \notin Cached
        /\ UNCHANGED <<touched, written>>
    BY <2>1, <2>2 DEF NewIs, Miss
  <2> HIDE DEF b
  <2>5. b.data = o.file[p] /\ b.data \in Data
    <3>1. Place(p) = p /\ p \in 0..Wrap - 1
      BY PlaceIs DEF Plain
    <3>2. o.file[p] \in Data
      BY <3>1, BktPlain
    <3>3. Swap(o.file[p]) = o.file[p]
      BY DEF Swap, Plain
    <3>4. QED
      BY <2>3, <3>1, <3>2, <3>3
  <2>6. \A c \in B : /\ ~c.dirty /\ c.data \in Data /\ c.pgno \notin Cached
                     /\ c.pgno \in written => c.data = o.file[c.pgno]
    BY <2>3, <2>4, <2>5
  <2> HIDE DEF B
  <2>7. QED
    BY <2>4, <2>6, FaithfulTake
<1>5. ASSUME NEW p \in Pages, Hit(p)
      PROVE  Faithful'
  <2>1. PICK b \in Range(lru) : b.pgno = p /\ Swapped(b, [b EXCEPT !.pinned = TRUE])
    BY <1>5, HitSound
  <2> DEFINE c == [b EXCEPT !.pinned = TRUE]
  <2>2. c.data = b.data /\ c.dirty = b.dirty /\ b.data \in Data
    BY Apart DEF Buf, Faithful
  <2>3. UNCHANGED <<file, eof, touched, written>> /\ synced' = FALSE
    BY <1>5 DEF Hit
  <2>4. Swapped(b, c)
    BY <2>1
  <2> HIDE DEF c
  <2>5. QED
    BY <2>2, <2>3, <2>4, FaithfulSwap
<1>6. ASSUME NEW p \in Pages, NEW d \in Values, Modify(p, d)
      PROVE  Faithful'
  <2>1. PICK b \in Range(lru) : b.pgno = p /\ Swapped(b, [b EXCEPT !.data = d])
    BY <1>6, ModifySound
  <2> DEFINE c == [b EXCEPT !.data = d]
  <2>2. c.data \in Data
    BY Apart DEF Buf, Data
  <2>3. /\ UNCHANGED <<file, eof>> /\ synced' = FALSE
        /\ touched' = touched \cup {p} /\ written' = written \cup {p}
    BY <1>6 DEF Modify
  <2>4. Swapped(b, c)
    BY <2>1
  <2> HIDE DEF c
  <2>5. QED
    BY <2>1, <2>2, <2>3, <2>4, FaithfulSwap
<1>7. ASSUME NEW p \in Pages, Put(p)
      PROVE  Faithful'
  <2>1. PICK b \in Range(lru) :
           /\ b.pgno = p
           /\ Swapped(b, [b EXCEPT !.pinned = FALSE,
                                   !.dirty = DirtyAfter(b, p \in touched)])
    BY <1>7, PutSound
  <2> DEFINE c == [b EXCEPT !.pinned = FALSE, !.dirty = DirtyAfter(b, p \in touched)]
  <2>2. c.data = b.data /\ b.data \in Data /\ (c.dirty <=> b.dirty \/ p \in touched)
    BY Apart DEF Buf, Faithful, DirtyAfter
  <2>3. /\ UNCHANGED <<file, eof, written>> /\ synced' = FALSE
        /\ touched' = touched \ {p}
    BY <1>7 DEF Put
  <2>4. Swapped(b, c)
    BY <2>1
  <2> HIDE DEF c
  <2>5. QED
    BY <2>1, <2>2, <2>3, <2>4, FaithfulSwap
<1>8. CASE Sync
  BY <1>8, SyncSound, FaithfulSync
<1>9. CASE \E n \in 0..Len(lru) - 1 : SyncFails(n)
  BY <1>9, SyncFailsSound, FaithfulSync
<1>10. CASE Reopen
  <2>1. Range(lru') = {}
    BY <1>10, ReopenSound
  <2>2. QED
    BY <1>10, <2>1 DEF Reopen, Faithful
<1>11. QED
  BY <1>1, <1>2, <1>3, <1>4, <1>5, <1>6, <1>7, <1>8, <1>9, <1>10 DEF Next

IInv == Sound /\ Faithful

LEMMA Invariance ==
    ASSUME Plain
    PROVE  Spec => []IInv
<1>1. Init => IInv
  BY SoundInit, FaithfulInit DEF IInv
<1>2. IInv /\ [Next]_vars => IInv'
  BY SoundNext, FaithfulNext DEF IInv
<1>3. QED
  BY <1>1, <1>2, PTL DEF Spec

\* CleanIsStored of the mpool run, for any pool on a file in the order of
\* bytes of this machine with at most 2^32 bytes: mpool_bkt() loses nothing
\* when it reuses a buffer without MPOOL_DIRTY.
THEOREM CleanStored ==
    ASSUME Plain
    PROVE  Spec => []CleanIsStored
<1>1. IInv => CleanIsStored
  <2> SUFFICES ASSUME IInv, NEW i \in DOMAIN lru, lru[i].pgno \in written,
                      ~lru[i].dirty, lru[i].pgno \notin touched
               PROVE  lru[i].data = Swap(file[Place(lru[i].pgno)])
    BY DEF CleanIsStored
  <2>1. lru[i] \in Range(lru) /\ lru[i] \in Buf
    BY ChainIs DEF IInv, Sound
  <2>2. lru[i].data = file[lru[i].pgno]
    BY <2>1 DEF IInv, Faithful
  <2>3. Place(lru[i].pgno) = lru[i].pgno
    BY <2>1, PlainIs
  <2>4. QED
    BY <2>2, <2>3 DEF Swap, Plain
<1>2. QED
  BY <1>1, Invariance, PTL

-----------------------------------------------------------------------------
(* The refinement.                                                         *)

\* What a user finds in a page.
ContentIs ==
    \A p \in Pages :
        /\ p \notin written => Content(p) = 0
        /\ p \in written =>
              /\ \A b \in Range(lru) : b.pgno = p => Content(p) = b.data
              /\ (\A b \in Range(lru) : b.pgno # p) => Content(p) = file[p]
        /\ Content(p) \in Data

LEMMA ContentForm == Plain => (IInv => ContentIs)
<1> SUFFICES ASSUME Plain, IInv, NEW p \in Pages
             PROVE  /\ p \notin written => Content(p) = 0
                    /\ p \in written =>
                          /\ \A b \in Range(lru) : b.pgno = p => Content(p) = b.data
                          /\ (\A b \in Range(lru) : b.pgno # p) => Content(p) = file[p]
                    /\ Content(p) \in Data
  BY DEF ContentIs
<1>1. p \notin written => Content(p) = 0
  BY DEF Content
<1>2. ASSUME NEW b \in Range(lru), b.pgno = p, p \in written
      PROVE  Content(p) = b.data
  <2>1. p \in Cached /\ lru[Index(p)] = b
    BY <1>2, IndexForm DEF IndexIs, IInv
  <2>2. QED
    BY <1>2, <2>1 DEF Content
<1>3. ASSUME \A b \in Range(lru) : b.pgno # p, p \in written
      PROVE  Content(p) = file[p]
  <2>1. p \notin Cached
    BY <1>3 DEF Cached, Range
  <2>2. Place(p) = p
    BY PlaceIs DEF Plain
  <2>3. QED
    BY <1>3, <2>1, <2>2 DEF Content, Swap, Plain
<1>4. Content(p) \in Data
  <2>1. p \in 0..Wrap - 1
    BY PlaceIs DEF Plain
  <2>2. file[p] \in Data
    BY <2>1 DEF IInv, Faithful
  <2>3. \A b \in Range(lru) : b.data \in Data
    BY DEF IInv, Faithful
  <2>4. QED
    BY <1>1, <1>2, <1>3, <2>2, <2>3 DEF Data
<1>5. QED
  BY <1>1, <1>2, <1>3, <1>4

\* No page changes its contents: a step of the pool behind the user's back.
Quiet == /\ \A p \in Pages : Content(p)' = Content(p)
         /\ curcache <= curcache'

LEMMA RefineQuiet ==
    ASSUME Sound, Sound', Quiet
    PROVE  PS!Next
<1>1. [p \in Pages |-> Content(p)]' = [p \in Pages |-> Content(p)]
  BY DEF Quiet
<1>2. (synced /\ touched = {})' \in BOOLEAN
  BY DEF Sound
<1>3. (curcache = 0)' \in {FALSE, curcache = 0}
  <2>1. curcache \in Nat /\ curcache' \in Nat /\ curcache <= curcache'
    BY DEF Sound, Quiet
  <2>2. curcache' = 0 => curcache = 0
    BY <2>1
  <2>3. QED
    BY <2>2, Zenon
<1>4. PS!Work
  BY <1>1, <1>2, <1>3 DEF PS!Work
<1>5. QED
  BY <1>4 DEF PS!Next

LEMMA QuietTake ==
    ASSUME Plain, Sound, Faithful, ContentIs, ContentIs', NEW o \in Bkt, Becomes(o),
           NEW B, Range(lru') = Range(o.lru) \cup B,
           \A b \in B : /\ b.pgno \notin Cached
                        /\ b.pgno \in written => b.data = o.file[b.pgno],
           UNCHANGED <<touched, written>>
    PROVE  Quiet
<1>1. /\ \A c \in Range(o.lru) : c \in Range(lru)
      /\ \A b \in Range(lru) :
             b \notin Range(o.lru) /\ b.pgno \in written => o.file[b.pgno] = b.data
      /\ \A s \in 0..Wrap - 1 : \/ o.file[s] = file[s]
                                \/ \E b \in Range(lru) : b.pgno = s /\ b.dirty
  BY BktPlain
<1>2. file' = o.file /\ curcache <= curcache'
  BY BktIs DEF Becomes
<1>3. \A b, c \in Range(lru) : b.pgno = c.pgno => b = c
  BY Apart
<1>4. \A b \in B : \A c \in Range(lru) : c.pgno # b.pgno
  BY DEF Cached, Range
<1>5. ASSUME NEW p \in Pages
      PROVE  Content(p)' = Content(p)
  <2>1. p \in 0..Wrap - 1
    BY PlaceIs DEF Plain
  <2>2. CASE p \notin written
    BY <2>2 DEF ContentIs
  <2>3. CASE p \in written /\ \E b \in Range(lru) : b.pgno = p
    <3>1. PICK b \in Range(lru) : b.pgno = p
      BY <2>3
    <3>2. Content(p) = b.data
      BY <2>3, <3>1 DEF ContentIs
    <3>3. CASE b \in Range(o.lru)
      BY <2>3, <3>1, <3>2, <3>3 DEF ContentIs
    <3>4. CASE b \notin Range(o.lru)
      <4>1. \A c \in Range(lru') : c.pgno # p
        BY <1>1, <1>3, <1>4, <3>1, <3>4
      <4>2. Content(p)' = file'[p]
        BY <2>3, <4>1 DEF ContentIs
      <4>3. QED
        BY <1>1, <1>2, <2>3, <3>1, <3>2, <3>4, <4>2
    <3>5. QED
      BY <3>3, <3>4
  <2>4. CASE p \in written /\ \A b \in Range(lru) : b.pgno # p
    <3>1. Content(p) = file[p]
      BY <2>4 DEF ContentIs
    <3>2. o.file[p] = file[p]
      BY <1>1, <2>1, <2>4
    <3>3. CASE \E b \in B : b.pgno = p
      BY <2>4, <3>1, <3>2, <3>3 DEF ContentIs
    <3>4. CASE \A b \in B : b.pgno # p
      <4>1. \A c \in Range(lru') : c.pgno # p
        BY <1>1, <2>4, <3>4
      <4>2. QED
        BY <1>2, <2>4, <3>1, <3>2, <4>1 DEF ContentIs
    <3>5. QED
      BY <3>3, <3>4
  <2>5. QED
    BY <2>2, <2>3, <2>4
<1>6. QED
  BY <1>2, <1>5 DEF Quiet

LEMMA QuietSwap ==
    ASSUME Sound, ContentIs, ContentIs', NEW b, NEW c, Swapped(b, c), c.data = b.data,
           UNCHANGED <<file, curcache, written>>
    PROVE  Quiet
<1>1. /\ b \in Range(lru) /\ c.pgno = b.pgno
      /\ Range(lru') = (Range(lru) \ {b}) \cup {c}
      /\ \A d, e \in Range(lru) : d.pgno = e.pgno => d = e
  BY Apart DEF Swapped
<1>2. ASSUME NEW p \in Pages
      PROVE  Content(p)' = Content(p)
  <2>1. CASE p \notin written
    BY <2>1 DEF ContentIs
  <2>2. CASE p \in written /\ p = b.pgno
    BY <1>1, <2>2 DEF ContentIs
  <2>3. CASE p \in written /\ p # b.pgno /\ \E d \in Range(lru) : d.pgno = p
    BY <1>1, <2>3 DEF ContentIs
  <2>4. CASE p \in written /\ p # b.pgno /\ \A d \in Range(lru) : d.pgno # p
    BY <1>1, <2>4 DEF ContentIs
  <2>5. QED
    BY <2>1, <2>2, <2>3, <2>4
<1>3. curcache <= curcache'
  BY DEF Sound
<1>4. QED
  BY <1>2, <1>3 DEF Quiet

LEMMA QuietSync ==
    ASSUME Plain, Sound, ContentIs, ContentIs', NEW W, NEW E, Synced(W, E)
    PROVE  Quiet
<1>1. /\ \A b \in Range(lru) : b \in Buf
      /\ \A b, c \in Range(lru) : b.pgno = c.pgno => b = c
  BY Apart
<1>2. W \subseteq Range(lru) /\ E \subseteq Range(lru) /\ UNCHANGED <<written, curcache>>
  BY DEF Synced
<1>3. \A b \in Range(lru) : /\ Place(b.pgno) = b.pgno /\ Converted(b) = b
                            /\ Clean(b).data = b.data /\ Clean(b).pgno = b.pgno
  BY <1>1, PlainIs
<1>4. \A b \in Range(lru) : \E c \in Range(lru') : c.pgno = b.pgno /\ c.data = b.data
  BY <1>2, <1>3 DEF Synced
<1>5. \A c \in Range(lru') : \E b \in Range(lru) : c.pgno = b.pgno
  BY <1>2, <1>3 DEF Synced
<1>6. ASSUME NEW p \in Pages
      PROVE  Content(p)' = Content(p)
  <2>1. p \in 0..Wrap - 1
    BY PlaceIs DEF Plain
  <2>2. CASE p \notin written
    BY <1>2, <2>2 DEF ContentIs
  <2>3. CASE p \in written /\ \E b \in Range(lru) : b.pgno = p
    BY <1>2, <1>4, <2>3 DEF ContentIs
  <2>4. CASE p \in written /\ \A b \in Range(lru) : b.pgno # p
    <3>1. \A c \in Range(lru') : c.pgno # p
      BY <1>5, <2>4
    <3>2. file'[p] = file[p]
      BY <1>2, <1>3, <2>1, <2>4 DEF Synced
    <3>3. QED
      BY <1>2, <2>4, <3>1, <3>2 DEF ContentIs
  <2>5. QED
    BY <2>2, <2>3, <2>4
<1>7. curcache <= curcache'
  BY <1>2 DEF Sound
<1>8. QED
  BY <1>6, <1>7 DEF Quiet

LEMMA RefineModify ==
    ASSUME Sound, ContentIs, ContentIs', NEW p \in Pages, NEW d \in Values, Modify(p, d)
    PROVE  PS!Next
<1>1. PICK b \in Range(lru) : b.pgno = p /\ Swapped(b, [b EXCEPT !.data = d])
  BY ModifySound
<1> DEFINE c == [b EXCEPT !.data = d]
<1>2. /\ c.data = d /\ c.pgno = p /\ Range(lru') = (Range(lru) \ {b}) \cup {c}
      /\ \A e, g \in Range(lru) : e.pgno = g.pgno => e = g
  BY <1>1, Apart DEF Swapped, Buf
<1> HIDE DEF c
<1>3. /\ UNCHANGED <<file, curcache>> /\ written' = written \cup {p}
      /\ synced' = FALSE
  BY DEF Modify
<1>4. Content(p)' = d
  BY <1>2, <1>3 DEF ContentIs
<1>5. ASSUME NEW q \in Pages, q # p
      PROVE  Content(q)' = Content(q)
  <2>1. CASE q \notin written
    BY <1>3, <1>5, <2>1 DEF ContentIs
  <2>2. CASE q \in written /\ \E e \in Range(lru) : e.pgno = q
    BY <1>1, <1>2, <1>3, <1>5, <2>2 DEF ContentIs
  <2>3. CASE q \in written /\ \A e \in Range(lru) : e.pgno # q
    BY <1>1, <1>2, <1>3, <1>5, <2>3 DEF ContentIs
  <2>4. QED
    BY <2>1, <2>2, <2>3
<1>6. [q \in Pages |-> Content(q)]'
         = [[q \in Pages |-> Content(q)] EXCEPT ![p] = d]
  BY <1>4, <1>5
<1>7. (synced /\ touched = {})' = FALSE
  BY <1>3
<1>8. (curcache = 0)' = FALSE
  <2>1. Len(lru) # 0
    <3>1. PICK i \in DOMAIN lru : lru[i] = b
      BY <1>1 DEF Range
    <3>2. lru \in Seq(Buf)
      BY DEF Sound, Chain
    <3>3. QED
      BY <3>1, <3>2
  <2>2. lru \in Seq(Buf) /\ Len(lru) <= curcache /\ curcache \in Nat
    BY DEF Sound, Chain
  <2>3. curcache # 0
    BY <2>1, <2>2
  <2>4. QED
    BY <1>3, <2>3
<1>9. PS!Modify(p)
  BY <1>6, <1>7, <1>8 DEF PS!Modify
<1>10. QED
  BY <1>9 DEF PS!Next

\* mpool_close() forgets what is in memory: after a successful mpool_sync()
\* that is in the file too.
LEMMA RefineReopen ==
    ASSUME Plain, Sound, Faithful, ContentIs, ContentIs', Reopen
    PROVE  PS!Next
<1>1. /\ Range(lru') = {} /\ curcache' = 0 /\ synced' = FALSE /\ file' = file
      /\ written' = {p \in written : p < eof}
  BY ReopenSound DEF Reopen
<1>2. ASSUME synced, touched = {}, NEW p \in Pages
      PROVE  Content(p)' = Content(p)
  <2>1. \A b \in Range(lru) : ~b.dirty /\ (b.pgno \in written => b.data = file[b.pgno])
    BY <1>2 DEF Faithful
  <2>2. written' = written
    BY <1>1, <1>2, <2>1 DEF Faithful
  <2>3. CASE p \notin written
    BY <2>2, <2>3 DEF ContentIs
  <2>4. CASE p \in written
    <3>1. Content(p)' = file[p]
      BY <1>1, <2>2, <2>4 DEF ContentIs
    <3>2. Content(p) = file[p]
      BY <2>1, <2>4 DEF ContentIs
    <3>3. QED
      BY <3>1, <3>2
  <2>5. QED
    BY <2>3, <2>4
<1>3. [p \in Pages |-> Content(p)]' \in [Pages -> Values \cup {0}]
  BY DEF ContentIs, Data
<1>4. synced /\ touched = {} => [p \in Pages |-> Content(p)]' = [p \in Pages |-> Content(p)]
  BY <1>2
<1>5. (synced /\ touched = {})' = FALSE /\ (curcache = 0)' = TRUE
  BY <1>1
<1>6. PS!Close
  BY <1>3, <1>4, <1>5 DEF PS!Close
<1>7. QED
  BY <1>6 DEF PS!Next

LEMMA RefineNext ==
    ASSUME Plain, IInv, IInv', ContentIs, ContentIs', [Next]_vars
    PROVE  [PS!Next]_(PS!vars)
<1>1. Sound /\ Faithful /\ Sound' /\ Faithful'
  BY DEF IInv
<1>2. CASE UNCHANGED vars
  <2>1. \A p \in Pages : Content(p)' = Content(p)
    BY <1>2 DEF vars, Content, Cached, Index
  <2>2. UNCHANGED <<synced, touched, curcache>>
    BY <1>2 DEF vars
  <2>3. QED
    BY <2>1, <2>2 DEF PS!vars
<1>3. CASE (\E p \in Pages : ReadFails(p)) \/ NoBuffer
  <2>1. PICK o \in Bkt : /\ Becomes(o) /\ lru' = o.lru
                         /\ UNCHANGED <<touched, written>>
    BY <1>3 DEF ReadFails, NoBuffer
  <2> DEFINE B == {}
  <2>2. Range(lru') = Range(o.lru) \cup B
    BY <2>1
  <2>3. \A b \in B : FALSE
    OBVIOUS
  <2> HIDE DEF B
  <2>4. QED
    BY <1>1, <2>1, <2>2, <2>3, QuietTake, RefineQuiet
<1>4. CASE New
  <2>1. PICK o \in Bkt : NewIs(o, Buffer(npages, 0))
    BY <1>1, <1>4, NewSound
  <2> DEFINE b == Buffer(npages, 0)
             B == {b}
  <2>2. b.pgno = npages
    BY DEF Buffer
  <2>3. npages \notin written
    BY <1>1, PageType DEF Sound
  <2>4. /\ Becomes(o) /\ Range(lru') = Range(o.lru) \cup B /\ b.pgno \notin Cached
        /\ UNCHANGED <<touched, written>>
    BY <1>4, <2>1 DEF NewIs, New
  <2> HIDE DEF b
  <2>5. \A c \in B : /\ c.pgno \notin Cached
                     /\ c.pgno \in written => c.data = o.file[c.pgno]
    BY <2>2, <2>3, <2>4
  <2> HIDE DEF B
  <2>6. QED
    BY <1>1, <2>4, <2>5, QuietTake, RefineQuiet
<1>5. CASE \E p \in Pages : Miss(p)
  <2>1. PICK p \in Pages : Miss(p)
    BY <1>5
  <2>2. PICK o \in Bkt : NewIs(o, Buffer(p, Swap(o.file[Place(p)])))
    BY <1>1, <2>1, MissSound
  <2> DEFINE b == Buffer(p, Swap(o.file[Place(p)]))
             B == {b}
  <2>3. b.pgno = p /\ b.data = Swap(o.file[Place(p)])
    BY DEF Buffer
  <2>4. /\ Becomes(o) /\ Range(lru') = Range(o.lru) \cup B /\ b.pgno \notin Cached
        /\ UNCHANGED <<touched, written>>
    BY <2>1, <2>2 DEF NewIs, Miss
  <2> HIDE DEF b
  <2>5. b.data = o.file[p]
    BY <2>3, PlaceIs DEF Plain, Swap
  <2>6. \A c \in B : /\ c.pgno \notin Cached
                     /\ c.pgno \in written => c.data = o.file[c.pgno]
    BY <2>3, <2>4, <2>5
  <2> HIDE DEF B
  <2>7. QED
    BY <1>1, <2>4, <2>6, QuietTake, RefineQuiet
<1>6. ASSUME NEW p \in Pages, Hit(p)
      PROVE  PS!Next
  <2>1. PICK b \in Range(lru) : b.pgno = p /\ Swapped(b, [b EXCEPT !.pinned = TRUE])
    BY <1>1, <1>6, HitSound
  <2> DEFINE c == [b EXCEPT !.pinned = TRUE]
  <2>2. c.data = b.data
    BY <1>1, Apart DEF Buf
  <2>3. UNCHANGED <<file, curcache, written>>
    BY <1>6 DEF Hit
  <2>4. Swapped(b, c)
    BY <2>1
  <2> HIDE DEF c
  <2>5. QED
    BY <1>1, <2>2, <2>3, <2>4, QuietSwap, RefineQuiet
<1>7. ASSUME NEW p \in Pages, Put(p)
      PROVE  PS!Next
  <2>1. PICK b \in Range(lru) :
           /\ b.pgno = p
           /\ Swapped(b, [b EXCEPT !.pinned = FALSE,
                                   !.dirty = DirtyAfter(b, p \in touched)])
    BY <1>1, <1>7, PutSound
  <2> DEFINE c == [b EXCEPT !.pinned = FALSE, !.dirty = DirtyAfter(b, p \in touched)]
  <2>2. c.data = b.data
    BY <1>1, Apart DEF Buf
  <2>3. UNCHANGED <<file, curcache, written>>
    BY <1>7 DEF Put
  <2>4. Swapped(b, c)
    BY <2>1
  <2> HIDE DEF c
  <2>5. QED
    BY <1>1, <2>2, <2>3, <2>4, QuietSwap, RefineQuiet
<1>8. ASSUME NEW p \in Pages, NEW d \in Values, Modify(p, d)
      PROVE  PS!Next
  BY <1>1, <1>8, RefineModify
<1>9. CASE Sync
  BY <1>1, <1>9, SyncSound, QuietSync, RefineQuiet
<1>10. CASE \E n \in 0..Len(lru) - 1 : SyncFails(n)
  BY <1>1, <1>10, SyncFailsSound, QuietSync, RefineQuiet
<1>11. CASE Reopen
  BY <1>1, <1>11, RefineReopen
<1>12. QED
  BY <1>2, <1>3, <1>4, <1>5, <1>6, <1>7, <1>8, <1>9, <1>10, <1>11 DEF Next

\* KeepsPages of the mpool run, for the same pools as CleanStored: eviction,
\* failed reads and writes and mpool_sync() change no page behind the user's
\* back, and what was synced is found again after mpool_close().
THEOREM Keeps ==
    ASSUME Plain
    PROVE  Spec => KeepsPages
<1>1. Init => PS!Init
  <2> SUFFICES ASSUME Init
               PROVE  PS!Init
    OBVIOUS
  <2>1. \A p \in Pages : Content(p) = 0
    BY DEF Init, Content
  <2>2. (synced /\ touched = {}) = FALSE /\ (curcache = 0) = TRUE
    BY DEF Init
  <2>3. QED
    BY <2>1, <2>2 DEF PS!Init
<1>2. IInv => ContentIs
  BY ContentForm
<1>3. (IInv => ContentIs)'
  BY <1>2, PTL
<1>4. IInv /\ IInv' /\ [Next]_vars => [PS!Next]_(PS!vars)
  BY <1>2, <1>3, RefineNext
<1>5. QED
  BY <1>1, <1>4, Invariance, PTL DEF Spec, KeepsPages, PS!Spec
=============================================================================
