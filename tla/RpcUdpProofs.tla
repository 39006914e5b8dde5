---------------------------- MODULE RpcUdpProofs ----------------------------
(***************************************************************************)
(* The reply cache is sound for any size and any number of clients and     *)
(* calls, and no call returns the result of another one as long as the     *)
(* transaction ids of a client do not repeat.                              *)
(***************************************************************************)
EXTENDS RpcUdp, PositionsProofs, FiniteSetTheorems, TLAPS

Locs == 0..4 * Size - 1

\* A chain of nodes, each of them once.
Once(s) == /\ s \in Seq(Slots)
           /\ \A j, k \in DOMAIN s : s[j] = s[k] => j = k

-----------------------------------------------------------------------------
(* Numbers.                                                                *)

\* What the modulus leaves.
LEMMA Remainder ==
    ASSUME NEW n \in Nat, NEW m \in Nat \ {0}
    PROVE  n % m \in 0..m - 1
  OBVIOUS

\* The chain of an id is one of uc_entries.
LEMMA LocType == \A id \in Ids : Loc(id) \in Locs
<1>1. Size \in Nat \ {0} /\ 4 * Size \in Nat \ {0}
  BY RpcAssumption
<1>2. \A id \in Ids : id \in Nat
  BY RpcAssumption DEF Ids
<1>3. QED
  BY <1>1, <1>2, Remainder DEF Loc, Locs

\* The slots of uc_fifo: the next victim comes round.
LEMMA SlotType == 0 \in Slots /\ \A v \in Slots : (v + 1) % Size \in Slots
<1>1. Size \in Nat \ {0}
  BY RpcAssumption
<1>2. \A v \in Slots : v + 1 \in Nat
  BY <1>1 DEF Slots
<1>3. \A v \in Slots : (v + 1) % Size \in 0..Size - 1
  BY <1>1, <1>2, Remainder
<1>4. QED
  BY <1>1, <1>3 DEF Slots

\* A transaction id is in range, and its halves can be read off.
LEMMA IdType ==
    ASSUME NEW c \in Clients, NEW n \in 0..Mod - 1
    PROVE  Id(c, n) \in Ids /\ Bump(n) \in 0..Mod - 1
<1> DEFINE b == Base[c]
<1>1. Half \in Nat \ {0} /\ Mod \in Nat \ {0} /\ b \in 0..Half - 1
  BY RpcAssumption
<1> HIDE DEF b
<1>2. n * Half \in Nat /\ n * Half <= (Mod - 1) * Half
  BY <1>1
<1>3. (Mod - 1) * Half = Mod * Half - Half /\ Mod * Half \in Nat
  BY <1>1
<1>4. n * Half + b \in 0..Mod * Half - 1
  <2> DEFINE x == n * Half
             y == Mod * Half
  <2>1. x \in Nat /\ y \in Nat /\ x <= y - Half
    BY <1>2, <1>3
  <2> HIDE DEF x, y
  <2>2. x + b \in 0..y - 1
    BY <1>1, <2>1
  <2>3. QED
    BY <2>2 DEF x, y
<1>5. (n + 1) % Mod \in 0..Mod - 1
  BY <1>1, Remainder
<1>6. QED
  BY <1>4, <1>5 DEF Id, Ids, Bump, b

-----------------------------------------------------------------------------
(* Chains.                                                                 *)

\* The loops through a chain stop at the first node that fits.
LEMMA FirstIs ==
    ASSUME NEW P \in SUBSET Nat, P # {}
    PROVE  First(P) \in P
<1>1. \E x \in P : \A y \in P : x <= y
  BY Least
<1>2. QED
  BY <1>1 DEF First

LEMMA OnceIs ==
    ASSUME NEW s, Once(s)
    PROVE  /\ s \in Seq(Slots) /\ Len(s) \in Nat /\ DOMAIN s = 1..Len(s)
           /\ \A j \in DOMAIN s : s[j] \in Slots /\ s[j] \in Range(s)
           /\ \A i \in Range(s) : \E j \in DOMAIN s : s[j] = i
<1>1. s \in Seq(Slots)
  BY DEF Once
<1>2. Len(s) \in Nat /\ DOMAIN s = 1..Len(s) /\ s \in [1..Len(s) -> Slots]
  BY <1>1, LenProperties
<1>3. QED
  BY <1>1, <1>2 DEF Range

\* A node is taken out of its chain.
LEMMA OnceRemove ==
    ASSUME NEW l, Once(l), NEW i \in DOMAIN l
    PROVE  /\ Once(RemoveAt(l, i))
           /\ Range(RemoveAt(l, i)) = Range(l) \ {l[i]}
<1> DEFINE a == SubSeq(l, 1, i - 1)
           c == SubSeq(l, i + 1, Len(l))
           r == a \o c
           from(k) == IF k < i THEN k ELSE k + 1
<1>1. l \in Seq(Slots) /\ Len(l) \in Nat /\ DOMAIN l = 1..Len(l) /\ i \in 1..Len(l)
  BY OnceIs
<1>2. /\ a \in Seq(Slots) /\ Len(a) = i - 1
      /\ \A k \in 1..i - 1 : a[k] = l[k]
  <2>1. 1 \in Int /\ i - 1 \in Int /\ \A k \in 1..i - 1 : l[k] \in Slots
    BY <1>1
  <2>2. /\ SubSeq(l, 1, i - 1) \in Seq(Slots)
        /\ Len(SubSeq(l, 1, i - 1)) = IF 1 <= i - 1 THEN i - 1 - 1 + 1 ELSE 0
        /\ \A k \in 1..i - 1 - 1 + 1 : SubSeq(l, 1, i - 1)[k] = l[1 + k - 1]
    BY <1>1, <2>1, SubSeqProperties
  <2>3. QED
    BY <1>1, <2>2
<1>3. /\ c \in Seq(Slots) /\ Len(c) = Len(l) - i
      /\ \A k \in 1..Len(l) - i : c[k] = l[i + k]
  <2>1. i + 1 \in Int /\ Len(l) \in Int /\ \A k \in i + 1..Len(l) : l[k] \in Slots
    BY <1>1
  <2>2. /\ SubSeq(l, i + 1, Len(l)) \in Seq(Slots)
        /\ Len(SubSeq(l, i + 1, Len(l))) = IF i + 1 <= Len(l) THEN Len(l) - (i + 1) + 1
                                           ELSE 0
        /\ \A k \in 1..Len(l) - (i + 1) + 1 :
               SubSeq(l, i + 1, Len(l))[k] = l[i + 1 + k - 1]
    BY <1>1, <2>1, SubSeqProperties
  <2>3. QED
    BY <1>1, <2>2
<1> HIDE DEF a, c
<1>4. /\ r \in Seq(Slots) /\ Len(r) = Len(l) - 1
      /\ \A k \in 1..Len(r) : r[k] = IF k <= Len(a) THEN a[k] ELSE c[k - Len(a)]
  <2>1. /\ r \in Seq(Slots) /\ Len(r) = Len(a) + Len(c)
        /\ \A k \in 1..Len(a) + Len(c) :
               r[k] = IF k <= Len(a) THEN a[k] ELSE c[k - Len(a)]
    BY <1>2, <1>3, ConcatProperties
  <2>2. QED
    BY <1>1, <1>2, <1>3, <2>1
<1>5. ASSUME NEW k \in 1..Len(r)
      PROVE  from(k) \in 1..Len(l) /\ from(k) # i /\ r[k] = l[from(k)]
  <2>1. CASE k < i
    BY <1>1, <1>2, <1>4, <2>1
  <2>2. CASE ~(k < i)
    <3>1. k - (i - 1) \in 1..Len(l) - i /\ i + (k - (i - 1)) = k + 1 /\ ~(k <= i - 1)
      BY <1>1, <1>4, <2>2
    <3>2. r[k] = c[k - (i - 1)]
      BY <1>2, <1>4, <3>1
    <3>3. c[k - (i - 1)] = l[k + 1]
      BY <1>3, <3>1
    <3>4. from(k) = k + 1 /\ k + 1 \in 1..Len(l) /\ k + 1 # i
      BY <1>1, <1>4, <2>2
    <3>5. QED
      BY <3>2, <3>3, <3>4
  <2>3. QED
    BY <2>1, <2>2
<1> HIDE DEF r
<1>6. \A k, m \in 1..Len(r) : from(k) = from(m) => k = m
  BY <1>1, <1>4
<1>7. ASSUME NEW j \in 1..Len(l), j # i
      PROVE  \E k \in 1..Len(r) : j = from(k)
  <2>1. CASE j < i
    BY <1>1, <1>4, <2>1
  <2>2. CASE ~(j < i)
    <3>1. j - 1 \in 1..Len(r) /\ ~(j - 1 < i) /\ j = (j - 1) + 1
      BY <1>1, <1>4, <1>7, <2>2
    <3>2. j = from(j - 1)
      BY <3>1
    <3>3. QED
      BY <3>1, <3>2
  <2>3. QED
    BY <2>1, <2>2
<1> HIDE DEF from
<1>8. DOMAIN r = 1..Len(r)
  BY <1>4, LenProperties
<1>9. Once(r)
  <2>1. ASSUME NEW k \in DOMAIN r, NEW m \in DOMAIN r, r[k] = r[m]
        PROVE  k = m
    <3>1. l[from(k)] = l[from(m)] /\ from(k) \in DOMAIN l /\ from(m) \in DOMAIN l
      BY <1>1, <1>5, <1>8, <2>1
    <3>2. from(k) = from(m)
      BY <3>1 DEF Once
    <3>3. QED
      BY <1>6, <1>8, <2>1, <3>2
  <2>2. QED
    BY <1>4, <2>1 DEF Once
<1>10. Range(r) = Range(l) \ {l[i]}
  <2>1. ASSUME NEW b \in Range(r)
        PROVE  b \in Range(l) /\ b # l[i]
    <3>1. PICK k \in 1..Len(r) : b = r[k]
      BY <1>8 DEF Range
    <3>2. b = l[from(k)] /\ from(k) \in DOMAIN l /\ from(k) # i
      BY <1>1, <1>5, <3>1
    <3>3. QED
      BY <3>2 DEF Once, Range
  <2>2. ASSUME NEW b \in Range(l), b # l[i]
        PROVE  b \in Range(r)
    <3>1. PICK j \in 1..Len(l) : b = l[j]
      BY <1>1 DEF Range
    <3>2. j # i
      BY <2>2, <3>1
    <3>3. PICK k \in 1..Len(r) : j = from(k)
      BY <1>7, <3>2
    <3>4. b = r[k]
      BY <1>5, <3>1, <3>3
    <3>5. QED
      BY <1>8, <3>4 DEF Range
  <2>3. QED
    BY <2>1, <2>2
<1>11. r = RemoveAt(l, i)
  BY DEF r, a, c, RemoveAt
<1>12. QED
  BY <1>4, <1>9, <1>10, <1>11, Zenon

\* A new node is put in front of its chain.
LEMMA OncePush ==
    ASSUME NEW s, Once(s), NEW v \in Slots, v \notin Range(s)
    PROVE  /\ Once(<<v>> \o s)
           /\ Range(<<v>> \o s) = Range(s) \cup {v}
<1> DEFINE a == <<v>>
           r == a \o s
<1>1. /\ s \in Seq(Slots) /\ Len(s) \in Nat /\ DOMAIN s = 1..Len(s)
      /\ \A j \in DOMAIN s : s[j] \in Slots /\ s[j] \in Range(s)
      /\ \A i \in Range(s) : \E j \in DOMAIN s : s[j] = i
  BY OnceIs
<1>2. a \in Seq(Slots) /\ Len(a) = 1 /\ a[1] = v
  OBVIOUS
<1> HIDE DEF a
<1>3. /\ r \in Seq(Slots) /\ Len(r) = 1 + Len(s)
      /\ \A k \in 1..1 + Len(s) : r[k] = IF k <= 1 THEN a[k] ELSE s[k - 1]
  <2>1. /\ r \in Seq(Slots) /\ Len(r) = Len(a) + Len(s)
        /\ \A k \in 1..Len(a) + Len(s) :
               r[k] = IF k <= Len(a) THEN a[k] ELSE s[k - Len(a)]
    <3>1. a \in Seq(Slots) /\ s \in Seq(Slots)
      BY <1>1, <1>2
    <3>2. QED
      BY <3>1, ConcatProperties
  <2>2. QED
    BY <1>2, <2>1
<1> HIDE DEF r
<1>4. DOMAIN r = 1..1 + Len(s)
  BY <1>3, LenProperties
<1>5. 1 \in DOMAIN r /\ r[1] = v
  BY <1>1, <1>2, <1>3, <1>4
<1>6. \A k \in DOMAIN r : k # 1 => k - 1 \in DOMAIN s /\ r[k] = s[k - 1]
  BY <1>1, <1>3, <1>4
<1>7. \A j \in DOMAIN s : j + 1 \in DOMAIN r /\ r[j + 1] = s[j]
  BY <1>1, <1>3, <1>4
<1>8. Once(r)
  <2>1. ASSUME NEW j \in DOMAIN r, NEW k \in DOMAIN r, r[j] = r[k]
        PROVE  j = k
    <3>1. CASE j = 1 \/ k = 1
      BY <1>1, <1>5, <1>6, <2>1, <3>1
    <3>2. CASE j # 1 /\ k # 1
      <4>1. j - 1 = k - 1
        BY <1>6, <2>1, <3>2 DEF Once
      <4>2. QED
        BY <1>1, <1>4, <4>1
    <3>3. QED
      BY <3>1, <3>2
  <2>2. QED
    BY <1>3, <2>1 DEF Once
<1>9. Range(r) = Range(s) \cup {v}
  <2>1. ASSUME NEW i \in Range(r)
        PROVE  i \in Range(s) \cup {v}
    BY <1>1, <1>5, <1>6 DEF Range
  <2>2. ASSUME NEW i \in Range(s) \cup {v}
        PROVE  i \in Range(r)
    BY <1>1, <1>5, <1>7 DEF Range
  <2>3. QED
    BY <2>1, <2>2
<1>10. QED
  BY <1>8, <1>9 DEF r, a

-----------------------------------------------------------------------------
(* cache_set().                                                            *)

Caches == [fifo : [Slots -> Nodes \cup {None}], entries : [Locs -> Seq(Slots)],
           nextvictim : Slots, addr : Clients \cup {None}]

\* Every chain e[l] holds the nodes of f whose ids belong there, each once.
Chained(f, e) ==
    \A l \in Locs : /\ Once(e[l])
                    /\ Range(e[l]) = {i \in Slots : f[i] # None /\ Loc(f[i].id) = l}

\* A cache holds nodes and chains.
LEMMA CacheIs ==
    ASSUME uc \in Caches
    PROVE  /\ uc.fifo \in [Slots -> Nodes \cup {None}]
           /\ uc.entries \in [Locs -> Seq(Slots)]
           /\ uc.nextvictim \in Slots /\ uc.addr \in Clients \cup {None}
           /\ \A i \in Used : /\ i \in Slots /\ uc.fifo[i] \in Nodes
                              /\ uc.fifo[i].id \in Ids /\ uc.fifo[i].buf \in Buffers
                              /\ uc.fifo[i].addr \in Clients \cup {None}
<1>1. /\ uc.fifo \in [Slots -> Nodes \cup {None}]
      /\ uc.entries \in [Locs -> Seq(Slots)]
      /\ uc.nextvictim \in Slots /\ uc.addr \in Clients \cup {None}
  BY DEF Caches
<1>2. \A i \in Used : i \in Slots /\ uc.fifo[i] \in Nodes
  BY <1>1 DEF Used
<1>3. QED
  BY <1>1, <1>2 DEF Nodes

\* The victim leaves its chain, and nothing else changes.
LEMMA UnchainedIs ==
    ASSUME uc \in Caches, Chained(uc.fifo, uc.entries), NEW v \in Slots
    PROVE  /\ Unchained(v) \in [Locs -> Seq(Slots)]
           /\ \A l \in Locs : /\ Once(Unchained(v)[l])
                              /\ Range(Unchained(v)[l]) = Range(uc.entries[l]) \ {v}
<1> DEFINE L == Loc(uc.fifo[v].id)
           chain == uc.entries[L]
           P == {j \in DOMAIN chain : chain[j] = v}
           u == RemoveAt(chain, First(P))
<1>1. uc.entries \in [Locs -> Seq(Slots)]
  BY CacheIs
<1>2. CASE v \notin Used
  <2>1. Unchained(v) = uc.entries
    BY <1>2 DEF Unchained
  <2>2. \A l \in Locs : v \notin Range(uc.entries[l])
    BY <1>2 DEF Chained, Used
  <2>3. QED
    BY <1>1, <2>1, <2>2 DEF Chained
<1>3. CASE v \in Used
  <2>1. L \in Locs
    BY <1>3, CacheIs, LocType
  <2>2. Once(chain) /\ v \in Range(chain)
    BY <1>3, <2>1 DEF Chained, Used
  <2>3. P \in SUBSET Nat /\ P # {}
    <3>1. Len(chain) \in Nat /\ DOMAIN chain = 1..Len(chain)
          /\ \E j \in DOMAIN chain : chain[j] = v
      BY <2>2, OnceIs
    <3>2. QED
      BY <3>1
  <2>4. First(P) \in P
    BY <2>3, FirstIs
  <2>5. First(P) \in DOMAIN chain /\ chain[First(P)] = v
    BY <2>4
  <2>6. Once(u) /\ Range(u) = Range(chain) \ {v}
    BY <2>2, <2>5, OnceRemove
  <2>7. Unchained(v) = [uc.entries EXCEPT ![L] = u]
    BY <1>3 DEF Unchained
  <2> HIDE DEF u
  <2>8. /\ Unchained(v)[L] = u
        /\ \A l \in Locs : l # L => Unchained(v)[l] = uc.entries[l]
    BY <1>1, <2>1, <2>7
  <2>9. \A l \in Locs : l # L => v \notin Range(uc.entries[l])
    BY <1>3 DEF Chained, Used
  <2>10. u \in Seq(Slots)
    BY <2>6 DEF Once
  <2>11. Unchained(v) \in [Locs -> Seq(Slots)]
    BY <1>1, <2>1, <2>7, <2>10
  <2>12. ASSUME NEW l \in Locs
         PROVE  /\ Once(Unchained(v)[l])
                /\ Range(Unchained(v)[l]) = Range(uc.entries[l]) \ {v}
    <3>1. CASE l = L
      BY <2>6, <2>8, <3>1
    <3>2. CASE l # L
      BY <2>8, <2>9, <3>2 DEF Chained
    <3>3. QED
      BY <3>1, <3>2
  <2>13. QED
    BY <2>11, <2>12
<1>4. QED
  BY <1>2, <1>3

\* A node for the reply just sent takes the place of the victim.
LEMMA CacheSetIs ==
    ASSUME uc \in Caches, Chained(uc.fifo, uc.entries), rbuf \in Buffers,
           NEW id \in Ids, NEW addr \in Clients \cup {None}
    PROVE  LET n == CacheSet(id, addr) IN
           /\ n \in Caches /\ Chained(n.fifo, n.entries)
           /\ n.addr = addr
           /\ n.fifo = [uc.fifo EXCEPT ![uc.nextvictim] =
                           [id |-> id, addr |-> addr, buf |-> rbuf]]
<1> DEFINE v == uc.nextvictim
           u == Unchained(v)
           new == [id |-> id, addr |-> addr, buf |-> rbuf]
           f == [uc.fifo EXCEPT ![v] = new]
           e == [u EXCEPT ![Loc(id)] = <<v>> \o @]
           n == CacheSet(id, addr)
<1>1. /\ v \in Slots /\ uc.fifo \in [Slots -> Nodes \cup {None}]
  BY CacheIs
<1>2. n = [fifo |-> f, entries |-> e, nextvictim |-> (v + 1) % Size, addr |-> addr]
  BY DEF CacheSet, Traded
<1>3. new \in Nodes /\ new # None /\ new.id = id
  BY NoneAssumption DEF Nodes
<1>4. Loc(id) \in Locs
  BY LocType
<1>5. /\ u \in [Locs -> Seq(Slots)]
      /\ \A l \in Locs : Once(u[l]) /\ Range(u[l]) = Range(uc.entries[l]) \ {v}
  BY <1>1, UnchainedIs
<1> HIDE DEF new, u, v
<1>6. /\ Once(<<v>> \o u[Loc(id)])
      /\ Range(<<v>> \o u[Loc(id)]) = Range(u[Loc(id)]) \cup {v}
  <2>1. Once(u[Loc(id)]) /\ v \notin Range(u[Loc(id)])
    BY <1>4, <1>5
  <2>2. QED
    BY <1>1, <2>1, OncePush
<1>7. /\ f \in [Slots -> Nodes \cup {None}] /\ f[v] = new
      /\ \A i \in Slots : i # v => f[i] = uc.fifo[i]
  BY <1>1, <1>3
<1>8. /\ e \in [Locs -> Seq(Slots)] /\ e[Loc(id)] = <<v>> \o u[Loc(id)]
      /\ \A l \in Locs : l # Loc(id) => e[l] = u[l]
  <2>1. <<v>> \o u[Loc(id)] \in Seq(Slots)
    BY <1>6 DEF Once
  <2> DEFINE w == <<v>> \o u[Loc(id)]
  <2>2. e = [u EXCEPT ![Loc(id)] = w]
    OBVIOUS
  <2> HIDE DEF w, e
  <2>3. QED
    BY <1>4, <1>5, <2>1, <2>2 DEF w
<1>9. n \in Caches
  <2>1. (v + 1) % Size \in Slots
    BY <1>1, SlotType
  <2> HIDE DEF f, e, n
  <2>2. QED
    BY <1>2, <1>7, <1>8, <2>1 DEF Caches
<1>10. ASSUME NEW l \in Locs
       PROVE  /\ Once(e[l])
              /\ Range(e[l]) = {i \in Slots : f[i] # None /\ Loc(f[i].id) = l}
  <2> HIDE DEF f, e
  <2> DEFINE R == {i \in Slots : f[i] # None /\ Loc(f[i].id) = l}
             S == {i \in Slots : uc.fifo[i] # None /\ Loc(uc.fifo[i].id) = l}
  <2>1. Range(uc.entries[l]) = S
    BY DEF Chained
  <2>2. R = IF l = Loc(id) THEN (S \ {v}) \cup {v} ELSE S \ {v}
    <3>1. ASSUME NEW i \in Slots, i # v
          PROVE  i \in R <=> i \in S
      BY <1>7, <3>1
    <3>2. v \in R <=> l = Loc(id)
      BY <1>1, <1>3, <1>7
    <3>3. R \subseteq Slots /\ S \subseteq Slots
      OBVIOUS
    <3> HIDE DEF R, S
    <3>4. QED
      BY <1>1, <3>1, <3>2, <3>3
  <2> HIDE DEF R, S
  <2>3. CASE l = Loc(id)
    BY <1>4, <1>5, <1>6, <1>8, <2>1, <2>2, <2>3 DEF R
  <2>4. CASE l # Loc(id)
    BY <1>5, <1>8, <2>1, <2>2, <2>4 DEF R
  <2>5. QED
    BY <2>3, <2>4
<1>11. Chained(f, e)
  BY <1>10 DEF Chained
<1>12. n.fifo = f /\ n.entries = e /\ n.addr = addr
  BY <1>2
<1>13. QED
  BY <1>9, <1>11, <1>12 DEF v, new

-----------------------------------------------------------------------------
(* The invariant of clients, network and cache.                            *)

Requests == [from : Clients, id : Ids, call : Calls]
Answers == [to : Clients, id : Ids, res : Calls \cup {None}]

ClientOK ==
    /\ made \in [Clients -> Nat] /\ \A c \in Clients : made[c] <= MaxCalls[c]
    /\ status \in [Calls -> {"unused", "open", "failed", "ok"}]
    /\ result \in [Calls -> Calls \cup {None}]
    /\ xid \in [Clients -> 0..Mod - 1]
    /\ waited \in [Clients -> 0..Waits - 1]
    /\ refreshes \in [Clients -> 0..NRefreshes]

ServerOK ==
    /\ ran \subseteq Calls /\ enabled \in BOOLEAN
    /\ mem \in [Buffers -> Replies \cup {None}] /\ rbuf \in Buffers
    /\ uc \in Caches

\* Every buffer has one owner, and that of a node holds the reply to its id.
Owned ==
    /\ \A i \in Used : uc.fifo[i].buf # rbuf
    /\ \A i, j \in Used : uc.fifo[i].buf = uc.fifo[j].buf => i = j
    /\ \A i \in Used : /\ mem[uc.fifo[i].buf] \in Replies
                       /\ mem[uc.fifo[i].buf].id = uc.fifo[i].id

CacheOK == Chained(uc.fifo, uc.entries) /\ Owned

IInv == ClientOK /\ requests \subseteq Requests /\ replies \subseteq Answers
          /\ ServerOK /\ CacheOK

\* A call is a client with a number.
LEMMA CallIs ==
    /\ \A k \in Calls : /\ k[1] \in Clients /\ k[2] \in 1..MaxCalls[k[1]]
                        /\ k = <<k[1], k[2]>>
    /\ \A c \in Clients : \A n \in 1..MaxCalls[c] : <<c, n>> \in Calls
    /\ None \notin Calls
<1>1. ASSUME NEW k \in Calls
      PROVE  /\ k[1] \in Clients /\ k[2] \in 1..MaxCalls[k[1]]
             /\ k = <<k[1], k[2]>>
  <2>1. PICK c \in Clients : k \in {c} \X (1..MaxCalls[c])
    BY DEF Calls
  <2>2. QED
    BY <2>1
<1>2. ASSUME NEW c \in Clients, NEW n \in 1..MaxCalls[c]
      PROVE  <<c, n>> \in Calls
  <2>1. <<c, n>> \in {c} \X (1..MaxCalls[c])
    OBVIOUS
  <2>2. QED
    BY <2>1 DEF Calls
<1>3. QED
  BY <1>1, <1>2, NoneAssumption

\* The call a client waits for is one of its calls.
LEMMA CurrentIs ==
    ASSUME ClientOK, NEW c \in Clients, Waiting(c)
    PROVE  Current(c) \in Calls /\ Current(c)[1] = c
<1>1. made[c] \in 1..MaxCalls[c]
  <2>1. made[c] \in Nat /\ made[c] <= MaxCalls[c] /\ made[c] > 0 /\ MaxCalls[c] \in Nat
    BY RpcAssumption DEF ClientOK, Waiting
  <2>2. QED
    BY <2>1
<1>2. QED
  BY <1>1, CallIs DEF Current

\* So is the next one.
LEMMA BeginIs ==
    ASSUME ClientOK, NEW c \in Clients, Begin(c)
    PROVE  /\ <<c, made[c] + 1>> \in Calls /\ made' \in [Clients -> Nat]
           /\ \A d \in Clients : made'[d] <= MaxCalls[d]
<1>1. made \in [Clients -> Nat] /\ made[c] \in Nat /\ MaxCalls[c] \in Nat
      /\ made[c] < MaxCalls[c] /\ made' = [made EXCEPT ![c] = made[c] + 1]
  BY RpcAssumption DEF ClientOK, Begin
<1>2. made[c] + 1 \in 1..MaxCalls[c]
  BY <1>1
<1>3. QED
  BY <1>1, <1>2, CallIs DEF ClientOK

\* The locals of clntudp_call() keep their types.
LEMMA LocalsType ==
    ASSUME ClientOK, NEW c \in Clients, NEW w \in 0..Waits - 1,
           NEW n \in 0..NRefreshes, Locals(c, w, n)
    PROVE  /\ waited' \in [Clients -> 0..Waits - 1]
           /\ refreshes' \in [Clients -> 0..NRefreshes]
  BY DEF ClientOK, Locals

\* A call ends.
LEMMA EndsType ==
    ASSUME ClientOK, NEW k \in Calls, NEW e \in {"failed", "ok"}, Ends(k, e)
    PROVE  /\ status' \in [Calls -> {"unused", "open", "failed", "ok"}]
           /\ waited' \in [Clients -> 0..Waits - 1]
           /\ refreshes' \in [Clients -> 0..NRefreshes]
<1>1. 0 \in 0..Waits - 1 /\ 0 \in 0..NRefreshes /\ k[1] \in Clients
  BY RpcAssumption, CallIs
<1>2. Locals(k[1], 0, 0) /\ status' = [status EXCEPT ![k] = e]
  BY DEF Ends
<1>3. QED
  BY <1>1, <1>2, LocalsType DEF ClientOK

LEMMA RequestType ==
    ASSUME NEW k \in Calls, NEW n \in 0..Mod - 1
    PROVE  Request(k, n) \in Requests
<1>1. k[1] \in Clients
  BY CallIs
<1>2. Id(k[1], n) \in Ids
  BY <1>1, IdType
<1>3. QED
  BY <1>1, <1>2 DEF Request, Requests

\* A new id is sent, or the call fails.
LEMMA CallAgainType ==
    ASSUME ClientOK, requests \subseteq Requests, NEW k \in Calls,
           NEW w \in 0..Waits - 1, NEW n \in 0..NRefreshes, CallAgain(k, w, n)
    PROVE  /\ status' \in [Calls -> {"unused", "open", "failed", "ok"}]
           /\ waited' \in [Clients -> 0..Waits - 1]
           /\ refreshes' \in [Clients -> 0..NRefreshes]
           /\ xid' \in [Clients -> 0..Mod - 1] /\ requests' \subseteq Requests
           /\ UNCHANGED result
<1>1. k[1] \in Clients
  BY CallIs
<1>2. xid[k[1]] \in 0..Mod - 1 /\ Bump(xid[k[1]]) \in 0..Mod - 1
  BY <1>1, IdType DEF ClientOK
<1>3. xid' \in [Clients -> 0..Mod - 1]
  BY <1>1, <1>2 DEF ClientOK, CallAgain, NewId
<1>4. CASE Send(k, Bump(xid[k[1]])) /\ status' = [status EXCEPT ![k] = "open"]
           /\ Locals(k[1], w, n) /\ UNCHANGED result
  BY <1>1, <1>2, <1>3, <1>4, LocalsType, RequestType DEF Send, ClientOK
<1>5. CASE Fails(k) /\ UNCHANGED requests
  BY <1>3, <1>5, EndsType DEF Fails
<1>6. QED
  BY <1>4, <1>5 DEF CallAgain

\* The server and its cache do not change with a client.
LEMMA ServerSame ==
    ASSUME ServerOK, CacheOK, UNCHANGED svars
    PROVE  ServerOK' /\ CacheOK'
  BY DEF ServerOK, CacheOK, Owned, Used, Chained, svars

LEMMA ClientStep ==
    ASSUME IInv, NEW c \in Clients,
           \/ Call(c) \/ Batch(c) \/ Timeout(c) \/ CantRecv(c)
           \/ \E r \in replies : Success(c, r) \/ Refused(c, r)
    PROVE  IInv'
<1>1. /\ ClientOK /\ requests \subseteq Requests /\ replies \subseteq Answers
      /\ ServerOK /\ CacheOK
  BY DEF IInv
<1>2. UNCHANGED <<replies, svars>>
  BY DEF Call, Batch, Timeout, CantRecv, Success, Refused
<1>3. ServerOK' /\ CacheOK' /\ replies' \subseteq Answers
  BY <1>1, <1>2, ServerSame
<1> SUFFICES ClientOK' /\ requests' \subseteq Requests
  BY <1>3 DEF IInv
<1>4. NRefreshes \in 0..NRefreshes /\ 0 \in 0..Waits - 1
  BY RpcAssumption
<1>5. waited[c] \in 0..Waits - 1 /\ refreshes[c] \in 0..NRefreshes /\ xid[c] \in 0..Mod - 1
  BY <1>1 DEF ClientOK
<1>6. CASE Call(c)
  <2>1. Begin(c) /\ CallAgain(<<c, made[c] + 1>>, 0, NRefreshes)
    BY <1>6 DEF Call
  <2>2. /\ <<c, made[c] + 1>> \in Calls /\ made' \in [Clients -> Nat]
        /\ \A d \in Clients : made'[d] <= MaxCalls[d]
    BY <1>1, <2>1, BeginIs
  <2>3. QED
    BY <1>1, <1>4, <2>1, <2>2, CallAgainType DEF ClientOK
<1>7. CASE Batch(c)
  <2> DEFINE k == <<c, made[c] + 1>>
  <2>1. Begin(c) /\ NewId(k) /\ Send(k, Bump(xid[c])) /\ Fails(k) /\ k[1] = c
    BY <1>7 DEF Batch
  <2>2. /\ k \in Calls /\ made' \in [Clients -> Nat]
        /\ \A d \in Clients : made'[d] <= MaxCalls[d]
    BY <1>1, <2>1, BeginIs
  <2> HIDE DEF k
  <2>3. Bump(xid[c]) \in 0..Mod - 1
    BY <1>5, IdType
  <2>4. xid' \in [Clients -> 0..Mod - 1]
    BY <1>1, <2>1, <2>3 DEF ClientOK, NewId
  <2>5. requests' \subseteq Requests
    BY <1>1, <2>1, <2>2, <2>3, RequestType DEF Send
  <2>6. /\ status' \in [Calls -> {"unused", "open", "failed", "ok"}]
        /\ waited' \in [Clients -> 0..Waits - 1]
        /\ refreshes' \in [Clients -> 0..NRefreshes] /\ UNCHANGED result
    BY <1>1, <2>1, <2>2, EndsType DEF Fails
  <2>7. QED
    BY <1>1, <2>2, <2>4, <2>5, <2>6 DEF ClientOK
<1>8. ASSUME Waiting(c), Fails(Current(c)), UNCHANGED <<made, xid, requests>>
      PROVE  ClientOK' /\ requests' \subseteq Requests
  <2>1. Current(c) \in Calls
    BY <1>1, <1>8, CurrentIs
  <2>2. /\ status' \in [Calls -> {"unused", "open", "failed", "ok"}]
        /\ waited' \in [Clients -> 0..Waits - 1]
        /\ refreshes' \in [Clients -> 0..NRefreshes] /\ UNCHANGED result
    BY <1>1, <1>8, <2>1, EndsType DEF Fails
  <2>3. QED
    BY <1>1, <1>8, <2>2 DEF ClientOK
<1>9. CASE Timeout(c)
  <2>1. Waiting(c) /\ UNCHANGED <<made, xid>>
    BY <1>9 DEF Timeout
  <2>2. CASE /\ TimeLeft(c) /\ Locals(c, waited[c] + 1, refreshes[c])
             /\ Send(Current(c), xid[c]) /\ UNCHANGED <<status, result>>
    <3>1. waited[c] + 1 \in 0..Waits - 1
      BY <1>5, <2>2, RpcAssumption DEF TimeLeft
    <3>2. Current(c) \in Calls
      BY <1>1, <2>1, CurrentIs
    <3>3. /\ waited' \in [Clients -> 0..Waits - 1]
          /\ refreshes' \in [Clients -> 0..NRefreshes]
      BY <1>1, <1>5, <2>2, <3>1, LocalsType
    <3>4. requests' \subseteq Requests
      BY <1>1, <1>5, <2>2, <3>2, RequestType DEF Send
    <3>5. QED
      BY <1>1, <2>1, <2>2, <3>3, <3>4 DEF ClientOK
  <2>3. CASE Fails(Current(c)) /\ UNCHANGED requests
    BY <1>8, <2>1, <2>3
  <2>4. QED
    BY <1>9, <2>2, <2>3 DEF Timeout
<1>10. CASE CantRecv(c)
  BY <1>8, <1>10 DEF CantRecv
<1>11. ASSUME NEW r \in replies, Success(c, r)
       PROVE  ClientOK' /\ requests' \subseteq Requests
  <2>1. CASE Fails(Current(c))
    BY <1>8, <1>11, <2>1 DEF Success
  <2>2. CASE Ends(Current(c), "ok") /\ result' = [result EXCEPT ![Current(c)] = r.res]
    <3>1. Current(c) \in Calls /\ r.res \in Calls /\ UNCHANGED <<made, xid, requests>>
      BY <1>1, <1>11, CurrentIs DEF Success
    <3>2. /\ status' \in [Calls -> {"unused", "open", "failed", "ok"}]
          /\ waited' \in [Clients -> 0..Waits - 1]
          /\ refreshes' \in [Clients -> 0..NRefreshes]
      BY <1>1, <2>2, <3>1, EndsType
    <3>3. QED
      BY <1>1, <2>2, <3>1, <3>2 DEF ClientOK
  <2>3. QED
    BY <1>11, <2>1, <2>2 DEF Success
<1>12. ASSUME NEW r \in replies, Refused(c, r)
       PROVE  ClientOK' /\ requests' \subseteq Requests
  <2>1. CASE Fails(Current(c)) /\ UNCHANGED <<xid, requests>>
    BY <1>8, <1>12, <2>1 DEF Refused
  <2>2. CASE refreshes[c] > 0 /\ CallAgain(Current(c), waited[c], refreshes[c] - 1)
    <3>1. Current(c) \in Calls /\ UNCHANGED made
      BY <1>1, <1>12, CurrentIs DEF Refused
    <3>2. refreshes[c] - 1 \in 0..NRefreshes
      BY <1>5, <2>2, RpcAssumption
    <3>3. QED
      BY <1>1, <1>5, <2>2, <3>1, <3>2, CallAgainType DEF ClientOK
  <2>3. QED
    BY <1>12, <2>1, <2>2 DEF Refused
<1>13. QED
  BY <1>6, <1>7, <1>9, <1>10, <1>11, <1>12

-----------------------------------------------------------------------------
(* The server's steps.                                                     *)

\* What cache_get() finds is a node for the id of the request.
LEMMA HitIs ==
    ASSUME ServerOK, CacheOK, NEW q \in Requests, Hit(q)
    PROVE  \E i \in Used : /\ uc.fifo[i].id = q.id
                           /\ mem[uc.fifo[i].buf] \in Replies
                           /\ FromCache(q) = {[to |-> q.from, id |-> q.id,
                                               res |-> mem[uc.fifo[i].buf].res]}
<1> DEFINE chain == uc.entries[Loc(q.id)]
           P == Matches(q.id)
           i == chain[First(P)]
<1>1. q.id \in Ids /\ Loc(q.id) \in Locs
  BY LocType DEF Requests
<1>2. Once(chain) /\ \A j \in Range(chain) : j \in Used
  BY <1>1 DEF CacheOK, Chained, Used
<1>3. P \in SUBSET Nat /\ P # {}
  <2>1. Len(chain) \in Nat /\ DOMAIN chain = 1..Len(chain)
    BY <1>2, OnceIs
  <2>2. P \subseteq DOMAIN chain
    BY DEF Matches
  <2>3. QED
    BY <2>1, <2>2 DEF Hit
<1>4. First(P) \in P
  BY <1>3, FirstIs
<1>5. First(P) \in DOMAIN chain /\ uc.fifo[i].id = q.id
  BY <1>4 DEF Matches
<1>6. i \in Used
  BY <1>2, <1>5, OnceIs
<1>7. mem[uc.fifo[i].buf] \in Replies /\ mem[uc.fifo[i].buf].id = q.id
  BY <1>5, <1>6 DEF CacheOK, Owned
<1>8. FromCache(q) = {[to |-> q.from, id |-> mem[uc.fifo[i].buf].id,
                       res |-> mem[uc.fifo[i].buf].res]}
  BY DEF FromCache, Match
<1>9. QED
  BY <1>5, <1>6, <1>7, <1>8

\* Whatever the cache sends is addressed to the sender of the request.
LEMMA FromCacheType ==
    ASSUME ServerOK, CacheOK, NEW q \in Requests
    PROVE  FromCache(q) \subseteq Answers /\ Saved(q) \in Clients \cup {None}
<1>1. q.from \in Clients /\ q.id \in Ids
  BY DEF Requests
<1>2. Saved(q) \in Clients \cup {None}
  BY <1>1, CacheIs DEF Saved, ServerOK
<1>3. CASE Hit(q)
  <2>1. PICK i \in Used : /\ mem[uc.fifo[i].buf] \in Replies
                          /\ FromCache(q) = {[to |-> q.from, id |-> q.id,
                                              res |-> mem[uc.fifo[i].buf].res]}
    BY <1>3, HitIs
  <2>2. mem[uc.fifo[i].buf].res \in Calls \cup {None}
    BY <2>1 DEF Replies
  <2>3. QED
    BY <1>1, <1>2, <2>1, <2>2 DEF Answers
<1>4. CASE ~Hit(q)
  BY <1>2, <1>4 DEF FromCache
<1>5. QED
  BY <1>3, <1>4

\* The buffer that the transport gets belongs to nobody else any more.
LEMMA NewBufferIs ==
    ASSUME ServerOK, CacheOK, CanCache
    PROVE  /\ NewBuffer \in Buffers /\ NewBuffer # rbuf
           /\ \A i \in Used : i # uc.nextvictim => uc.fifo[i].buf # NewBuffer
<1> DEFINE v == uc.nextvictim
<1>1. v \in Slots /\ \A i \in Used : uc.fifo[i].buf \in Buffers
  BY CacheIs DEF ServerOK
<1>2. CASE v \in Used
  <2>1. NewBuffer = uc.fifo[v].buf
    BY <1>2 DEF NewBuffer
  <2>2. QED
    BY <1>1, <1>2, <2>1 DEF CacheOK, Owned
<1>3. CASE v \notin Used
  <2>1. NewBuffer \in Free
    BY <1>3 DEF NewBuffer, CanCache
  <2>2. QED
    BY <2>1 DEF Free
<1>4. QED
  BY <1>2, <1>3

\* Nodes keep their replies, except one that gets a new id and a new reply.
Filed(id, res) ==
    \A i \in Used' :
        \/ uc'.fifo[i].id = id /\ mem'[uc'.fifo[i].buf].res = res
        \/ /\ i \in Used /\ uc'.fifo[i] = uc.fifo[i]
           /\ mem'[uc'.fifo[i].buf] = mem[uc.fifo[i].buf]

\* cache_set() with the reply in the buffer of the transport.
LEMMA CachedStep ==
    ASSUME ServerOK, CacheOK, CanCache, NEW id \in Ids, NEW res \in Calls \cup {None},
           NEW addr \in Clients \cup {None}, ran' \subseteq Calls, UNCHANGED enabled,
           uc' = CacheSet(id, addr), rbuf' = Traded.transport,
           mem' = [mem EXCEPT ![NewBuffer] = None, ![rbuf] = [id |-> id, res |-> res]]
    PROVE  ServerOK' /\ CacheOK' /\ Filed(id, res)
<1> DEFINE v == uc.nextvictim
           b == NewBuffer
           reply == [id |-> id, res |-> res]
           new == [id |-> id, addr |-> addr, buf |-> rbuf]
<1>1. uc \in Caches /\ rbuf \in Buffers /\ mem \in [Buffers -> Replies \cup {None}]
      /\ Chained(uc.fifo, uc.entries)
  BY DEF ServerOK, CacheOK
<1>2. /\ uc' \in Caches /\ Chained(uc.fifo, uc.entries)'
      /\ uc'.fifo = [uc.fifo EXCEPT ![v] = new]
  BY <1>1, CacheSetIs
<1>3. b \in Buffers /\ b # rbuf /\ \A i \in Used : i # v => uc.fifo[i].buf # b
  BY NewBufferIs
<1>4. rbuf' = b
  BY DEF Traded
<1>5. reply \in Replies /\ reply.id = id /\ reply.res = res
  BY DEF Replies
<1> HIDE DEF b, reply
<1>6. mem' = [mem EXCEPT ![b] = None, ![rbuf] = reply]
  BY DEF b, reply
<1>7. /\ mem' \in [Buffers -> Replies \cup {None}] /\ mem'[rbuf] = reply
      /\ \A x \in Buffers : x # b /\ x # rbuf => mem'[x] = mem[x]
  BY <1>1, <1>3, <1>5, <1>6
<1>8. ServerOK'
  BY <1>2, <1>3, <1>4, <1>7 DEF ServerOK
<1>9. v \in Slots /\ uc.fifo \in [Slots -> Nodes \cup {None}]
      /\ \A i \in Used : i \in Slots /\ uc.fifo[i].buf \in Buffers
  BY <1>1, CacheIs
<1>10. uc'.fifo[v] = new /\ \A i \in Slots : i # v => uc'.fifo[i] = uc.fifo[i]
  BY <1>2, <1>9
<1>11. new.buf = rbuf /\ new.id = id
  OBVIOUS
<1> HIDE DEF new
<1>12. \A i \in Used' : i = v \/ (i # v /\ i \in Used /\ uc'.fifo[i] = uc.fifo[i])
  BY <1>10 DEF Used
<1>13. \A i \in Used : uc.fifo[i].buf # rbuf /\ mem[uc.fifo[i].buf] \in Replies
                         /\ mem[uc.fifo[i].buf].id = uc.fifo[i].id
  BY DEF CacheOK, Owned
<1>14. \A i \in Used' : uc'.fifo[i].buf # rbuf'
  BY <1>3, <1>4, <1>10, <1>11, <1>12
<1>15. \A i, j \in Used' : uc'.fifo[i].buf = uc'.fifo[j].buf => i = j
  <2>1. \A i, j \in Used : uc.fifo[i].buf = uc.fifo[j].buf => i = j
    BY DEF CacheOK, Owned
  <2>2. QED
    BY <1>10, <1>11, <1>12, <1>13, <2>1
<1>16. ASSUME NEW i \in Used'
       PROVE  /\ mem'[uc'.fifo[i].buf] \in Replies
              /\ mem'[uc'.fifo[i].buf].id = uc'.fifo[i].id
              /\ \/ uc'.fifo[i].id = id /\ mem'[uc'.fifo[i].buf].res = res
                 \/ /\ i \in Used /\ uc'.fifo[i] = uc.fifo[i]
                    /\ mem'[uc'.fifo[i].buf] = mem[uc.fifo[i].buf]
  <2>1. CASE i = v
    BY <1>5, <1>7, <1>10, <1>11, <2>1
  <2>2. CASE i # v
    <3>1. i \in Used /\ uc'.fifo[i] = uc.fifo[i]
      BY <1>12, <2>2
    <3>2. mem'[uc.fifo[i].buf] = mem[uc.fifo[i].buf]
      BY <1>3, <1>7, <1>9, <1>13, <2>2, <3>1
    <3>3. QED
      BY <1>13, <3>1, <3>2
  <2>3. QED
    BY <2>1, <2>2
<1>17. Owned'
  BY <1>14, <1>15, <1>16 DEF Owned
<1>18. QED
  BY <1>2, <1>8, <1>16, <1>17 DEF CacheOK, Filed

\* The cache is left alone, and the buffer of the transport is used again.
LEMMA UncachedStep ==
    ASSUME ServerOK, CacheOK, NEW q \in Requests, Uncached(q), ran' \subseteq Calls,
           UNCHANGED enabled
    PROVE  ServerOK' /\ CacheOK' /\ \A id, res : Filed(id, res)
<1> DEFINE a == IF enabled THEN Saved(q) ELSE None
<1>1. a \in Clients \cup {None}
  BY FromCacheType
<1>2. uc \in Caches /\ uc' = [uc EXCEPT !.addr = a]
  BY DEF ServerOK, Uncached
<1> HIDE DEF a
<1>3. uc' \in Caches /\ uc'.fifo = uc.fifo /\ uc'.entries = uc.entries
  BY <1>1, <1>2 DEF Caches
<1>4. /\ mem \in [Buffers -> Replies \cup {None}] /\ rbuf \in Buffers
      /\ mem' = [mem EXCEPT ![rbuf] = None] /\ rbuf' = rbuf
  BY DEF ServerOK, Uncached
<1>5. /\ mem' \in [Buffers -> Replies \cup {None}]
      /\ \A x \in Buffers : x # rbuf => mem'[x] = mem[x]
  BY <1>4
<1>6. Used' = Used /\ \A i \in Used : uc.fifo[i].buf \in Buffers
  BY <1>2, <1>3, CacheIs DEF Used
<1>7. Owned'
  BY <1>3, <1>4, <1>5, <1>6 DEF Owned, CacheOK
<1>8. Chained(uc.fifo, uc.entries)'
  BY <1>3 DEF Chained, CacheOK
<1>9. ServerOK'
  BY <1>3, <1>4, <1>5 DEF ServerOK
<1>10. \A i \in Used : mem'[uc.fifo[i].buf] = mem[uc.fifo[i].buf]
  BY <1>5, <1>6 DEF CacheOK, Owned
<1>11. \A id, res : Filed(id, res)
  BY <1>3, <1>6, <1>10 DEF Filed
<1>12. QED
  BY <1>7, <1>8, <1>9, <1>11 DEF CacheOK

\* A request that was sent may be answered with its own call or a refusal.
LEMMA AnswerIs ==
    ASSUME IInv, NEW q \in requests, NEW res \in {None, q.call}, Answer(q, res)
    PROVE  /\ q \in Requests /\ res \in Calls \cup {None} /\ ran' \subseteq Calls
           /\ [to |-> q.from, id |-> q.id, res |-> res] \in Answers
<1>1. q \in Requests /\ q.from \in Clients /\ q.id \in Ids /\ q.call \in Calls
  BY DEF IInv, Requests
<1>2. res \in Calls \cup {None} /\ ran' \subseteq Calls
  BY <1>1 DEF Answer, IInv, ServerOK
<1>3. QED
  BY <1>1, <1>2 DEF Answers

LEMMA ServeStep ==
    ASSUME IInv, NEW q \in requests, NEW res \in {None, q.call}, Serve(q, res)
    PROVE  IInv' /\ Filed(q.id, res)
<1> DEFINE reply == [to |-> q.from, id |-> q.id, res |-> res]
<1>1. /\ q \in Requests /\ res \in Calls \cup {None} /\ ran' \subseteq Calls
      /\ reply \in Answers /\ q.id \in Ids
  BY AnswerIs DEF Serve, Requests
<1> HIDE DEF reply
<1>2. ServerOK /\ CacheOK /\ replies \subseteq Answers
  BY DEF IInv
<1>3. FromCache(q) \subseteq Answers /\ Saved(q) \in Clients \cup {None}
  BY <1>1, <1>2, FromCacheType
<1>4. replies' \subseteq Answers
  BY <1>1, <1>2, <1>3 DEF Serve, reply
<1>5. UNCHANGED <<cvars, requests, enabled>>
  BY DEF Serve
<1>6. ASSUME enabled, CanCache, uc' = CacheSet(q.id, Saved(q)), rbuf' = Traded.transport,
             mem' = [mem EXCEPT ![NewBuffer] = None,
                                ![rbuf] = [id |-> q.id, res |-> res]]
      PROVE  ServerOK' /\ CacheOK' /\ Filed(q.id, res)
  BY <1>1, <1>2, <1>3, <1>5, <1>6, CachedStep
<1>7. ASSUME Uncached(q)
      PROVE  ServerOK' /\ CacheOK' /\ Filed(q.id, res)
  BY <1>1, <1>2, <1>5, <1>7, UncachedStep
<1>8. ServerOK' /\ CacheOK' /\ Filed(q.id, res)
  BY <1>6, <1>7 DEF Serve
<1>9. ClientOK' /\ requests' \subseteq Requests
  BY <1>5 DEF IInv, ClientOK, cvars
<1>10. QED
  BY <1>4, <1>8, <1>9 DEF IInv

LEMMA ServeUncachedStep ==
    ASSUME IInv, NEW q \in requests, NEW res \in {None, q.call}, NEW sent,
           ServeUncached(q, res, sent)
    PROVE  IInv' /\ Filed(q.id, res)
<1> DEFINE reply == [to |-> q.from, id |-> q.id, res |-> res]
<1>1. /\ q \in Requests /\ res \in Calls \cup {None} /\ ran' \subseteq Calls
      /\ reply \in Answers
  BY AnswerIs DEF ServeUncached
<1> HIDE DEF reply
<1>2. ServerOK /\ CacheOK /\ replies \subseteq Answers
  BY DEF IInv
<1>3. FromCache(q) \subseteq Answers
  BY <1>1, <1>2, FromCacheType
<1>4. replies' \subseteq Answers
  BY <1>1, <1>2, <1>3 DEF ServeUncached, reply
<1>5. UNCHANGED <<cvars, requests, enabled>> /\ Uncached(q)
  BY DEF ServeUncached
<1>6. ServerOK' /\ CacheOK' /\ Filed(q.id, res)
  BY <1>1, <1>2, <1>5, UncachedStep
<1>7. ClientOK' /\ requests' \subseteq Requests
  BY <1>5 DEF IInv, ClientOK, cvars
<1>8. QED
  BY <1>4, <1>6, <1>7 DEF IInv

\* svcudp_enablecache() makes an empty cache.
LEMMA EmptyIs ==
    /\ EmptyCache \in Caches /\ Chained(EmptyCache.fifo, EmptyCache.entries)
    /\ \A i \in Slots : EmptyCache.fifo[i] = None
    /\ [b \in Buffers |-> None] \in [Buffers -> Replies \cup {None}]
    /\ 0 \in Buffers
<1> DEFINE f == [i \in Slots |-> None]
           e == [l \in Locs |-> <<>>]
<1>1. EmptyCache = [fifo |-> f, entries |-> e, nextvictim |-> 0, addr |-> None]
  BY DEF EmptyCache, Locs
<1>2. \A i \in Slots : f[i] = None
  OBVIOUS
<1>3. \A l \in Locs : Once(e[l]) /\ Range(e[l]) = {}
  BY DEF Once, Range
<1>4. f \in [Slots -> Nodes \cup {None}] /\ e \in [Locs -> Seq(Slots)]
  OBVIOUS
<1> HIDE DEF f, e
<1>5. Chained(f, e)
  BY <1>2, <1>3 DEF Chained
<1>6. EmptyCache.fifo = f /\ EmptyCache.entries = e
  BY <1>1
<1>7. EmptyCache \in Caches
  BY <1>1, <1>4, SlotType DEF Caches
<1>8. 0 \in Buffers
  BY RpcAssumption DEF Buffers
<1>9. QED
  BY <1>2, <1>5, <1>6, <1>7, <1>8

LEMMA InitInv == Init => IInv
<1> SUFFICES ASSUME Init
             PROVE  IInv
  OBVIOUS
<1>1. ClientOK
  <2>1. 0 \in 0..Mod - 1 /\ 0 \in 0..Waits - 1 /\ 0 \in 0..NRefreshes
        /\ \A c \in Clients : 0 <= MaxCalls[c]
    BY RpcAssumption
  <2>2. QED
    BY <2>1 DEF Init, ClientOK
<1>2. ServerOK
  BY EmptyIs DEF Init, ServerOK
<1>3. Used = {} /\ Chained(uc.fifo, uc.entries)
  BY EmptyIs DEF Init, Used
<1>4. CacheOK
  BY <1>3 DEF CacheOK, Owned
<1>5. QED
  BY <1>1, <1>2, <1>4 DEF Init, IInv

LEMMA RestartStep == IInv /\ Restart => IInv'
<1> SUFFICES ASSUME IInv, Restart
             PROVE  IInv'
  OBVIOUS
<1>1. ServerOK'
  BY EmptyIs DEF IInv, Restart, ServerOK
<1>2. Used' = {} /\ Chained(uc.fifo, uc.entries)'
  BY EmptyIs DEF Restart, Used
<1>3. CacheOK'
  BY <1>2 DEF CacheOK, Owned
<1>4. QED
  BY <1>1, <1>3 DEF Restart, IInv, ClientOK, cvars

LEMMA NextInv == IInv /\ [Next]_vars => IInv'
<1> SUFFICES ASSUME IInv, [Next]_vars
             PROVE  IInv'
  OBVIOUS
<1>1. CASE UNCHANGED vars
  <2>1. ServerOK' /\ CacheOK'
    BY <1>1, ServerSame DEF IInv, vars
  <2>2. QED
    BY <1>1, <2>1 DEF IInv, ClientOK, vars, cvars
<1>2. CASE EnableCache
  <2>1. ServerOK'
    BY <1>2 DEF EnableCache, IInv, ServerOK
  <2>2. CacheOK'
    BY <1>2 DEF EnableCache, IInv, CacheOK, Owned, Used, Chained
  <2>3. QED
    BY <1>2, <2>1, <2>2 DEF EnableCache, IInv, ClientOK, cvars
<1>3. QED
  BY <1>1, <1>2, ClientStep, ServeStep, ServeUncachedStep, RestartStep DEF Next

\* The invariant of clients, network and cache.
THEOREM Invariance == Spec => []IInv
<1>1. IInv /\ [Next]_vars => IInv'
  BY NextInv
<1>2. QED
  BY <1>1, InitInv, PTL DEF Spec

\* TypeOK of the rpc run for any clients, calls and cache; in particular the
\* time that clntudp_call() waits adds up to less than its timeout.
THEOREM TypeCorrect == Spec => []TypeOK
<1>1. IInv => TypeOK
  <2> SUFFICES ASSUME IInv
               PROVE  TypeOK
    OBVIOUS
  <2>1. \A c \in Clients : made[c] \in 0..MaxCalls[c]
    BY RpcAssumption DEF IInv, ClientOK
  <2>2. uc.nextvictim \in Slots /\ uc.addr \in Clients \cup {None}
    BY CacheIs DEF IInv, ServerOK
  <2>3. QED
    BY <2>1, <2>2 DEF IInv, ClientOK, ServerOK, Requests, Answers, TypeOK
<1>2. QED
  BY <1>1, Invariance, PTL

\* CacheSound of the rpc run for a cache of any size: cache_set() always finds
\* its victim, however the chains collide, and no buffer is ever shared.
THEOREM Sound == Spec => []CacheSound
<1>1. IInv => CacheSound
  <2> SUFFICES ASSUME IInv
               PROVE  CacheSound
    OBVIOUS
  <2>1. uc \in Caches /\ Chained(uc.fifo, uc.entries) /\ DOMAIN uc.entries = Locs
    BY CacheIs DEF IInv, ServerOK, CacheOK
  <2>2. ASSUME NEW i \in Used, NEW l \in Locs
        PROVE  Cardinality({j \in DOMAIN uc.entries[l] : uc.entries[l][j] = i})
                   = IF l = Loc(uc.fifo[i].id) THEN 1 ELSE 0
    <3> DEFINE s == uc.entries[l]
               J == {j \in DOMAIN s : s[j] = i}
    <3>1. Once(s) /\ (i \in Range(s) <=> l = Loc(uc.fifo[i].id))
      BY <2>1 DEF Chained, Used
    <3> HIDE DEF s
    <3>2. CASE l = Loc(uc.fifo[i].id)
      <4>1. PICK j \in DOMAIN s : s[j] = i
        BY <3>1, <3>2 DEF Range
      <4>2. J = {j}
        BY <3>1, <4>1 DEF Once
      <4>3. Cardinality(J) = 1
        BY <4>2, FS_Singleton
      <4>4. QED
        BY <3>2, <4>3 DEF s
    <3>3. CASE l # Loc(uc.fifo[i].id)
      <4>1. J = {}
        BY <3>1, <3>3 DEF Range
      <4>2. Cardinality(J) = 0
        BY <4>1, FS_EmptySet
      <4>3. QED
        BY <3>3, <4>2 DEF s
    <3>4. QED
      BY <3>2, <3>3
  <2>3. QED
    BY <2>1, <2>2 DEF IInv, CacheOK, Owned, CacheSound
<1>2. QED
  BY <1>1, Invariance, PTL

\* NodesAnswer of the rpc run: the buffer of a node always holds the reply to
\* the transaction id of the node.
THEOREM NodesHold == Spec => []NodesAnswer
<1>1. IInv => NodesAnswer
  BY NoneAssumption DEF IInv, CacheOK, Owned, NodesAnswer
<1>2. QED
  BY <1>1, Invariance, PTL

-----------------------------------------------------------------------------
(* The right result: RpcUdp without its liveness implements RemoteCall     *)
(* when the ids of different clients differ and those of a client do not   *)
(* come round while it makes its calls.                                    *)

Distinct ==
    /\ \A c, d \in Clients : Base[c] = Base[d] => c = d
    /\ \A c \in Clients : MaxCalls[c] * (NRefreshes + 1) < Mod

\* A client uses up one id with each call and each refresh it has left.
Counted == \A c \in Clients : xid[c] + refreshes[c] <= made[c] * (NRefreshes + 1)

\* A request has an id that its client has used, for a call it has made.
Numbered ==
    \A q \in requests : /\ q.from = q.call[1] /\ q.call[2] <= made[q.from]
                        /\ \E n \in 0..xid[q.from] : q.id = Id(q.from, n)

\* The present id of a client that waits belongs to the call it waits for.
Fresh ==
    \A c \in Clients : Waiting(c) =>
        \A q \in requests : q.id = Id(c, xid[c]) => q.call = Current(c)

\* A reply has the id of a request for the call that was executed for it.
Caused(id, res) ==
    res # None => res \in ran /\ \E q \in requests : q.id = id /\ q.call = res
Heard ==
    /\ \A r \in replies : Caused(r.id, r.res)
    /\ \A i \in Used : Caused(uc.fifo[i].id, mem[uc.fifo[i].buf].res)

Begun == \A k \in Calls : (status[k] = "unused") <=> (k[2] > made[k[1]])
Right == \A k \in Calls : result[k] \in {None, k}

Ident == Counted /\ Numbered /\ Fresh /\ Heard /\ Begun /\ Right

\* The two halves of an id can be told apart.
LEMMA IdApart ==
    ASSUME Distinct, NEW c \in Clients, NEW d \in Clients,
           NEW m \in 0..Mod - 1, NEW n \in 0..Mod - 1, Id(c, m) = Id(d, n)
    PROVE  c = d /\ m = n
<1> DEFINE a == Base[c]
           b == Base[d]
<1>1. Half \in Nat \ {0} /\ Mod \in Nat /\ a \in 0..Half - 1 /\ b \in 0..Half - 1
  BY RpcAssumption
<1>2. m * Half + a = n * Half + b
  BY DEF Id
<1> HIDE DEF a, b
<1>3. \A x, y \in 0..Mod - 1 : x < y => x * Half + Half <= y * Half
  <2> SUFFICES ASSUME NEW x \in 0..Mod - 1, NEW y \in 0..Mod - 1, x < y
               PROVE  x * Half + Half <= y * Half
    OBVIOUS
  <2>1. x \in Nat /\ y \in Nat /\ x + 1 <= y
    BY <1>1
  <2>2. (x + 1) * Half <= y * Half
    BY <1>1, <2>1
  <2>3. (x + 1) * Half = x * Half + Half
    BY <1>1, <2>1
  <2>4. QED
    BY <2>2, <2>3
<1>4. m * Half \in Nat /\ n * Half \in Nat
  BY <1>1
<1>5. m = n
  <2> DEFINE x == m * Half
             y == n * Half
  <2>1. /\ x \in Nat /\ y \in Nat /\ x + a = y + b
        /\ (m < n => x + Half <= y) /\ (n < m => y + Half <= x)
    BY <1>2, <1>3, <1>4
  <2> HIDE DEF x, y
  <2>2. ~(m < n) /\ ~(n < m)
    BY <1>1, <2>1
  <2>3. QED
    BY <1>1, <2>2
<1>6. a = b
  <2> DEFINE x == m * Half
  <2>1. x \in Nat /\ x + a = x + b
    BY <1>2, <1>4, <1>5
  <2> HIDE DEF x
  <2>2. QED
    BY <1>1, <2>1
<1>7. QED
  BY <1>5, <1>6 DEF Distinct, a, b

\* There is a next id.
LEMMA NoWrap ==
    ASSUME Distinct, NEW c \in Clients, NEW x \in Nat, NEW m \in Nat, m <= MaxCalls[c],
           x + 1 <= m * (NRefreshes + 1)
    PROVE  x + 1 \in 0..Mod - 1 /\ Bump(x) = x + 1
<1>1. MaxCalls[c] \in Nat /\ NRefreshes \in Nat /\ Mod \in Nat \ {0}
      /\ MaxCalls[c] * (NRefreshes + 1) < Mod
  BY RpcAssumption DEF Distinct
<1> DEFINE y == m * (NRefreshes + 1)
           z == MaxCalls[c] * (NRefreshes + 1)
<1>2. y \in Nat /\ z \in Nat /\ y <= z
  BY <1>1
<1>3. x + 1 <= y /\ z < Mod
  BY <1>1
<1> HIDE DEF y, z
<1>4. x + 1 < Mod
  BY <1>1, <1>2, <1>3
<1>5. (x + 1) % Mod = x + 1
  BY <1>1, <1>4
<1>6. QED
  BY <1>1, <1>4, <1>5 DEF Bump

\* Replies stay caused when only clients move.
LEMMA HeardSame ==
    ASSUME Heard, requests \subseteq requests', UNCHANGED <<replies, svars>>
    PROVE  Heard'
<1>1. \A id, res : Caused(id, res) => Caused(id, res)'
  BY DEF Caused, svars
<1>2. QED
  BY <1>1 DEF Heard, Used, svars

\* A client takes its next id, for a new call or for one it tries again.
LEMMA SendNew ==
    ASSUME Distinct, IInv, IInv', Ident, NEW k \in Calls, NEW c \in Clients, c = k[1],
           made' = made \/ made' = [made EXCEPT ![c] = @ + 1], k[2] = made'[c],
           NewId(k), Counted', Bump(xid[c]) = xid[c] + 1,
           \/ requests' = requests
           \/ requests' = requests \cup {Request(k, Bump(xid[c]))},
           NEW e \in {"open", "failed"}, status' = [status EXCEPT ![k] = e],
           UNCHANGED <<result, replies, svars>>
    PROVE  Ident'
<1> DEFINE n == xid[c] + 1
           new == Request(k, n)
<1>1. /\ made \in [Clients -> Nat] /\ made' \in [Clients -> Nat]
      /\ xid \in [Clients -> 0..Mod - 1] /\ xid' \in [Clients -> 0..Mod - 1]
      /\ status \in [Calls -> {"unused", "open", "failed", "ok"}]
      /\ requests \subseteq Requests /\ Mod \in Nat
  BY RpcAssumption DEF IInv, ClientOK
<1>2. xid' = [xid EXCEPT ![c] = n] /\ xid[c] \in 0..Mod - 1
  BY <1>1 DEF NewId
<1>3. n \in 0..Mod - 1 /\ n > xid[c] /\ xid'[c] = n
  BY <1>1, <1>2
<1>4. new.from = c /\ new.id = Id(c, n) /\ new.call = k
  BY DEF Request
<1>5. requests \subseteq requests' /\ \A q \in requests' : q \in requests \/ q = new
  OBVIOUS
<1> HIDE DEF n, new
<1>6. \A q \in requests : /\ q.from \in Clients /\ q.from = q.call[1]
                          /\ q.call[2] <= made[q.from]
                          /\ \E m \in 0..xid[q.from] : q.id = Id(q.from, m)
                          /\ q.call \in Calls
  BY <1>1 DEF Ident, Numbered, Requests
<1>7. ASSUME NEW q \in requests
      PROVE  q.id # Id(c, n)
  <2>1. PICK m \in 0..xid[q.from] : q.id = Id(q.from, m)
    BY <1>6
  <2>2. q.from \in Clients /\ m \in 0..Mod - 1
    BY <1>1, <1>6
  <2>3. CASE q.from = c
    <3>1. m # n /\ q.id = Id(c, m)
      BY <1>1, <1>3, <2>1, <2>3
    <3>2. QED
      BY <1>3, <2>2, <3>1, IdApart
  <2>4. CASE q.from # c
    BY <1>3, <2>1, <2>2, <2>4, IdApart
  <2>5. QED
    BY <2>3, <2>4
<1>8. \A d \in Clients : /\ made'[d] \in Nat /\ made[d] \in Nat /\ made[d] <= made'[d]
                         /\ xid[d] <= xid'[d] /\ xid[d] \in 0..Mod - 1 /\ xid'[d] \in 0..Mod - 1
                         /\ d # c => made'[d] = made[d] /\ xid'[d] = xid[d]
  BY <1>1, <1>2, <1>3
<1>9. \A x \in Calls : x[1] \in Clients /\ x[2] \in Nat /\ x = <<x[1], x[2]>>
  BY CallIs, RpcAssumption
<1>10. Numbered'
  <2>1. ASSUME NEW q \in requests'
        PROVE  /\ q.from = q.call[1] /\ q.call[2] <= made'[q.from]
               /\ \E m \in 0..xid'[q.from] : q.id = Id(q.from, m)
    <3>1. CASE q = new
      <4>1. n \in 0..xid'[c] /\ k[2] <= made'[c]
        BY <1>1, <1>3, <1>8, <1>9
      <4>2. QED
        BY <1>4, <3>1, <4>1
    <3>2. CASE q \in requests
      <4>1. PICK m \in 0..xid[q.from] : q.id = Id(q.from, m)
        BY <1>6, <3>2
      <4>2. m \in 0..xid'[q.from]
        BY <1>1, <1>6, <1>8, <3>2
      <4>3. q.call[2] <= made'[q.from]
        BY <1>6, <1>8, <1>9, <3>2
      <4>4. QED
        BY <1>6, <3>2, <4>1, <4>2, <4>3
    <3>3. QED
      BY <1>5, <3>1, <3>2
  <2>2. QED
    BY <2>1 DEF Numbered, Id
<1>11. Fresh'
  <2> SUFFICES ASSUME NEW d \in Clients, Waiting(d)', NEW q \in requests',
                      q.id = Id(d, xid'[d])
               PROVE  q.call = <<d, made'[d]>>
    BY DEF Fresh, Id, Current
  <2>1. CASE d = c
    BY <1>2, <1>3, <1>4, <1>5, <1>7, <1>9, <2>1
  <2>2. CASE d # c
    <3>1. made'[d] = made[d] /\ xid'[d] = xid[d] /\ xid[d] \in 0..Mod - 1
      BY <1>1, <1>8, <2>2
    <3>2. made[d] > 0 /\ status'[<<d, made[d]>>] = "open"
      BY <3>1 DEF Waiting, Current
    <3>3. <<d, made[d]>> \in Calls
      <4>1. made[d] <= MaxCalls[d] /\ made[d] \in Nat /\ MaxCalls[d] \in Nat
        BY <1>8, RpcAssumption DEF IInv, ClientOK
      <4>2. made[d] \in 1..MaxCalls[d]
        BY <3>2, <4>1
      <4>3. QED
        BY <4>2, CallIs
    <3>4. <<d, made[d]>> # k
      BY <2>2
    <3>5. Waiting(d)
      BY <1>1, <3>2, <3>3, <3>4 DEF Waiting, Current
    <3>6. q # new
      BY <1>3, <1>4, <2>2, <3>1, IdApart
    <3>7. QED
      BY <1>5, <3>1, <3>5, <3>6 DEF Ident, Fresh, Current
  <2>3. QED
    BY <2>1, <2>2
<1>12. Heard'
  BY <1>5, HeardSame DEF Ident
<1>13. Begun'
  <2> SUFFICES ASSUME NEW x \in Calls
               PROVE  (status'[x] = "unused") <=> (x[2] > made'[x[1]])
    BY DEF Begun
  <2>1. CASE x = k
    <3>1. status'[x] = e
      BY <1>1, <2>1
    <3>2. ~(x[2] > made'[x[1]])
      BY <1>8, <1>9, <2>1
    <3>3. QED
      BY <3>1, <3>2
  <2>2. CASE x # k
    <3>1. status'[x] = status[x] /\ ((status[x] = "unused") <=> (x[2] > made[x[1]]))
      BY <1>1, <2>2 DEF Ident, Begun
    <3>2. CASE x[1] = c
      <4>1. x[2] # made'[c] /\ x[2] \in Nat /\ made[c] \in Nat
        BY <1>8, <1>9, <2>2, <3>2
      <4>2. made'[c] = made[c] \/ made'[c] = made[c] + 1
        BY <1>1
      <4>3. x[2] > made'[c] <=> x[2] > made[c]
        BY <4>1, <4>2
      <4>4. QED
        BY <3>1, <3>2, <4>3
    <3>3. CASE x[1] # c
      BY <1>8, <1>9, <3>1, <3>3
    <3>4. QED
      BY <3>2, <3>3
  <2>3. QED
    BY <2>1, <2>2
<1>14. Right'
  BY DEF Ident, Right
<1>15. QED
  BY <1>10, <1>11, <1>12, <1>13, <1>14 DEF Ident

\* A client sends its present id again, or its call ends.
LEMMA SameId ==
    ASSUME Distinct, IInv, IInv', Ident, NEW c \in Clients, Waiting(c),
           UNCHANGED <<made, xid, replies, svars>>,
           refreshes'[c] <= refreshes[c],
           \A d \in Clients : d # c => refreshes'[d] = refreshes[d],
           \/ requests' = requests
           \/ requests' = requests \cup {Request(Current(c), xid[c])},
           \/ status' = status
           \/ \E e \in {"failed", "ok"} : status' = [status EXCEPT ![Current(c)] = e],
           result' = result \/ result' = [result EXCEPT ![Current(c)] = Current(c)]
    PROVE  Ident'
<1> DEFINE k == Current(c)
           new == Request(k, xid[c])
<1>1. /\ made \in [Clients -> Nat] /\ xid \in [Clients -> 0..Mod - 1]
      /\ status \in [Calls -> {"unused", "open", "failed", "ok"}]
      /\ result \in [Calls -> Calls \cup {None}]
      /\ refreshes \in [Clients -> 0..NRefreshes] /\ refreshes' \in [Clients -> 0..NRefreshes]
      /\ requests \subseteq Requests /\ Mod \in Nat /\ NRefreshes \in Nat
  BY RpcAssumption DEF IInv, ClientOK
<1>2. k \in Calls /\ k[1] = c
  BY CurrentIs DEF IInv
<1>3. k[2] = made[c] /\ status[k] = "open"
  BY DEF Current, Waiting
<1>4. new.from = c /\ new.id = Id(c, xid[c]) /\ new.call = k
  BY <1>2 DEF Request
<1>5. requests \subseteq requests' /\ \A q \in requests' : q \in requests \/ q = new
  OBVIOUS
<1>6. \A d \in Clients : xid[d] \in 0..Mod - 1 /\ made[d] \in Nat
                           /\ refreshes[d] \in Nat /\ refreshes'[d] \in Nat
                           /\ refreshes'[d] <= refreshes[d]
  BY <1>1
<1> HIDE DEF new
<1>7. Counted'
  <2> SUFFICES ASSUME NEW d \in Clients
               PROVE  xid[d] + refreshes'[d] <= made[d] * (NRefreshes + 1)
    BY DEF Counted
  <2>1. xid[d] + refreshes[d] <= made[d] * (NRefreshes + 1)
    BY DEF Ident, Counted
  <2> DEFINE y == made[d] * (NRefreshes + 1)
  <2>2. y \in Nat
    BY <1>1, <1>6
  <2>3. xid[d] + refreshes[d] <= y
    BY <2>1
  <2> HIDE DEF y
  <2>4. xid[d] + refreshes'[d] <= y
    BY <1>1, <1>6, <2>2, <2>3
  <2>5. QED
    BY <2>4 DEF y
<1>8. Numbered'
  <2>1. ASSUME NEW q \in requests'
        PROVE  /\ q.from = q.call[1] /\ q.call[2] <= made[q.from]
               /\ \E m \in 0..xid[q.from] : q.id = Id(q.from, m)
    <3>1. CASE q = new
      <4>1. xid[c] \in 0..xid[c] /\ k[2] <= made[c]
        BY <1>1, <1>3, <1>6
      <4>2. QED
        BY <1>2, <1>4, <3>1, <4>1
    <3>2. CASE q \in requests
      BY <3>2 DEF Ident, Numbered
    <3>3. QED
      BY <1>5, <3>1, <3>2
  <2>2. QED
    BY <2>1 DEF Numbered, Id
<1>9. Fresh'
  <2> SUFFICES ASSUME NEW d \in Clients, Waiting(d)', NEW q \in requests',
                      q.id = Id(d, xid[d])
               PROVE  q.call = <<d, made[d]>>
    BY DEF Fresh, Id, Current
  <2>1. Waiting(d)
    <3>1. <<d, made[d]>> \in Calls
      <4>1. made[d] <= MaxCalls[d] /\ made[d] \in Nat /\ MaxCalls[d] \in Nat /\ made[d] > 0
        BY <1>6, RpcAssumption DEF IInv, ClientOK, Waiting
      <4>2. made[d] \in 1..MaxCalls[d]
        BY <4>1
      <4>3. QED
        BY <4>2, CallIs
    <3>2. status'[<<d, made[d]>>] = "open"
      BY DEF Waiting, Current
    <3>3. status[<<d, made[d]>>] = "open"
      BY <1>1, <1>3, <3>1, <3>2
    <3>4. QED
      BY <3>3 DEF Waiting, Current
  <2>2. CASE q = new
    <3>1. d = c
      BY <1>4, <1>6, <2>2, IdApart
    <3>2. QED
      BY <1>4, <2>2, <3>1 DEF Current
  <2>3. CASE q \in requests
    BY <2>1, <2>3 DEF Ident, Fresh, Current
  <2>4. QED
    BY <1>5, <2>2, <2>3
<1>10. Heard'
  BY <1>5, HeardSame DEF Ident
<1>11. Begun'
  <2>1. \A x \in Calls : status'[x] = "unused" <=> status[x] = "unused"
    BY <1>1, <1>2, <1>3
  <2>2. QED
    BY <2>1 DEF Begun, Ident
<1>12. Right'
  <2>1. \A x \in Calls : result'[x] = result[x] \/ (x = k /\ result'[x] = k)
    BY <1>1, <1>2
  <2>2. QED
    BY <2>1 DEF Right, Ident
<1>13. QED
  BY <1>7, <1>8, <1>9, <1>10, <1>11, <1>12 DEF Ident

-----------------------------------------------------------------------------
(* The refinement.                                                         *)

\* The status of calls as RemoteCall sees it.
Mapped == [k \in Calls |-> IF result[k] \notin {None, k} THEN "wrong" ELSE status[k]]

LEMMA MappedIs == IInv /\ Ident => Mapped = status
<1> SUFFICES ASSUME IInv, Ident
             PROVE  Mapped = status
  OBVIOUS
<1>1. status \in [Calls -> {"unused", "open", "failed", "ok"}]
  BY DEF IInv, ClientOK
<1>2. \A k \in Calls : result[k] \in {None, k}
  BY DEF Ident, Right
<1>3. QED
  BY <1>1, <1>2 DEF Mapped

\* A call begins, ends, or is executed.
LEMMA RefineCall ==
    ASSUME Mapped = status, Mapped' = status', NEW k \in Calls, ran' = ran,
           \/ status[k] = "unused" /\ \E e \in {"open", "failed"} :
                                          status' = [status EXCEPT ![k] = e]
           \/ status[k] = "open" /\ status' = [status EXCEPT ![k] = "failed"]
           \/ status[k] = "open" /\ k \in ran /\ status' = [status EXCEPT ![k] = "ok"]
    PROVE  RC!Next
<1>1. CASE status[k] = "unused" /\ \E e \in {"open", "failed"} :
                                       status' = [status EXCEPT ![k] = e]
  <2>1. RC!Start(k)
    BY <1>1 DEF RC!Start, Mapped
  <2>2. QED
    BY <2>1 DEF RC!Next
<1>2. CASE status[k] = "open" /\ status' = [status EXCEPT ![k] = "failed"]
  <2>1. RC!Fail(k)
    BY <1>2 DEF RC!Fail, Mapped
  <2>2. QED
    BY <2>1 DEF RC!Next
<1>3. CASE status[k] = "open" /\ k \in ran /\ status' = [status EXCEPT ![k] = "ok"]
  <2>1. RC!Succeed(k)
    BY <1>3 DEF RC!Succeed, Mapped
  <2>2. QED
    BY <2>1 DEF RC!Next
<1>4. QED
  BY <1>1, <1>2, <1>3

LEMMA RefineRun ==
    ASSUME Mapped = status, Mapped' = status', NEW k \in Calls, status' = status,
           status[k] # "unused", ran' = ran \cup {k}
    PROVE  RC!Next
<1>1. RC!Run(k)
  BY DEF RC!Run, Mapped
<1>2. QED
  BY <1>1 DEF RC!Next

LEMMA RefineNothing ==
    ASSUME Mapped = status, Mapped' = status', status' = status, ran' = ran
    PROVE  UNCHANGED RC!vars
  BY DEF RC!vars, Mapped

\* The call that a client begins has not been begun before.
LEMMA Unused ==
    ASSUME IInv, Ident, NEW c \in Clients, Begin(c)
    PROVE  /\ <<c, made[c] + 1>> \in Calls /\ status[<<c, made[c] + 1>>] = "unused"
           /\ made' = [made EXCEPT ![c] = @ + 1] /\ made'[c] = made[c] + 1
           /\ made[c] \in Nat /\ made[c] + 1 <= MaxCalls[c]
<1>1. <<c, made[c] + 1>> \in Calls
  BY BeginIs DEF IInv
<1>2. made \in [Clients -> Nat] /\ made[c] \in Nat /\ MaxCalls[c] \in Nat
  BY RpcAssumption DEF IInv, ClientOK
<1>3. QED
  BY <1>1, <1>2 DEF Ident, Begun, Begin

\* The count of ids after a call has begun.
LEMMA CountBegin ==
    ASSUME Distinct, IInv, IInv', Ident, NEW c \in Clients, Begin(c),
           xid' = [xid EXCEPT ![c] = Bump(@)], NEW n \in 0..NRefreshes,
           refreshes' = [refreshes EXCEPT ![c] = n]
    PROVE  Counted' /\ Bump(xid[c]) = xid[c] + 1
<1>1. /\ made' = [made EXCEPT ![c] = @ + 1] /\ made[c] \in Nat
      /\ made[c] + 1 <= MaxCalls[c]
  BY Unused
<1>2. /\ made \in [Clients -> Nat] /\ xid \in [Clients -> 0..Mod - 1]
      /\ refreshes \in [Clients -> 0..NRefreshes] /\ Mod \in Nat /\ NRefreshes \in Nat
  BY RpcAssumption DEF IInv, ClientOK
<1>3. xid[c] \in Nat /\ refreshes[c] \in Nat
      /\ xid[c] + refreshes[c] <= made[c] * (NRefreshes + 1)
  BY <1>2 DEF Ident, Counted
<1>4. (made[c] + 1) * (NRefreshes + 1) = made[c] * (NRefreshes + 1) + NRefreshes + 1
  BY <1>1, <1>2
<1> DEFINE y == made[c] * (NRefreshes + 1)
           z == (made[c] + 1) * (NRefreshes + 1)
<1>5. y \in Nat /\ z = y + NRefreshes + 1 /\ xid[c] + refreshes[c] <= y
  BY <1>1, <1>2, <1>3, <1>4
<1> HIDE DEF y, z
<1>6. xid[c] + 1 <= z /\ xid[c] + 1 + n <= z
  BY <1>2, <1>3, <1>5
<1>7. Bump(xid[c]) = xid[c] + 1
  <2>1. made[c] + 1 \in Nat /\ xid[c] + 1 <= (made[c] + 1) * (NRefreshes + 1)
    BY <1>1, <1>6 DEF z
  <2>2. QED
    BY <1>1, <1>3, <2>1, NoWrap
<1>8. ASSUME NEW d \in Clients
      PROVE  xid'[d] + refreshes'[d] <= made'[d] * (NRefreshes + 1)
  <2>1. CASE d = c
    <3>1. xid'[d] = xid[c] + 1 /\ refreshes'[d] = n /\ made'[d] = made[c] + 1
      BY <1>1, <1>2, <1>7, <2>1
    <3>2. QED
      BY <1>6, <3>1 DEF z
  <2>2. CASE d # c
    <3>1. xid'[d] = xid[d] /\ refreshes'[d] = refreshes[d] /\ made'[d] = made[d]
      BY <1>1, <1>2, <2>2
    <3>2. QED
      BY <3>1 DEF Ident, Counted
  <2>3. QED
    BY <2>1, <2>2
<1>9. QED
  BY <1>7, <1>8 DEF Counted

\* The count after credentials were refreshed, whatever refreshes are left.
LEMMA CountRefresh ==
    ASSUME Distinct, IInv, IInv', Ident, NEW c \in Clients, UNCHANGED made,
           refreshes[c] > 0, xid' = [xid EXCEPT ![c] = Bump(@)],
           NEW n \in 0..refreshes[c] - 1, refreshes' = [refreshes EXCEPT ![c] = n]
    PROVE  Counted' /\ Bump(xid[c]) = xid[c] + 1
<1>1. /\ made \in [Clients -> Nat] /\ xid \in [Clients -> 0..Mod - 1]
      /\ refreshes \in [Clients -> 0..NRefreshes] /\ Mod \in Nat /\ NRefreshes \in Nat
      /\ made[c] <= MaxCalls[c]
  BY RpcAssumption DEF IInv, ClientOK
<1>2. xid[c] \in Nat /\ refreshes[c] \in Nat /\ made[c] \in Nat
      /\ xid[c] + refreshes[c] <= made[c] * (NRefreshes + 1)
  BY <1>1 DEF Ident, Counted
<1> DEFINE y == made[c] * (NRefreshes + 1)
<1>3. y \in Nat /\ xid[c] + refreshes[c] <= y
  BY <1>1, <1>2
<1> HIDE DEF y
<1>4. xid[c] + 1 <= y /\ xid[c] + 1 + n <= y
  BY <1>2, <1>3
<1>5. Bump(xid[c]) = xid[c] + 1
  BY <1>1, <1>2, <1>4, NoWrap DEF y
<1>6. ASSUME NEW d \in Clients
      PROVE  xid'[d] + refreshes'[d] <= made'[d] * (NRefreshes + 1)
  <2>1. CASE d = c
    <3>1. xid'[d] = xid[c] + 1 /\ refreshes'[d] = n
      BY <1>1, <1>5, <2>1
    <3>2. QED
      BY <1>4, <2>1, <3>1 DEF y
  <2>2. CASE d # c
    <3>1. xid'[d] = xid[d] /\ refreshes'[d] = refreshes[d]
      BY <1>1, <2>2
    <3>2. QED
      BY <3>1 DEF Ident, Counted
  <2>3. QED
    BY <2>1, <2>2
<1>7. QED
  BY <1>5, <1>6 DEF Counted

\* What one step of the program does to the invariant and to RemoteCall.
Refines == Ident' /\ (Mapped' = status' => [RC!Next]_(RC!vars))

LEMMA BeginRefines ==
    ASSUME Distinct, IInv, IInv', Ident, NEW c \in Clients, Call(c) \/ Batch(c)
    PROVE  Refines
<1> DEFINE k == <<c, made[c] + 1>>
<1>1. Begin(c) /\ NewId(k) /\ UNCHANGED <<replies, svars>>
  BY DEF Call, Batch, CallAgain
<1>2. /\ k \in Calls /\ status[k] = "unused" /\ made' = [made EXCEPT ![c] = @ + 1]
      /\ made'[c] = made[c] + 1 /\ Mapped = status
  BY <1>1, Unused, MappedIs
<1>3. k[1] = c /\ k[2] = made[c] + 1
  OBVIOUS
<1>4. PICK e \in {"open", "failed"}, n \in 0..NRefreshes :
         /\ status' = [status EXCEPT ![k] = e] /\ UNCHANGED result
         /\ refreshes' = [refreshes EXCEPT ![c] = n]
         /\ \/ requests' = requests
            \/ requests' = requests \cup {Request(k, Bump(xid[c]))}
  <2>1. 0 \in 0..NRefreshes /\ NRefreshes \in 0..NRefreshes
    BY RpcAssumption
  <2>2. CASE Batch(c)
    BY <1>3, <2>1, <2>2 DEF Batch, Fails, Ends, Locals, Send
  <2>3. CASE Call(c)
    BY <1>3, <2>1, <2>3 DEF Call, CallAgain, Fails, Ends, Locals, Send
  <2>4. QED
    BY <2>2, <2>3
<1> HIDE DEF k
<1>5. xid' = [xid EXCEPT ![c] = Bump(@)]
  BY <1>1, <1>3 DEF NewId
<1>6. Counted' /\ Bump(xid[c]) = xid[c] + 1
  BY <1>1, <1>4, <1>5, CountBegin
<1>7. Ident'
  BY <1>1, <1>2, <1>3, <1>4, <1>6, SendNew
<1>8. ASSUME Mapped' = status'
      PROVE  RC!Next
  BY <1>1, <1>2, <1>4, <1>8, RefineCall DEF svars
<1>9. QED
  BY <1>7, <1>8 DEF Refines

\* The present call of a client goes on with its id, or ends.
LEMMA WaitRefines ==
    ASSUME Distinct, IInv, IInv', Ident, NEW c \in Clients, Waiting(c),
           UNCHANGED <<made, xid, replies, svars>>,
           NEW n \in {0, refreshes[c]}, refreshes' = [refreshes EXCEPT ![c] = n],
           \/ requests' = requests
           \/ requests' = requests \cup {Request(Current(c), xid[c])},
           \/ UNCHANGED <<status, result>>
           \/ status' = [status EXCEPT ![Current(c)] = "failed"] /\ UNCHANGED result
           \/ /\ status' = [status EXCEPT ![Current(c)] = "ok"] /\ Current(c) \in ran
              /\ result' = [result EXCEPT ![Current(c)] = Current(c)]
    PROVE  Refines
<1>1. Current(c) \in Calls /\ status[Current(c)] = "open" /\ Mapped = status
  BY CurrentIs, MappedIs DEF IInv, Waiting
<1>2. /\ refreshes'[c] <= refreshes[c]
      /\ \A d \in Clients : d # c => refreshes'[d] = refreshes[d]
  <2>1. refreshes \in [Clients -> 0..NRefreshes] /\ NRefreshes \in Nat
    BY RpcAssumption DEF IInv, ClientOK
  <2>2. QED
    BY <2>1
<1>3. Ident'
  BY <1>2, SameId
<1>4. ASSUME Mapped' = status'
      PROVE  [RC!Next]_(RC!vars)
  <2>1. ran' = ran
    BY DEF svars
  <2>2. CASE UNCHANGED <<status, result>>
    BY <1>1, <1>4, <2>1, <2>2, RefineNothing
  <2>3. CASE \/ status' = [status EXCEPT ![Current(c)] = "failed"]
             \/ status' = [status EXCEPT ![Current(c)] = "ok"] /\ Current(c) \in ran
    BY <1>1, <1>4, <2>1, <2>3, RefineCall
  <2>4. QED
    BY <2>2, <2>3
<1>5. QED
  BY <1>3, <1>4 DEF Refines

\* A reply with the id a client waits for is the result of its call.
LEMMA MineIs ==
    ASSUME IInv, Ident, NEW c \in Clients, Waiting(c), NEW r \in replies, Mine(c, r),
           r.res \in Calls
    PROVE  r.res = Current(c) /\ r.res \in ran
<1>1. r.res # None
  BY CallIs
<1>2. r.res \in ran /\ \E q \in requests : q.id = r.id /\ q.call = r.res
  BY <1>1 DEF Ident, Heard, Caused
<1>3. QED
  BY <1>2 DEF Ident, Fresh, Mine

LEMMA ClientRefines ==
    ASSUME Distinct, IInv, IInv', Ident, NEW c \in Clients,
           \/ Timeout(c) \/ CantRecv(c)
           \/ \E r \in replies : Success(c, r) \/ Refused(c, r)
    PROVE  Refines
<1>1. Waiting(c) /\ UNCHANGED <<made, replies, svars>>
  BY DEF Timeout, CantRecv, Success, Refused
<1>2. Current(c) \in Calls /\ Current(c)[1] = c /\ status[Current(c)] = "open"
      /\ Mapped = status
  BY <1>1, CurrentIs, MappedIs DEF IInv, Waiting
<1>3. ASSUME Fails(Current(c)), UNCHANGED <<xid, requests>>
      PROVE  Refines
  BY <1>1, <1>2, <1>3, WaitRefines DEF Fails, Ends, Locals
<1>4. CASE Timeout(c)
  <2>1. CASE /\ Locals(c, waited[c] + 1, refreshes[c]) /\ Send(Current(c), xid[c])
             /\ UNCHANGED <<status, result>>
    <3>1. UNCHANGED xid
      BY <1>4 DEF Timeout
    <3>2. QED
      BY <1>1, <2>1, <3>1, WaitRefines DEF Locals, Send
  <2>2. QED
    BY <1>3, <1>4, <2>1 DEF Timeout
<1>5. CASE CantRecv(c)
  BY <1>3, <1>5 DEF CantRecv
<1>6. ASSUME NEW r \in replies, Success(c, r)
      PROVE  Refines
  <2>1. CASE Ends(Current(c), "ok") /\ result' = [result EXCEPT ![Current(c)] = r.res]
    <3>1. r.res = Current(c) /\ r.res \in ran /\ UNCHANGED <<xid, requests>>
      BY <1>1, <1>6, MineIs DEF Success
    <3>2. QED
      BY <1>1, <1>2, <2>1, <3>1, WaitRefines DEF Ends, Locals
  <2>2. QED
    BY <1>3, <1>6, <2>1 DEF Success
<1>7. ASSUME NEW r \in replies, Refused(c, r)
      PROVE  Refines
  <2> DEFINE k == Current(c)
  <2>1. CASE refreshes[c] > 0 /\ CallAgain(k, waited[c], refreshes[c] - 1)
    <3>1. refreshes[c] \in Nat /\ 0 \in 0..refreshes[c] - 1
          /\ refreshes[c] - 1 \in 0..refreshes[c] - 1
      BY <2>1, RpcAssumption DEF IInv, ClientOK
    <3>2. PICK e \in {"open", "failed"}, n \in 0..refreshes[c] - 1 :
             /\ status' = [status EXCEPT ![k] = e] /\ UNCHANGED result
             /\ refreshes' = [refreshes EXCEPT ![c] = n]
             /\ \/ requests' = requests
                \/ requests' = requests \cup {Request(k, Bump(xid[c]))}
      BY <1>2, <2>1, <3>1 DEF CallAgain, Fails, Ends, Locals, Send
    <3>3. NewId(k) /\ xid' = [xid EXCEPT ![c] = Bump(@)]
      BY <1>2, <2>1 DEF CallAgain, NewId
    <3>4. Counted' /\ Bump(xid[c]) = xid[c] + 1
      BY <1>1, <2>1, <3>2, <3>3, CountRefresh
    <3>5. k[2] = made'[c] /\ c = k[1]
      BY <1>1, <1>2 DEF Current
    <3>6. k \in Calls
      BY <1>2
    <3> HIDE DEF k
    <3>7. Ident'
      BY <1>1, <3>2, <3>3, <3>4, <3>5, <3>6, SendNew
    <3>8. ASSUME Mapped' = status'
          PROVE  [RC!Next]_(RC!vars)
      <4>1. ran' = ran /\ status[k] = "open"
        BY <1>1, <1>2 DEF svars, k
      <4>2. CASE e = "failed"
        BY <1>2, <3>2, <3>6, <3>8, <4>1, <4>2, RefineCall
      <4>3. CASE e = "open"
        <5>1. status' = status
          BY <3>2, <3>6, <4>1, <4>3 DEF IInv, ClientOK
        <5>2. QED
          BY <1>2, <3>8, <4>1, <5>1, RefineNothing
      <4>4. QED
        BY <4>2, <4>3
    <3>9. QED
      BY <3>7, <3>8 DEF Refines
  <2>2. QED
    BY <1>3, <1>7, <2>1 DEF Refused
<1>8. QED
  BY <1>4, <1>5, <1>6, <1>7

\* The server executes a call, or refuses it, and the cache repeats a reply.
LEMMA ServeRefines ==
    ASSUME IInv, Ident, NEW q \in requests, NEW res \in {None, q.call},
           \/ Serve(q, res)
           \/ \E sent \in BOOLEAN : ServeUncached(q, res, sent)
    PROVE  Refines
<1>1. /\ Answer(q, res) /\ UNCHANGED <<cvars, requests>> /\ Filed(q.id, res)
      /\ replies' \subseteq replies \cup FromCache(q)
                            \cup {[to |-> q.from, id |-> q.id, res |-> res]}
  <2>1. CASE Serve(q, res)
    BY <2>1, ServeStep DEF Serve
  <2>2. ASSUME NEW sent \in BOOLEAN, ServeUncached(q, res, sent)
        PROVE  /\ Answer(q, res) /\ UNCHANGED <<cvars, requests>> /\ Filed(q.id, res)
               /\ replies' \subseteq replies \cup FromCache(q)
                            \cup {[to |-> q.from, id |-> q.id, res |-> res]}
    BY <2>2, ServeUncachedStep DEF ServeUncached
  <2>3. QED
    BY <2>1, <2>2
<1>2. q \in Requests /\ q.call \in Calls /\ ServerOK /\ CacheOK
  BY DEF IInv, Requests
<1>3. \A id, x : Caused(id, x) => Caused(id, x)'
  BY <1>1 DEF Caused, Answer
<1>4. Caused(q.id, res)'
  BY <1>1 DEF Caused, Answer
<1>5. \A r \in FromCache(q) : Caused(r.id, r.res)
  <2>1. CASE Hit(q)
    <3>1. PICK i \in Used : /\ uc.fifo[i].id = q.id
                            /\ FromCache(q) = {[to |-> q.from, id |-> q.id,
                                                res |-> mem[uc.fifo[i].buf].res]}
      BY <1>2, <2>1, HitIs
    <3>2. Caused(q.id, mem[uc.fifo[i].buf].res)
      BY <3>1 DEF Ident, Heard
    <3>3. QED
      BY <3>1, <3>2
  <2>2. CASE ~Hit(q)
    BY <2>2 DEF FromCache
  <2>3. QED
    BY <2>1, <2>2
<1>6. Heard'
  <2>1. \A r \in replies' : Caused(r.id, r.res)'
    BY <1>1, <1>3, <1>4, <1>5 DEF Ident, Heard
  <2>2. ASSUME NEW i \in Used'
        PROVE  Caused(uc.fifo[i].id, mem[uc.fifo[i].buf].res)'
    <3>1. CASE uc'.fifo[i].id = q.id /\ mem'[uc'.fifo[i].buf].res = res
      BY <1>4, <3>1
    <3>2. CASE /\ i \in Used /\ uc'.fifo[i] = uc.fifo[i]
               /\ mem'[uc'.fifo[i].buf] = mem[uc.fifo[i].buf]
      BY <1>3, <3>2 DEF Ident, Heard
    <3>3. QED
      BY <1>1, <3>1, <3>2 DEF Filed
  <2>3. QED
    BY <2>1, <2>2 DEF Heard
<1>7. Ident'
  BY <1>1, <1>6 DEF Ident, Counted, Numbered, Fresh, Begun, Right, Waiting, Current, cvars
<1>8. status[q.call] # "unused"
  <2>1. q.call[2] <= made[q.call[1]] /\ q.call[2] \in Nat /\ made[q.call[1]] \in Nat
    BY <1>2, CallIs, RpcAssumption DEF Ident, Numbered, IInv, ClientOK
  <2>2. ~(q.call[2] > made[q.call[1]])
    BY <2>1
  <2>3. QED
    BY <1>2, <2>2 DEF Ident, Begun
<1>9. ASSUME Mapped' = status'
      PROVE  [RC!Next]_(RC!vars)
  <2>1. Mapped = status /\ status' = status
    BY <1>1, MappedIs DEF cvars
  <2>2. CASE ran' = ran
    BY <1>9, <2>1, <2>2, RefineNothing
  <2>3. CASE ran' = ran \cup {q.call}
    BY <1>2, <1>8, <1>9, <2>1, <2>3, RefineRun
  <2>4. QED
    BY <1>1, <2>2, <2>3 DEF Answer
<1>10. QED
  BY <1>7, <1>9 DEF Refines

\* The server is restarted or gets its cache, or nothing happens.
LEMMA QuietRefines ==
    ASSUME IInv, Ident, EnableCache \/ Restart \/ UNCHANGED vars
    PROVE  Refines
<1>1. UNCHANGED <<cvars, requests, replies, ran>>
  BY DEF EnableCache, Restart, vars, svars
<1>2. Used' = {} \/ UNCHANGED <<uc, mem>>
  BY EmptyIs DEF EnableCache, Restart, Used, vars, svars
<1>3. \A id, x : Caused(id, x) => Caused(id, x)'
  BY <1>1 DEF Caused
<1>4. Heard'
  BY <1>1, <1>2, <1>3 DEF Heard, Ident, Used
<1>5. Ident'
  BY <1>1, <1>4 DEF Ident, Counted, Numbered, Fresh, Begun, Right, Waiting, Current, cvars
<1>6. ASSUME Mapped' = status'
      PROVE  [RC!Next]_(RC!vars)
  BY <1>1, <1>6, MappedIs, RefineNothing DEF cvars
<1>7. QED
  BY <1>5, <1>6 DEF Refines

LEMMA NextRefines ==
    ASSUME Distinct, IInv, IInv', Ident, [Next]_vars
    PROVE  Refines
  BY BeginRefines, ClientRefines, ServeRefines, QuietRefines DEF Next

LEMMA InitIdent == Init => Ident
<1> SUFFICES ASSUME Init
             PROVE  Ident
  OBVIOUS
<1>1. Counted
  BY RpcAssumption DEF Init, Counted
<1>2. Fresh /\ Numbered
  BY DEF Init, Fresh, Numbered
<1>3. Heard
  BY EmptyIs DEF Init, Heard, Used
<1>4. Begun
  BY CallIs, RpcAssumption DEF Init, Begun
<1>5. Right
  BY DEF Init, Right
<1>6. QED
  BY <1>1, <1>2, <1>3, <1>4, <1>5 DEF Ident

\* The safety of CallsAnswered, for any number of clients, calls and cache
\* entries: retransmissions, refreshed credentials, late and repeated replies
\* and the cache never give a caller of clntudp_call() the result of another
\* call, and what it returns was executed by the server.  Distinct is needed:
\* without its first half the run rpc_key shows what the cache does, without
\* the second a reply may be 2^16 calls late.
THEOREM RightResults ==
    ASSUME Distinct
    PROVE  Spec => RC!Init /\ [][RC!Next]_(RC!vars)
<1>1. Init => RC!Init
  <2> SUFFICES ASSUME Init
               PROVE  RC!Init
    OBVIOUS
  <2>1. Mapped = status
    BY InitInv, InitIdent, MappedIs
  <2>2. QED
    BY <2>1 DEF Init, RC!Init, Mapped
<1>2. IInv /\ IInv' /\ Ident /\ [Next]_vars => Ident'
  BY NextRefines DEF Refines
<1>3. IInv /\ Ident => Mapped = status
  BY MappedIs
<1>4. (IInv /\ Ident => Mapped = status)'
  BY <1>3, PTL
<1>5. IInv /\ IInv' /\ Ident /\ Ident' /\ [Next]_vars => [RC!Next]_(RC!vars)
  BY <1>4, NextRefines DEF Refines
<1>6. QED
  BY <1>1, <1>2, <1>5, InitIdent, Invariance, PTL DEF Spec
=============================================================================
