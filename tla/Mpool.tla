------------------------------- MODULE Mpool --------------------------------
(***************************************************************************)
(* The buffer pool of the data base library: lib/libc/db/mpool/mpool.c.    *)
(*                                                                         *)
(* The hash chains hold the same buffers as the lru chain and only find a  *)
(* page faster, so the model keeps the lru chain.  A page is a number in   *)
(* the order of bytes of this machine, its negation in the other order; 0  *)
(* is what nobody has written: a hole, a torn page, fresh memory.  The     *)
(* user of the pool changes a page while he holds it, returns a page that  *)
(* he has changed with MPOOL_DIRTY, and does not ask for one he holds.     *)
(***************************************************************************)
EXTENDS Integers, Sequences, FiniteSets, SequencesExt, FiniteSetsExt

CONSTANTS
    Values,             \* what a page may hold
    MaxPages,           \* MAX_PAGE_NUMBER
    Wrap,               \* pages in 2^32 bytes, where pagesize * pgno wraps
    maxcache,
    MaxLost,            \* bound: buffers lost by failed reads
    Filter              \* the pages of the file are in the other byte order

ASSUME MpoolAssumption ==
    /\ Values \subseteq Nat \ {0}
    /\ {MaxPages, Wrap} \subseteq Nat \ {0} /\ {maxcache, MaxLost} \subseteq Nat
    /\ Filter \in BOOLEAN

VARIABLES
    lru,                \* the buffers, least recently used first
    curcache, npages,
    file, eof,          \* pages of the file, its length in pages
    held, touched,      \* pages the user holds, and has changed
    written,            \* pages that have ever been changed
    synced              \* mpool_sync() has just returned success

vars == <<lru, curcache, npages, file, eof, held, touched, written, synced>>

Pages == 0..MaxPages - 1

\* pgin and pgout, as __bt_pgin() and __bt_pgout() swap bytes.
Swap(d) == IF Filter THEN -d ELSE d

\* The place of a page in the file.
Place(p) == p % Wrap

Init ==
    /\ lru = <<>> /\ curcache = 0 /\ npages = 0
    /\ file = [s \in 0..Wrap - 1 |-> 0] /\ eof = 0
    /\ held = {} /\ touched = {} /\ written = {}
    /\ synced = FALSE

-----------------------------------------------------------------------------
(* mpool_write().                                                          *)

\* The file with the buffers in B written.
Stored(B) == [s \in 0..Wrap - 1 |->
                 IF \E b \in B : Place(b.pgno) = s
                 THEN Swap((CHOOSE b \in B : Place(b.pgno) = s).data)
                 ELSE file[s]]
Grown(B) == Max({eof} \cup {Place(b.pgno) + 1 : b \in B})

\* The filter works on the page in place, before the write is tried.
Converted(b) == [b EXCEPT !.data = Swap(@)]
Clean(b) == [Converted(b) EXCEPT !.dirty = FALSE]

\* The file f of e pages when the write of b fails: part of the page may have
\* been written, which beyond the end of the file leaves a hole before it.
Torn(f, e, b) ==
    {[file |-> f, eof |-> e],
     [file |-> [f EXCEPT ![Place(b.pgno)] = 0], eof |-> Max({e, Place(b.pgno)})]}

-----------------------------------------------------------------------------
(* mpool_bkt(): what may become of the pool when a buffer is needed.       *)

Pool(ok, l, c, f, e) == [ok |-> ok, lru |-> l, curcache |-> c, file |-> f, eof |-> e]

NewBuffer == {Pool(TRUE, lru, curcache + 1, file, eof),
              Pool(FALSE, lru, curcache, file, eof)}         \* no memory

\* Mutant: pinned buffers are taken too.
MutFree == DOMAIN lru
Free == {i \in DOMAIN lru : ~lru[i].pinned}

\* Mutant: a dirty page is dropped.
MutMustWrite(b) == FALSE
MustWrite(b) == b.dirty

\* The buffer at i is taken, and written before if it must be.
Take(i) ==
    LET b == lru[i] IN
    IF MustWrite(b)
    THEN {Pool(TRUE, RemoveAt(lru, i), curcache, Stored({b}), Grown({b}))}
         \cup {Pool(FALSE, [lru EXCEPT ![i] = Converted(b)], curcache, t.file, t.eof) :
                   t \in Torn(file, eof, b)}
    ELSE {Pool(TRUE, RemoveAt(lru, i), curcache, file, eof)}

Bkt == IF curcache < maxcache \/ Free = {} THEN NewBuffer ELSE Take(Min(Free))

Becomes(o) ==
    /\ curcache' = o.curcache /\ file' = o.file /\ eof' = o.eof
    /\ synced' = FALSE

-----------------------------------------------------------------------------
(* The operations.                                                         *)

Buffer(p, d) == [pgno |-> p, pinned |-> TRUE, dirty |-> FALSE, data |-> d]
Cached == {lru[i].pgno : i \in DOMAIN lru}
Index(p) == CHOOSE i \in DOMAIN lru : lru[i].pgno = p
Hold(p) == held' = held \cup {p}

\* "page allocation overflow" otherwise.
CanGrow == npages < MaxPages

New ==
    /\ CanGrow
    /\ \E o \in Bkt :
        /\ o.ok
        /\ Becomes(o)
        /\ lru' = Append(o.lru, Buffer(npages, 0))
    /\ npages' = npages + 1
    /\ Hold(npages)
    /\ UNCHANGED <<touched, written>>

\* mpool_get() of a page that is in memory.
Hit(p) ==
    /\ p \in Cached \ held
    /\ lru' = Append(RemoveAt(lru, Index(p)), [lru[Index(p)] EXCEPT !.pinned = TRUE])
    /\ Hold(p)
    /\ synced' = FALSE
    /\ UNCHANGED <<curcache, npages, file, eof, touched, written>>

Miss(p) ==
    /\ p < npages /\ p \notin Cached
    /\ \E o \in Bkt :
        /\ o.ok /\ Place(p) < o.eof
        /\ Becomes(o)
        /\ lru' = Append(o.lru, Buffer(p, Swap(o.file[Place(p)])))
    /\ Hold(p)
    /\ UNCHANGED <<npages, touched, written>>

\* The read fails, for instance beyond the end of the file: the buffer is on
\* no chain any more and is lost.
ReadFails(p) ==
    /\ p < npages /\ p \notin Cached
    /\ curcache - Len(lru) < MaxLost
    /\ \E o \in Bkt : o.ok /\ Becomes(o) /\ lru' = o.lru
    /\ UNCHANGED <<npages, held, touched, written>>

\* mpool_new() or mpool_get() gets no buffer: no memory, or the write failed.
NoBuffer ==
    /\ CanGrow \/ \E p \in 0..npages - 1 : p \notin Cached
    /\ \E o \in Bkt : ~o.ok /\ Becomes(o) /\ lru' = o.lru
    /\ UNCHANGED <<npages, held, touched, written>>

\* The user writes into a page he holds.
Modify(p, d) ==
    /\ p \in held \cap Cached
    /\ lru' = [lru EXCEPT ![Index(p)].data = d]
    /\ touched' = touched \cup {p} /\ written' = written \cup {p}
    /\ synced' = FALSE
    /\ UNCHANGED <<curcache, npages, file, eof, held>>

\* bp->flags |= flags & MPOOL_DIRTY.
\* Mutant: the flag replaces the one there was.
MutDirtyAfter(b, flag) == flag
DirtyAfter(b, flag) == b.dirty \/ flag

Put(p) ==
    /\ p \in held \cap Cached
    /\ LET b == lru[Index(p)] IN
       lru' = [lru EXCEPT ![Index(p)] =
                  [b EXCEPT !.pinned = FALSE, !.dirty = DirtyAfter(b, p \in touched)]]
    /\ held' = held \ {p} /\ touched' = touched \ {p}
    /\ synced' = FALSE
    /\ UNCHANGED <<curcache, npages, file, eof, written>>

\* mpool_sync() up to the buffer n.
DirtyTo(n) == {i \in 1..n : lru[i].dirty}
WriteTo(n) ==
    /\ lru' = [i \in DOMAIN lru |-> IF i \in DirtyTo(n) THEN Clean(lru[i]) ELSE lru[i]]
    /\ file' = Stored({lru[i] : i \in DirtyTo(n)})
    /\ eof' = Grown({lru[i] : i \in DirtyTo(n)})

\* All is written; fsync() decides.
Sync ==
    /\ WriteTo(Len(lru))
    /\ synced' \in BOOLEAN
    /\ UNCHANGED <<curcache, npages, held, touched, written>>

\* The write of buffer n + 1 fails.
SyncFails(n) ==
    /\ n + 1 \in DirtyTo(n + 1)
    /\ LET before == {lru[i] : i \in DirtyTo(n)}
       IN  \E t \in Torn(Stored(before), Grown(before), lru[n + 1]) :
               file' = t.file /\ eof' = t.eof
    /\ lru' = [i \in DOMAIN lru |-> IF i \in DirtyTo(n) THEN Clean(lru[i])
                                    ELSE IF i = n + 1 THEN Converted(lru[i])
                                    ELSE lru[i]]
    /\ synced' = FALSE
    /\ UNCHANGED <<curcache, npages, held, touched, written>>

\* mpool_close(), which writes nothing, and mpool_open() of the same file.
Reopen ==
    /\ held = {}
    /\ lru' = <<>> /\ curcache' = 0
    /\ npages' = eof
    /\ written' = {p \in written : p < eof}
    /\ synced' = FALSE
    /\ UNCHANGED <<file, eof, held, touched>>

Next ==
    \/ New \/ NoBuffer \/ Sync \/ Reopen
    \/ \E p \in Pages : \/ Hit(p) \/ Miss(p) \/ ReadFails(p) \/ Put(p)
                        \/ \E d \in Values : Modify(p, d)
    \/ \E n \in 0..Len(lru) - 1 : SyncFails(n)

Spec == Init /\ [][Next]_vars

-----------------------------------------------------------------------------
(* Properties.                                                             *)

\* Every variable has its type.
TypeOK ==
    /\ lru \in Seq([pgno : 0..npages - 1, pinned : BOOLEAN, dirty : BOOLEAN,
                    data : Int])
    /\ curcache \in Nat /\ npages \in 0..MaxPages
    /\ file \in [0..Wrap - 1 -> Int] /\ eof \in 0..Wrap
    /\ held \subseteq Pages /\ touched \subseteq held /\ written \subseteq Pages
    /\ synced \in BOOLEAN

\* A page the user holds stays where it is until he returns it: it has its
\* own buffer, and the buffer is pinned.
HeldPinned ==
    /\ TypeOK
    /\ \A p \in held : p \in Cached /\ lru[Index(p)].pinned
    /\ \A i, j \in DOMAIN lru : lru[i].pgno = lru[j].pgno => i = j

\* A buffer on the chain that is neither dirty nor in the user's hands has
\* the contents of the file, so that it may be dropped.
CleanIsStored ==
    \A i \in DOMAIN lru :
        lru[i].pgno \in written /\ ~lru[i].dirty /\ lru[i].pgno \notin touched
            => lru[i].data = Swap(file[Place(lru[i].pgno)])

\* What a user finds in page p.
Content(p) ==
    IF p \notin written THEN 0
    ELSE IF p \in Cached THEN lru[Index(p)].data
    ELSE Swap(file[Place(p)])

\* The pool keeps pages as PageStore describes it: eviction, failed reads and
\* writes, and a sync in the middle of it all neither change nor lose what
\* the user has put into a page, and what was synced is in the file.
PS == INSTANCE PageStore WITH
        Undefined <- 0,
        content <- [p \in Pages |-> Content(p)],
        saved <- synced /\ touched = {},
        fresh <- curcache = 0
KeepsPages == PS!Spec
=============================================================================
