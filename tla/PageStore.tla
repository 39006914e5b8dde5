----------------------------- MODULE PageStore ------------------------------
(***************************************************************************)
(* What the users of a buffer pool expect of it: every page has the        *)
(* contents that were last given to it, and after a successful sync they   *)
(* survive the end of the pool.                                            *)
(***************************************************************************)
CONSTANTS Pages, Values, Undefined

VARIABLES content,              \* of every page
          saved,                \* a sync has just succeeded
          fresh                 \* the pool has just been opened

vars == <<content, saved, fresh>>

Init == content = [p \in Pages |-> Undefined] /\ saved = FALSE /\ fresh = TRUE

Modify(p) ==
    /\ \E v \in Values : content' = [content EXCEPT ![p] = v]
    /\ saved' = FALSE
    /\ fresh' = FALSE

\* Pages come and go between memory and file.
Work == saved' \in BOOLEAN /\ fresh' \in {FALSE, fresh} /\ UNCHANGED content

Close ==
    /\ IF saved THEN UNCHANGED content
                ELSE content' \in [Pages -> Values \cup {Undefined}]
    /\ saved' = FALSE
    /\ fresh' = TRUE

Next == (\E p \in Pages : Modify(p)) \/ Work \/ Close

Spec == Init /\ [][Next]_vars
=============================================================================
