------------------------------ MODULE MailDrop ------------------------------
(***************************************************************************)
(* What a user may expect of the mail that mail.local(8) and popper(8)     *)
(* keep, wherever the two programs keep it for the moment: mail is         *)
(* delivered at the end, the mail that leaves is what the POP client has   *)
(* flagged, and the death of a POP server may repeat a message but loses   *)
(* none.                                                                   *)
(***************************************************************************)
EXTENDS Naturals, Sequences, Positions

CONSTANT Messages

VARIABLES mail,                 \* the messages, oldest first
          flagged,              \* the positions a POP client wants deleted
          reported,             \* messages whose delivery was reported
          linked,               \* somebody has made a second name for the file
          crashes               \* POP servers that died

vars == <<mail, flagged, reported, linked, crashes>>

Init ==
    /\ mail = <<>> /\ flagged = {} /\ reported = {}
    /\ linked = FALSE /\ crashes = 0

\* A delivery may succeed and still be reported as a failure ...
Deliver(m) ==
    /\ mail' = Append(mail, m)
    /\ reported' \in {reported, reported \cup {m}}
    /\ UNCHANGED <<flagged, linked, crashes>>

\* ... but the other way round only while the file has a second name.
Mislay(m) ==
    /\ linked
    /\ reported' = reported \cup {m}
    /\ UNCHANGED <<mail, flagged, linked, crashes>>

Link == linked' = ~linked /\ UNCHANGED <<mail, flagged, reported, crashes>>

\* The client changes its mind, or leaves.
Flag ==
    /\ flagged' \in SUBSET (1..Len(mail))
    /\ UNCHANGED <<mail, reported, linked, crashes>>

\* The sequence s without the positions in D.
Without(s, D) == Select(s, 1..Len(s) \ D)

Update ==
    /\ mail' = Without(mail, flagged)
    /\ flagged' = {}
    /\ UNCHANGED <<reported, linked, crashes>>

In(m, s) == \E i \in 1..Len(s) : s[i] = m

Die ==
    /\ crashes' = crashes + 1
    /\ Len(mail') >= Len(mail)
    /\ \A m \in Messages : In(m, mail') <=> In(m, mail)
    /\ flagged' = {}
    /\ UNCHANGED <<reported, linked>>

Next ==
    \/ \E m \in Messages : Deliver(m) \/ Mislay(m)
    \/ Link \/ Flag \/ Update \/ Die

Spec == Init /\ [][Next]_vars
=============================================================================
