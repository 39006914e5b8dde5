----------------------------- MODULE RemoteCall -----------------------------
(***************************************************************************)
(* What a caller may rely on when it makes a remote procedure call over    *)
(* UDP: a call that succeeds returns the result of an execution of that    *)
(* very call.  A call may be executed several times, also after it was     *)
(* given up, and a call that fails may have been executed or not.          *)
(***************************************************************************)
CONSTANT Calls

VARIABLES status,               \* of every call
          ran                   \* the calls executed at least once

vars == <<status, ran>>

Init == status = [k \in Calls |-> "unused"] /\ ran = {}

\* A call begins; when it is not to wait for an answer it ends at once.
Start(k) ==
    /\ status[k] = "unused"
    /\ \E e \in {"open", "failed"} : status' = [status EXCEPT ![k] = e]
    /\ UNCHANGED ran

Run(k) ==
    /\ status[k] # "unused"
    /\ ran' = ran \cup {k}
    /\ UNCHANGED status

Succeed(k) ==
    /\ status[k] = "open" /\ k \in ran
    /\ status' = [status EXCEPT ![k] = "ok"]
    /\ UNCHANGED ran

Fail(k) ==
    /\ status[k] = "open"
    /\ status' = [status EXCEPT ![k] = "failed"]
    /\ UNCHANGED ran

Next == \E k \in Calls : Start(k) \/ Run(k) \/ Succeed(k) \/ Fail(k)

Spec == Init /\ [][Next]_vars /\ \A k \in Calls : WF_vars(Succeed(k) \/ Fail(k))
=============================================================================
