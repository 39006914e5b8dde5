------------------------------ MODULE MCRpcUdp ------------------------------
(* Instances of RpcUdp for TLC.                                            *)
EXTENDS RpcUdp, TLC

CONSTANTS c1, c2

\* Two clients whose ids differ, and two that were created by chance with
\* the same half of the id.
Differ == (c1 :> 1 @@ c2 :> 2)
Calls21 == (c1 :> 2 @@ c2 :> 1)
Calls2 == [c \in Clients |-> 2]
Calls11 == [c \in Clients |-> 1]
Same == [c \in Clients |-> 1]
=============================================================================
