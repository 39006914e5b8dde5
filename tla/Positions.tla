----------------------------- MODULE Positions ------------------------------
(***************************************************************************)
(* The members of a set of numbers in ascending order.  SelectSeq would do *)
(* for TLC; as a recursive function they can be reasoned about as well.    *)
(***************************************************************************)
EXTENDS Naturals, Sequences

\* Positions(S)[n]: the members of S among 1, ..., n.
Positions(S) ==
    LET p[n \in Nat] == IF n = 0 THEN <<>>
                        ELSE IF n \in S THEN Append(p[n - 1], n)
                        ELSE p[n - 1]
    IN  p

\* The elements of the sequence s at these positions.
Select(s, S) ==
    [k \in 1..Len(Positions(S)[Len(s)]) |-> s[Positions(S)[Len(s)][k]]]
=============================================================================
