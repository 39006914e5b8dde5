----------------------------- MODULE MCInitProc -----------------------------
(* Small instances of InitProc for TLC.                                    *)
EXTENDS InitProc, TLC

\* Neither process ids nor lines are compared with anything but themselves.
Symmetry == Permutations(Pid) \cup Permutations(Dev)
=============================================================================
