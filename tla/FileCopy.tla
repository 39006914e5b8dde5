------------------------------ MODULE FileCopy ------------------------------
(***************************************************************************)
(* What a file transfer promises: the chunks of the file arrive one after  *)
(* the other, none missing, none twice, and the sending side is told of    *)
(* success only when they have all arrived.  A transfer may stop at any    *)
(* point.                                                                  *)
(***************************************************************************)
EXTENDS Naturals, Sequences

VARIABLES
    size,     \* number of chunks of the file
    copied,   \* the chunks that have arrived, in order of arrival
    success   \* the sending side believes that the file has arrived

CopyInit == size \in Nat \ {0} /\ copied = <<>> /\ success = FALSE

Copy == /\ Len(copied) < size
        /\ copied' = Append(copied, Len(copied) + 1)
        /\ UNCHANGED <<size, success>>

Report == /\ ~success
          /\ Len(copied) = size
          /\ success' = TRUE
          /\ UNCHANGED <<size, copied>>

CopySpec == CopyInit /\ [][Copy \/ Report]_<<size, copied, success>>
=============================================================================
