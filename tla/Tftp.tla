-------------------------------- MODULE Tftp --------------------------------
(***************************************************************************)
(* The two transfer loops of libexec/tftpd/tftpd.c, sendfile() and         *)
(* recvfile(), talking to each other over a datagram network that loses,   *)
(* duplicates and reorders packets.  (In a transfer one of the two ends is *)
(* the tftp client, whose loops are copies of these.)                      *)
(*                                                                         *)
(* Both loops are stop-and-wait.  A block number is an int in the programs *)
(* and a 16-bit short in the packets.  The buffers behind readit(),        *)
(* writeit() and write_behind() hold one chunk that was accepted and       *)
(* acknowledged but not yet written to the file.                           *)
(***************************************************************************)
EXTENDS Integers, Sequences

CONSTANTS
    Sizes,     \* how many chunks a file may have
    Half,      \* largest short plus one: 2^15
    MaxTries,  \* maxtimeout / rexmtval
    MaxDup     \* bound: packets the network duplicates

ASSUME SizesAssumption == Sizes \subseteq Nat \ {0}
ASSUME HalfAssumption == Half \in Nat \ {0}
ASSUME MaxAssumption == MaxTries \in Nat \ {0} /\ MaxDup \in Nat

VARIABLES
    size,                       \* chunks of the file: only the last is short
    s_pc, s_block, s_timeout,   \* sendfile()
    r_pc, r_block, r_timeout,   \* recvfile()
    accepted,                   \* chunks passed to writeit()
    pending,                    \* chunks in the write-behind buffer
    disk,                       \* chunks that reached the file
    toRecv, toSend,             \* packets on their way
    dups                        \* packets duplicated so far

svars == <<size, s_pc, s_block, s_timeout>>
rvars == <<r_pc, r_block, r_timeout, accepted, pending, disk>>
vars  == <<size, s_pc, s_block, s_timeout, r_pc, r_block, r_timeout,
           accepted, pending, disk, toRecv, toSend, dups>>

\* htons((u_short)block), and the short that ntohs() puts back into the
\* header.  Mutant: the header field is unsigned.
Wire(b)  == b % (2 * Half)
MutShort(w) == w
Short(w) == IF w < Half THEN w ELSE w - 2 * Half

Data(b) == [op |-> "DATA", block |-> Wire(b), chunk |-> b]
Ack(b)  == [op |-> "ACK", block |-> Wire(b), chunk |-> 0]
Error   == [op |-> "ERROR", block |-> 0, chunk |-> 0]

Packets == [op : {"DATA", "ACK", "ERROR"}, block : 0..(2 * Half - 1),
            chunk : Nat]

TypeOK ==
    /\ size \in Sizes
    /\ s_pc \in {"read", "send", "wait", "done", "abort"}
    /\ s_block \in Nat /\ s_timeout \in 0..MaxTries
    /\ r_pc \in {"send", "wait", "dally", "done", "abort"}
    /\ r_block \in Nat /\ r_timeout \in 0..MaxTries
    /\ accepted \in Seq(Nat) /\ pending \in Seq(Nat) /\ disk \in Seq(Nat)
    /\ toRecv \subseteq Packets /\ toSend \subseteq Packets
    /\ dups \in 0..MaxDup

\* timer(): timeout += rexmtval, and exit(1) when it reaches maxtimeout.
\* Mutants: the waiting times are not added up; one more is allowed.
MutTick(t) == 1
Tick(t) == t + 1
MutTooLate(t) == t > MaxTries
TooLate(t) == t >= MaxTries

Init ==
    /\ size \in Sizes
    /\ s_pc = "read" /\ s_block = 1 /\ s_timeout = 0
    /\ r_pc = "send" /\ r_block = 1 /\ r_timeout = 0
    /\ accepted = <<>> /\ pending = <<>> /\ disk = <<>>
    /\ toRecv = {} /\ toSend = {}
    /\ dups = 0

-----------------------------------------------------------------------------
(* The network.                                                            *)

LosePacket ==
    /\ \/ \E m \in toRecv : toRecv' = toRecv \ {m} /\ UNCHANGED toSend
       \/ \E m \in toSend : toSend' = toSend \ {m} /\ UNCHANGED toRecv
    /\ UNCHANGED <<svars, rvars, dups>>

\* What is left of net when recv() has returned m: another copy of m may
\* still be on its way.
Left(net, m, rest) ==
    \/ rest = net \ {m} /\ UNCHANGED dups
    \/ rest = net /\ dups < MaxDup /\ dups' = dups + 1

\* synchnet(): whatever has arrived by now is thrown away.
synchnet(rest, net) == net \in SUBSET rest

-----------------------------------------------------------------------------
(* sendfile().                                                             *)

\* readit() fills the buffer with the next chunk, or fails.
ReadChunk ==
    /\ s_pc = "read"
    /\ s_pc' = "send"
    /\ s_timeout' = 0
    /\ UNCHANGED <<size, s_block, rvars, toRecv, toSend, dups>>

ReadFails ==
    /\ s_pc = "read"
    /\ toRecv' = toRecv \cup {Error}
    /\ s_pc' = "abort"
    /\ UNCHANGED <<size, s_block, s_timeout, rvars, toSend, dups>>

SendData ==
    /\ s_pc = "send"
    /\ toRecv' = toRecv \cup {Data(s_block)}
    /\ s_pc' = "wait"
    /\ UNCHANGED <<size, s_block, s_timeout, rvars, toSend, dups>>

\* The acknowledgement waited for: the loop ends with the short chunk.
AckMatches(m) == m.op = "ACK" /\ Short(m.block) = s_block

RecvAck(m) ==
    /\ s_pc = "wait"
    /\ AckMatches(m)
    /\ Left(toSend, m, toSend')
    /\ s_block' = s_block + 1
    /\ s_pc' = IF s_block = size THEN "done" ELSE "read"
    /\ UNCHANGED <<size, s_timeout, rvars, toRecv>>

\* Any other one: re-synchronize, and send the data again if the other side
\* asks for it.
RecvOtherAck(m) ==
    /\ s_pc = "wait"
    /\ m.op = "ACK" /\ ~AckMatches(m)
    /\ \E rest \in {toSend, toSend \ {m}} :
          Left(toSend, m, rest) /\ synchnet(rest, toSend')
    /\ s_pc' = IF Short(m.block) = s_block - 1 THEN "send" ELSE "wait"
    /\ UNCHANGED <<size, s_block, s_timeout, rvars, toRecv>>

SenderError ==
    /\ s_pc = "wait"
    /\ \E m \in toSend : m.op = "ERROR" /\ Left(toSend, m, toSend')
    /\ s_pc' = "abort"
    /\ UNCHANGED <<size, s_block, s_timeout, rvars, toRecv>>

\* send() or recv() fails, for instance because the other side is gone.
SenderFails ==
    /\ s_pc \in {"send", "wait"}
    /\ s_pc' = "abort"
    /\ UNCHANGED <<size, s_block, s_timeout, rvars, toRecv, toSend, dups>>

\* timer() jumps back to setjmp(), or exits.
SenderTimer ==
    /\ s_pc = "wait"
    /\ s_timeout' = Tick(s_timeout)
    /\ s_pc' = IF TooLate(s_timeout') THEN "abort" ELSE "send"
    /\ UNCHANGED <<size, s_block, rvars, toRecv, toSend, dups>>

-----------------------------------------------------------------------------
(* recvfile().  r_block is the block it waits for.                         *)

\* write_behind(): the buffered chunk goes to the file.  Nobody looks at the
\* result, so a write that fails only leaves a gap.
\* Mutant: the buffer is not marked free.
MutWriteBehind ==
    /\ UNCHANGED pending
    /\ disk' \in {disk, disk \o pending}

write_behind ==
    /\ pending' = <<>>
    /\ disk' \in {disk, disk \o pending}

SendAck ==
    /\ r_pc = "send"
    /\ toSend' = toSend \cup {Ack(r_block - 1)}
    /\ write_behind
    /\ r_pc' = "wait"
    /\ UNCHANGED <<svars, r_block, r_timeout, accepted, toRecv, dups>>

\* Mutant: the block number is not compared.
MutDataMatches(m) == m.op = "DATA"
DataMatches(m) == m.op = "DATA" /\ Short(m.block) = r_block

\* The chunk waited for goes into the buffer by writeit().  A full chunk is
\* acknowledged at the head of the loop ...
RecvData(m) ==
    /\ r_pc = "wait"
    /\ DataMatches(m) /\ m.chunk # size
    /\ Left(toRecv, m, toRecv')
    /\ accepted' = Append(accepted, m.chunk)
    /\ pending' = <<m.chunk>>
    /\ r_block' = r_block + 1
    /\ r_timeout' = 0
    /\ r_pc' = "send"
    /\ UNCHANGED <<svars, disk, toSend>>

\* ... the short one ends the loop: the file is closed, the final
\* acknowledgement is sent, and recvfile() waits for one more packet.
RecvLastData(m) ==
    /\ r_pc = "wait"
    /\ DataMatches(m) /\ m.chunk = size
    /\ Left(toRecv, m, toRecv')
    /\ accepted' = Append(accepted, m.chunk)
    /\ pending' = <<>>
    /\ disk' \in {disk, Append(disk, m.chunk)}
    /\ toSend' = toSend \cup {Ack(r_block)}
    /\ r_pc' = "dally"
    /\ UNCHANGED <<svars, r_block, r_timeout>>

RecvOtherData(m) ==
    /\ r_pc = "wait"
    /\ m.op = "DATA" /\ ~DataMatches(m)
    /\ \E rest \in {toRecv, toRecv \ {m}} :
          Left(toRecv, m, rest) /\ synchnet(rest, toRecv')
    /\ r_pc' = IF Short(m.block) = r_block - 1 THEN "send" ELSE "wait"
    /\ UNCHANGED <<svars, r_block, r_timeout, accepted, pending, disk, toSend>>

ReceiverError ==
    /\ r_pc = "wait"
    /\ \E m \in toRecv : m.op = "ERROR" /\ Left(toRecv, m, toRecv')
    /\ r_pc' = "abort"
    /\ UNCHANGED <<svars, r_block, r_timeout, accepted, pending, disk, toSend>>

ReceiverFails ==
    /\ r_pc \in {"send", "wait"}
    /\ r_pc' = "abort"
    /\ UNCHANGED <<svars, r_block, r_timeout, accepted, pending, disk, toRecv,
                   toSend, dups>>

\* The other end of sendfile() is a client, perhaps not this program's own:
\* the protocol lets it report its failure, though recvfile() never does so
\* because writeit() always returns its count argument.
ClientError ==
    /\ r_pc = "wait"
    /\ toSend' = toSend \cup {Error}
    /\ r_pc' = "abort"
    /\ UNCHANGED <<svars, r_block, r_timeout, accepted, pending, disk, toRecv,
                   dups>>

ReceiverTimer ==
    /\ r_pc = "wait"
    /\ r_timeout' = Tick(r_timeout)
    /\ r_pc' = IF TooLate(r_timeout') THEN "abort" ELSE "send"
    /\ UNCHANGED <<svars, r_block, accepted, pending, disk, toRecv, toSend,
                   dups>>

\* The packet received while dallying goes into buf, but the test looks at
\* *dp, the buffer that writeit() switched to: it holds block r_block - 1 or
\* nothing.  So nothing is ever sent.
Dally(m) ==
    /\ r_pc = "dally"
    /\ Left(toRecv, m, toRecv')
    /\ r_pc' = "done"
    /\ UNCHANGED <<svars, r_block, r_timeout, accepted, pending, disk, toSend>>

justquit ==
    /\ r_pc = "dally"
    /\ r_pc' = "done"
    /\ UNCHANGED <<svars, r_block, r_timeout, accepted, pending, disk, toRecv,
                   toSend, dups>>

-----------------------------------------------------------------------------
Sender ==
    \/ ReadChunk \/ ReadFails \/ SendData
    \/ \E m \in toSend : RecvAck(m) \/ RecvOtherAck(m)
    \/ SenderError \/ SenderFails \/ SenderTimer

Receiver ==
    \/ SendAck
    \/ \E m \in toRecv :
          RecvData(m) \/ RecvLastData(m) \/ RecvOtherData(m) \/ Dally(m)
    \/ ReceiverError \/ ReceiverFails \/ ClientError \/ ReceiverTimer
    \/ justquit

Next == Sender \/ Receiver \/ LosePacket

Spec == Init /\ [][Next]_vars

\* Each process runs when it can; its timer counts as one of its steps.
\* Packets may all be lost.
FairSpec == Spec /\ WF_vars(Sender) /\ WF_vars(Receiver)

-----------------------------------------------------------------------------
(* Properties.                                                             *)

\* The transfer is a copy of the file: sendfile() and recvfile() together
\* implement FileCopy, whatever the network does.
FC == INSTANCE FileCopy WITH copied <- accepted, success <- s_pc = "done"
Copies == FC!CopySpec

\* The signed comparison of the block numbers limits the transfer: no block
\* from number Half on is ever accepted or acknowledged, so a file of Half
\* chunks or more stops there.
ShortLimit == s_block <= Half /\ Len(accepted) < Half

\* Chunks reach the file in order and at most once, although write_behind()
\* is called again with every retransmission.
DiskOrdered == \A i, j \in 1..Len(disk) : i < j => disk[i] < disk[j]

\* Both sides stop in the end, even if every packet is lost.
Terminates == /\ <>(s_pc \in {"done", "abort"})
              /\ <>(r_pc \in {"done", "abort"})

-----------------------------------------------------------------------------
(* What comments of the code say and the code does not do.                 *)

\* "then my last ack was lost", "resend final ack": the last data block that
\* arrives again in the dally period is acknowledged again.
FinalAckResent ==
    [][\A m \in toRecv : Dally(m) /\ DataMatches(m)
           => Ack(r_block) \in toSend']_vars

\* "size = write(file, dp->th_data, n - 4)", and nak(ENOSPACE) if that is not
\* all: a sender that is told of success has its file on the disk.
SuccessOnDisk == s_pc = "done" => Len(disk) = size
=============================================================================
