--------------------------- MODULE LibexecProofs ----------------------------
(***************************************************************************)
(* The daemons of libexec.  tftpd: sendfile() and recvfile() implement     *)
(* FileCopy, for files of any length, any width of the block number and    *)
(* any number of retries and duplicates.  telnetd: the two ends of a       *)
(* connection agree on an option, for any number of requests of both.  The *)
(* two daemons share nothing.                                              *)
(***************************************************************************)
EXTENDS Tftp, TelnetOpt, FiniteSetTheorems, SequenceTheorems, TLAPS

-----------------------------------------------------------------------------
(* The transfer loops of tftpd.                                            *)

n == Len(accepted)

\* The chunks accepted so far are 1, 2, ..., n.
InOrder == \A i \in 1..n : accepted[i] = i

\* The two loops are never more than one block apart.
InStep ==
    /\ n <= s_block /\ s_block <= n + 1
    /\ n <= size /\ n < Half /\ s_block <= Half

SenderAt ==
    /\ s_block >= 1
    /\ s_pc \in {"read", "send", "wait", "abort"} => s_block <= size
    /\ s_pc = "done" => n = size

ReceiverAt ==
    /\ r_pc \in {"send", "wait"} => r_block = n + 1 /\ n < size
    /\ r_pc \in {"dally", "done"} => r_block = size /\ n = size

\* Nothing on the network is from the future.
DataSent == \A m \in toRecv : m.op = "DATA" =>
                /\ m.chunk \in 1..size /\ m.chunk <= s_block
                /\ m.block = Wire(m.chunk)

AckSent == \A m \in toSend : m.op = "ACK" =>
                \E a \in 0..n : m.block = Wire(a)

\* A process whose time is up has left.
TimerRuns ==
    /\ s_pc \in {"read", "send", "wait"} => s_timeout < MaxTries
    /\ r_pc \in {"send", "wait"} => r_timeout < MaxTries

IInv == TypeOK /\ TimerRuns /\ InOrder /\ InStep /\ SenderAt /\ ReceiverAt /\ DataSent
        /\ AckSent

-----------------------------------------------------------------------------
LEMMA SizeType == TypeOK => size \in Nat /\ size >= 1
  BY SizesAssumption DEF TypeOK

\* What the header field of a block number reads as on the other side.
LEMMA ShortWire ==
    ASSUME NEW b \in 0..Half
    PROVE  /\ Wire(b) \in 0..(2 * Half - 1)
           /\ Short(Wire(b)) = IF b < Half THEN b ELSE b - 2 * Half
  BY HalfAssumption DEF Wire, Short

\* An acknowledgement that matches is one for the current block, and the
\* receiver has that block.
LEMMA AckMeaning ==
    ASSUME IInv, NEW m \in toSend, AckMatches(m)
    PROVE  s_block <= n /\ n = s_block
<1>1. PICK a \in 0..n : m.block = Wire(a)
  BY DEF IInv, AckSent, AckMatches
<1>2. a \in 0..Half /\ a < Half
  BY <1>1, HalfAssumption DEF IInv, InStep, TypeOK, n
<1>3. Short(m.block) = a
  BY <1>1, <1>2, ShortWire
<1> QED
  BY <1>1, <1>3 DEF AckMatches, IInv, InStep, TypeOK, n

\* A data packet that matches holds the next chunk.
LEMMA DataMeaning ==
    ASSUME IInv, NEW m \in toRecv, DataMatches(m), r_pc = "wait"
    PROVE  m.chunk = n + 1 /\ n + 1 <= size /\ n + 1 <= s_block /\ n + 1 < Half
<1>1. m.chunk \in 1..size /\ m.chunk <= s_block /\ m.block = Wire(m.chunk)
  BY DEF IInv, DataSent, DataMatches
<1>2. m.chunk \in 0..Half
  BY <1>1, HalfAssumption, SizeType DEF IInv, InStep, TypeOK
<1>3. Short(m.block) = IF m.chunk < Half THEN m.chunk ELSE m.chunk - 2 * Half
  BY <1>1, <1>2, ShortWire
<1>4. Short(m.block) = n + 1 /\ n \in Nat
  BY DEF DataMatches, IInv, ReceiverAt, TypeOK, n
<1>5. m.chunk = n + 1 /\ n + 1 < Half
  BY <1>1, <1>2, <1>3, <1>4, HalfAssumption, SizeType
<1> QED
  BY <1>1, <1>5, SizeType

\* Receiving removes packets and adds none.
LEMMA LeftShrinks ==
    ASSUME NEW net, NEW m, NEW rest, Left(net, m, rest), dups \in 0..MaxDup
    PROVE  rest \subseteq net /\ dups' \in 0..MaxDup
  BY MaxAssumption DEF Left

-----------------------------------------------------------------------------
\* Nobody changes the file while it is sent.
LEMMA SizeSame == [Next]_vars => size' = size
<1>1. Sender => size' = size
  BY DEF Sender, ReadChunk, ReadFails, SendData, RecvAck, RecvOtherAck, SenderError,
         SenderFails, SenderTimer
<1>2. Receiver => size' = size
  BY DEF Receiver, SendAck, RecvData, RecvLastData, RecvOtherData, Dally,
         ReceiverError, ReceiverFails, ClientError, ReceiverTimer, justquit, svars
<1>3. LosePacket \/ UNCHANGED vars => size' = size
  BY DEF LosePacket, vars, svars
<1> QED
  BY <1>1, <1>2, <1>3 DEF Next

LEMMA InitIInv == Init => IInv
<1> SUFFICES ASSUME Init PROVE IInv
  OBVIOUS
<1>1. TypeOK
  BY MaxAssumption DEF Init, TypeOK
<1>2. n = 0
  BY DEF Init, n
<1> QED
  BY <1>1, <1>2, SizeType, HalfAssumption, MaxAssumption
  DEF Init, IInv, TimerRuns, InOrder, InStep, SenderAt, ReceiverAt, DataSent, AckSent

\* The steps of sendfile().
LEMMA SenderStep == IInv /\ Sender => IInv'
<1> SUFFICES ASSUME IInv, Sender PROVE IInv'
  OBVIOUS
<1>z. size' = size /\ size \in Nat /\ size >= 1
  BY SizeSame, SizeType DEF Next, IInv
<1> USE <1>z
<1>n. n \in Nat /\ (UNCHANGED accepted => n' = n)
  BY DEF IInv, TypeOK, n
<1>w. UNCHANGED rvars => UNCHANGED <<r_pc, r_block, r_timeout, accepted, pending,
                                     disk>>
  BY DEF rvars
<1> USE DEF IInv
<1>1. CASE ReadChunk
  <2>1. TypeOK'
    BY <1>1, <1>w, MaxAssumption DEF ReadChunk, TypeOK
  <2> QED
    BY <1>1, <1>n, <1>w, <2>1, MaxAssumption DEF ReadChunk, TimerRuns, InOrder, InStep, SenderAt,
       ReceiverAt, DataSent, AckSent
<1>2. CASE ReadFails
  <2>1. Error \in Packets /\ Error.op # "DATA"
    BY HalfAssumption DEF Error, Packets
  <2>2. TypeOK'
    BY <1>2, <1>w, <2>1 DEF ReadFails, TypeOK
  <2> QED
    BY <1>2, <1>n, <1>w, <2>1, <2>2 DEF ReadFails, TimerRuns, InOrder, InStep, SenderAt,
       ReceiverAt, DataSent, AckSent
<1>3. CASE SendData
  <2>1. s_block \in 1..size /\ s_block \in 0..Half
    BY <1>3, SizeType, HalfAssumption
    DEF SendData, TypeOK, SenderAt, InStep
  <2>2. /\ Data(s_block) \in Packets
        /\ Data(s_block).chunk = s_block /\ Data(s_block).block = Wire(s_block)
    BY <2>1, ShortWire DEF Data, Packets, TypeOK
  <2>3. TypeOK'
    BY <1>3, <1>w, <2>2 DEF SendData, TypeOK
  <2>4. DataSent'
    BY <1>3, <2>1, <2>2 DEF SendData, DataSent, TypeOK
  <2> QED
    BY <1>3, <1>n, <1>w, <2>3, <2>4 DEF SendData, TimerRuns, InOrder, InStep, SenderAt,
       ReceiverAt, AckSent
<1>4. ASSUME NEW m \in toSend, RecvAck(m) PROVE IInv'
  <2>1. n = s_block
    BY <1>4, AckMeaning DEF RecvAck
  <2>2. toSend' \subseteq toSend /\ dups' \in 0..MaxDup
    BY <1>4, LeftShrinks DEF RecvAck, TypeOK
  <2>3. TypeOK'
    BY <1>4, <1>w, <2>2 DEF RecvAck, TypeOK
  <2>4. InStep' /\ SenderAt'
    BY <1>4, <1>n, <1>w, <2>1, SizeType, HalfAssumption
    DEF RecvAck, InStep, SenderAt, TypeOK
  <2>5. DataSent'
    BY <1>4, SizeType DEF RecvAck, DataSent, TypeOK
  <2> QED
    BY <1>4, <1>n, <1>w, <2>2, <2>3, <2>4, <2>5
    DEF RecvAck, TimerRuns, InOrder, ReceiverAt, AckSent
<1>5. ASSUME NEW m \in toSend, RecvOtherAck(m) PROVE IInv'
  <2>1. PICK rest : Left(toSend, m, rest) /\ synchnet(rest, toSend')
    BY <1>5 DEF RecvOtherAck
  <2>2. toSend' \subseteq toSend /\ dups' \in 0..MaxDup
    BY <2>1, LeftShrinks DEF synchnet, TypeOK
  <2>3. TypeOK'
    BY <1>5, <1>w, <2>2 DEF RecvOtherAck, TypeOK
  <2> QED
    BY <1>5, <1>n, <1>w, <2>2, <2>3 DEF RecvOtherAck, TimerRuns, InOrder, InStep, SenderAt,
       ReceiverAt, DataSent, AckSent
<1>6. CASE SenderError
  <2>1. toSend' \subseteq toSend /\ dups' \in 0..MaxDup
    BY <1>6, LeftShrinks DEF SenderError, TypeOK
  <2>2. TypeOK'
    BY <1>6, <1>w, <2>1 DEF SenderError, TypeOK
  <2> QED
    BY <1>6, <1>n, <1>w, <2>1, <2>2 DEF SenderError, TimerRuns, InOrder, InStep, SenderAt,
       ReceiverAt, DataSent, AckSent
<1>7. CASE SenderFails
  <2>1. TypeOK'
    BY <1>7, <1>w DEF SenderFails, TypeOK
  <2> QED
    BY <1>7, <1>n, <1>w, <2>1 DEF SenderFails, TimerRuns, InOrder, InStep, SenderAt,
       ReceiverAt, DataSent, AckSent
<1>8. CASE SenderTimer
  <2>1. s_timeout < MaxTries
    BY <1>8 DEF SenderTimer, TimerRuns
  <2>2. TypeOK'
    BY <1>8, <1>w, <2>1, MaxAssumption DEF SenderTimer, Tick, TypeOK
  <2>3. TimerRuns'
    BY <1>8, <1>w, <2>2, MaxAssumption
    DEF SenderTimer, TooLate, TimerRuns, TypeOK
  <2> QED
    BY <1>8, <1>n, <1>w, <2>2, <2>3 DEF SenderTimer, InOrder, InStep, SenderAt,
       ReceiverAt, DataSent, AckSent
<1> QED
  BY <1>1, <1>2, <1>3, <1>4, <1>5, <1>6, <1>7, <1>8 DEF Sender

\* The steps of recvfile().
LEMMA AppendNext ==
    ASSUME IInv
    PROVE  /\ Append(accepted, n + 1) \in Seq(Nat)
           /\ Len(Append(accepted, n + 1)) = n + 1
           /\ \A i \in 1..(n + 1) : Append(accepted, n + 1)[i] = i
  BY DEF IInv, TypeOK, InOrder, n

LEMMA ReceiverStep == IInv /\ Receiver => IInv'
<1> SUFFICES ASSUME IInv, Receiver PROVE IInv'
  OBVIOUS
<1>z. size' = size /\ size \in Nat /\ size >= 1
  BY SizeSame, SizeType DEF Next, IInv
<1> USE <1>z
<1>n. n \in Nat /\ (UNCHANGED accepted => n' = n)
  BY DEF IInv, TypeOK, n
<1>w. UNCHANGED svars => UNCHANGED <<s_pc, s_block, s_timeout>>
  BY DEF svars
<1> USE DEF IInv
<1>1. CASE SendAck
  <2>1. r_block - 1 = n /\ n \in 0..Half /\ n < Half
    BY <1>1, <1>n, HalfAssumption DEF SendAck, ReceiverAt, InStep, TypeOK
  <2>2. Ack(r_block - 1) \in Packets /\ Ack(r_block - 1).block = Wire(n)
    BY <2>1, ShortWire DEF Ack, Packets
  <2>3. disk' \in Seq(Nat) /\ pending' \in Seq(Nat)
    <3>1. disk \o pending \in Seq(Nat) /\ <<>> \in Seq(Nat)
      BY DEF TypeOK
    <3> QED
      BY <1>1, <3>1 DEF SendAck, write_behind, TypeOK
  <2>4. TypeOK'
    BY <1>1, <1>w, <2>2, <2>3 DEF SendAck, TypeOK
  <2>5. AckSent'
    BY <1>1, <1>n, <2>1, <2>2 DEF SendAck, AckSent
  <2> QED
    BY <1>1, <1>n, <1>w, <2>4, <2>5 DEF SendAck, TimerRuns, InOrder, InStep,
       SenderAt, ReceiverAt, DataSent
<1>2. ASSUME NEW m \in toRecv, RecvData(m) PROVE IInv'
  <2>1. m.chunk = n + 1 /\ n + 1 <= size /\ n + 1 <= s_block /\ n + 1 < Half
    BY <1>2, DataMeaning DEF RecvData
  <2>2. toRecv' \subseteq toRecv /\ dups' \in 0..MaxDup
    BY <1>2, LeftShrinks DEF RecvData, TypeOK
  <2>3. accepted' = Append(accepted, n + 1) /\ n' = n + 1
    BY <1>2, <2>1, AppendNext DEF RecvData, n
  <2>4. pending' \in Seq(Nat)
    BY <1>2, <1>n, <2>1 DEF RecvData
  <2>5. TypeOK'
    BY <1>2, <1>w, <2>2, <2>3, <2>4, AppendNext, MaxAssumption
    DEF RecvData, TypeOK
  <2>6. InOrder'
    BY <2>3, AppendNext DEF InOrder
  <2>7. AckSent'
    BY <1>2, <1>n, <2>3 DEF RecvData, AckSent
  <2>8. ReceiverAt' /\ InStep' /\ SenderAt'
    BY <1>2, <1>n, <1>w, <2>1, <2>3, SizeType, HalfAssumption
    DEF RecvData, ReceiverAt, InStep, SenderAt, TypeOK
  <2> QED
    BY <1>2, <1>w, <2>2, <2>5, <2>6, <2>7, <2>8, MaxAssumption
    DEF RecvData, TimerRuns, DataSent
<1>3. ASSUME NEW m \in toRecv, RecvLastData(m) PROVE IInv'
  <2>1. m.chunk = n + 1 /\ n + 1 = size /\ n + 1 <= s_block /\ n + 1 < Half
        /\ r_block = n + 1
    BY <1>3, DataMeaning DEF RecvLastData, ReceiverAt
  <2>2. toRecv' \subseteq toRecv /\ dups' \in 0..MaxDup
    BY <1>3, LeftShrinks DEF RecvLastData, TypeOK
  <2>3. accepted' = Append(accepted, n + 1) /\ n' = n + 1
    BY <1>3, <2>1, AppendNext DEF RecvLastData, n
  <2>4. Ack(r_block) \in Packets /\ Ack(r_block).block = Wire(n + 1)
    BY <1>n, <2>1, ShortWire, HalfAssumption DEF Ack, Packets
  <2>5. disk' \in Seq(Nat) /\ pending' \in Seq(Nat)
    <3>1. Append(disk, m.chunk) \in Seq(Nat) /\ <<>> \in Seq(Nat)
      BY <1>n, <2>1 DEF TypeOK
    <3> QED
      BY <1>3, <3>1 DEF RecvLastData, TypeOK
  <2>6. TypeOK'
    BY <1>3, <1>w, <2>2, <2>3, <2>4, <2>5, AppendNext DEF RecvLastData, TypeOK
  <2>7. InOrder'
    BY <2>3, AppendNext DEF InOrder
  <2>8. AckSent'
    BY <1>3, <1>n, <2>3, <2>4 DEF RecvLastData, AckSent
  <2>9. ReceiverAt' /\ InStep' /\ SenderAt'
    BY <1>3, <1>n, <1>w, <2>1, <2>3, SizeType, HalfAssumption
    DEF RecvLastData, ReceiverAt, InStep, SenderAt, TypeOK
  <2> QED
    BY <1>3, <1>w, <2>2, <2>6, <2>7, <2>8, <2>9
    DEF RecvLastData, TimerRuns, DataSent
<1>4. ASSUME NEW m \in toRecv, RecvOtherData(m) PROVE IInv'
  <2>1. PICK rest : Left(toRecv, m, rest) /\ synchnet(rest, toRecv')
    BY <1>4 DEF RecvOtherData
  <2>2. toRecv' \subseteq toRecv /\ dups' \in 0..MaxDup
    BY <2>1, LeftShrinks DEF synchnet, TypeOK
  <2>3. TypeOK'
    BY <1>4, <1>w, <2>2 DEF RecvOtherData, TypeOK
  <2> QED
    BY <1>4, <1>n, <1>w, <2>2, <2>3 DEF RecvOtherData, TimerRuns, InOrder,
       InStep, SenderAt, ReceiverAt, DataSent, AckSent
<1>5. CASE ReceiverError \/ \E m \in toRecv : Dally(m)
  <2>1. toRecv' \subseteq toRecv /\ dups' \in 0..MaxDup
    BY <1>5, LeftShrinks DEF ReceiverError, Dally, TypeOK
  <2>2. TypeOK'
    BY <1>5, <1>w, <2>1 DEF ReceiverError, Dally, TypeOK
  <2> QED
    BY <1>5, <1>n, <1>w, <2>1, <2>2 DEF ReceiverError, Dally, TimerRuns,
       InOrder, InStep, SenderAt, ReceiverAt, DataSent, AckSent
<1>6. CASE ReceiverFails \/ justquit
  <2>1. TypeOK'
    BY <1>6, <1>w DEF ReceiverFails, justquit, TypeOK
  <2> QED
    BY <1>6, <1>n, <1>w, <2>1 DEF ReceiverFails, justquit, TimerRuns, InOrder,
       InStep, SenderAt, ReceiverAt, DataSent, AckSent
<1>7. CASE ReceiverTimer
  <2>1. r_timeout < MaxTries
    BY <1>7 DEF ReceiverTimer, TimerRuns
  <2>2. TypeOK'
    BY <1>7, <1>w, <2>1, MaxAssumption DEF ReceiverTimer, Tick, TypeOK
  <2>3. TimerRuns'
    BY <1>7, <1>w, <2>2, MaxAssumption
    DEF ReceiverTimer, TooLate, TimerRuns, TypeOK
  <2> QED
    BY <1>7, <1>n, <1>w, <2>2, <2>3 DEF ReceiverTimer, InOrder, InStep,
       SenderAt, ReceiverAt, DataSent, AckSent
<1>8. CASE ClientError
  <2>1. Error \in Packets /\ Error.op # "ACK"
    BY HalfAssumption DEF Error, Packets
  <2>2. TypeOK'
    BY <1>8, <1>w, <2>1 DEF ClientError, TypeOK
  <2> QED
    BY <1>8, <1>n, <1>w, <2>1, <2>2 DEF ClientError, TimerRuns, InOrder, InStep,
       SenderAt, ReceiverAt, DataSent, AckSent
<1> QED
  BY <1>1, <1>2, <1>3, <1>4, <1>5, <1>6, <1>7, <1>8 DEF Receiver

LEMMA LoseStep == IInv /\ LosePacket => IInv'
<1> SUFFICES ASSUME IInv, LosePacket PROVE IInv'
  OBVIOUS
<1>1. UNCHANGED <<svars, rvars, dups>> /\ n' = n
  BY DEF LosePacket, rvars, n
<1>2. toRecv' \subseteq toRecv /\ toSend' \subseteq toSend
  BY DEF LosePacket
<1> QED
  BY <1>1, <1>2 DEF IInv, TypeOK, TimerRuns, InOrder, InStep, SenderAt,
     ReceiverAt, DataSent, AckSent, svars, rvars

LEMMA StutterStep == IInv /\ UNCHANGED vars => IInv'
  BY DEF vars, IInv, TypeOK, TimerRuns, InOrder, InStep, SenderAt, ReceiverAt,
         DataSent, AckSent, n

-----------------------------------------------------------------------------
\* The inductive invariant of the transfer.
THEOREM Inductive == Spec => []IInv
<1>1. IInv /\ [Next]_vars => IInv'
  BY SenderStep, ReceiverStep, LoseStep, StutterStep DEF Next
<1> QED
  BY InitIInv, <1>1, PTL DEF Spec

\* Every variable keeps its type; in particular no timeout passes maxtimeout.
THEOREM TypeCorrect == Spec => []TypeOK
<1>1. IInv => TypeOK
  BY DEF IInv
<1> QED
  BY Inductive, <1>1, PTL

\* No block number that does not fit into a positive short is acknowledged.
THEOREM Limited == Spec => []ShortLimit
<1>1. IInv => ShortLimit
  BY DEF IInv, InStep, ShortLimit, n
<1> QED
  BY Inductive, <1>1, PTL

\* sendfile() and recvfile() implement FileCopy over any network that loses,
\* duplicates and reorders packets, for a file of any length.
THEOREM Implements == Spec => Copies
<1>1. Init => FC!CopyInit
  BY SizesAssumption DEF Init, FC!CopyInit
<1>2. IInv /\ [Next]_vars =>
          [FC!Copy \/ FC!Report]_<<size, accepted, s_pc = "done">>
  <2> SUFFICES ASSUME IInv, [Next]_vars
               PROVE  \/ FC!Copy \/ FC!Report
                      \/ UNCHANGED <<size, accepted, s_pc = "done">>
    OBVIOUS
  <2>z. size' = size
    BY SizeSame
  <2>1. ASSUME NEW m \in toSend, RecvAck(m), s_block = size PROVE FC!Report
    <3>1. n = size
      BY <2>1, AckMeaning DEF RecvAck
    <3> QED
      BY <2>z, <2>1, <3>1 DEF RecvAck, FC!Report, rvars, n
  <2>2. ASSUME NEW m \in toRecv, RecvData(m) \/ RecvLastData(m) PROVE FC!Copy
    <3>1. m.chunk = n + 1 /\ n + 1 <= size
      BY <2>2, DataMeaning DEF RecvData, RecvLastData
    <3>2. n < size /\ accepted' = Append(accepted, n + 1)
      BY <2>2, <3>1, SizeType DEF RecvData, RecvLastData, IInv, TypeOK, n
    <3> QED
      BY <2>z, <2>2, <3>2 DEF RecvData, RecvLastData, FC!Copy, svars, n
  <2>3. CASE UNCHANGED vars
    BY <2>z, <2>3 DEF vars
  <2>4. CASE LosePacket
    BY <2>z, <2>4 DEF LosePacket, svars, rvars
  <2>5. CASE Sender
    <3>1. ASSUME NEW m \in toSend, RecvAck(m), s_block # size
          PROVE  UNCHANGED <<size, accepted, s_pc = "done">>
      BY <2>z, <3>1 DEF RecvAck, rvars
    <3> QED
      BY <2>z, <2>1, <2>5, <3>1 DEF Sender, ReadChunk, ReadFails, SendData,
         RecvOtherAck, SenderError, SenderFails, SenderTimer, rvars
  <2>6. CASE Receiver
    BY <2>z, <2>2, <2>6 DEF Receiver, SendAck, RecvOtherData, Dally, ReceiverError,
       ReceiverFails, ClientError, ReceiverTimer, justquit, svars
  <2> QED
    BY <2>3, <2>4, <2>5, <2>6 DEF Next
<1> QED
  BY Inductive, <1>1, <1>2, PTL DEF Spec, Copies, FC!CopySpec

-----------------------------------------------------------------------------
\* The write behind the network: a chunk in the buffer is the last one that
\* was accepted and is not in the file yet, and no other is written after it.
BufferHolds == pending = <<>> \/ (pending = <<n>> /\ r_pc \in {"send", "abort"})
FileBehind == \A i \in 1..Len(disk) : disk[i] <= n /\ (pending # <<>> => disk[i] < n)
Buffered == BufferHolds /\ FileBehind /\ DiskOrdered

\* A chunk that is later than all those in the file goes to its end.
LEMMA Later ==
    ASSUME NEW d \in Seq(Nat), NEW c \in Nat,
           \A i \in 1..Len(d) : d[i] < c,
           \A i, j \in 1..Len(d) : i < j => d[i] < d[j]
    PROVE  /\ \A i \in 1..Len(Append(d, c)) : Append(d, c)[i] <= c
           /\ \A i, j \in 1..Len(Append(d, c)) : i < j => Append(d, c)[i] < Append(d, c)[j]
<1>1. /\ Len(Append(d, c)) = Len(d) + 1 /\ Len(d) \in Nat
      /\ \A i \in 1..Len(d) : Append(d, c)[i] = d[i] /\ d[i] \in Nat
      /\ Append(d, c)[Len(d) + 1] = c
  OBVIOUS
<1>2. \A i \in 1..Len(d) + 1 : i \in 1..Len(d) \/ i = Len(d) + 1
  BY <1>1
<1>3. \A i \in 1..Len(d) : ~(Len(d) + 1 < i)
  BY <1>1
<1> QED
  BY <1>1, <1>2, <1>3

\* The steps that leave buffer and file alone.
LEMMA BufferedSame ==
    ASSUME Buffered, UNCHANGED <<accepted, pending, disk>>,
           r_pc' \in {"send", "abort"} \/ pending = <<>>
    PROVE  Buffered'
<1>1. n' = n
  BY DEF n
<1>2. BufferHolds'
  BY <1>1 DEF Buffered, BufferHolds
<1>3. FileBehind' /\ DiskOrdered'
  BY <1>1 DEF Buffered, FileBehind, DiskOrdered
<1> QED
  BY <1>2, <1>3 DEF Buffered

\* The buffer is free.
LEMMA BufferFree ==
    ASSUME pending' = <<>>,
           \A i \in 1..Len(disk') : disk'[i] <= n',
           \A i, j \in 1..Len(disk') : i < j => disk'[i] < disk'[j]
    PROVE  Buffered'
<1>1. BufferHolds'
  BY DEF BufferHolds
<1>2. FileBehind' /\ DiskOrdered'
  BY DEF FileBehind, DiskOrdered
<1> QED
  BY <1>1, <1>2 DEF Buffered

LEMMA BufferedStep == IInv /\ Buffered /\ [Next]_vars => Buffered'
<1> SUFFICES ASSUME IInv, Buffered, [Next]_vars
             PROVE  Buffered'
  OBVIOUS
<1>1. /\ n \in Nat /\ accepted \in Seq(Nat) /\ disk \in Seq(Nat)
      /\ \A i \in 1..Len(disk) : disk[i] \in Nat /\ disk[i] <= n
      /\ \A i, j \in 1..Len(disk) : i < j => disk[i] < disk[j]
  BY DEF IInv, TypeOK, n, Buffered, FileBehind, DiskOrdered
<1>2. CASE UNCHANGED <<r_pc, accepted, pending, disk>>
  BY <1>2, BufferedSame DEF Buffered, BufferHolds
<1>3. CASE SendAck
  <2>n. n' = n /\ pending' = <<>> /\ disk' \in {disk, disk \o pending}
    BY <1>3 DEF SendAck, write_behind, n
  <2>1. CASE disk' = disk
    BY <1>1, <2>n, <2>1, BufferFree
  <2>2. CASE pending = <<>> /\ disk' = disk \o pending
    <3>1. disk' = disk
      BY <1>1, <2>2
    <3> QED
      BY <2>1, <3>1
  <2>3. CASE pending = <<n>> /\ disk' = disk \o pending
    <3>1. disk' = Append(disk, n)
      BY <1>1, <2>3
    <3>2. \A i \in 1..Len(disk) : disk[i] < n
      BY <2>3 DEF Buffered, FileBehind
    <3>4. /\ \A i \in 1..Len(disk') : disk'[i] <= n
          /\ \A i, j \in 1..Len(disk') : i < j => disk'[i] < disk'[j]
      BY <1>1, <3>1, <3>2, Later
    <3> QED
      BY <2>n, <3>4, BufferFree
  <2> QED
    BY <2>n, <2>1, <2>2, <2>3 DEF Buffered, BufferHolds
<1>4. ASSUME NEW m \in toRecv, RecvData(m) PROVE Buffered'
  <2>1. m.chunk = n + 1 /\ pending' = <<m.chunk>> /\ r_pc' = "send" /\ disk' = disk
    BY <1>4, DataMeaning DEF RecvData
  <2>2. n' = n + 1
    BY <1>1, <1>4 DEF RecvData, n
  <2>3. \A i \in 1..Len(disk) : disk[i] < n + 1
    BY <1>1
  <2>4. BufferHolds'
    BY <2>1, <2>2 DEF BufferHolds
  <2>5. FileBehind' /\ DiskOrdered'
    BY <1>1, <2>1, <2>2, <2>3 DEF FileBehind, DiskOrdered
  <2> QED
    BY <2>4, <2>5 DEF Buffered
<1>5. ASSUME NEW m \in toRecv, RecvLastData(m) PROVE Buffered'
  <2>1. m.chunk = n + 1 /\ pending' = <<>> /\ disk' \in {disk, Append(disk, m.chunk)}
    BY <1>5, DataMeaning DEF RecvLastData
  <2>2. n' = n + 1
    BY <1>1, <1>5 DEF RecvLastData, n
  <2>3. \A i \in 1..Len(disk) : disk[i] < n + 1 /\ disk[i] <= n + 1
    BY <1>1
  <2>4. CASE disk' = disk
    BY <1>1, <2>1, <2>2, <2>3, <2>4, BufferFree
  <2>5. CASE disk' = Append(disk, n + 1)
    <3>1. /\ \A i \in 1..Len(disk') : disk'[i] <= n + 1
          /\ \A i, j \in 1..Len(disk') : i < j => disk'[i] < disk'[j]
      BY <1>1, <2>3, <2>5, Later
    <3> QED
      BY <2>1, <2>2, <3>1, BufferFree
  <2> QED
    BY <2>1, <2>4, <2>5
<1>6. ASSUME NEW m \in toRecv, RecvOtherData(m) \/ Dally(m) PROVE Buffered'
  BY <1>6, BufferedSame DEF RecvOtherData, Dally, Buffered, BufferHolds
<1>7. CASE ReceiverError \/ ReceiverFails \/ ClientError \/ ReceiverTimer \/ justquit
  BY <1>7, BufferedSame DEF ReceiverError, ReceiverFails, ClientError, ReceiverTimer,
     justquit, Buffered, BufferHolds
<1>8. CASE Sender
  <2>1. UNCHANGED rvars
    BY <1>8 DEF Sender, ReadChunk, ReadFails, SendData, RecvAck, RecvOtherAck,
       SenderError, SenderFails, SenderTimer
  <2> QED
    BY <1>2, <2>1 DEF rvars
<1> QED
  BY <1>2, <1>3, <1>4, <1>5, <1>6, <1>7, <1>8 DEF Next, Receiver, LosePacket, rvars, vars

\* DiskOrdered of the tftp runs, for a file of any length: write_behind() is
\* called with every retransmission and never writes a chunk twice or late.
THEOREM Ordered == Spec => []DiskOrdered
<1>1. Init => Buffered
  BY DEF Init, Buffered, BufferHolds, FileBehind, DiskOrdered
<1>2. Buffered => DiskOrdered
  BY DEF Buffered
<1> QED
  BY <1>1, <1>2, BufferedStep, Inductive, PTL DEF Spec

-----------------------------------------------------------------------------
(* The negotiation of an option by telnetd.                                *)

\* How often x is under way.
Count(q, x) == Cardinality({i \in 1..Len(q) : q[i] = x})

Message(b) == IF b THEN Yes ELSE No

Refusal == [state |-> TRUE, want |-> FALSE, resp |-> 1]

\* A message that needs no answer.
Kept(h, new) ==
    Result([state |-> new, want |-> h.want, resp |-> RespLeft(h, new)], <<>>)

\* A half has what it wants unless it waits for an odd number of answers.
Balanced(h) == (h.state = h.want) <=> (h.resp % 2 = 0)

\* What an end said last that has been heard (s), what is under way, and what
\* it wants now (w): each message takes back the one before it.
Alternates(q) ==
    /\ q \in Seq({Yes, No})
    /\ \A i \in 1..(Len(q) - 1) : q[i] # q[i + 1]
Chain(s, w, q) ==
    /\ Alternates(q)
    /\ q = <<>> => s = w
    /\ q # <<>> => Head(q) = Message(~s) /\ q[Len(q)] = Message(w)

\* The same for an end that a refusal has turned off: it says nothing then.
WeakChain(s, w, q) ==
    /\ Alternates(q)
    /\ q = <<>> => (w => s)
    /\ q # <<>> => (~s => Head(q) = Yes) /\ q[Len(q)] = Message(w)

\* Both ends accept the option: every message under way is waited for by one
\* of the ends.  p is under way from h to g, q from g to h.
Crossing(h, g, p, q) ==
    /\ Chain(g.state, h.want, p) /\ Chain(h.state, g.want, q)
    /\ Balanced(h) /\ Balanced(g)
    /\ h.resp + g.resp = Len(p) + Len(q)

BothAccept == Crossing(his, my, toPeer, toUs)

\* g refuses what h asks for: a refusal answers a request and its withdrawal.
Due(h) == h.resp + (IF h.state THEN 1 ELSE 0)
Refusing(h, g, p, q) ==
    /\ g \in {Off, Refusal}
    /\ Balanced(h)
    /\ Due(h) <= 2 * (Count(p, Yes) + Count(q, No))

PeerRefuses ==
    /\ Refusing(his, my, toPeer, toUs)
    /\ ~his.state /\ Count(toUs, Yes) = 0

\* We refuse it, or do so again after DO ECHO, which may still be under way.
WeRefuse ==
    /\ Refusing(my, his, toUs, toPeer)
    /\ Count(toPeer, Yes) <= (IF my.state \/ opt # "ECHO" THEN 0 ELSE 1)
    /\ opt # "ECHO" => ~my.state

TimingMark ==
    /\ my = Off /\ his \in {Off, [Off EXCEPT !.resp = 1]}
    /\ toPeer \in Seq({Yes}) /\ toUs \in Seq({Yes})
    /\ his.resp = Len(toPeer) + Len(toUs)

\* As long as h has not been heard, two answers are due to each of k requests,
\* but the last may not have been withdrawn yet.
Owes(h, k) == h.resp <= 2 * k /\ 2 * k <= h.resp + 1

\* Before DO ECHO is sent every request of the peer is refused once.
EchoStart ==
    /\ phase = "start"
    /\ his \in {Off, Refusal}
    /\ Balanced(my) /\ ~my.state
    /\ toPeer \in Seq({No})
    /\ Owes(my, Count(toUs, Yes) + Len(toPeer))
    /\ WeakChain(his.state, my.want, toUs)

\* DO ECHO and DO NAWS follow the refusals.
Started(q) ==
    /\ Len(q) >= 2
    /\ \A i \in 1..(Len(q) - 2) : q[i] = No
    /\ q[Len(q) - 1] = Yes /\ q[Len(q)] = Naws

\* telnetd waits for the answer to DO ECHO: it has heard nothing, or WILL, or
\* had refused a WILL before.
Waiting == [state |-> FALSE, want |-> TRUE, resp |-> 1]
Twice == [state |-> TRUE, want |-> TRUE, resp |-> 2]
Asking == {Waiting, On, Twice}
Promised == IF his = On THEN 1 ELSE 0
Heard == IF his = Twice THEN WeakChain(his.state, my.want, toUs)
         ELSE Chain(his.state, my.want, toUs)

EchoAsked ==
    /\ phase = "spin" /\ his \in Asking
    /\ Balanced(my) /\ ~my.state
    /\ Started(toPeer)
    /\ Owes(my, Count(toUs, Yes) + (Len(toPeer) - 2) + Promised)
    /\ Heard

\* The answer to DO NAWS comes after a WILL ECHO.
Answered(h, q) ==
    /\ h = Waiting => Len(q) >= 2 /\ q[1] = Yes /\ q[2] # Yes
    /\ h = On => Len(q) >= 1 /\ q[1] # Yes
    /\ h = Twice =>
          \/ Len(q) >= 1 /\ q[1] = Yes
          \/ Len(q) >= 3 /\ q[1] = No /\ q[2] = Yes /\ q[3] # Yes

EchoAgreed ==
    /\ phase = "spin" /\ his \in Asking
    /\ Balanced(my) /\ my.state
    /\ my.resp + 1 <= 2 * (Count(toUs, Yes) + Promised)
    /\ \/ toPeer = <<Naws>> /\ Heard
       \/ toPeer = <<>> /\ Answered(his, toUs)

EchoRefused ==
    \/ /\ phase = "start" /\ his = Off /\ my = Off
       /\ toPeer = <<>> /\ toUs = <<>>
    \/ /\ phase = "spin" /\ his = Waiting
       /\ \/ my = Off /\ toPeer = <<Yes, Naws>> /\ toUs = <<>>
          \/ my = Refusal /\ toPeer = <<Naws>> /\ toUs = <<No>>
          \/ my = Refusal /\ toPeer = <<>> /\ toUs = <<No, Naws>>
    \/ /\ phase \in {"spin", "run"} /\ his = Off /\ my = Refusal
       /\ \/ toPeer = <<Naws>> /\ toUs = <<>>
          \/ toPeer = <<>> /\ toUs \in {<<>>, <<Naws>>}

\* changeok of an option never changes.
Options ==
    /\ opt \in {"ECHO", "SGA", "TM", "other"}
    /\ willOk \in BOOLEAN /\ doOk \in BOOLEAN

TelnetMode ==
    \/ /\ opt \in {"SGA", "other"} /\ willOk /\ doOk /\ phase = "run" /\ BothAccept
    \/ /\ opt = "other" /\ ~doOk /\ phase = "run" /\ PeerRefuses
    \/ /\ opt \in {"SGA", "other"} /\ ~willOk /\ doOk /\ phase = "run" /\ WeRefuse
    \/ /\ opt = "TM" /\ ~willOk /\ ~doOk /\ phase = "run" /\ TimingMark
    \/ /\ opt = "ECHO" /\ ~willOk /\ doOk
       /\ EchoStart \/ EchoAsked \/ EchoAgreed \/ (phase # "start" /\ WeRefuse)
    \/ /\ opt = "ECHO" /\ ~willOk /\ ~doOk /\ EchoRefused

TelnetInv == TelnetTypeOK /\ Options /\ TelnetMode

-----------------------------------------------------------------------------
\* What a half does with a message or a request of its own.

LEMMA WantResp ==
    ASSUME NEW h \in HalfState, NEW v \in BOOLEAN, NEW q \in Nat
    PROVE  [h EXCEPT !.want = v, !.resp = q] = [state |-> h.state, want |-> v, resp |-> q]
<1>1. PICK e : e = [h EXCEPT !.want = v]
  OBVIOUS
<1>2. e = [state |-> h.state, want |-> v, resp |-> h.resp]
  BY <1>1 DEF HalfState
<1>3. [e EXCEPT !.resp = q] = [state |-> h.state, want |-> v, resp |-> q]
  BY <1>2
<1>4. [h EXCEPT !.want = v, !.resp = q] = [e EXCEPT !.resp = q]
  BY <1>1, Zenon
<1> QED
  BY <1>3, <1>4

LEMMA StateResp ==
    ASSUME NEW h \in HalfState, NEW v \in BOOLEAN, NEW q \in Nat
    PROVE  [h EXCEPT !.state = v, !.resp = q] = [state |-> v, want |-> h.want, resp |-> q]
<1>1. PICK e : e = [h EXCEPT !.state = v]
  OBVIOUS
<1>2. e = [state |-> v, want |-> h.want, resp |-> h.resp]
  BY <1>1 DEF HalfState
<1>3. [e EXCEPT !.resp = q] = [state |-> v, want |-> h.want, resp |-> q]
  BY <1>2
<1>4. [h EXCEPT !.state = v, !.resp = q] = [e EXCEPT !.resp = q]
  BY <1>1, Zenon
<1> QED
  BY <1>3, <1>4

LEMMA StateOnly ==
    ASSUME NEW h \in HalfState, NEW v \in BOOLEAN
    PROVE  [h EXCEPT !.state = v] = [state |-> v, want |-> h.want, resp |-> h.resp]
  BY DEF HalfState

LEMMA RespOnly ==
    ASSUME NEW h \in HalfState, NEW q \in Nat
    PROVE  [h EXCEPT !.resp = q] = [state |-> h.state, want |-> h.want, resp |-> q]
  BY DEF HalfState

LEMMA HalfIs ==
    ASSUME NEW h \in HalfState
    PROVE  /\ h = [state |-> h.state, want |-> h.want, resp |-> h.resp]
           /\ h.state \in BOOLEAN /\ h.want \in BOOLEAN /\ h.resp \in Nat
  BY DEF HalfState

LEMMA RespLeftIs ==
    ASSUME NEW h \in HalfState, NEW new \in BOOLEAN
    PROVE  /\ RespLeft(h, new) \in Nat
           /\ h.resp = 0 => RespLeft(h, new) = 0
           /\ h.resp = 1 => RespLeft(h, new) = 0
           /\ h.resp > 1 /\ h.state = new => RespLeft(h, new) = h.resp - 2
           /\ h.resp > 1 /\ h.state # new => RespLeft(h, new) = h.resp - 1
<1>1. h.resp \in Nat
  BY DEF HalfState
<1>2. CASE h.resp <= 1
  BY <1>1, <1>2 DEF RespLeft
<1>3. CASE h.resp > 1 /\ h.state = new
  BY <1>1, <1>3 DEF RespLeft
<1>4. CASE h.resp > 1 /\ h.state # new
  BY <1>1, <1>4 DEF RespLeft
<1> QED
  BY <1>1, <1>2, <1>3, <1>4

LEMMA SettledIs ==
    ASSUME NEW h \in HalfState, NEW new \in BOOLEAN
    PROVE  Settled(h, new) = Kept(h, new)
  BY RespLeftIs, StateResp DEF Settled, Kept

LEMMA ResultIs ==
    ASSUME NEW h, NEW out
    PROVE  Result(h, out).half = h /\ Result(h, out).out = out
  BY DEF Result

LEMMA AskNothing ==
    ASSUME NEW h \in HalfState, NEW new \in BOOLEAN, NEW w \in BOOLEAN, h.want = new
    PROVE  Ask(h, new, w) = Result(h, <<>>)
  BY DEF Ask, NothingNew, HalfState

LEMMA AskIs ==
    ASSUME NEW h \in HalfState, NEW new \in BOOLEAN, Balanced(h), h.want # new
    PROVE  Ask(h, new, new) =
             Result([state |-> h.state, want |-> new, resp |-> h.resp + 1],
                    <<Message(new)>>)
<1>1. ~NothingNew(h, new)
  BY DEF NothingNew, Balanced, HalfState
<1>2. h.resp + 1 \in Nat
  BY DEF HalfState
<1>3. [h EXCEPT !.want = new, !.resp = h.resp + 1]
        = [state |-> h.state, want |-> new, resp |-> h.resp + 1]
  BY <1>2, WantResp
<1> QED
  BY <1>1, <1>3 DEF Ask, Message

\* A half that is balanced and waits for nothing has what it wants; one that
\* waits for one answer has not.
LEMMA BalancedIs ==
    ASSUME NEW h \in HalfState, Balanced(h)
    PROVE  /\ h.resp = 0 => h.want = h.state
           /\ h.resp = 1 => h.want # h.state
           /\ h.resp = 2 => h.want = h.state
  BY DEF Balanced, HalfState


LEMMA Sent ==
    ASSUME NEW q \in Seq({Yes, No, Naws})
    PROVE  /\ q \o <<>> = q
           /\ q \o <<Yes>> = Append(q, Yes)
           /\ q \o <<No>> = Append(q, No)
           /\ q \o (<<>> \o <<Yes>>) = Append(q, Yes)
           /\ q \o (<<No>> \o <<Yes>>) = Append(Append(q, No), Yes)
<1> DEFINE M == {Yes, No, Naws}
<1>1. Yes \in M /\ No \in M /\ q \in Seq(M) /\ <<Yes>> \in Seq(M) /\ <<No>> \in Seq(M)
  OBVIOUS
<1> HIDE DEF M
<1>2. q \o <<>> = q /\ q \o <<Yes>> = Append(q, Yes) /\ q \o <<No>> = Append(q, No)
  BY <1>1
<1>3. q \o (<<No>> \o <<Yes>>) = (q \o <<No>>) \o <<Yes>>
  BY <1>1, ConcatAssociative
<1>4. Append(q, No) \in Seq(M)
  BY <1>1
<1>5. Append(q, No) \o <<Yes>> = Append(Append(q, No), Yes)
  BY <1>1, <1>4
<1>6. <<>> \o <<Yes>> = <<Yes>>
  BY <1>1
<1> QED
  BY <1>2, <1>3, <1>5, <1>6

\* An answer that differs from the last one is counted once.
LEMMA LeftFlip ==
    ASSUME NEW h \in HalfState, NEW new \in BOOLEAN, h.state # new
    PROVE  /\ h.resp = 0 => RespLeft(h, new) = 0
           /\ h.resp # 0 => RespLeft(h, new) = h.resp - 1
           /\ h.resp # 0 /\ Balanced(h) => RespLeft(h, new) # 0 \/ h.want = new
<1>1. h.resp \in Nat /\ h.state \in BOOLEAN /\ h.want \in BOOLEAN
  BY DEF HalfState
<1>2. /\ h.resp = 0 => RespLeft(h, new) = 0
      /\ h.resp # 0 => RespLeft(h, new) = h.resp - 1
  <2>1. CASE h.resp <= 1
    BY <1>1, <2>1 DEF RespLeft
  <2>2. CASE h.resp > 1
    BY <1>1, <2>2 DEF RespLeft
  <2> QED
    BY <1>1, <2>1, <2>2
<1>3. ASSUME Balanced(h), h.resp # 0, RespLeft(h, new) = 0
      PROVE  h.want = new
  <2>1. h.resp = 1
    BY <1>1, <1>2, <1>3
  <2>2. h.want # h.state
    BY <1>3, <2>1, BalancedIs
  <2> QED
    BY <1>1, <2>2
<1> QED
  BY <1>2, <1>3, Zenon

\* One that repeats it, twice.
LEMMA LeftSame ==
    ASSUME NEW h \in HalfState, NEW new \in BOOLEAN, h.state = new
    PROVE  /\ h.resp <= 1 => RespLeft(h, new) = 0
           /\ h.resp > 1 => RespLeft(h, new) = h.resp - 2
           /\ Balanced(h) => h.resp = 1 \/ RespLeft(h, new) # 0 \/ h.want = new
<1>1. h.resp \in Nat /\ h.state \in BOOLEAN /\ h.want \in BOOLEAN
  BY DEF HalfState
<1>2. /\ h.resp <= 1 => RespLeft(h, new) = 0
      /\ h.resp > 1 => RespLeft(h, new) = h.resp - 2
  <2>1. CASE h.resp <= 1
    BY <1>1, <2>1 DEF RespLeft
  <2>2. CASE h.resp > 1
    BY <1>1, <2>2 DEF RespLeft
  <2> QED
    BY <1>1, <2>1, <2>2
<1>3. ASSUME Balanced(h), h.resp # 1, RespLeft(h, new) = 0
      PROVE  h.want = new
  <2>1. h.resp = 0 \/ h.resp = 2
    BY <1>1, <1>2, <1>3
  <2> QED
    BY <1>3, <2>1, BalancedIs
<1> QED
  BY <1>2, <1>3, Zenon

LEMMA HalfKinds ==
    /\ Off \in HalfState /\ On \in HalfState /\ Refusal \in HalfState
    /\ Waiting \in HalfState /\ Twice \in HalfState
    /\ Off.state = FALSE /\ Off.want = FALSE /\ Off.resp = 0
    /\ On.state = TRUE /\ On.want = TRUE /\ On.resp = 0
    /\ Refusal.state = TRUE /\ Refusal.want = FALSE /\ Refusal.resp = 1
    /\ Waiting.state = FALSE /\ Waiting.want = TRUE /\ Waiting.resp = 1
    /\ Twice.state = TRUE /\ Twice.want = TRUE /\ Twice.resp = 2
  BY DEF HalfState, Off, On, Refusal, Waiting, Twice

LEMMA Parity ==
    0 % 2 = 0 /\ 1 % 2 # 0 /\ 2 % 2 = 0
  OBVIOUS

LEMMA KindsBalanced ==
    Balanced(Off) /\ Balanced(On) /\ Balanced(Waiting)
<1> USE HalfKinds, Parity
<1>1. Balanced(Off)
  BY Zenon DEF Balanced
<1>2. Balanced(On)
  BY Zenon DEF Balanced
<1>3. Balanced(Waiting)
  BY Zenon DEF Balanced
<1> QED
  BY <1>1, <1>2, <1>3

LEMMA AskOff ==
    Ask(Off, TRUE, TRUE) = Result(Waiting, <<Yes>>)
<1>1. Off.want # TRUE /\ Off \in HalfState /\ Balanced(Off) /\ TRUE \in BOOLEAN
  BY HalfKinds, KindsBalanced
<1>2. Ask(Off, TRUE, TRUE) = Result([state |-> Off.state, want |-> TRUE,
                                     resp |-> Off.resp + 1], <<Message(TRUE)>>)
  BY <1>1, AskIs, Zenon
<1>3. [state |-> Off.state, want |-> TRUE, resp |-> Off.resp + 1] = Waiting
  BY DEF Off, Waiting
<1>4. Message(TRUE) = Yes
  BY DEF Message
<1> QED
  BY <1>2, <1>3, <1>4, Zenon

\* A positive message to a half that had not heard one.
LEMMA WillUnheard ==
    ASSUME NEW h \in HalfState, Balanced(h), h.state = FALSE, 
           opt \in {"SGA", "other"}, willOk
    PROVE  /\ h.resp # 0 => WillOption(h) = Kept(h, TRUE)
           /\ h.resp = 0 => WillOption(h) = Result(On, <<Yes>>)
<1>1. CASE h.resp = 0
  <2>1. RespLeft(h, TRUE) = 0 /\ h.want = FALSE
    BY <1>1, RespLeftIs, BalancedIs
  <2>2. WillOption(h) = Unasked(willOk)
    BY <2>1 DEF WillOption
  <2>3. Unasked(willOk) = Result(On, <<Yes>>)
    BY DEF Unasked
  <2> QED
    BY <2>2, <2>3, <1>1, Zenon
<1>2. CASE h.resp # 0
  <2>1. RespLeft(h, TRUE) # 0 \/ h.want = TRUE
    BY <1>2, LeftFlip
  <2>2. WillOption(h) = Settled(h, TRUE)
    BY <2>1, Zenon DEF WillOption
  <2> QED
    BY <2>2, <1>2, SettledIs, Zenon
<1> QED
  BY <1>1, <1>2, Zenon

LEMMA DoUnheard ==
    ASSUME NEW h \in HalfState, Balanced(h), h.state = FALSE, opt # "TM", doOk
    PROVE  /\ h.resp # 0 => DoOption(h) = Kept(h, TRUE)
           /\ h.resp = 0 => DoOption(h) = Result(On, <<Yes>>)
<1>1. CASE h.resp = 0
  <2>1. RespLeft(h, TRUE) = 0 /\ h.want = FALSE
    BY <1>1, RespLeftIs, BalancedIs
  <2>2. DoOption(h) = Unasked(doOk)
    BY <2>1 DEF DoOption
  <2>3. Unasked(doOk) = Result(On, <<Yes>>)
    BY DEF Unasked
  <2> QED
    BY <2>2, <2>3, <1>1, Zenon
<1>2. CASE h.resp # 0
  <2>1. RespLeft(h, TRUE) # 0 \/ h.want = TRUE
    BY <1>2, LeftFlip
  <2>2. DoOption(h) = Settled(h, TRUE)
    BY <2>1, Zenon DEF DoOption
  <2> QED
    BY <2>2, <1>2, SettledIs, Zenon
<1> QED
  BY <1>1, <1>2, Zenon

\* A negative message to a half that has heard a positive one.
LEMMA WontHeard ==
    ASSUME NEW h \in HalfState, Balanced(h), h.state = TRUE, opt # "TM"
    PROVE  /\ h.resp # 0 => WontOption(h) = Kept(h, FALSE)
           /\ h.resp = 0 => WontOption(h) = Result(Off, <<No>>)
<1>1. CASE h.resp = 0
  <2>1. RespLeft(h, FALSE) = 0 /\ h.want = TRUE
    BY <1>1, RespLeftIs, BalancedIs
  <2>2. WontOption(h) = TurnOff(h)
    BY <2>1 DEF WontOption
  <2>3. TurnOff(h) = Result(Off, <<No>>)
    BY DEF TurnOff
  <2> QED
    BY <2>2, <2>3, <1>1, Zenon
<1>2. CASE h.resp # 0
  <2>1. RespLeft(h, FALSE) # 0 \/ h.want = FALSE
    BY <1>2, LeftFlip
  <2>2. WontOption(h) = Settled(h, FALSE)
    BY <2>1, Zenon DEF WontOption
  <2> QED
    BY <2>2, <1>2, SettledIs, Zenon
<1> QED
  BY <1>1, <1>2, Zenon

\* The same of dontoption(), which may ask again at once.
LEMMA DontHeard ==
    ASSUME NEW h \in HalfState, Balanced(h), h.state = TRUE
    PROVE  /\ h.resp # 0 => DontOption(h) = Kept(h, FALSE)
           /\ h.resp = 0 =>
                \/ DontOption(h) = Result(Off, <<No>>)
                \/ opt = "SGA" /\ DontOption(h) = Result(Waiting, <<No>> \o <<Yes>>)
<1>1. CASE h.resp = 0
  <2>1. RespLeft(h, FALSE) = 0 /\ h.want = TRUE
    BY <1>1, RespLeftIs, BalancedIs
  <2>2. TurnOff(h) = Result(Off, <<No>>)
    BY DEF TurnOff
  <2>3. CASE opt = "SGA" /\ Again
    <3>1. DontOption(h) = Result(Ask(Off, TRUE, TRUE).half,
                                 TurnOff(h).out \o Ask(Off, TRUE, TRUE).out)
      BY <2>1, <2>3 DEF DontOption
    <3>2. Ask(Off, TRUE, TRUE).half = Waiting /\ Ask(Off, TRUE, TRUE).out = <<Yes>>
      <4>1. PICK a : a = Ask(Off, TRUE, TRUE)
        OBVIOUS
      <4>2. a = Result(Waiting, <<Yes>>)
        BY <4>1, AskOff, Zenon
      <4>3. a.half = Waiting /\ a.out = <<Yes>>
        BY <4>2 DEF Result
      <4> QED
        BY <4>1, <4>3, Zenon
    <3>3. TurnOff(h).out = <<No>>
      BY <2>2 DEF Result
    <3> QED
      BY <3>1, <3>2, <3>3, <2>3, <1>1, Zenon
  <2>4. CASE ~(opt = "SGA" /\ Again)
    <3>1. DontOption(h) = TurnOff(h)
      BY <2>1, <2>4 DEF DontOption
    <3> QED
      BY <3>1, <2>2, <1>1, Zenon
  <2> QED
    BY <2>3, <2>4, Zenon
<1>2. CASE h.resp # 0
  <2>1. RespLeft(h, FALSE) # 0 \/ h.want = FALSE
    BY <1>2, LeftFlip
  <2>2. DontOption(h) = Settled(h, FALSE)
    BY <2>1, Zenon DEF DontOption
  <2> QED
    BY <2>2, <1>2, SettledIs, Zenon
<1> QED
  BY <1>1, <1>2, Zenon

\* A negative message to a half that has heard no positive one.
LEMMA WontUnheard ==
    ASSUME NEW h \in HalfState, Balanced(h), h.state = FALSE, opt # "TM"
    PROVE  /\ h.resp # 1 => WontOption(h) = Kept(h, FALSE)
           /\ h.resp = 1 => WontOption(h) = Result(Off, <<>>)
<1>1. CASE h.resp = 1
  <2>1. RespLeft(h, FALSE) = 0 /\ h.want = TRUE
    BY <1>1, RespLeftIs, BalancedIs DEF HalfState
  <2>2. WontOption(h) = TurnOff(h)
    BY <2>1 DEF WontOption
  <2>3. TurnOff(h) = Result(Off, <<>>)
    BY DEF TurnOff
  <2> QED
    BY <2>2, <2>3, <1>1, Zenon
<1>2. CASE h.resp # 1
  <2>1. RespLeft(h, FALSE) # 0 \/ h.want = FALSE
    BY <1>2, LeftSame
  <2>2. WontOption(h) = Settled(h, FALSE)
    BY <2>1, Zenon DEF WontOption
  <2> QED
    BY <2>2, <1>2, SettledIs, Zenon
<1> QED
  BY <1>1, <1>2, Zenon

LEMMA DontUnheard ==
    ASSUME NEW h \in HalfState, Balanced(h), h.state = FALSE
    PROVE  /\ h.resp # 1 => DontOption(h) = Kept(h, FALSE)
           /\ h.resp = 1 =>
                \/ DontOption(h) = Result(Off, <<>>)
                \/ opt = "SGA" /\ DontOption(h) = Result(Waiting, <<>> \o <<Yes>>)
<1>1. CASE h.resp = 1
  <2>1. RespLeft(h, FALSE) = 0 /\ h.want = TRUE
    BY <1>1, RespLeftIs, BalancedIs DEF HalfState
  <2>2. TurnOff(h) = Result(Off, <<>>)
    BY DEF TurnOff
  <2>3. CASE opt = "SGA" /\ Again
    <3>1. DontOption(h) = Result(Ask(Off, TRUE, TRUE).half,
                                 TurnOff(h).out \o Ask(Off, TRUE, TRUE).out)
      BY <2>1, <2>3 DEF DontOption
    <3>2. Ask(Off, TRUE, TRUE).half = Waiting /\ Ask(Off, TRUE, TRUE).out = <<Yes>>
      <4>1. PICK a : a = Ask(Off, TRUE, TRUE)
        OBVIOUS
      <4>2. a = Result(Waiting, <<Yes>>)
        BY <4>1, AskOff, Zenon
      <4>3. a.half = Waiting /\ a.out = <<Yes>>
        BY <4>2 DEF Result
      <4> QED
        BY <4>1, <4>3, Zenon
    <3>3. TurnOff(h).out = <<>>
      BY <2>2 DEF Result
    <3> QED
      BY <3>1, <3>2, <3>3, <2>3, <1>1, Zenon
  <2>4. CASE ~(opt = "SGA" /\ Again)
    <3>1. DontOption(h) = TurnOff(h)
      BY <2>1, <2>4 DEF DontOption
    <3> QED
      BY <3>1, <2>2, <1>1, Zenon
  <2> QED
    BY <2>3, <2>4, Zenon
<1>2. CASE h.resp # 1
  <2>1. RespLeft(h, FALSE) # 0 \/ h.want = FALSE
    BY <1>2, LeftSame
  <2>2. DontOption(h) = Settled(h, FALSE)
    BY <2>1, Zenon DEF DontOption
  <2> QED
    BY <2>2, <1>2, SettledIs, Zenon
<1> QED
  BY <1>1, <1>2, Zenon

LEMMA LeftNone ==
    ASSUME NEW h \in {Off, Refusal, On, Waiting, [Off EXCEPT !.resp = 1]}, NEW new \in BOOLEAN
    PROVE  h \in HalfState /\ RespLeft(h, new) = 0
<1>1. [Off EXCEPT !.resp = 1] \in HalfState /\ [Off EXCEPT !.resp = 1].resp = 1
  BY DEF Off, HalfState
<1>2. h \in HalfState /\ h.resp \in {0, 1}
  BY <1>1, HalfKinds
<1> QED
  BY <1>2, RespLeftIs

LEMMA KeptOff ==
    ASSUME NEW h \in HalfState, h.want = FALSE, RespLeft(h, FALSE) = 0
    PROVE  Kept(h, FALSE) = Result(Off, <<>>)
  BY DEF Kept, Off

\* An end that does not accept the option.
LEMMA WillRefused ==
    ASSUME NEW h \in {Off, Refusal}, ~willOk, opt # "TM"
    PROVE  WillOption(h) = Result(Refusal, <<No>>)
<1>1. RespLeft(h, TRUE) = 0 /\ h.want = FALSE
  BY LeftNone, HalfKinds
<1>2. WillOption(h) = Unasked(willOk)
  BY <1>1 DEF WillOption
<1> QED
  BY <1>2 DEF Unasked, Refusal

LEMMA DoRefused ==
    ASSUME NEW h \in {Off, Refusal}, ~doOk, opt # "TM"
    PROVE  DoOption(h) = Result(Refusal, <<No>>)
<1>1. RespLeft(h, TRUE) = 0 /\ h.want = FALSE
  BY LeftNone, HalfKinds
<1>2. DoOption(h) = Unasked(doOk)
  BY <1>1 DEF DoOption
<1> QED
  BY <1>2 DEF Unasked, Refusal

LEMMA WontRefused ==
    ASSUME NEW h \in {Off, Refusal}
    PROVE  WontOption(h) = Result(Off, <<>>) /\ DontOption(h) = Result(Off, <<>>)
<1>1. h \in HalfState /\ RespLeft(h, FALSE) = 0 /\ h.want = FALSE
  BY LeftNone, HalfKinds
<1>2. WontOption(h) = Settled(h, FALSE) /\ DontOption(h) = Settled(h, FALSE)
  BY <1>1 DEF WontOption, DontOption
<1> QED
  BY <1>1, <1>2, SettledIs, KeptOff, Zenon

\* telnetd waits for the answer to DO ECHO.
LEMMA AskOffTurned ==
    ASSUME NEW h \in HalfState, h.want = TRUE
    PROVE  LET g == [h EXCEPT !.resp = 0] IN
           /\ h.state = FALSE => Ask(g, FALSE, FALSE) = Result(g, <<>>)
           /\ h.state = TRUE => Ask(g, FALSE, FALSE) = Result(Refusal, <<No>>)
<1>1. PICK g : g = [h EXCEPT !.resp = 0]
  OBVIOUS
<1>2. g = [state |-> h.state, want |-> TRUE, resp |-> 0] /\ h.state \in BOOLEAN
  BY <1>1 DEF HalfState
<1>3. ASSUME h.state = FALSE
      PROVE  Ask(g, FALSE, FALSE) = Result(g, <<>>)
  <2>1. NothingNew(g, FALSE)
    BY <1>2, <1>3 DEF NothingNew
  <2> QED
    BY <2>1, Zenon DEF Ask
<1>4. ASSUME h.state = TRUE
      PROVE  Ask(g, FALSE, FALSE) = Result(Refusal, <<No>>)
  <2>1. g = On
    BY <1>2, <1>4 DEF On
  <2>2. Balanced(g) /\ g \in HalfState /\ g.want # FALSE /\ FALSE \in BOOLEAN
    BY <2>1, KindsBalanced, HalfKinds
  <2>3. Ask(g, FALSE, FALSE) = Result([state |-> g.state, want |-> FALSE, resp |-> g.resp + 1],
                                      <<Message(FALSE)>>)
    BY <2>2, AskIs, Zenon
  <2>4. [state |-> g.state, want |-> FALSE, resp |-> g.resp + 1] = Refusal
    BY <2>1 DEF On, Refusal
  <2>5. Message(FALSE) = No
    BY DEF Message
  <2> QED
    BY <2>3, <2>4, <2>5, Zenon
<1> QED
  BY <1>1, <1>3, <1>4, Zenon

LEMMA EchoUnheard ==
    ASSUME opt = "ECHO"
    PROVE  WillOption(Waiting) = Result(On, <<>>)
<1>1. PICK g : g = [Waiting EXCEPT !.resp = 0]
  OBVIOUS
<1>2. PICK d : d = Ask(g, FALSE, FALSE)
  OBVIOUS
<1>3. d = Result(g, <<>>)
  BY <1>1, <1>2, AskOffTurned, HalfKinds, Zenon
<1>4. [d.half EXCEPT !.state = TRUE] = On /\ d.out = <<>>
  <2>1. d.half = g /\ d.out = <<>>
    BY <1>3 DEF Result
  <2>2. g = [state |-> FALSE, want |-> TRUE, resp |-> 0]
    BY <1>1 DEF Waiting
  <2>3. g \in HalfState /\ g.want = TRUE /\ g.resp = 0 /\ TRUE \in BOOLEAN
    BY <2>2 DEF HalfState
  <2>4. [g EXCEPT !.state = TRUE] = On
    BY <2>3, StateOnly, Zenon DEF On
  <2> QED
    BY <2>1, <2>4, Zenon
<1>5. RespLeft(Waiting, TRUE) = 0 /\ Waiting.want = TRUE
  BY LeftNone, HalfKinds
<1>6. WillOption(Waiting) = Result([Ask([Waiting EXCEPT !.resp = 0], FALSE, FALSE).half EXCEPT !.state = TRUE],
                                   Ask([Waiting EXCEPT !.resp = 0], FALSE, FALSE).out)
  BY <1>5, Zenon DEF WillOption
<1> QED
  BY <1>1, <1>2, <1>4, <1>6, Zenon

LEMMA EchoHeard ==
    ASSUME opt = "ECHO", NEW h \in {On, Twice}
    PROVE  WillOption(h) = Result(Refusal, <<No>>)
<1>0. h \in HalfState /\ h.want = TRUE /\ h.state = TRUE /\ h.resp \in {0, 2}
  BY HalfKinds
<1>1. PICK g : g = [h EXCEPT !.resp = 0]
  OBVIOUS
<1>2. PICK d : d = Ask(g, FALSE, FALSE)
  OBVIOUS
<1>3. d = Result(Refusal, <<No>>)
  BY <1>0, <1>1, <1>2, AskOffTurned, Zenon
<1>4. [d.half EXCEPT !.state = TRUE] = Refusal /\ d.out = <<No>>
  <2>1. d.half = Refusal /\ d.out = <<No>>
    BY <1>3 DEF Result
  <2>2. [Refusal EXCEPT !.state = TRUE] = Refusal
    <3>1. TRUE \in BOOLEAN
      OBVIOUS
    <3> QED
      BY <3>1, HalfKinds, StateOnly, Zenon DEF Refusal
  <2> QED
    BY <2>1, <2>2, Zenon
<1>5. RespLeft(h, TRUE) = 0
  BY <1>0 DEF RespLeft
<1>6. WillOption(h) = Result([Ask([h EXCEPT !.resp = 0], FALSE, FALSE).half EXCEPT !.state = TRUE],
                             Ask([h EXCEPT !.resp = 0], FALSE, FALSE).out)
  BY <1>0, <1>5, Zenon DEF WillOption
<1> QED
  BY <1>1, <1>2, <1>4, <1>6, Zenon

LEMMA EchoTwice ==
    WontOption(Twice) = Result(Waiting, <<>>)
<1>1. RespLeft(Twice, FALSE) = 1
  BY HalfKinds DEF RespLeft
<1>2. WontOption(Twice) = Settled(Twice, FALSE)
  <2>0. 1 # 0
    OBVIOUS
  <2>1. RespLeft(Twice, FALSE) # 0
    BY <1>1, <2>0, Zenon
  <2> QED
    BY <2>1, Zenon DEF WontOption
<1>3. [state |-> FALSE, want |-> Twice.want, resp |-> RespLeft(Twice, FALSE)] = Waiting
  BY <1>1, HalfKinds DEF Waiting
<1>4. Settled(Twice, FALSE) = Kept(Twice, FALSE)
  BY HalfKinds, SettledIs
<1> QED
  BY <1>2, <1>3, <1>4, Zenon DEF Kept

\* A timing mark.
LEMMA MarkWill ==
    ASSUME opt = "TM", NEW h \in {Off, [Off EXCEPT !.resp = 1]}
    PROVE  WillOption(h) = Result(Off, <<>>)
<1>1. RespLeft(h, TRUE) = 0
  BY LeftNone
<1>2. h \in HalfState /\ h.state = FALSE /\ h.want = FALSE /\ 0 \in Nat
  <2>1. CASE h = Off
    BY <2>1, HalfKinds
  <2>2. CASE h = [Off EXCEPT !.resp = 1]
    BY <2>2, HalfKinds DEF HalfState
  <2> QED
    BY <2>1, <2>2
<1>3. [h EXCEPT !.resp = 0] = Off
  BY <1>2, RespOnly, Zenon DEF Off
<1> QED
  BY <1>1, <1>2, <1>3, Zenon DEF WillOption

LEMMA MarkDo ==
    ASSUME opt = "TM"
    PROVE  DoOption(Off) = Result(Off, <<Yes>>)
<1>1. RespLeft(Off, TRUE) = 0 /\ Off.want = FALSE
  BY LeftNone, HalfKinds
<1> QED
  BY <1>1 DEF DoOption

-----------------------------------------------------------------------------
\* Messages under way.

LEMMA CountNat ==
    ASSUME NEW M, NEW q \in Seq(M), NEW x
    PROVE  /\ Count(q, x) \in Nat
           /\ IsFiniteSet({i \in 1..Len(q) : q[i] = x})
           /\ Count(q, x) <= Len(q)
           /\ Count(q, x) = 0 <=> \A i \in 1..Len(q) : q[i] # x
<1>1. Len(q) \in Nat
  OBVIOUS
<1>2. IsFiniteSet(1..Len(q)) /\ Cardinality(1..Len(q)) = Len(q)
  <2>1. IsFiniteSet(1..Len(q)) /\ Cardinality(1..Len(q)) = IF 1 > Len(q) THEN 0 ELSE Len(q) - 1 + 1
    BY <1>1, FS_Interval
  <2> QED
    BY <1>1, <2>1
<1>3. IsFiniteSet({i \in 1..Len(q) : q[i] = x})
      /\ Cardinality({i \in 1..Len(q) : q[i] = x}) <= Len(q)
  BY <1>2, FS_Subset
<1>4. Cardinality({i \in 1..Len(q) : q[i] = x}) \in Nat
  BY <1>3, FS_CardinalityType
<1>5. Cardinality({i \in 1..Len(q) : q[i] = x}) = 0 <=> {i \in 1..Len(q) : q[i] = x} = {}
  BY <1>3, FS_EmptySet
<1> QED
  BY <1>3, <1>4, <1>5 DEF Count

LEMMA CountAppend ==
    ASSUME NEW M, NEW q \in Seq(M), NEW e \in M, NEW x
    PROVE  /\ e = x => Count(Append(q, e), x) = Count(q, x) + 1
           /\ e # x => Count(Append(q, e), x) = Count(q, x)
<1> DEFINE S == {i \in 1..Len(q) : q[i] = x}
           T == {i \in 1..Len(Append(q, e)) : Append(q, e)[i] = x}
<1>1. Len(q) \in Nat /\ Len(Append(q, e)) = Len(q) + 1 /\ Append(q, e)[Len(q) + 1] = e
      /\ \A i \in 1..Len(q) : Append(q, e)[i] = q[i]
  OBVIOUS
<1>2. IsFiniteSet(S)
  BY CountNat
<1>3. ASSUME e = x PROVE Cardinality(T) = Cardinality(S) + 1
  <2>1. T = S \cup {Len(q) + 1} /\ Len(q) + 1 \notin S
    BY <1>1, <1>3
  <2> QED
    BY <2>1, <1>2, FS_AddElement
<1>4. ASSUME e # x PROVE T = S
  BY <1>1, <1>4
<1> QED
  BY <1>3, <1>4 DEF Count

LEMMA CountTail ==
    ASSUME NEW M, NEW q \in Seq(M), q # <<>>, NEW x
    PROVE  /\ Head(q) = x => Count(q, x) = Count(Tail(q), x) + 1
           /\ Head(q) # x => Count(q, x) = Count(Tail(q), x)
<1> DEFINE S == {i \in 1..Len(Tail(q)) : Tail(q)[i] = x}
           T == {i \in 1..Len(q) : q[i] = x}
           f == [i \in S |-> i + 1]
<1>1. Len(q) \in Nat /\ Len(q) >= 1 /\ Len(Tail(q)) = Len(q) - 1 /\ Tail(q) \in Seq(M)
      /\ Head(q) = q[1] /\ \A i \in 1..(Len(q) - 1) : Tail(q)[i] = q[i + 1]
  OBVIOUS
<1>2. IsFiniteSet(S) /\ IsFiniteSet(T)
  BY <1>1, CountNat
<1>3. ExistsBijection(S, T \ {1})
  <2>1. f \in [S -> T \ {1}]
    BY <1>1
  <2>2. \A a, b \in S : f[a] = f[b] => a = b
    BY <1>1
  <2>3. \A t \in T \ {1} : \E s \in S : f[s] = t
    <3>1. SUFFICES ASSUME NEW t \in T \ {1} PROVE t - 1 \in S /\ f[t - 1] = t
      OBVIOUS
    <3>2. t \in 2..Len(q) /\ q[t] = x
      BY <1>1
    <3>3. t - 1 \in 1..(Len(q) - 1) /\ Tail(q)[t - 1] = q[(t - 1) + 1] /\ (t - 1) + 1 = t
      BY <1>1, <3>2
    <3> QED
      BY <1>1, <3>2, <3>3
  <2> HIDE DEF f, S, T
  <2> QED
    BY <2>1, <2>2, <2>3 DEF ExistsBijection, Bijection, Injection, Surjection, IsInjective
<1>4. Cardinality(T \ {1}) = Cardinality(S)
  BY <1>2, <1>3, FS_Bijection
<1>5. 1 \in T <=> Head(q) = x
  BY <1>1
<1>6. Cardinality(T \ {1}) = IF 1 \in T THEN Cardinality(T) - 1 ELSE Cardinality(T)
  BY <1>2, FS_RemoveElement
<1>7. Cardinality(T) \in Nat /\ Cardinality(S) \in Nat
  BY <1>2, FS_CardinalityType
<1> HIDE DEF S, T
<1>8. /\ Head(q) = x => Cardinality(T) = Cardinality(S) + 1
      /\ Head(q) # x => Cardinality(T) = Cardinality(S)
  BY <1>4, <1>5, <1>6, <1>7
<1> QED
  BY <1>8 DEF Count, S, T

LEMMA CountEmpty ==
    ASSUME NEW x
    PROVE  Count(<<>>, x) = 0
<1>1. {i \in 1..Len(<<>>) : <<>>[i] = x} = {}
  OBVIOUS
<1> QED
  BY <1>1, FS_EmptySet DEF Count

\* A chain loses its first message and gets a new last one.
LEMMA ChainTail ==
    ASSUME NEW s \in BOOLEAN, NEW w \in BOOLEAN, NEW q, Chain(s, w, q), q # <<>>,
           NEW t \in BOOLEAN, t # s
    PROVE  Head(q) = Message(t) /\ Chain(t, w, Tail(q))
<1>1. q \in Seq({Yes, No}) /\ Len(q) \in Nat /\ Len(q) >= 1
  BY DEF Chain, Alternates
<1>2. Head(q) = Message(t) /\ Head(q) = q[1]
  <2>1. t = ~s
    OBVIOUS
  <2>2. Head(q) = Message(~s) /\ Head(q) = q[1]
    BY <1>1 DEF Chain
  <2> QED
    BY <2>1, <2>2
<1>3. /\ Tail(q) \in Seq({Yes, No}) /\ Len(Tail(q)) = Len(q) - 1
      /\ \A i \in 1..(Len(q) - 1) : Tail(q)[i] = q[i + 1]
  BY <1>1
<1>4. Alternates(Tail(q))
  <2>1. \A i \in 1..(Len(q) - 1) : q[i] # q[i + 1]
    BY DEF Chain, Alternates
  <2> QED
    BY <1>1, <1>3, <2>1 DEF Alternates
<1>5. q[Len(q)] = Message(w)
  BY DEF Chain
<1>6. ASSUME Tail(q) = <<>> PROVE t = w
  <2>0. Len(Tail(q)) = 0
    BY <1>6, <1>3, EmptySeq
  <2>1. Len(q) = 1
    <3>1. Len(Tail(q)) = Len(q) - 1
      BY <1>3
    <3> QED
      BY <1>1, <2>0, <3>1
  <2> QED
    BY <2>1, <1>2, <1>5 DEF Message, Yes, No
<1>7. ASSUME Tail(q) # <<>>
      PROVE  Head(Tail(q)) = Message(~t) /\ Tail(q)[Len(Tail(q))] = Message(w)
  <2>1. Len(q) > 1
    BY <1>1, <1>3, <1>7
  <2>2. Head(Tail(q)) = q[2] /\ q[1] # q[2] /\ q[2] \in {Yes, No}
    BY <1>1, <1>3, <1>7, <2>1 DEF Chain, Alternates
  <2>3. q[2] = Message(~t)
    BY <2>2, <1>2 DEF Message
  <2>4. Tail(q)[Len(Tail(q))] = q[Len(q)]
    BY <1>1, <1>3, <2>1
  <2> QED
    BY <2>2, <2>3, <2>4, <1>5
<1> QED
  BY <1>2, <1>4, <1>6, <1>7 DEF Chain

LEMMA ChainAppend ==
    ASSUME NEW s \in BOOLEAN, NEW w \in BOOLEAN, NEW q, Chain(s, w, q),
           NEW v \in BOOLEAN, v # w
    PROVE  Chain(s, v, Append(q, Message(v)))
<1> DEFINE p == Append(q, Message(v))
<1>1. q \in Seq({Yes, No}) /\ Len(q) \in Nat /\ Message(v) \in {Yes, No}
  BY DEF Chain, Alternates, Message
<1>2. /\ p \in Seq({Yes, No}) /\ Len(p) = Len(q) + 1 /\ p # <<>>
      /\ p[Len(q) + 1] = Message(v) /\ \A i \in 1..Len(q) : p[i] = q[i]
      /\ Head(p) = p[1]
  BY <1>1
<1> HIDE DEF p
<1>3. ASSUME q # <<>> PROVE q[Len(q)] # Message(v) /\ Len(q) >= 1 /\ Head(q) = q[1]
  BY <1>1, <1>3 DEF Chain, Message, Yes, No
<1>4. Alternates(p)
  <2>1. ASSUME NEW i \in 1..(Len(p) - 1) PROVE p[i] # p[i + 1]
    <3>1. i \in 1..Len(q) /\ q # <<>>
      BY <1>1, <1>2, <2>1
    <3>2. CASE i = Len(q)
      BY <1>2, <1>3, <3>1, <3>2
    <3>3. CASE i # Len(q)
      <4>1. i \in 1..(Len(q) - 1) /\ i + 1 \in 1..Len(q)
        BY <1>1, <3>1, <3>3
      <4> QED
        BY <4>1, <1>2, <3>1 DEF Chain, Alternates
    <3> QED
      BY <3>2, <3>3
  <2> QED
    BY <1>2, <2>1 DEF Alternates
<1>5. Head(p) = Message(~s)
  <2>1. CASE q = <<>>
    <3>1. s = w /\ Len(q) = 0
      BY <2>1 DEF Chain
    <3>2. ~s = v
      BY <3>1
    <3> QED
      BY <3>1, <3>2, <1>2
  <2>2. CASE q # <<>>
    BY <1>1, <1>2, <1>3, <2>2 DEF Chain
  <2> QED
    BY <2>1, <2>2
<1> QED
  BY <1>2, <1>4, <1>5 DEF Chain, p

LEMMA ChainWeak ==
    ASSUME NEW s \in BOOLEAN, NEW w \in BOOLEAN, NEW q, Chain(s, w, q)
    PROVE  WeakChain(s, w, q)
<1>1. Alternates(q)
  BY DEF Chain
<1>2. q = <<>> => (w => s)
  BY DEF Chain
<1>3. ASSUME q # <<>> PROVE (~s => Head(q) = Yes) /\ q[Len(q)] = Message(w)
  BY <1>3 DEF Chain, Message
<1> QED
  BY <1>1, <1>2, <1>3 DEF WeakChain

\* What has been heard of a weak chain, a chain follows.
LEMMA WeakTail ==
    ASSUME NEW s \in BOOLEAN, NEW w \in BOOLEAN, NEW q, WeakChain(s, w, q), q # <<>>,
           NEW t \in BOOLEAN, Head(q) = Message(t)
    PROVE  Chain(t, w, Tail(q)) /\ (s \/ t)
<1>1. q \in Seq({Yes, No}) /\ Len(q) \in Nat /\ Len(q) >= 1 /\ Head(q) = q[1]
  BY DEF WeakChain, Alternates
<1>2. PICK r \in BOOLEAN : r # t
  OBVIOUS
<1>3. Message(t) = Message(~r)
  BY <1>2 DEF Message
<1>4. Chain(r, w, q)
  BY <1>1, <1>3 DEF WeakChain, Chain
<1>5. Chain(t, w, Tail(q))
  BY <1>2, <1>4, ChainTail
<1>6. s \/ t
  BY DEF WeakChain, Message, Yes, No
<1> QED
  BY <1>5, <1>6

LEMMA WeakAppend ==
    ASSUME NEW s \in BOOLEAN, NEW w \in BOOLEAN, NEW q, WeakChain(s, w, q),
           NEW v \in BOOLEAN, v # w
    PROVE  WeakChain(s, v, Append(q, Message(v)))
<1>1. CASE q = <<>>
  <2>0. q \in Seq({Yes, No})
    BY DEF WeakChain, Alternates
  <2>1. PICK p : p = Append(q, Message(v))
    OBVIOUS
  <2>2. Message(v) \in {Yes, No}
    BY DEF Message
  <2>3. p \in Seq({Yes, No}) /\ Len(p) = 1 /\ p[1] = Message(v) /\ Head(p) = Message(v) /\ p # <<>>
    BY <1>1, <2>0, <2>1, <2>2
  <2>4. Alternates(p)
    BY <2>3 DEF Alternates
  <2>5. ~s => Head(p) = Yes
    BY <1>1, <2>3 DEF WeakChain, Message
  <2>6. p[Len(p)] = Message(v)
    BY <2>3
  <2>7. WeakChain(s, v, p)
    BY <2>3, <2>4, <2>5, <2>6 DEF WeakChain
  <2> QED
    BY <2>1, <2>7
<1>2. CASE q # <<>>
  <2>1. q \in Seq({Yes, No}) /\ Len(q) >= 1 /\ Head(q) = q[1] /\ q[1] \in {Yes, No}
    BY <1>2 DEF WeakChain, Alternates
  <2>2. PICK r \in BOOLEAN : Head(q) = Message(~r) /\ (~s => ~r)
    <3>1. CASE Head(q) = Yes
      <4>1. Head(q) = Message(~FALSE)
        BY <3>1 DEF Message
      <4> QED
        BY <4>1
    <3>2. CASE Head(q) = No
      <4>1. Head(q) = Message(~TRUE)
        BY <3>2 DEF Message
      <4>2. s
        BY <1>2, <3>2 DEF WeakChain, Yes, No
      <4> QED
        BY <4>1, <4>2
    <3> QED
      BY <2>1, <3>1, <3>2
  <2>3. Chain(r, w, q)
    BY <1>2, <2>2 DEF WeakChain, Chain
  <2>4. Chain(r, v, Append(q, Message(v)))
    BY <2>3, ChainAppend
  <2>5. PICK p : p = Append(q, Message(v))
    OBVIOUS
  <2>6. p # <<>>
    BY <2>1, <2>5
  <2>7. Alternates(p) /\ Head(p) = Message(~r) /\ p[Len(p)] = Message(v)
    BY <2>4, <2>5, <2>6 DEF Chain
  <2>8. ~s => Head(p) = Yes
    BY <2>2, <2>7 DEF Message
  <2>9. WeakChain(s, v, p)
    BY <2>6, <2>7, <2>8 DEF WeakChain
  <2> QED
    BY <2>5, <2>9
<1> QED
  BY <1>1, <1>2

-----------------------------------------------------------------------------
\* Both ends accept the option.

\* A message that differs from the last one is an answer, or is answered.
Flips(h, new, g, out) ==
    /\ g \in HalfState /\ g.state = new /\ Balanced(g)
    /\ \/ h.resp # 0 /\ g.want = h.want /\ g.resp = h.resp - 1 /\ out = <<>>
       \/ h.resp = 0 /\ h.want # new /\ g.want = new /\ g.resp = 0
          /\ out = <<Message(new)>>

LEMMA KeptFlips ==
    ASSUME NEW h \in HalfState, NEW new \in BOOLEAN, Balanced(h), h.state # new,
           h.resp # 0, NEW r, r = Kept(h, new)
    PROVE  Flips(h, new, r.half, r.out)
<1>1. h.resp \in Nat /\ h.state \in BOOLEAN /\ h.want \in BOOLEAN
  BY DEF HalfState
<1>2. RespLeft(h, new) = h.resp - 1 /\ h.resp - 1 \in Nat
  BY <1>1, LeftFlip
<1>3. r.half = [state |-> new, want |-> h.want, resp |-> RespLeft(h, new)] /\ r.out = <<>>
  BY DEF Kept, Result
<1>4. r.half.state = new /\ r.half.want = h.want /\ r.half.resp = h.resp - 1
  BY <1>2, <1>3
<1>5. r.half \in HalfState
  BY <1>1, <1>2, <1>3 DEF HalfState
<1>6. h.resp % 2 = 0 <=> ~((h.resp - 1) % 2 = 0)
  BY <1>1
<1>7. Balanced(r.half)
  <2>1. (h.state = h.want) <=> (h.resp % 2 = 0)
    BY DEF Balanced
  <2>2. (new = h.want) <=> ~(h.state = h.want)
    BY <1>1
  <2>3. (new = h.want) <=> ((h.resp - 1) % 2 = 0)
    BY <2>1, <2>2, <1>6, Zenon
  <2> QED
    BY <1>4, <2>3, Zenon DEF Balanced
<1> QED
  BY <1>3, <1>4, <1>5, <1>7, Zenon DEF Flips

LEMMA OnFlips ==
    ASSUME NEW h \in HalfState, h.resp = 0, Balanced(h), h.state = FALSE,
           NEW r, r = Result(On, <<Yes>>)
    PROVE  Flips(h, TRUE, r.half, r.out)
<1>1. r.half = On /\ r.out = <<Yes>>
  BY DEF Result
<1>2. h.want # TRUE
  BY BalancedIs
<1>3. Message(TRUE) = Yes
  BY DEF Message
<1> QED
  BY <1>1, <1>2, <1>3, HalfKinds, KindsBalanced, Zenon DEF Flips

LEMMA OffFlips ==
    ASSUME NEW h \in HalfState, h.resp = 0, Balanced(h), h.state = TRUE,
           NEW r, r = Result(Off, <<No>>)
    PROVE  Flips(h, FALSE, r.half, r.out)
<1>1. r.half = Off /\ r.out = <<No>>
  BY DEF Result
<1>2. h.want # FALSE
  BY BalancedIs
<1>3. Message(FALSE) = No
  BY DEF Message
<1> QED
  BY <1>1, <1>2, <1>3, HalfKinds, KindsBalanced, Zenon DEF Flips

LEMMA Crossed ==
    ASSUME NEW h \in HalfState, NEW g \in HalfState, NEW p, NEW q, Crossing(h, g, p, q)
    PROVE  /\ Crossing(g, h, q, p)
           /\ p \in Seq({Yes, No}) /\ q \in Seq({Yes, No})
           /\ p \in Seq({Yes, No, Naws}) /\ q \in Seq({Yes, No, Naws})
           /\ Len(p) \in Nat /\ Len(q) \in Nat
<1>1. p \in Seq({Yes, No}) /\ q \in Seq({Yes, No})
  BY DEF Crossing, Chain, Alternates
<1>2. Len(p) \in Nat /\ Len(q) \in Nat /\ h.resp \in Nat /\ g.resp \in Nat
  BY <1>1 DEF HalfState
<1>3. g.resp + h.resp = Len(q) + Len(p)
  BY <1>2 DEF Crossing
<1>4. p \in Seq({Yes, No, Naws}) /\ q \in Seq({Yes, No, Naws})
  BY <1>1
<1> QED
  BY <1>1, <1>2, <1>3, <1>4, Zenon DEF Crossing

LEMMA MessageIs ==
    ASSUME NEW v \in BOOLEAN
    PROVE  /\ Message(v) \in {Yes, No}
           /\ Message(v) = Yes <=> v
           /\ Message(v) = No <=> ~v
           /\ \A q \in Seq({Yes, No, Naws}) : q \o <<Message(v)>> = Append(q, Message(v))
  BY DEF Message, Yes, No

\* One end hears the next message.
LEMMA CrossHear ==
    ASSUME NEW h \in HalfState, NEW g \in HalfState, NEW p, NEW q, Crossing(h, g, p, q),
           q # <<>>, NEW new \in BOOLEAN, new # h.state, NEW k, NEW out,
           Flips(h, new, k, out)
    PROVE  Crossing(k, g, p \o out, Tail(q))
<1>1. /\ h.resp \in Nat /\ h.state \in BOOLEAN /\ h.want \in BOOLEAN
      /\ g.resp \in Nat /\ g.state \in BOOLEAN /\ g.want \in BOOLEAN
  BY DEF HalfState
<1>2. Len(p) \in Nat /\ Len(q) \in Nat /\ p \in Seq({Yes, No, Naws}) /\ q \in Seq({Yes, No, Naws})
  BY Crossed
<1>3. Chain(new, g.want, Tail(q))
  BY <1>1, ChainTail DEF Crossing
<1>4. Len(Tail(q)) = Len(q) - 1
  BY <1>2
<1>5. h.resp + g.resp = Len(p) + Len(q) /\ Chain(g.state, h.want, p) /\ Balanced(g)
  BY DEF Crossing
<1>6. k \in HalfState /\ k.state = new /\ Balanced(k)
  BY DEF Flips
<1>7. CASE h.resp # 0 /\ k.want = h.want /\ k.resp = h.resp - 1 /\ out = <<>>
  <2>1. p \o out = p
    BY <1>2, <1>7, Sent
  <2>2. k.resp + g.resp = Len(p) + Len(Tail(q))
    BY <1>1, <1>2, <1>4, <1>5, <1>7
  <2> QED
    BY <2>1, <2>2, <1>3, <1>5, <1>6, <1>7, Zenon DEF Crossing
<1>8. CASE h.resp = 0 /\ h.want # new /\ k.want = new /\ k.resp = 0 /\ out = <<Message(new)>>
  <2>1. p \o out = Append(p, Message(new))
    BY <1>2, <1>8, MessageIs
  <2>2. Chain(g.state, new, p \o out)
    BY <1>1, <1>5, <1>8, <2>1, ChainAppend
  <2>3. k.resp + g.resp = Len(p \o out) + Len(Tail(q))
    <3>1. Len(p \o out) = Len(p) + 1
      BY <2>1, <1>2, MessageIs
    <3> QED
      BY <3>1, <1>1, <1>2, <1>4, <1>5, <1>8
  <2> QED
    BY <2>2, <2>3, <1>3, <1>5, <1>6, <1>8, Zenon DEF Crossing
<1> QED
  BY <1>7, <1>8, Zenon DEF Flips

\* One end starts a request.
LEMMA CrossAsk ==
    ASSUME NEW h \in HalfState, NEW g \in HalfState, NEW p, NEW q, Crossing(h, g, p, q),
           NEW new \in BOOLEAN, NEW r, r = Ask(h, new, new)
    PROVE  Crossing(r.half, g, p \o r.out, q)
<1>1. /\ h.resp \in Nat /\ h.state \in BOOLEAN /\ h.want \in BOOLEAN
      /\ g.resp \in Nat /\ g.state \in BOOLEAN /\ g.want \in BOOLEAN
  BY DEF HalfState
<1>2. Len(p) \in Nat /\ Len(q) \in Nat /\ p \in Seq({Yes, No, Naws}) /\ q \in Seq({Yes, No, Naws})
  BY Crossed
<1>5. h.resp + g.resp = Len(p) + Len(q) /\ Chain(g.state, h.want, p) /\ Balanced(g)
      /\ Balanced(h) /\ Chain(h.state, g.want, q)
  BY DEF Crossing
<1>7. CASE h.want = new
  <2>1. r = Result(h, <<>>)
    BY <1>7, AskNothing, Zenon
  <2>2. r.half = h /\ r.out = <<>>
    BY <2>1 DEF Result
  <2>3. p \o r.out = p
    BY <1>2, <2>2, Sent
  <2> QED
    BY <2>2, <2>3, Zenon
<1>8. CASE h.want # new
  <2>1. r = Result([state |-> h.state, want |-> new, resp |-> h.resp + 1], <<Message(new)>>)
    BY <1>5, <1>8, AskIs, Zenon
  <2>2. PICK k : k = [state |-> h.state, want |-> new, resp |-> h.resp + 1]
    OBVIOUS
  <2>3. r.half = k /\ r.out = <<Message(new)>>
    BY <2>1, <2>2 DEF Result
  <2>4. k.state = h.state /\ k.want = new /\ k.resp = h.resp + 1
    BY <2>2
  <2>5. p \o r.out = Append(p, Message(new))
    BY <1>2, <2>3, MessageIs
  <2>6. Chain(g.state, new, p \o r.out)
    BY <1>1, <1>5, <1>8, <2>5, ChainAppend
  <2>7. k.resp + g.resp = Len(p \o r.out) + Len(q)
    <3>1. Len(p \o r.out) = Len(p) + 1
      BY <2>5, <1>2, MessageIs
    <3>2. h.resp + g.resp = Len(p) + Len(q) /\ k.resp = h.resp + 1
      BY <1>5, <2>4
    <3>3. h.resp \in Nat /\ g.resp \in Nat
      BY <1>1
    <3> QED
      BY <3>1, <3>2, <3>3, <1>2, SMTT(60)
  <2>8. Balanced(k)
    <3>1. (h.state = h.want) <=> (h.resp % 2 = 0)
      BY <1>5 DEF Balanced
    <3>2. (h.state = new) <=> ~(h.state = h.want)
      BY <1>1, <1>8
    <3>3. h.resp % 2 = 0 <=> ~((h.resp + 1) % 2 = 0)
      BY <1>1
    <3> QED
      BY <2>4, <3>1, <3>2, <3>3, Zenon DEF Balanced
  <2> QED
    BY <2>3, <2>4, <2>6, <2>7, <2>8, <1>5, Zenon DEF Crossing
<1> QED
  BY <1>7, <1>8

\* dontoption() turns SGA off and asks for it again.
LEMMA CrossAgain ==
    ASSUME NEW h \in HalfState, NEW g \in HalfState, NEW p, NEW q, Crossing(h, g, p, q),
           q # <<>>, h.state = TRUE, h.resp = 0
    PROVE  Crossing(Waiting, g, p \o (<<No>> \o <<Yes>>), Tail(q))
<1>1. Flips(h, FALSE, Result(Off, <<No>>).half, Result(Off, <<No>>).out)
  BY OffFlips, Zenon DEF Crossing
<1>2. Result(Off, <<No>>).half = Off /\ Result(Off, <<No>>).out = <<No>>
  BY DEF Result
<1>3. Flips(h, FALSE, Off, <<No>>)
  BY <1>1, <1>2, Zenon
<1>4. Crossing(Off, g, p \o <<No>>, Tail(q))
  <2>1. FALSE # h.state /\ FALSE \in BOOLEAN
    OBVIOUS
  <2> QED
    BY <1>3, <2>1, CrossHear, Zenon
<1>5. PICK r : r = Ask(Off, TRUE, TRUE)
  OBVIOUS
<1>6. r = Result(Waiting, <<Yes>>)
  BY <1>5, AskOff, Zenon
<1>7. r.half = Waiting /\ r.out = <<Yes>>
  BY <1>6 DEF Result
<1>8. Crossing(r.half, g, (p \o <<No>>) \o r.out, Tail(q))
  <2>1. TRUE \in BOOLEAN
    OBVIOUS
  <2> QED
    BY <1>4, <1>5, <2>1, CrossAsk, HalfKinds, Zenon
<1>9. (p \o <<No>>) \o <<Yes>> = p \o (<<No>> \o <<Yes>>)
  <2>1. p \in Seq({Yes, No, Naws})
    BY Crossed
  <2>2. <<No>> \in Seq({Yes, No, Naws}) /\ <<Yes>> \in Seq({Yes, No, Naws})
    OBVIOUS
  <2> QED
    BY <2>1, <2>2, ConcatAssociative
<1> QED
  BY <1>7, <1>8, <1>9, Zenon

-----------------------------------------------------------------------------
\* Type correctness.

IsResult(r) == r.half \in HalfState /\ r.out \in Seq({Yes, No, Naws})

LEMMA ResultOf ==
    ASSUME NEW h \in HalfState, NEW out \in Seq({Yes, No, Naws})
    PROVE  IsResult(Result(h, out))
  BY DEF IsResult, Result

LEMMA Outputs ==
    <<>> \in Seq({Yes, No, Naws}) /\ <<Yes>> \in Seq({Yes, No, Naws})
    /\ <<No>> \in Seq({Yes, No, Naws})
  OBVIOUS

LEMMA AskResult ==
    ASSUME NEW h \in HalfState, NEW new \in BOOLEAN, NEW w \in BOOLEAN
    PROVE  IsResult(Ask(h, new, w))
<1>1. CASE NothingNew(h, new)
  BY <1>1, Outputs, ResultOf, Zenon DEF Ask
<1>2. CASE ~NothingNew(h, new)
  <2>1. h.resp + 1 \in Nat /\ h.state \in BOOLEAN
    BY DEF HalfState
  <2>2. [h EXCEPT !.want = w, !.resp = h.resp + 1] = [state |-> h.state, want |-> w, resp |-> h.resp + 1]
    BY <2>1, WantResp
  <2>3. [state |-> h.state, want |-> w, resp |-> h.resp + 1] \in HalfState
    BY <2>1 DEF HalfState
  <2>4. <<IF new THEN Yes ELSE No>> \in Seq({Yes, No, Naws})
    BY Outputs
  <2> QED
    BY <1>2, <2>2, <2>3, <2>4, ResultOf, Zenon DEF Ask
<1> QED
  BY <1>1, <1>2

LEMMA SettledResult ==
    ASSUME NEW h \in HalfState, NEW new \in BOOLEAN
    PROVE  IsResult(Settled(h, new))
<1>1. [state |-> new, want |-> h.want, resp |-> RespLeft(h, new)] \in HalfState
  BY RespLeftIs DEF HalfState
<1> QED
  BY <1>1, SettledIs, Outputs, ResultOf, Zenon DEF Kept

LEMMA UnaskedResult ==
    ASSUME NEW ok \in BOOLEAN
    PROVE  IsResult(Unasked(ok))
<1>1. CASE ok
  BY <1>1, HalfKinds, Outputs, ResultOf, Zenon DEF Unasked
<1>2. CASE ~ok
  <2>1. Unasked(ok) = Result(Refusal, <<No>>)
    BY <1>2, Zenon DEF Unasked, Refusal
  <2> QED
    BY <2>1, HalfKinds, Outputs, ResultOf, Zenon
<1> QED
  BY <1>1, <1>2

LEMMA TurnOffResult ==
    ASSUME NEW h \in HalfState
    PROVE  IsResult(TurnOff(h))
<1>1. CASE h.state
  BY <1>1, HalfKinds, Outputs, ResultOf, Zenon DEF TurnOff
<1>2. CASE ~h.state
  BY <1>2, HalfKinds, Outputs, ResultOf, Zenon DEF TurnOff
<1> QED
  BY <1>1, <1>2

LEMMA WillResult ==
    ASSUME NEW h \in HalfState, Options
    PROVE  IsResult(WillOption(h))
<1>0. TRUE \in BOOLEAN /\ FALSE \in BOOLEAN /\ willOk \in BOOLEAN /\ 0 \in Nat
  BY DEF Options
<1>1. CASE RespLeft(h, TRUE) # 0
  BY <1>0, <1>1, SettledResult, Zenon DEF WillOption
<1>2. CASE RespLeft(h, TRUE) = 0 /\ ~h.want /\ opt = "TM"
  <2>1. [h EXCEPT !.resp = 0] \in HalfState
    BY DEF HalfState
  <2> QED
    BY <1>2, <2>1, Outputs, ResultOf, Zenon DEF WillOption
<1>3. CASE RespLeft(h, TRUE) = 0 /\ ~h.want /\ opt # "TM"
  BY <1>0, <1>3, UnaskedResult, Zenon DEF WillOption
<1>4. CASE RespLeft(h, TRUE) = 0 /\ h.want /\ opt = "ECHO"
  <2>1. PICK g : g = [h EXCEPT !.resp = 0]
    OBVIOUS
  <2>2. g \in HalfState
    BY <2>1 DEF HalfState
  <2>3. PICK d : d = Ask(g, FALSE, FALSE)
    OBVIOUS
  <2>4. d.half \in HalfState /\ d.out \in Seq({Yes, No, Naws})
    BY <1>0, <2>2, <2>3, AskResult, Zenon DEF IsResult
  <2>5. [d.half EXCEPT !.state = TRUE] \in HalfState
    <3>1. PICK k \in HalfState : k = d.half
      BY <2>4
    <3>2. [k EXCEPT !.state = TRUE] = [state |-> TRUE, want |-> k.want, resp |-> k.resp]
      BY <1>0, StateOnly, Zenon
    <3>3. [state |-> TRUE, want |-> k.want, resp |-> k.resp] \in HalfState
      BY DEF HalfState
    <3> QED
      BY <3>1, <3>2, <3>3, Zenon
  <2>6. WillOption(h) = Result([d.half EXCEPT !.state = TRUE], d.out)
    BY <1>4, <2>1, <2>3, Zenon DEF WillOption
  <2> QED
    BY <2>4, <2>5, <2>6, ResultOf, Zenon
<1>5. CASE RespLeft(h, TRUE) = 0 /\ h.want /\ opt # "ECHO"
  BY <1>0, <1>5, SettledResult, Zenon DEF WillOption
<1> QED
  BY <1>1, <1>2, <1>3, <1>4, <1>5, Zenon

LEMMA WontResult ==
    ASSUME NEW h \in HalfState
    PROVE  IsResult(WontOption(h))
<1>0. FALSE \in BOOLEAN
  OBVIOUS
<1>1. CASE RespLeft(h, FALSE) # 0 \/ ~h.want
  BY <1>0, <1>1, SettledResult, Zenon DEF WontOption
<1>2. CASE RespLeft(h, FALSE) = 0 /\ h.want /\ opt = "TM"
  <2>1. [h EXCEPT !.want = FALSE, !.resp = 0] \in HalfState
    <3>0. 0 \in Nat
      OBVIOUS
    <3>1. [h EXCEPT !.want = FALSE, !.resp = 0] = [state |-> h.state, want |-> FALSE, resp |-> 0]
      BY <1>0, <3>0, WantResp, Zenon
    <3>2. [state |-> h.state, want |-> FALSE, resp |-> 0] \in HalfState
      BY DEF HalfState
    <3> QED
      BY <3>1, <3>2, Zenon
  <2> QED
    BY <1>2, <2>1, Outputs, ResultOf, Zenon DEF WontOption
<1>3. CASE RespLeft(h, FALSE) = 0 /\ h.want /\ opt # "TM"
  BY <1>3, TurnOffResult, Zenon DEF WontOption
<1> QED
  BY <1>1, <1>2, <1>3, Zenon

LEMMA DoResult ==
    ASSUME NEW h \in HalfState, Options
    PROVE  IsResult(DoOption(h))
<1>0. TRUE \in BOOLEAN /\ doOk \in BOOLEAN
  BY DEF Options
<1>1. CASE RespLeft(h, TRUE) # 0 \/ h.want
  BY <1>0, <1>1, SettledResult, Zenon DEF DoOption
<1>2. CASE RespLeft(h, TRUE) = 0 /\ ~h.want /\ opt = "TM"
  BY <1>2, HalfKinds, Outputs, ResultOf, Zenon DEF DoOption
<1>3. CASE RespLeft(h, TRUE) = 0 /\ ~h.want /\ opt # "TM"
  BY <1>0, <1>3, UnaskedResult, Zenon DEF DoOption
<1> QED
  BY <1>1, <1>2, <1>3, Zenon

LEMMA DontResult ==
    ASSUME NEW h \in HalfState
    PROVE  IsResult(DontOption(h))
<1>0. TRUE \in BOOLEAN /\ FALSE \in BOOLEAN
  OBVIOUS
<1>1. CASE RespLeft(h, FALSE) # 0 \/ ~h.want
  BY <1>0, <1>1, SettledResult, Zenon DEF DontOption
<1>2. CASE RespLeft(h, FALSE) = 0 /\ h.want /\ opt = "SGA" /\ Again
  <2>1. PICK a : a = Ask(Off, TRUE, TRUE)
    OBVIOUS
  <2>2. a.half \in HalfState /\ a.out \in Seq({Yes, No, Naws})
    BY <1>0, <2>1, HalfKinds, AskResult, Zenon DEF IsResult
  <2>3. TurnOff(h).out \o a.out \in Seq({Yes, No, Naws})
    BY <2>2, TurnOffResult, ConcatProperties DEF IsResult
  <2> QED
    BY <1>2, <2>1, <2>2, <2>3, ResultOf, Zenon DEF DontOption
<1>3. CASE RespLeft(h, FALSE) = 0 /\ h.want /\ ~(opt = "SGA" /\ Again)
  BY <1>3, TurnOffResult, Zenon DEF DontOption
<1> QED
  BY <1>1, <1>2, <1>3, Zenon

\* What each action does to the halves and to what is under way.
LEMMA HearPeer ==
    ASSUME TelnetTypeOK, Options, RecvFromPeer
    PROVE  /\ toUs # <<>> /\ toUs' = Tail(toUs)
           /\ \/ Head(toUs) = Yes /\ his' = WillOption(his).half
                 /\ toPeer' = toPeer \o WillOption(his).out
              \/ Head(toUs) = No /\ his' = WontOption(his).half
                 /\ toPeer' = toPeer \o WontOption(his).out
           /\ my' = my /\ phase' = phase /\ turn_on_sga' = turn_on_sga
           /\ opt' = opt /\ willOk' = willOk /\ doOk' = doOk
           /\ his' \in HalfState /\ toPeer' \in Seq({Yes, No, Naws})
           /\ toUs' \in Seq({Yes, No, Naws})
<1>1. /\ toUs \in Seq({Yes, No, Naws}) /\ toPeer \in Seq({Yes, No, Naws})
      /\ his \in HalfState
  BY DEF TelnetTypeOK
<1>2. /\ toUs # <<>> /\ toUs' = Tail(toUs) /\ Head(toUs) # Naws
      /\ my' = my /\ phase' = phase /\ turn_on_sga' = turn_on_sga
      /\ opt' = opt /\ willOk' = willOk /\ doOk' = doOk
      /\ Us(IF Head(toUs) = Yes THEN WillOption(his) ELSE WontOption(his))
  BY DEF RecvFromPeer
<1>3. Head(toUs) \in {Yes, No, Naws} /\ Tail(toUs) \in Seq({Yes, No, Naws})
  BY <1>1, <1>2, HeadTailProperties
<1>4. Yes # No
  BY DEF Yes, No
<1>5. CASE Head(toUs) = Yes
  <2>1. his' = WillOption(his).half /\ toPeer' = toPeer \o WillOption(his).out
    BY <1>2, <1>5 DEF Us
  <2>2. his' \in HalfState /\ WillOption(his).out \in Seq({Yes, No, Naws})
    BY <1>1, <2>1, WillResult, Zenon DEF IsResult
  <2>3. toPeer \o WillOption(his).out \in Seq({Yes, No, Naws})
    BY <1>1, <2>2, ConcatProperties
  <2> QED
    BY <1>2, <1>3, <1>5, <2>1, <2>2, <2>3, Zenon
<1>6. CASE Head(toUs) = No
  <2>1. his' = WontOption(his).half /\ toPeer' = toPeer \o WontOption(his).out
    BY <1>2, <1>4, <1>6 DEF Us
  <2>2. his' \in HalfState /\ WontOption(his).out \in Seq({Yes, No, Naws})
    BY <1>1, <2>1, WontResult, Zenon DEF IsResult
  <2>3. toPeer \o WontOption(his).out \in Seq({Yes, No, Naws})
    BY <1>1, <2>2, ConcatProperties
  <2> QED
    BY <1>2, <1>3, <1>6, <2>1, <2>2, <2>3, Zenon
<1> QED
  BY <1>2, <1>3, <1>5, <1>6

LEMMA HearUs ==
    ASSUME TelnetTypeOK, Options, RecvFromUs
    PROVE  /\ toPeer # <<>> /\ toPeer' = Tail(toPeer)
           /\ \/ Head(toPeer) = Yes /\ my' = DoOption(my).half
                 /\ toUs' = toUs \o DoOption(my).out
              \/ Head(toPeer) = No /\ my' = DontOption(my).half
                 /\ toUs' = toUs \o DontOption(my).out
           /\ his' = his /\ phase' = phase /\ turn_on_sga' \in {0, 1}
           /\ opt' = opt /\ willOk' = willOk /\ doOk' = doOk
           /\ my' \in HalfState /\ toPeer' \in Seq({Yes, No, Naws})
           /\ toUs' \in Seq({Yes, No, Naws})
<1>1. /\ toUs \in Seq({Yes, No, Naws}) /\ toPeer \in Seq({Yes, No, Naws})
      /\ my \in HalfState /\ turn_on_sga \in {0, 1}
  BY DEF TelnetTypeOK
<1>2. /\ toPeer # <<>> /\ toPeer' = Tail(toPeer) /\ Head(toPeer) # Naws
      /\ his' = his /\ phase' = phase
      /\ opt' = opt /\ willOk' = willOk /\ doOk' = doOk
      /\ Peer(IF Head(toPeer) = Yes THEN DoOption(my) ELSE DontOption(my))
      /\ turn_on_sga' = IF Head(toPeer) = Yes THEN SgaAfterDo(my) ELSE SgaAfterDont(my)
  BY DEF RecvFromUs
<1>3. Head(toPeer) \in {Yes, No, Naws} /\ Tail(toPeer) \in Seq({Yes, No, Naws})
  BY <1>1, <1>2, HeadTailProperties
<1>4. Yes # No
  BY DEF Yes, No
<1>7. turn_on_sga' \in {0, 1}
  <2>1. SgaAfterDo(my) \in {0, 1}
    BY <1>1 DEF SgaAfterDo
  <2>2. SgaAfterDont(my) \in {0, 1}
    <3>1. 1 - turn_on_sga \in {0, 1}
      BY <1>1
    <3> QED
      BY <1>1, <3>1, Zenon DEF SgaAfterDont
  <2> QED
    BY <1>2, <2>1, <2>2
<1>5. CASE Head(toPeer) = Yes
  <2>1. my' = DoOption(my).half /\ toUs' = toUs \o DoOption(my).out
    BY <1>2, <1>5 DEF Peer
  <2>2. my' \in HalfState /\ DoOption(my).out \in Seq({Yes, No, Naws})
    BY <1>1, <2>1, DoResult, Zenon DEF IsResult
  <2>3. toUs \o DoOption(my).out \in Seq({Yes, No, Naws})
    BY <1>1, <2>2, ConcatProperties
  <2> QED
    BY <1>2, <1>3, <1>5, <1>7, <2>1, <2>2, <2>3, Zenon
<1>6. CASE Head(toPeer) = No
  <2>1. my' = DontOption(my).half /\ toUs' = toUs \o DontOption(my).out
    BY <1>2, <1>4, <1>6 DEF Peer
  <2>2. my' \in HalfState /\ DontOption(my).out \in Seq({Yes, No, Naws})
    BY <1>1, <2>1, DontResult, Zenon DEF IsResult
  <2>3. toUs \o DontOption(my).out \in Seq({Yes, No, Naws})
    BY <1>1, <2>2, ConcatProperties
  <2> QED
    BY <1>2, <1>3, <1>6, <1>7, <2>1, <2>2, <2>3, Zenon
<1> QED
  BY <1>2, <1>3, <1>5, <1>6

LEMMA AskPeer ==
    ASSUME TelnetTypeOK, Options, NEW new \in BOOLEAN, Request(new)
    PROVE  /\ his' = Ask(his, new, new /\ opt # "TM").half
           /\ toPeer' = toPeer \o Ask(his, new, new /\ opt # "TM").out
           /\ \/ opt \in {"SGA", "other"} /\ (new => willOk)
              \/ opt = "TM" /\ new /\ his.resp = 0
           /\ toUs' = toUs /\ my' = my /\ phase' = phase /\ turn_on_sga' = turn_on_sga
           /\ opt' = opt /\ willOk' = willOk /\ doOk' = doOk
           /\ his' \in HalfState /\ toPeer' \in Seq({Yes, No, Naws})
<1>1. /\ toPeer \in Seq({Yes, No, Naws}) /\ his \in HalfState
  BY DEF TelnetTypeOK
<1>2. PICK w \in BOOLEAN : w = (new /\ opt # "TM")
  OBVIOUS
<1>3. PICK r : r = Ask(his, new, w)
  OBVIOUS
<1>4. r.half \in HalfState /\ r.out \in Seq({Yes, No, Naws})
  BY <1>1, <1>3, AskResult, Zenon DEF IsResult
<1>5. toPeer \o r.out \in Seq({Yes, No, Naws})
  BY <1>1, <1>4, ConcatProperties
<1>6. r = Ask(his, new, new /\ opt # "TM")
  BY <1>2, <1>3, Zenon
<1> QED
  BY <1>4, <1>5, <1>6, Zenon DEF Request, Us

LEMMA OfferUs ==
    ASSUME TelnetTypeOK, Options, NEW new \in BOOLEAN, Offer(new)
    PROVE  /\ my' = Ask(my, new, new).half
           /\ toUs' = toUs \o Ask(my, new, new).out
           /\ opt # "TM" /\ (new => doOk)
           /\ toPeer' = toPeer /\ his' = his /\ phase' = phase /\ turn_on_sga' = turn_on_sga
           /\ opt' = opt /\ willOk' = willOk /\ doOk' = doOk
           /\ my' \in HalfState /\ toUs' \in Seq({Yes, No, Naws})
<1>1. /\ toUs \in Seq({Yes, No, Naws}) /\ my \in HalfState
  BY DEF TelnetTypeOK
<1>3. PICK r : r = Ask(my, new, new)
  OBVIOUS
<1>4. r.half \in HalfState /\ r.out \in Seq({Yes, No, Naws})
  BY <1>1, <1>3, AskResult, Zenon DEF IsResult
<1>5. toUs \o r.out \in Seq({Yes, No, Naws})
  BY <1>1, <1>4, ConcatProperties
<1> QED
  BY <1>3, <1>4, <1>5, Zenon DEF Offer, Peer

LEMMA StartAsks ==
    ASSUME TelnetTypeOK, Options, Start
    PROVE  /\ phase = "start" /\ phase' = "spin"
           /\ his' = Ask(his, TRUE, TRUE).half
           /\ toPeer' = toPeer \o Ask(his, TRUE, TRUE).out \o <<Naws>>
           /\ toUs' = toUs /\ my' = my /\ turn_on_sga' = turn_on_sga
           /\ opt' = opt /\ willOk' = willOk /\ doOk' = doOk
           /\ his' \in HalfState /\ toPeer' \in Seq({Yes, No, Naws})
<1>1. /\ toPeer \in Seq({Yes, No, Naws}) /\ his \in HalfState
  BY DEF TelnetTypeOK
<1>2. TRUE \in BOOLEAN
  OBVIOUS
<1>3. PICK r : r = Ask(his, TRUE, TRUE)
  OBVIOUS
<1>4. r.half \in HalfState /\ r.out \in Seq({Yes, No, Naws})
  BY <1>1, <1>2, <1>3, AskResult, Zenon DEF IsResult
<1>5. toPeer \o r.out \in Seq({Yes, No, Naws})
  BY <1>1, <1>4, ConcatProperties
<1>6. <<Naws>> \in Seq({Yes, No, Naws})
  OBVIOUS
<1>7. toPeer \o r.out \o <<Naws>> \in Seq({Yes, No, Naws})
  BY <1>5, <1>6, ConcatProperties
<1>8. r = Ask(his, TRUE, TRUE)
  BY <1>3
<1>9. /\ phase = "start" /\ phase' = "spin"
      /\ his' = Ask(his, TRUE, TRUE).half
      /\ toPeer' = toPeer \o Ask(his, TRUE, TRUE).out \o <<Naws>>
      /\ toUs' = toUs /\ my' = my /\ turn_on_sga' = turn_on_sga
      /\ opt' = opt /\ willOk' = willOk /\ doOk' = doOk
  BY Zenon DEF Start
<1> QED
  BY <1>3, <1>4, <1>7, <1>8, <1>9, Zenon

LEMMA NawsAnswered ==
    ASSUME TelnetTypeOK, Options, AnswerNaws
    PROVE  /\ toPeer # <<>> /\ Head(toPeer) = Naws
           /\ toPeer' = Tail(toPeer) /\ toUs' = Append(toUs, Naws)
           /\ his' = his /\ my' = my /\ phase' = phase /\ turn_on_sga' = turn_on_sga
           /\ opt' = opt /\ willOk' = willOk /\ doOk' = doOk
           /\ toPeer' \in Seq({Yes, No, Naws}) /\ toUs' \in Seq({Yes, No, Naws})
<1>1. /\ toPeer \in Seq({Yes, No, Naws}) /\ toUs \in Seq({Yes, No, Naws})
  BY DEF TelnetTypeOK
<1>2. /\ toPeer # <<>> /\ Head(toPeer) = Naws
      /\ toPeer' = Tail(toPeer) /\ toUs' = Append(toUs, Naws)
      /\ his' = his /\ my' = my /\ phase' = phase /\ turn_on_sga' = turn_on_sga
      /\ opt' = opt /\ willOk' = willOk /\ doOk' = doOk
  BY DEF AnswerNaws
<1>3. Tail(toPeer) \in Seq({Yes, No, Naws}) /\ Append(toUs, Naws) \in Seq({Yes, No, Naws})
  BY <1>1, <1>2, HeadTailProperties, AppendProperties
<1> QED
  BY <1>2, <1>3

LEMMA SpinOver ==
    ASSUME TelnetTypeOK, Options, SpinEnds
    PROVE  /\ \/ toUs # <<>> /\ Head(toUs) = Naws /\ toUs' = Tail(toUs)
              \/ phase = "spin" /\ his.state = his.want /\ toUs' = toUs
           /\ \/ phase = "spin" /\ his.want /\ his' = WillOption(his).half
                 /\ toPeer' = toPeer \o WillOption(his).out
              \/ phase = "spin" /\ ~his.want /\ his' = his /\ toPeer' = toPeer
              \/ phase # "spin" /\ his' = his /\ toPeer' = toPeer
           /\ my' = my /\ phase' = "run" /\ turn_on_sga' = turn_on_sga
           /\ opt' = opt /\ willOk' = willOk /\ doOk' = doOk
           /\ his' \in HalfState /\ toPeer' \in Seq({Yes, No, Naws})
           /\ toUs' \in Seq({Yes, No, Naws})
<1>1. /\ toPeer \in Seq({Yes, No, Naws}) /\ toUs \in Seq({Yes, No, Naws})
      /\ his \in HalfState
  BY DEF TelnetTypeOK
<1>2. /\ \/ toUs # <<>> /\ Head(toUs) = Naws /\ toUs' = Tail(toUs)
         \/ phase = "spin" /\ his.state = his.want /\ toUs' = toUs
      /\ my' = my /\ phase' = "run" /\ turn_on_sga' = turn_on_sga
      /\ opt' = opt /\ willOk' = willOk /\ doOk' = doOk
      /\ phase = "spin" => Us(Simulated)
      /\ phase # "spin" => his' = his /\ toPeer' = toPeer
  BY DEF SpinEnds
<1>3. toUs' \in Seq({Yes, No, Naws})
  BY <1>1, <1>2, HeadTailProperties
<1>4. CASE phase # "spin"
  BY <1>1, <1>2, <1>3, <1>4, Zenon
<1>5. CASE phase = "spin" /\ ~his.want
  <2>1. PICK r : r = Simulated
    OBVIOUS
  <2>4. r = Result(his, <<>>)
    BY <1>5, <2>1, Zenon DEF Simulated
  <2>5. r.half = his /\ r.out = <<>>
    BY <2>4 DEF Result
  <2>2. his' = his /\ toPeer' = toPeer \o <<>>
    BY <1>2, <1>5, <2>1, <2>5, Zenon DEF Us
  <2>3. toPeer' = toPeer
    BY <2>2, <1>1, Sent
  <2> QED
    BY <1>1, <1>2, <1>3, <1>5, <2>2, <2>3, Zenon
<1>6. CASE phase = "spin" /\ his.want
  <2>1. Simulated = WillOption(his)
    BY <1>6 DEF Simulated
  <2>2. his' = WillOption(his).half /\ toPeer' = toPeer \o WillOption(his).out
    BY <1>2, <1>6, <2>1, Zenon DEF Us
  <2>3. his' \in HalfState /\ WillOption(his).out \in Seq({Yes, No, Naws})
    BY <1>1, <2>2, WillResult, Zenon DEF IsResult
  <2>4. toPeer \o WillOption(his).out \in Seq({Yes, No, Naws})
    BY <1>1, <2>3, ConcatProperties
  <2> QED
    BY <1>2, <1>3, <1>6, <2>2, <2>3, <2>4, Zenon
<1> QED
  BY <1>4, <1>5, <1>6, Zenon

LEMMA TypeStep ==
    ASSUME TelnetTypeOK, Options, TelnetNext
    PROVE  TelnetTypeOK' /\ Options'
<1>1. /\ toPeer \in Seq({Yes, No, Naws}) /\ toUs \in Seq({Yes, No, Naws})
      /\ his \in HalfState /\ my \in HalfState /\ turn_on_sga \in {0, 1}
      /\ phase \in {"start", "spin", "run"}
  BY DEF TelnetTypeOK
<1>2. "spin" \in {"start", "spin", "run"} /\ "run" \in {"start", "spin", "run"}
  OBVIOUS
<1>3. CASE RecvFromPeer
  BY <1>1, <1>3, HearPeer, Zenon DEF TelnetTypeOK, Options
<1>4. CASE RecvFromUs
  BY <1>1, <1>4, HearUs, Zenon DEF TelnetTypeOK, Options
<1>5. CASE Start
  BY <1>1, <1>2, <1>5, StartAsks, Zenon DEF TelnetTypeOK, Options
<1>6. CASE AnswerNaws
  BY <1>1, <1>6, NawsAnswered, Zenon DEF TelnetTypeOK, Options
<1>7. CASE SpinEnds
  BY <1>1, <1>2, <1>7, SpinOver, Zenon DEF TelnetTypeOK, Options
<1>8. ASSUME NEW new \in BOOLEAN, Request(new)
      PROVE  TelnetTypeOK' /\ Options'
  BY <1>1, <1>8, AskPeer, Zenon DEF TelnetTypeOK, Options
<1>9. ASSUME NEW new \in BOOLEAN, Offer(new)
      PROVE  TelnetTypeOK' /\ Options'
  BY <1>1, <1>9, OfferUs, Zenon DEF TelnetTypeOK, Options
<1> QED
  BY <1>3, <1>4, <1>5, <1>6, <1>7, <1>8, <1>9, Zenon DEF TelnetNext

-----------------------------------------------------------------------------
\* Steps where both ends accept the option.

LEMMA WillFlips ==
    ASSUME NEW h \in HalfState, Balanced(h), h.state = FALSE, 
           opt \in {"SGA", "other"}, willOk
    PROVE  Flips(h, TRUE, WillOption(h).half, WillOption(h).out)
<1>0. TRUE \in BOOLEAN /\ h.state # TRUE
  OBVIOUS
<1>1. PICK r : r = WillOption(h)
  OBVIOUS
<1>2. CASE h.resp # 0
  BY <1>0, <1>1, <1>2, WillUnheard, KeptFlips, Zenon
<1>3. CASE h.resp = 0
  BY <1>1, <1>3, WillUnheard, OnFlips, Zenon
<1> QED
  BY <1>2, <1>3

LEMMA DoFlips ==
    ASSUME NEW h \in HalfState, Balanced(h), h.state = FALSE, opt # "TM", doOk
    PROVE  Flips(h, TRUE, DoOption(h).half, DoOption(h).out)
<1>0. TRUE \in BOOLEAN /\ h.state # TRUE
  OBVIOUS
<1>1. PICK r : r = DoOption(h)
  OBVIOUS
<1>2. CASE h.resp # 0
  BY <1>0, <1>1, <1>2, DoUnheard, KeptFlips, Zenon
<1>3. CASE h.resp = 0
  BY <1>1, <1>3, DoUnheard, OnFlips, Zenon
<1> QED
  BY <1>2, <1>3

LEMMA WontFlips ==
    ASSUME NEW h \in HalfState, Balanced(h), h.state = TRUE, opt # "TM"
    PROVE  Flips(h, FALSE, WontOption(h).half, WontOption(h).out)
<1>0. FALSE \in BOOLEAN /\ h.state # FALSE
  OBVIOUS
<1>1. PICK r : r = WontOption(h)
  OBVIOUS
<1>2. CASE h.resp # 0
  BY <1>0, <1>1, <1>2, WontHeard, KeptFlips, Zenon
<1>3. CASE h.resp = 0
  BY <1>1, <1>3, WontHeard, OffFlips, Zenon
<1> QED
  BY <1>2, <1>3

LEMMA DontFlips ==
    ASSUME NEW h \in HalfState, Balanced(h), h.state = TRUE
    PROVE  \/ Flips(h, FALSE, DontOption(h).half, DontOption(h).out)
           \/ h.resp = 0 /\ DontOption(h) = Result(Waiting, <<No>> \o <<Yes>>)
<1>0. FALSE \in BOOLEAN /\ h.state # FALSE
  OBVIOUS
<1>1. PICK r : r = DontOption(h)
  OBVIOUS
<1>2. CASE h.resp # 0
  BY <1>0, <1>1, <1>2, DontHeard, KeptFlips, Zenon
<1>3. CASE h.resp = 0
  BY <1>1, <1>3, DontHeard, OffFlips, Zenon
<1> QED
  BY <1>2, <1>3

\* The next message says the opposite of what was heard last.
LEMMA CrossHead ==
    ASSUME NEW h \in HalfState, NEW g \in HalfState, NEW p, NEW q, Crossing(h, g, p, q),
           q # <<>>
    PROVE  /\ Head(q) = Yes => h.state = FALSE
           /\ Head(q) = No => h.state = TRUE
           /\ Head(q) # Naws
<1>1. h.state \in BOOLEAN /\ g.want \in BOOLEAN
  BY DEF HalfState
<1>2. Chain(h.state, g.want, q)
  BY DEF Crossing
<1>3. Head(q) = Message(~h.state)
  BY <1>2, Zenon DEF Chain
<1> QED
  BY <1>1, <1>3 DEF Message, Yes, No, Naws

LEMMA BothStep ==
    ASSUME TelnetTypeOK, Options, TelnetNext, opt \in {"SGA", "other"}, willOk, doOk,
           phase = "run", BothAccept
    PROVE  phase' = "run" /\ BothAccept'
<1>0. /\ his \in HalfState /\ my \in HalfState
      /\ TRUE \in BOOLEAN /\ FALSE \in BOOLEAN /\ opt # "TM" /\ "run" # "start" /\ "run" # "spin"
  BY DEF TelnetTypeOK
<1>1. Crossing(his, my, toPeer, toUs) /\ Crossing(my, his, toUs, toPeer)
  BY <1>0, Crossed, Zenon DEF BothAccept
<1>2. Balanced(his) /\ Balanced(my)
  BY <1>1, Zenon DEF Crossing
<1>3. CASE RecvFromPeer
  <2>1. toUs # <<>> /\ toUs' = Tail(toUs) /\ phase' = phase /\ my' = my
    BY <1>3, HearPeer, Zenon
  <2>2. CASE Head(toUs) = Yes
    <3>1. his.state = FALSE /\ TRUE # his.state
      BY <1>0, <1>1, <2>1, <2>2, CrossHead, Zenon
    <3>2. his' = WillOption(his).half /\ toPeer' = toPeer \o WillOption(his).out
      <4>1. Yes # No
        BY DEF Yes, No
      <4> QED
        BY <1>3, <2>2, <4>1, HearPeer, Zenon
    <3>3. Flips(his, TRUE, WillOption(his).half, WillOption(his).out)
      BY <1>0, <1>2, <3>1, WillFlips, Zenon
    <3>4. Crossing(his', my, toPeer', Tail(toUs))
      BY <1>0, <1>1, <2>1, <3>1, <3>2, <3>3, CrossHear, Zenon
    <3> QED
      BY <2>1, <3>4, Zenon DEF BothAccept
  <2>3. CASE Head(toUs) = No
    <3>1. his.state = TRUE /\ FALSE # his.state
      BY <1>0, <1>1, <2>1, <2>3, CrossHead, Zenon
    <3>2. his' = WontOption(his).half /\ toPeer' = toPeer \o WontOption(his).out
      <4>1. Yes # No
        BY DEF Yes, No
      <4> QED
        BY <1>3, <2>3, <4>1, HearPeer, Zenon
    <3>3. Flips(his, FALSE, WontOption(his).half, WontOption(his).out)
      BY <1>0, <1>2, <3>1, WontFlips, Zenon
    <3>4. Crossing(his', my, toPeer', Tail(toUs))
      BY <1>0, <1>1, <2>1, <3>1, <3>2, <3>3, CrossHear, Zenon
    <3> QED
      BY <2>1, <3>4, Zenon DEF BothAccept
  <2> QED
    BY <1>3, <2>2, <2>3, HearPeer, Zenon
<1>4. CASE RecvFromUs
  <2>1. toPeer # <<>> /\ toPeer' = Tail(toPeer) /\ phase' = phase /\ his' = his
        /\ my' \in HalfState
    BY <1>4, HearUs, Zenon
  <2>9. ASSUME Crossing(my', his, toUs', Tail(toPeer))
        PROVE  phase' = "run" /\ BothAccept'
    <3>1. Crossing(his, my', Tail(toPeer), toUs')
      BY <1>0, <2>1, <2>9, Crossed, Zenon
    <3> QED
      BY <2>1, <3>1, Zenon DEF BothAccept
  <2>2. CASE Head(toPeer) = Yes
    <3>1. my.state = FALSE /\ TRUE # my.state
      BY <1>0, <1>1, <2>1, <2>2, CrossHead, Zenon
    <3>2. my' = DoOption(my).half /\ toUs' = toUs \o DoOption(my).out
      <4>1. Yes # No
        BY DEF Yes, No
      <4> QED
        BY <1>4, <2>2, <4>1, HearUs, Zenon
    <3>3. Flips(my, TRUE, DoOption(my).half, DoOption(my).out)
      BY <1>0, <1>2, <3>1, DoFlips, Zenon
    <3>4. Crossing(my', his, toUs', Tail(toPeer))
      BY <1>0, <1>1, <2>1, <3>1, <3>2, <3>3, CrossHear, Zenon
    <3> QED
      BY <2>9, <3>4
  <2>3. CASE Head(toPeer) = No
    <3>1. my.state = TRUE /\ FALSE # my.state
      BY <1>0, <1>1, <2>1, <2>3, CrossHead, Zenon
    <3>2. my' = DontOption(my).half /\ toUs' = toUs \o DontOption(my).out
      <4>1. Yes # No
        BY DEF Yes, No
      <4> QED
        BY <1>4, <2>3, <4>1, HearUs, Zenon
    <3>3. CASE Flips(my, FALSE, DontOption(my).half, DontOption(my).out)
      <4>1. Crossing(my', his, toUs', Tail(toPeer))
        BY <1>0, <1>1, <2>1, <3>1, <3>2, <3>3, CrossHear, Zenon
      <4> QED
        BY <2>9, <4>1
    <3>4. CASE my.resp = 0 /\ DontOption(my) = Result(Waiting, <<No>> \o <<Yes>>)
      <4>1. my' = Waiting /\ toUs' = toUs \o (<<No>> \o <<Yes>>)
        <5>1. PICK r : r = DontOption(my)
          OBVIOUS
        <5>2. r.half = Waiting /\ r.out = <<No>> \o <<Yes>>
          <6>1. PICK o : o = <<No>> \o <<Yes>>
            OBVIOUS
          <6>2. r = Result(Waiting, o)
            BY <5>1, <6>1, <3>4, Zenon
          <6> QED
            BY <6>1, <6>2 DEF Result
        <5> QED
          BY <5>1, <5>2, <3>2, Zenon
      <4>2. Crossing(Waiting, his, toUs \o (<<No>> \o <<Yes>>), Tail(toPeer))
        BY <1>0, <1>1, <2>1, <3>1, <3>4, CrossAgain, Zenon
      <4> QED
        BY <2>9, <4>1, <4>2, Zenon
    <3> QED
      BY <3>3, <3>4, <1>0, <1>2, <3>1, DontFlips, Zenon
  <2> QED
    BY <1>4, <2>2, <2>3, HearUs, Zenon
<1>5. CASE Start
  BY <1>0, <1>5, StartAsks, Zenon
<1>6. CASE AnswerNaws
  BY <1>0, <1>1, <1>6, CrossHead, NawsAnswered, Zenon
<1>7. CASE SpinEnds
  <2>1. toUs # <<>> /\ Head(toUs) = Naws
    BY <1>0, <1>7, SpinOver, Zenon
  <2> QED
    BY <1>0, <1>1, <2>1, CrossHead, Zenon
<1>8. ASSUME NEW new \in BOOLEAN, Request(new)
      PROVE  phase' = "run" /\ BothAccept'
  <2>1. his' = Ask(his, new, new /\ opt # "TM").half
        /\ toPeer' = toPeer \o Ask(his, new, new /\ opt # "TM").out
        /\ toUs' = toUs /\ my' = my /\ phase' = phase
    BY <1>8, AskPeer, Zenon
  <2>2. (new /\ opt # "TM") = new
    BY <1>0
  <2>3. PICK r : r = Ask(his, new, new)
    OBVIOUS
  <2>4. his' = r.half /\ toPeer' = toPeer \o r.out
    BY <2>1, <2>2, <2>3, Zenon
  <2>5. Crossing(r.half, my, toPeer \o r.out, toUs)
    BY <1>0, <1>1, <2>3, CrossAsk, Zenon
  <2> QED
    BY <2>1, <2>4, <2>5, Zenon DEF BothAccept
<1>9. ASSUME NEW new \in BOOLEAN, Offer(new)
      PROVE  phase' = "run" /\ BothAccept'
  <2>1. PICK r : r = Ask(my, new, new)
    OBVIOUS
  <2>2. my' = r.half /\ toUs' = toUs \o r.out
        /\ toPeer' = toPeer /\ his' = his /\ phase' = phase /\ my' \in HalfState
    BY <1>9, <2>1, OfferUs, Zenon
  <2>3. Crossing(r.half, his, toUs \o r.out, toPeer)
    BY <1>0, <1>1, <2>1, CrossAsk, Zenon
  <2>4. Crossing(his, r.half, toPeer, toUs \o r.out)
    BY <1>0, <2>2, <2>3, Crossed, Zenon
  <2> QED
    BY <2>2, <2>4, Zenon DEF BothAccept
<1> QED
  BY <1>3, <1>4, <1>5, <1>6, <1>7, <1>8, <1>9, Zenon DEF TelnetNext

-----------------------------------------------------------------------------
\* One end refuses what the other asks for.

LEMMA Words ==
    Yes # No /\ Yes # Naws /\ No # Naws
  BY DEF Yes, No, Naws

LEMMA CountOut ==
    ASSUME NEW q \in Seq({Yes, No, Naws})
    PROVE  /\ Count(q \o <<>>, Yes) = Count(q, Yes)
           /\ Count(q \o <<No>>, Yes) = Count(q, Yes)
           /\ Count(q \o <<Yes>>, Yes) = Count(q, Yes) + 1
           /\ Count(q \o (<<>> \o <<Yes>>), Yes) = Count(q, Yes) + 1
           /\ Count(q \o (<<No>> \o <<Yes>>), Yes) = Count(q, Yes) + 1
           /\ Count(q \o <<No>>, No) = Count(q, No) + 1
           /\ Count(Append(q, Naws), Yes) = Count(q, Yes)
           /\ Count(Append(q, Naws), No) = Count(q, No)
<1>1. /\ Yes \in {Yes, No, Naws} /\ No \in {Yes, No, Naws} /\ Naws \in {Yes, No, Naws}
  OBVIOUS
<1>2. /\ Count(Append(q, No), Yes) = Count(q, Yes)
      /\ Count(Append(q, Yes), Yes) = Count(q, Yes) + 1
      /\ Count(Append(q, No), No) = Count(q, No) + 1
      /\ Count(Append(q, Naws), Yes) = Count(q, Yes)
      /\ Count(Append(q, Naws), No) = Count(q, No)
  BY <1>1, Words, CountAppend
<1>3. Append(q, No) \in Seq({Yes, No, Naws})
  BY <1>1, AppendProperties
<1>4. Count(Append(Append(q, No), Yes), Yes) = Count(Append(q, No), Yes) + 1
  BY <1>1, <1>3, Words, CountAppend
<1> QED
  BY <1>2, <1>4, Sent

LEMMA DueIs ==
    ASSUME NEW h \in HalfState
    PROVE  /\ Due(h) \in Nat
           /\ h.state = FALSE => Due(h) = h.resp
           /\ h.state = TRUE => Due(h) = h.resp + 1
<1>1. h.state \in BOOLEAN /\ h.resp \in Nat
  BY DEF HalfState
<1>2. CASE h.state = TRUE
  BY <1>1, <1>2 DEF Due
<1>3. CASE h.state = FALSE
  BY <1>1, <1>3 DEF Due
<1> QED
  BY <1>1, <1>2, <1>3

LEMMA KindsDue ==
    /\ Due(Off) = 0 /\ Due(Waiting) = 1 /\ Due(On) = 1
<1>1. Due(Off) = Off.resp /\ Due(Waiting) = Waiting.resp /\ Due(On) = On.resp + 1
  BY HalfKinds, DueIs, Zenon
<1>2. Off.resp = 0 /\ Waiting.resp = 1 /\ On.resp = 0
  BY HalfKinds
<1> QED
  BY <1>1, <1>2

\* What an end gets that was not agreed to, and what it sends then.
Eases(h, r) ==
    /\ r.half \in HalfState /\ Balanced(r.half) /\ r.half.state = FALSE
    /\ \/ (Due(r.half) = 0 \/ Due(r.half) + 2 <= Due(h)) /\ r.out \in {<<>>, <<No>>}
       \/ r.half = Waiting /\ r.out \in {<<>> \o <<Yes>>, <<No>> \o <<Yes>>}

LEMMA OffEases ==
    ASSUME NEW h \in HalfState, NEW out \in {<<>>, <<No>>}, NEW r, r = Result(Off, out)
    PROVE  Eases(h, r)
<1>1. r.half = Off /\ r.out = out
  BY DEF Result
<1> QED
  BY <1>1, HalfKinds, KindsBalanced, KindsDue, Zenon DEF Eases

LEMMA WaitingEases ==
    ASSUME NEW h \in HalfState, NEW out \in {<<>> \o <<Yes>>, <<No>> \o <<Yes>>},
           NEW r, r = Result(Waiting, out)
    PROVE  Eases(h, r)
<1>1. r.half = Waiting /\ r.out = out
  BY DEF Result
<1> QED
  BY <1>1, HalfKinds, KindsBalanced, Zenon DEF Eases

LEMMA KeptEases ==
    ASSUME NEW h \in HalfState, Balanced(h), NEW r, r = Kept(h, FALSE),
           \/ h.state = FALSE /\ h.resp # 1
           \/ h.state = TRUE /\ h.resp # 0
    PROVE  Eases(h, r)
<1>0. h.resp \in Nat /\ h.want \in BOOLEAN /\ FALSE \in BOOLEAN
  BY DEF HalfState
<1>1. CASE h.state = FALSE /\ h.resp # 1
  <2>1. PICK m : m = RespLeft(h, FALSE)
    OBVIOUS
  <2>2. \/ h.resp = 0 /\ m = 0
        \/ m + 2 = h.resp /\ m \in Nat
    <3>1. (h.resp <= 1 => m = 0) /\ (h.resp > 1 => m = h.resp - 2)
      BY <1>0, <1>1, <2>1, LeftSame, Zenon
    <3>2. h.resp \in Nat /\ h.resp # 1
      BY <1>0, <1>1
    <3> QED
      BY <3>1, <3>2
  <2>3. r.half = [state |-> FALSE, want |-> h.want, resp |-> m] /\ r.out = <<>>
    BY <2>1 DEF Kept, Result
  <2>4. PICK k : k = [state |-> FALSE, want |-> h.want, resp |-> m]
    OBVIOUS
  <2>5. k \in HalfState /\ k.state = FALSE /\ k.want = h.want /\ k.resp = m
    BY <1>0, <2>2, <2>4 DEF HalfState
  <2>6. m % 2 = 0 <=> h.resp % 2 = 0
    BY <1>0, <2>2
  <2>7. Balanced(k)
    BY <1>1, <2>5, <2>6, Zenon DEF Balanced
  <2>8. Due(k) = m /\ Due(h) = h.resp
    BY <1>1, <2>5, DueIs, Zenon
  <2>9. Due(k) = 0 \/ Due(k) + 2 <= Due(h)
    BY <1>0, <2>2, <2>8
  <2> QED
    BY <2>3, <2>4, <2>5, <2>7, <2>9, Zenon DEF Eases
<1>2. CASE h.state = TRUE /\ h.resp # 0
  <2>1. Flips(h, FALSE, r.half, r.out)
    <3>1. h.state # FALSE
      BY <1>2
    <3> QED
      BY <1>0, <1>2, <3>1, KeptFlips, Zenon
  <2>2. r.half \in HalfState /\ r.half.state = FALSE /\ Balanced(r.half)
        /\ r.half.resp = h.resp - 1 /\ r.out = <<>>
    BY <1>2, <2>1, Zenon DEF Flips
  <2>3. Due(r.half) = h.resp - 1 /\ Due(h) = h.resp + 1
    BY <1>2, <2>2, DueIs, Zenon
  <2>4. Due(r.half) + 2 <= Due(h)
    <3>1. PICK i : i = h.resp
      OBVIOUS
    <3>2. i \in Nat
      BY <1>0, <3>1
    <3>3. (i - 1) + 2 <= i + 1
      BY <3>2
    <3> QED
      BY <2>3, <3>1, <3>3, Zenon
  <2> QED
    BY <2>2, <2>4, Zenon DEF Eases
<1> QED
  BY <1>1, <1>2

LEMMA DontEases ==
    ASSUME NEW h \in HalfState, Balanced(h)
    PROVE  Eases(h, DontOption(h))
<1>0. h.state \in BOOLEAN /\ <<>> \in {<<>>, <<No>>} /\ <<No>> \in {<<>>, <<No>>}
  BY DEF HalfState
<1>5. PICK a, b : a = <<>> \o <<Yes>> /\ b = <<No>> \o <<Yes>>
  OBVIOUS
<1>6. a \in {<<>> \o <<Yes>>, <<No>> \o <<Yes>>} /\ b \in {<<>> \o <<Yes>>, <<No>> \o <<Yes>>}
  BY <1>5, Zenon
<1>1. CASE h.state = FALSE /\ h.resp # 1
  BY <1>1, DontUnheard, KeptEases, Zenon
<1>2. CASE h.state = FALSE /\ h.resp = 1
  BY <1>0, <1>2, <1>5, <1>6, DontUnheard, OffEases, WaitingEases, Zenon
<1>3. CASE h.state = TRUE /\ h.resp # 0
  BY <1>3, DontHeard, KeptEases, Zenon
<1>4. CASE h.state = TRUE /\ h.resp = 0
  BY <1>0, <1>4, <1>5, <1>6, DontHeard, OffEases, WaitingEases, Zenon
<1> QED
  BY <1>0, <1>1, <1>2, <1>3, <1>4, Zenon

LEMMA WontEases ==
    ASSUME NEW h \in HalfState, Balanced(h), h.state = FALSE, opt # "TM"
    PROVE  Eases(h, WontOption(h))
<1>0. <<>> \in {<<>>, <<No>>}
  OBVIOUS
<1>1. CASE h.resp # 1
  BY <1>1, WontUnheard, KeptEases, Zenon
<1>2. CASE h.resp = 1
  BY <1>0, <1>2, WontUnheard, OffEases, Zenon
<1> QED
  BY <1>1, <1>2

\* The end that refuses hears a request, or its withdrawal.
LEMMA RefuserHears ==
    ASSUME NEW h \in HalfState, NEW g, NEW p \in Seq({Yes, No, Naws}),
           NEW q \in Seq({Yes, No, Naws}), Refusing(h, g, p, q), p # <<>>
    PROVE  /\ Head(p) = Yes => Refusing(h, Refusal, Tail(p), q \o <<No>>)
           /\ Head(p) = No => Refusing(h, Off, Tail(p), q \o <<>>)
<1>1. Due(h) <= 2 * (Count(p, Yes) + Count(q, No)) /\ Balanced(h)
  BY DEF Refusing
<1>2. /\ Head(p) = Yes => Count(p, Yes) = Count(Tail(p), Yes) + 1
      /\ Head(p) = No => Count(p, Yes) = Count(Tail(p), Yes)
  BY Words, CountTail
<1>3. Count(q \o <<No>>, No) = Count(q, No) + 1 /\ q \o <<>> = q
  BY CountOut, Sent
<1>4. Due(h) \in Nat /\ Count(q, No) \in Nat /\ Count(p, Yes) \in Nat
  BY DueIs, CountNat, Zenon
<1>5. Tail(p) \in Seq({Yes, No, Naws})
  BY HeadTailProperties
<1>6. Count(Tail(p), Yes) \in Nat
  BY <1>5, CountNat, Zenon
<1>7. Head(p) = Yes => Due(h) <= 2 * (Count(Tail(p), Yes) + Count(q \o <<No>>, No))
  BY <1>1, <1>2, <1>3, <1>4, <1>6
<1>8. Head(p) = No => Due(h) <= 2 * (Count(Tail(p), Yes) + Count(q \o <<>>, No))
  BY <1>1, <1>2, <1>3, <1>4, <1>6
<1>9. Off \in {Off, Refusal} /\ Refusal \in {Off, Refusal}
  OBVIOUS
<1> QED
  BY <1>1, <1>7, <1>8, <1>9, Zenon DEF Refusing

\* The end that asks hears a refusal.
LEMMA AskerRefused ==
    ASSUME NEW h \in HalfState, NEW g, NEW p \in Seq({Yes, No, Naws}),
           NEW q \in Seq({Yes, No, Naws}), Refusing(h, g, p, q), q # <<>>, Head(q) = No,
           NEW r, Eases(h, r)
    PROVE  Refusing(r.half, g, p \o r.out, Tail(q))
<1>1. Due(h) <= 2 * (Count(p, Yes) + Count(q, No)) /\ g \in {Off, Refusal}
  BY DEF Refusing
<1>2. Count(q, No) = Count(Tail(q), No) + 1
  BY Words, CountTail
<1>3. Tail(q) \in Seq({Yes, No, Naws})
  BY HeadTailProperties
<1>4. /\ Due(h) \in Nat /\ Count(q, No) \in Nat /\ Count(p, Yes) \in Nat
      /\ Count(Tail(q), No) \in Nat
  BY <1>3, DueIs, CountNat, Zenon
<1>5. r.half \in HalfState /\ Balanced(r.half)
  BY Zenon DEF Eases
<1>6. Due(r.half) \in Nat
  BY <1>5, DueIs
<1>7. Due(r.half) <= 2 * (Count(p \o r.out, Yes) + Count(Tail(q), No))
  <2>1. CASE (Due(r.half) = 0 \/ Due(r.half) + 2 <= Due(h)) /\ r.out \in {<<>>, <<No>>}
    <3>1. Count(p \o r.out, Yes) = Count(p, Yes)
      BY <2>1, CountOut
    <3> QED
      BY <1>1, <1>2, <1>4, <1>6, <2>1, <3>1
  <2>2. CASE r.half = Waiting /\ r.out \in {<<>> \o <<Yes>>, <<No>> \o <<Yes>>}
    <3>1. Count(p \o r.out, Yes) = Count(p, Yes) + 1
      BY <2>2, CountOut, Zenon
    <3>2. Due(r.half) = 1
      BY <2>2, KindsDue
    <3> QED
      BY <1>4, <3>1, <3>2
  <2> QED
    BY <2>1, <2>2, Zenon DEF Eases
<1> QED
  BY <1>1, <1>5, <1>7, Zenon DEF Refusing

\* The end that asks starts a request, or withdraws it: then an odd number of
\* answers is due.
LEMMA AskerAsks ==
    ASSUME NEW h \in HalfState, NEW g, NEW p \in Seq({Yes, No, Naws}),
           NEW q \in Seq({Yes, No, Naws}), Refusing(h, g, p, q),
           NEW new \in BOOLEAN, NEW r, r = Ask(h, new, new)
    PROVE  Refusing(r.half, g, p \o r.out, q) /\ r.half.state = h.state
<1>1. Due(h) <= 2 * (Count(p, Yes) + Count(q, No)) /\ g \in {Off, Refusal} /\ Balanced(h)
  BY DEF Refusing
<1>2. h.state \in BOOLEAN /\ h.want \in BOOLEAN /\ h.resp \in Nat
  BY DEF HalfState
<1>3. Due(h) \in Nat /\ Count(q, No) \in Nat /\ Count(p, Yes) \in Nat
  BY DueIs, CountNat, Zenon
<1>4. CASE h.want = new
  <2>1. r = Result(h, <<>>)
    BY <1>4, AskNothing, Zenon
  <2>2. r.half = h /\ r.out = <<>>
    BY <2>1 DEF Result
  <2>3. p \o r.out = p
    BY <2>2, Sent
  <2> QED
    BY <2>2, <2>3, Zenon
<1>5. CASE h.want # new
  <2>1. r = Result([state |-> h.state, want |-> new, resp |-> h.resp + 1], <<Message(new)>>)
    BY <1>1, <1>5, AskIs, Zenon
  <2>2. PICK k : k = [state |-> h.state, want |-> new, resp |-> h.resp + 1]
    OBVIOUS
  <2>3. r.half = k /\ r.out = <<Message(new)>>
    BY <2>1, <2>2 DEF Result
  <2>4. k.state = h.state /\ k.want = new /\ k.resp = h.resp + 1 /\ k \in HalfState
    BY <1>2, <2>2 DEF HalfState
  <2>5. Balanced(k)
    <3>1. (h.state = h.want) <=> (h.resp % 2 = 0)
      BY <1>1 DEF Balanced
    <3>2. (h.state = new) <=> ~(h.state = h.want)
      BY <1>2, <1>5
    <3>3. h.resp % 2 = 0 <=> ~((h.resp + 1) % 2 = 0)
      BY <1>2
    <3> QED
      BY <2>4, <3>1, <3>2, <3>3, Zenon DEF Balanced
  <2>6. Due(k) = Due(h) + 1
    BY <1>2, <2>4, DueIs
  <2>7. CASE new = TRUE
    <3>1. r.out = <<Yes>>
      BY <2>3, <2>7 DEF Message
    <3>2. Count(p \o r.out, Yes) = Count(p, Yes) + 1
      BY <3>1, CountOut
    <3>3. Due(k) <= 2 * (Count(p \o r.out, Yes) + Count(q, No))
      BY <1>1, <1>3, <2>6, <3>2
    <3> QED
      BY <1>1, <2>3, <2>4, <2>5, <3>3, Zenon DEF Refusing
  <2>8. CASE new = FALSE
    <3>1. r.out = <<No>>
      BY <2>3, <2>8 DEF Message
    <3>2. Count(p \o r.out, Yes) = Count(p, Yes)
      BY <3>1, CountOut
    <3>3. Due(h) % 2 # 0
      <4>1. h.want = TRUE
        BY <1>2, <1>5, <2>8
      <4>2. (h.state = h.want) <=> (h.resp % 2 = 0)
        BY <1>1 DEF Balanced
      <4>3. CASE h.state = TRUE
        <5>1. h.resp % 2 = 0 /\ Due(h) = h.resp + 1
          BY <4>1, <4>2, <4>3, DueIs, Zenon
        <5> QED
          BY <5>1, <1>2
      <4>4. CASE h.state = FALSE
        <5>0. FALSE # TRUE
          OBVIOUS
        <5>1. ~(h.resp % 2 = 0) /\ Due(h) = h.resp
          BY <4>1, <4>2, <4>4, <5>0, DueIs, Zenon
        <5> QED
          BY <5>1, <1>2
      <4> QED
        BY <1>2, <4>3, <4>4
    <3>4. Due(k) <= 2 * (Count(p \o r.out, Yes) + Count(q, No))
      BY <1>1, <1>3, <2>6, <3>2, <3>3, SMTT(60)
    <3> QED
      BY <1>1, <2>3, <2>4, <2>5, <3>4, Zenon DEF Refusing
  <2> QED
    BY <2>7, <2>8
<1> QED
  BY <1>4, <1>5

\* The request that crossed the refusal is granted.
LEMMA AskerGranted ==
    ASSUME NEW h \in HalfState, NEW g, NEW p \in Seq({Yes, No, Naws}),
           NEW q \in Seq({Yes, No, Naws}), Refusing(h, g, p, q), q # <<>>, Head(q) = Yes,
           NEW k, NEW out, Flips(h, TRUE, k, out), h.state = FALSE
    PROVE  Refusing(k, g, p \o out, Tail(q))
<1>1. Due(h) <= 2 * (Count(p, Yes) + Count(q, No)) /\ g \in {Off, Refusal}
  BY DEF Refusing
<1>2. Count(q, No) = Count(Tail(q), No)
  BY Words, CountTail
<1>3. h.resp \in Nat
  BY DEF HalfState
<1>4. Due(h) \in Nat /\ Count(q, No) \in Nat /\ Count(p, Yes) \in Nat
  BY DueIs, CountNat, Zenon
<1>5. k \in HalfState /\ Balanced(k) /\ k.state = TRUE
  BY Zenon DEF Flips
<1>6. Due(k) = k.resp + 1 /\ k.resp \in Nat /\ Due(h) = h.resp
  BY <1>5, DueIs DEF HalfState
<1>7. Due(k) <= 2 * (Count(p \o out, Yes) + Count(Tail(q), No))
  <2>1. CASE h.resp # 0 /\ k.resp = h.resp - 1 /\ out = <<>>
    <3>1. Count(p \o out, Yes) = Count(p, Yes)
      BY <2>1, CountOut
    <3> QED
      BY <1>1, <1>2, <1>3, <1>4, <1>6, <2>1, <3>1
  <2>2. CASE k.resp = 0 /\ out = <<Message(TRUE)>>
    <3>1. out = <<Yes>>
      BY <2>2 DEF Message
    <3>2. Count(p \o out, Yes) = Count(p, Yes) + 1
      BY <3>1, CountOut
    <3> QED
      BY <1>2, <1>4, <1>6, <2>2, <3>2
  <2> QED
    BY <2>1, <2>2, Zenon DEF Flips
<1> QED
  BY <1>1, <1>5, <1>7, Zenon DEF Refusing

\* Messages about NAWS do not count.
LEMMA NawsApart ==
    ASSUME NEW h, NEW g, NEW p \in Seq({Yes, No, Naws}), NEW q \in Seq({Yes, No, Naws}),
           Refusing(h, g, p, q)
    PROVE  /\ q # <<>> /\ Head(q) = Naws => Refusing(h, g, Append(p, Naws), Tail(q))
           /\ p # <<>> /\ Head(p) = Naws => Refusing(h, g, Tail(p), q)
<1>1. /\ q # <<>> /\ Head(q) = Naws => Count(q, No) = Count(Tail(q), No)
      /\ p # <<>> /\ Head(p) = Naws => Count(p, Yes) = Count(Tail(p), Yes)
  BY Words, CountTail
<1>2. Count(Append(p, Naws), Yes) = Count(p, Yes)
  BY CountOut
<1> QED
  BY <1>1, <1>2, Zenon DEF Refusing

\* What an end that refuses makes of its next message, and of a request of its own.
LEMMA RefuserKinds ==
    ASSUME NEW g \in {Off, Refusal}
    PROVE  g \in HalfState /\ g.want = FALSE
  BY HalfKinds

LEMMA RefuserAsks ==
    ASSUME NEW g \in {Off, Refusal}, NEW q \in Seq({Yes, No, Naws})
    PROVE  Ask(g, FALSE, FALSE).half = g /\ q \o Ask(g, FALSE, FALSE).out = q
<1>1. PICK r : r = Ask(g, FALSE, FALSE)
  OBVIOUS
<1>2. FALSE \in BOOLEAN
  OBVIOUS
<1>3. r = Result(g, <<>>)
  BY <1>1, <1>2, RefuserKinds, AskNothing, Zenon
<1>4. r.half = g /\ r.out = <<>>
  BY <1>3 DEF Result
<1>5. q \o <<>> = q
  BY Sent
<1> QED
  BY <1>1, <1>4, <1>5, Zenon

LEMMA PeerStep ==
    ASSUME TelnetTypeOK, Options, TelnetNext, opt = "other", ~doOk,
           phase = "run", PeerRefuses
    PROVE  phase' = "run" /\ PeerRefuses'
<1>0. /\ his \in HalfState /\ my \in HalfState
      /\ toPeer \in Seq({Yes, No, Naws}) /\ toUs \in Seq({Yes, No, Naws})
      /\ TRUE \in BOOLEAN /\ FALSE \in BOOLEAN /\ opt # "TM" /\ "run" # "start" /\ "run" # "spin"
  BY DEF TelnetTypeOK
<1>1. Refusing(his, my, toPeer, toUs) /\ his.state = FALSE /\ Count(toUs, Yes) = 0
  <2>1. Refusing(his, my, toPeer, toUs) /\ ~his.state /\ Count(toUs, Yes) = 0
    BY DEF PeerRefuses
  <2>2. his.state \in BOOLEAN
    BY <1>0 DEF HalfState
  <2> QED
    BY <2>1, <2>2
<1>2. Balanced(his) /\ my \in {Off, Refusal}
  BY <1>1, Zenon DEF Refusing
<1>3. CASE RecvFromPeer
  <2>1. toUs # <<>> /\ toUs' = Tail(toUs) /\ phase' = phase /\ my' = my
    BY <1>3, HearPeer, Zenon
  <2>2. Head(toUs) # Yes /\ Count(Tail(toUs), Yes) = 0
    <3>1. /\ Head(toUs) = Yes => Count(toUs, Yes) = Count(Tail(toUs), Yes) + 1
          /\ Head(toUs) # Yes => Count(toUs, Yes) = Count(Tail(toUs), Yes)
      BY <1>0, <2>1, CountTail
    <3>2. Tail(toUs) \in Seq({Yes, No, Naws})
      BY <1>0, <2>1, HeadTailProperties
    <3>3. Count(Tail(toUs), Yes) \in Nat
      BY <3>2, CountNat, Zenon
    <3> QED
      BY <1>1, <3>1, <3>3
  <2>3. Head(toUs) = No /\ his' = WontOption(his).half /\ toPeer' = toPeer \o WontOption(his).out
    BY <1>3, <2>2, HearPeer, Zenon
  <2>4. PICK r : r = WontOption(his)
    OBVIOUS
  <2>5. Eases(his, r)
    BY <1>0, <1>1, <1>2, <2>4, WontEases, Zenon
  <2>6. Refusing(r.half, my, toPeer \o r.out, Tail(toUs))
    BY <1>0, <1>1, <2>1, <2>3, <2>5, AskerRefused, Zenon
  <2>7. ~r.half.state
    BY <2>5, Zenon DEF Eases
  <2> QED
    BY <2>1, <2>2, <2>3, <2>4, <2>6, <2>7, Zenon DEF PeerRefuses
<1>4. CASE RecvFromUs
  <2>1. toPeer # <<>> /\ toPeer' = Tail(toPeer) /\ phase' = phase /\ his' = his
    BY <1>4, HearUs, Zenon
  <2>2. CASE Head(toPeer) = Yes
    <3>1. PICK r : r = DoOption(my)
      OBVIOUS
    <3>2. my' = r.half /\ toUs' = toUs \o r.out
      BY <1>4, <2>2, <3>1, Words, HearUs, Zenon
    <3>3. r = Result(Refusal, <<No>>)
      BY <1>0, <1>2, <3>1, DoRefused, Zenon
    <3>4. r.half = Refusal /\ r.out = <<No>>
      BY <3>3 DEF Result
    <3>5. Refusing(his, Refusal, Tail(toPeer), toUs \o <<No>>)
      BY <1>0, <1>1, <2>1, <2>2, RefuserHears, Zenon
    <3>6. Count(toUs \o <<No>>, Yes) = 0
      BY <1>0, <1>1, CountOut
    <3> QED
      BY <1>1, <2>1, <3>2, <3>4, <3>5, <3>6, Zenon DEF PeerRefuses
  <2>3. CASE Head(toPeer) = No
    <3>1. PICK r : r = DontOption(my)
      OBVIOUS
    <3>2. my' = r.half /\ toUs' = toUs \o r.out
      BY <1>4, <2>3, <3>1, Words, HearUs, Zenon
    <3>3. r = Result(Off, <<>>)
      BY <1>2, <3>1, WontRefused, Zenon
    <3>4. r.half = Off /\ r.out = <<>>
      BY <3>3 DEF Result
    <3>5. Refusing(his, Off, Tail(toPeer), toUs \o <<>>)
      BY <1>0, <1>1, <2>1, <2>3, RefuserHears, Zenon
    <3>6. Count(toUs \o <<>>, Yes) = 0
      BY <1>0, <1>1, CountOut
    <3> QED
      BY <1>1, <2>1, <3>2, <3>4, <3>5, <3>6, Zenon DEF PeerRefuses
  <2> QED
    BY <1>4, <2>2, <2>3, HearUs, Zenon
<1>5. CASE Start
  BY <1>0, <1>5, StartAsks, Zenon
<1>6. CASE AnswerNaws
  <2>1. /\ toPeer # <<>> /\ Head(toPeer) = Naws
        /\ toPeer' = Tail(toPeer) /\ toUs' = Append(toUs, Naws)
        /\ his' = his /\ my' = my /\ phase' = phase
    BY <1>6, NawsAnswered, Zenon
  <2>2. Count(Append(toUs, Naws), Yes) = 0 /\ Count(Append(toUs, Naws), No) = Count(toUs, No)
    BY <1>0, <1>1, CountOut
  <2>3. Refusing(his, my, Tail(toPeer), toUs)
    BY <1>0, <1>1, <2>1, NawsApart, Zenon
  <2>4. Refusing(his, my, Tail(toPeer), Append(toUs, Naws))
    BY <2>2, <2>3, Zenon DEF Refusing
  <2> QED
    BY <1>1, <2>1, <2>2, <2>4, Zenon DEF PeerRefuses
<1>7. CASE SpinEnds
  <2>1. /\ toUs # <<>> /\ Head(toUs) = Naws /\ toUs' = Tail(toUs)
        /\ his' = his /\ toPeer' = toPeer /\ my' = my /\ phase' = "run"
    BY <1>0, <1>7, SpinOver, Zenon
  <2>2. Count(Tail(toUs), Yes) = Count(toUs, Yes) /\ Count(Tail(toUs), No) = Count(toUs, No)
    BY <1>0, <2>1, Words, CountTail
  <2> QED
    BY <1>1, <2>1, <2>2, Zenon DEF PeerRefuses, Refusing
<1>8. ASSUME NEW new \in BOOLEAN, Request(new)
      PROVE  phase' = "run" /\ PeerRefuses'
  <2>1. his' = Ask(his, new, new /\ opt # "TM").half
        /\ toPeer' = toPeer \o Ask(his, new, new /\ opt # "TM").out
        /\ toUs' = toUs /\ my' = my /\ phase' = phase
    BY <1>8, AskPeer, Zenon
  <2>2. (new /\ opt # "TM") = new
    BY <1>0
  <2>3. PICK r : r = Ask(his, new, new)
    OBVIOUS
  <2>4. his' = r.half /\ toPeer' = toPeer \o r.out
    BY <2>1, <2>2, <2>3, Zenon
  <2>5. Refusing(r.half, my, toPeer \o r.out, toUs) /\ r.half.state = his.state
    BY <1>0, <1>1, <2>3, AskerAsks, ZenonT(40)
  <2> QED
    BY <1>1, <2>1, <2>4, <2>5, Zenon DEF PeerRefuses
<1>9. ASSUME NEW new \in BOOLEAN, Offer(new)
      PROVE  phase' = "run" /\ PeerRefuses'
  <2>1. my' = Ask(my, new, new).half /\ toUs' = toUs \o Ask(my, new, new).out
        /\ toPeer' = toPeer /\ his' = his /\ phase' = phase /\ (new => doOk)
    BY <1>9, OfferUs, Zenon
  <2>2. new = FALSE
    BY <2>1
  <2>3. my' = my /\ toUs' = toUs
    BY <1>0, <1>2, <2>1, <2>2, RefuserAsks, Zenon
  <2> QED
    BY <1>1, <2>1, <2>3, Zenon DEF PeerRefuses
<1> QED
  BY <1>3, <1>4, <1>5, <1>6, <1>7, <1>8, <1>9, Zenon DEF TelnetNext


LEMMA WeStep ==
    ASSUME TelnetTypeOK, Options, TelnetNext, opt \in {"SGA", "other", "ECHO"}, ~willOk, doOk,
           phase # "start", WeRefuse
    PROVE  /\ phase' # "start" /\ WeRefuse' /\ (phase = "run" => phase' = "run")
<1>0. /\ his \in HalfState /\ my \in HalfState
      /\ toPeer \in Seq({Yes, No, Naws}) /\ toUs \in Seq({Yes, No, Naws})
      /\ TRUE \in BOOLEAN /\ FALSE \in BOOLEAN /\ opt # "TM" /\ "run" # "start" /\ "run" # "spin"
  BY DEF TelnetTypeOK
<1>10. my.state \in BOOLEAN
  BY <1>0 DEF HalfState
<1>1. /\ Refusing(my, his, toUs, toPeer) /\ (opt # "ECHO" => ~my.state)
      /\ Count(toPeer, Yes) <= (IF my.state \/ opt # "ECHO" THEN 0 ELSE 1)
  BY Zenon DEF WeRefuse
<1>2. Balanced(my) /\ his \in {Off, Refusal} /\ his.want = FALSE
  BY <1>1, RefuserKinds, Zenon DEF Refusing
<1>3. CASE RecvFromPeer
  <2>1. toUs # <<>> /\ toUs' = Tail(toUs) /\ phase' = phase /\ my' = my /\ opt' = opt
    BY <1>3, HearPeer, Zenon
  <2>2. CASE Head(toUs) = Yes
    <3>1. PICK r : r = WillOption(his)
      OBVIOUS
    <3>2. his' = r.half /\ toPeer' = toPeer \o r.out
      BY <1>3, <2>2, <3>1, Words, HearPeer, Zenon
    <3>3. r = Result(Refusal, <<No>>)
      BY <1>0, <1>2, <3>1, WillRefused, Zenon
    <3>4. r.half = Refusal /\ r.out = <<No>>
      BY <3>3 DEF Result
    <3>5. Refusing(my, Refusal, Tail(toUs), toPeer \o <<No>>)
      BY <1>0, <1>1, <2>1, <2>2, RefuserHears, Zenon
    <3>6. Count(toPeer \o <<No>>, Yes) = Count(toPeer, Yes)
      BY <1>0, CountOut
    <3> QED
      BY <1>1, <2>1, <3>2, <3>4, <3>5, <3>6, Zenon DEF WeRefuse
  <2>3. CASE Head(toUs) = No
    <3>1. PICK r : r = WontOption(his)
      OBVIOUS
    <3>2. his' = r.half /\ toPeer' = toPeer \o r.out
      BY <1>3, <2>3, <3>1, Words, HearPeer, Zenon
    <3>3. r = Result(Off, <<>>)
      BY <1>2, <3>1, WontRefused, Zenon
    <3>4. r.half = Off /\ r.out = <<>>
      BY <3>3 DEF Result
    <3>5. Refusing(my, Off, Tail(toUs), toPeer \o <<>>)
      BY <1>0, <1>1, <2>1, <2>3, RefuserHears, Zenon
    <3>6. Count(toPeer \o <<>>, Yes) = Count(toPeer, Yes)
      BY <1>0, CountOut
    <3> QED
      BY <1>1, <2>1, <3>2, <3>4, <3>5, <3>6, Zenon DEF WeRefuse
  <2> QED
    BY <1>3, <2>2, <2>3, HearPeer, Zenon
<1>4. CASE RecvFromUs
  <2>1. toPeer # <<>> /\ toPeer' = Tail(toPeer) /\ phase' = phase /\ his' = his /\ opt' = opt
    BY <1>4, HearUs, Zenon
  <2>2. /\ Head(toPeer) = Yes => Count(toPeer, Yes) = Count(Tail(toPeer), Yes) + 1
        /\ Head(toPeer) # Yes => Count(toPeer, Yes) = Count(Tail(toPeer), Yes)
    BY <1>0, <2>1, CountTail
  <2>3. Count(Tail(toPeer), Yes) \in Nat
    <3>1. Tail(toPeer) \in Seq({Yes, No, Naws})
      BY <1>0, <2>1, HeadTailProperties
    <3> QED
      BY <3>1, CountNat, Zenon
  <2>4. CASE Head(toPeer) = Yes
    <3>0. my.state = FALSE /\ opt = "ECHO" /\ Count(Tail(toPeer), Yes) <= 0
      <4>1. CASE my.state \/ opt # "ECHO"
        <5>1. Count(toPeer, Yes) <= 0
          BY <1>1, <4>1, Zenon
        <5> QED
          BY <5>1, <2>2, <2>3, <2>4
      <4>2. CASE ~(my.state \/ opt # "ECHO")
        <5>1. Count(toPeer, Yes) <= 1
          BY <1>1, <4>2, Zenon
        <5>2. Count(Tail(toPeer), Yes) <= 0
          BY <5>1, <2>2, <2>3, <2>4
        <5> QED
          BY <1>10, <4>2, <5>2
      <4> QED
        BY <4>1, <4>2
    <3>1. PICK r : r = DoOption(my)
      OBVIOUS
    <3>2. my' = r.half /\ toUs' = toUs \o r.out
      BY <1>4, <2>4, <3>1, Words, HearUs, Zenon
    <3>3. Flips(my, TRUE, r.half, r.out)
      BY <1>0, <1>2, <3>0, <3>1, DoFlips, Zenon
    <3>4. Refusing(r.half, his, toUs \o r.out, Tail(toPeer))
      BY <1>0, <1>1, <2>1, <2>4, <3>0, <3>3, AskerGranted, Zenon
    <3>5. r.half.state
      BY <3>3, Zenon DEF Flips
    <3> QED
      BY <2>1, <3>0, <3>2, <3>4, <3>5, Zenon DEF WeRefuse
  <2>5. CASE Head(toPeer) = No
    <3>1. PICK r : r = DontOption(my)
      OBVIOUS
    <3>2. my' = r.half /\ toUs' = toUs \o r.out
      BY <1>4, <2>5, <3>1, Words, HearUs, Zenon
    <3>3. Eases(my, r)
      BY <1>0, <1>2, <3>1, DontEases, Zenon
    <3>4. Refusing(r.half, his, toUs \o r.out, Tail(toPeer))
      BY <1>0, <1>1, <2>1, <2>5, <3>3, AskerRefused, Zenon
    <3>5. r.half.state = FALSE
      BY <3>3, Zenon DEF Eases
    <3>6. /\ Count(Tail(toPeer), Yes) <= 1
          /\ opt # "ECHO" => Count(Tail(toPeer), Yes) <= 0
      <4>1. Count(toPeer, Yes) = Count(Tail(toPeer), Yes)
        BY <2>2, <2>5, Words, Zenon
      <4>2. CASE my.state \/ opt # "ECHO"
        <5>1. Count(toPeer, Yes) <= 0
          BY <1>1, <4>2, Zenon
        <5> QED
          BY <5>1, <4>1, <2>3
      <4>3. CASE ~(my.state \/ opt # "ECHO")
        BY <1>1, <4>1, <4>3, Zenon
      <4> QED
        BY <4>2, <4>3
    <3> QED
      BY <2>1, <3>2, <3>4, <3>5, <3>6, Zenon DEF WeRefuse
  <2> QED
    BY <1>4, <2>4, <2>5, HearUs, Zenon
<1>5. CASE Start
  BY <1>0, <1>5, StartAsks, Zenon
<1>6. CASE AnswerNaws
  <2>1. /\ toPeer # <<>> /\ Head(toPeer) = Naws
        /\ toPeer' = Tail(toPeer) /\ toUs' = Append(toUs, Naws)
        /\ his' = his /\ my' = my /\ phase' = phase /\ opt' = opt
    BY <1>6, NawsAnswered, Zenon
  <2>2. Count(toPeer, Yes) = Count(Tail(toPeer), Yes)
    BY <1>0, <2>1, Words, CountTail
  <2>3. Refusing(my, his, Append(toUs, Naws), Tail(toPeer))
    BY <1>0, <1>1, <2>1, NawsApart, Zenon
  <2> QED
    BY <1>1, <2>1, <2>2, <2>3, Zenon DEF WeRefuse
<1>7. CASE SpinEnds
  <2>1. /\ \/ toUs # <<>> /\ Head(toUs) = Naws /\ toUs' = Tail(toUs)
           \/ toUs' = toUs
        /\ his' = his /\ toPeer' = toPeer /\ my' = my /\ phase' = "run" /\ opt' = opt
    BY <1>2, <1>7, SpinOver, Zenon
  <2>2. Refusing(my, his, toUs', toPeer)
    BY <1>0, <1>1, <2>1, NawsApart, Zenon
  <2> QED
    BY <1>0, <1>1, <2>1, <2>2, Zenon DEF WeRefuse
<1>8. ASSUME NEW new \in BOOLEAN, Request(new)
      PROVE  phase' # "start" /\ WeRefuse' /\ (phase = "run" => phase' = "run")
  <2>1. his' = Ask(his, new, new /\ opt # "TM").half
        /\ toPeer' = toPeer \o Ask(his, new, new /\ opt # "TM").out
        /\ toUs' = toUs /\ my' = my /\ phase' = phase /\ (new => willOk) /\ opt' = opt
    BY <1>0, <1>8, AskPeer, Zenon
  <2>2. new = FALSE /\ (new /\ opt # "TM") = FALSE
    BY <2>1
  <2>3. his' = his /\ toPeer' = toPeer
    BY <1>0, <1>2, <2>1, <2>2, RefuserAsks, Zenon
  <2> QED
    BY <1>1, <2>1, <2>3, Zenon DEF WeRefuse
<1>9. ASSUME NEW new \in BOOLEAN, Offer(new)
      PROVE  phase' # "start" /\ WeRefuse' /\ (phase = "run" => phase' = "run")
  <2>1. PICK r : r = Ask(my, new, new)
    OBVIOUS
  <2>2. my' = r.half /\ toUs' = toUs \o r.out
        /\ toPeer' = toPeer /\ his' = his /\ phase' = phase /\ opt' = opt
    BY <1>9, <2>1, OfferUs, Zenon
  <2>3. Refusing(r.half, his, toUs \o r.out, toPeer) /\ r.half.state = my.state
    BY <1>0, <1>1, <2>1, AskerAsks, Zenon
  <2> QED
    BY <1>1, <2>2, <2>3, Zenon DEF WeRefuse
<1> QED
  BY <1>3, <1>4, <1>5, <1>6, <1>7, <1>8, <1>9, Zenon DEF TelnetNext

-----------------------------------------------------------------------------
\* Timing marks.

LEMMA MarkAsk ==
    Ask(Off, TRUE, FALSE) = Result([Off EXCEPT !.resp = 1], <<Yes>>)
<1>0. TRUE \in BOOLEAN /\ FALSE \in BOOLEAN /\ 1 \in Nat /\ FALSE # TRUE
  OBVIOUS
<1>1. ~NothingNew(Off, TRUE)
  BY <1>0, HalfKinds, Zenon DEF NothingNew
<1>2. Off.resp + 1 = 1
  BY HalfKinds
<1>3. [Off EXCEPT !.want = FALSE, !.resp = 1] = [state |-> Off.state, want |-> FALSE, resp |-> 1]
  BY <1>0, HalfKinds, WantResp, Zenon
<1>4. [Off EXCEPT !.resp = 1] = [state |-> Off.state, want |-> Off.want, resp |-> 1]
  BY <1>0, HalfKinds, RespOnly, Zenon
<1>5. [Off EXCEPT !.want = FALSE, !.resp = 1] = [Off EXCEPT !.resp = 1]
  BY <1>3, <1>4, HalfKinds, Zenon
<1>6. [Off EXCEPT !.want = FALSE, !.resp = Off.resp + 1] = [Off EXCEPT !.resp = 1]
  BY <1>2, <1>5, Zenon
<1> QED
  BY <1>1, <1>6, Zenon DEF Ask

LEMMA MarkStep ==
    ASSUME TelnetTypeOK, Options, TelnetNext, opt = "TM", phase = "run", TimingMark
    PROVE  phase' = "run" /\ TimingMark'
<1>0. /\ toPeer \in Seq({Yes}) /\ toUs \in Seq({Yes})
      /\ Len(toPeer) \in Nat /\ Len(toUs) \in Nat
      /\ his.resp = Len(toPeer) + Len(toUs) /\ my = Off
      /\ his \in {Off, [Off EXCEPT !.resp = 1]}
      /\ "run" # "start" /\ "run" # "spin"
  BY DEF TimingMark
<1>1. his.resp <= 1 /\ (his.resp = 0 => his = Off)
  <2>1. [Off EXCEPT !.resp = 1].resp = 1 /\ Off.resp = 0
    BY DEF Off
  <2>2. CASE his = Off
    BY <2>1, <2>2
  <2>3. CASE his = [Off EXCEPT !.resp = 1]
    <3>1. his.resp = 1
      BY <2>1, <2>3, Zenon
    <3> QED
      BY <3>1
  <2> QED
    BY <1>0, <2>2, <2>3
<1>2. ASSUME NEW q \in Seq({Yes}), q # <<>>
      PROVE  Head(q) = Yes /\ Tail(q) \in Seq({Yes}) /\ Len(Tail(q)) = Len(q) - 1
             /\ Len(q) \in Nat \ {0}
  BY <1>2
<1>6. toPeer \in Seq({Yes, No, Naws}) /\ toUs \in Seq({Yes, No, Naws})
  BY DEF TelnetTypeOK
<1>7. ASSUME NEW q \in Seq({Yes})
      PROVE  Append(q, Yes) \in Seq({Yes}) /\ Len(Append(q, Yes)) = Len(q) + 1
  BY <1>7
<1>8. Off \in {Off, [Off EXCEPT !.resp = 1]}
      /\ [Off EXCEPT !.resp = 1] \in {Off, [Off EXCEPT !.resp = 1]}
  OBVIOUS
<1>3. CASE RecvFromPeer
  <2>1. toUs # <<>> /\ toUs' = Tail(toUs) /\ my' = my /\ phase' = phase
    BY <1>3, HearPeer, Zenon
  <2>2. PICK r : r = WillOption(his)
    OBVIOUS
  <2>3. his' = r.half /\ toPeer' = toPeer \o r.out
    BY <1>0, <1>2, <1>3, <2>1, <2>2, Words, HearPeer, Zenon
  <2>4. r = Result(Off, <<>>)
    BY <1>0, <2>2, MarkWill, Zenon
  <2>5. r.half = Off /\ r.out = <<>>
    BY <2>4 DEF Result
  <2>6. toPeer' = toPeer
    BY <1>6, <2>3, <2>5, Sent
  <2>7. Len(Tail(toUs)) = Len(toUs) - 1 /\ Len(toUs) \in Nat \ {0} /\ Tail(toUs) \in Seq({Yes})
    BY <1>0, <1>2, <2>1
  <2>8. 0 = Len(toPeer) + Len(Tail(toUs))
    BY <1>0, <1>1, <2>7
  <2>9. Off.resp = 0
    BY HalfKinds
  <2> QED
    BY <1>0, <1>8, <2>1, <2>3, <2>5, <2>6, <2>7, <2>8, <2>9, Zenon DEF TimingMark
<1>4. CASE RecvFromUs
  <2>1. toPeer # <<>> /\ toPeer' = Tail(toPeer) /\ his' = his /\ phase' = phase
    BY <1>4, HearUs, Zenon
  <2>2. PICK r : r = DoOption(my)
    OBVIOUS
  <2>3. my' = r.half /\ toUs' = toUs \o r.out
    BY <1>0, <1>2, <1>4, <2>1, <2>2, Words, HearUs, Zenon
  <2>4. r = Result(Off, <<Yes>>)
    BY <1>0, <2>2, MarkDo, Zenon
  <2>5. r.half = Off /\ r.out = <<Yes>>
    BY <2>4 DEF Result
  <2>6. toUs' = Append(toUs, Yes)
    BY <1>6, <2>3, <2>5, Sent
  <2>7. /\ Len(Tail(toPeer)) = Len(toPeer) - 1 /\ Tail(toPeer) \in Seq({Yes})
        /\ Append(toUs, Yes) \in Seq({Yes}) /\ Len(Append(toUs, Yes)) = Len(toUs) + 1
    BY <1>0, <1>2, <1>7, <2>1
  <2>8. his.resp = Len(Tail(toPeer)) + Len(Append(toUs, Yes))
    BY <1>0, <2>7
  <2> QED
    BY <1>0, <2>1, <2>3, <2>5, <2>6, <2>7, <2>8, Zenon DEF TimingMark
<1>5. CASE Start
  BY <1>0, <1>5, StartAsks, Zenon
<1>9. CASE AnswerNaws
  BY <1>0, <1>2, <1>9, Words, NawsAnswered, Zenon
<1>10. CASE SpinEnds
  BY <1>0, <1>2, <1>10, Words, SpinOver, Zenon
<1>11. ASSUME NEW new \in BOOLEAN, Request(new)
       PROVE  phase' = "run" /\ TimingMark'
  <2>1. his' = Ask(his, new, new /\ opt # "TM").half
        /\ toPeer' = toPeer \o Ask(his, new, new /\ opt # "TM").out
        /\ toUs' = toUs /\ my' = my /\ phase' = phase
        /\ (opt = "TM" => new /\ his.resp = 0)
    <3>1. ~("TM" \in {"SGA", "other"})
      OBVIOUS
    <3> QED
      BY <1>11, <3>1, AskPeer, Zenon
  <2>2. new = TRUE /\ (new /\ opt # "TM") = FALSE /\ his = Off /\ his.resp = 0
    BY <1>1, <2>1
  <2>3. PICK r : r = Ask(Off, TRUE, FALSE)
    OBVIOUS
  <2>4. his' = r.half /\ toPeer' = toPeer \o r.out
    BY <2>1, <2>2, <2>3, Zenon
  <2>5. r = Result([Off EXCEPT !.resp = 1], <<Yes>>)
    BY <2>3, MarkAsk, Zenon
  <2>6. r.half = [Off EXCEPT !.resp = 1] /\ r.out = <<Yes>>
    BY <2>5 DEF Result
  <2>7. toPeer' = Append(toPeer, Yes)
    BY <1>6, <2>4, <2>6, Sent
  <2>8. Append(toPeer, Yes) \in Seq({Yes}) /\ Len(Append(toPeer, Yes)) = Len(toPeer) + 1
    BY <1>0, <1>7
  <2>9. [Off EXCEPT !.resp = 1].resp = Len(Append(toPeer, Yes)) + Len(toUs)
    <3>1. [Off EXCEPT !.resp = 1].resp = 1
      BY DEF Off
    <3> QED
      BY <1>0, <2>2, <2>8, <3>1
  <2> QED
    BY <1>0, <1>8, <2>1, <2>4, <2>6, <2>7, <2>8, <2>9, Zenon DEF TimingMark
<1>12. ASSUME NEW new \in BOOLEAN, Offer(new)
       PROVE  phase' = "run" /\ TimingMark'
  BY <1>12, OfferUs, Zenon
<1> QED
  BY <1>3, <1>4, <1>5, <1>9, <1>10, <1>11, <1>12, Zenon DEF TelnetNext

-----------------------------------------------------------------------------
\* The peer does not echo: DO ECHO is refused.

LEMMA Pair ==
    ASSUME NEW a, NEW b
    PROVE  <<a>> \o <<b>> = <<a, b>>
<1>1. PICK s : s = <<a>> \o <<b>>
  OBVIOUS
<1>2. PICK t : t = <<a, b>>
  OBVIOUS
<1>3. <<a>> \in Seq({a, b}) /\ <<b>> \in Seq({a, b}) /\ Len(<<a>>) = 1 /\ Len(<<b>>) = 1
      /\ <<a>>[1] = a /\ <<b>>[1] = b
  OBVIOUS
<1>4. s \in Seq({a, b}) /\ Len(s) = 2
  BY <1>1, <1>3, ConcatProperties
<1>5. s[1] = a /\ s[2] = b
  <2>1. \A i \in 1..2 : s[i] = IF i <= 1 THEN <<a>>[i] ELSE <<b>>[i - 1]
    BY <1>1, <1>3, ConcatProperties
  <2> QED
    BY <2>1, <1>3
<1>6. t \in Seq({a, b}) /\ Len(t) = 2 /\ t[1] = a /\ t[2] = b
  BY <1>2
<1>7. \A i \in 1..Len(s) : s[i] = t[i]
  BY <1>4, <1>5, <1>6
<1>8. s = t
  BY <1>4, <1>6, <1>7, SeqEqual
<1> QED
  BY <1>1, <1>2, <1>8

LEMMA Tuples ==
    /\ <<>> \o <<Yes>> \o <<Naws>> = <<Yes, Naws>>
    /\ <<>> \o <<No>> = <<No>> /\ <<>> \o <<>> = <<>>
    /\ Append(<<>>, Naws) = <<Naws>> /\ Append(<<No>>, Naws) = <<No, Naws>>
    /\ Head(<<Yes, Naws>>) = Yes /\ Head(<<Naws>>) = Naws
    /\ Head(<<No>>) = No /\ Head(<<No, Naws>>) = No
    /\ Tail(<<Yes, Naws>>) = <<Naws>> /\ Tail(<<Naws>>) = <<>>
    /\ Tail(<<No>>) = <<>> /\ Tail(<<No, Naws>>) = <<Naws>>
    /\ <<No>> # <<>> /\ <<Naws>> # <<>>
<1>1. /\ Head(<<Yes, Naws>>) = Yes /\ Head(<<Naws>>) = Naws
      /\ Head(<<No>>) = No /\ Head(<<No, Naws>>) = No
      /\ <<No>> # <<>> /\ <<Naws>> # <<>>
  OBVIOUS
<1>2. Tail(<<Yes, Naws>>) = <<Naws>> /\ Tail(<<No, Naws>>) = <<Naws>>
  OBVIOUS
<1>3. Tail(<<Naws>>) = <<>> /\ Tail(<<No>>) = <<>>
  OBVIOUS
<1>7. <<>> \in Seq({Yes, No, Naws}) /\ <<No>> \in Seq({Yes, No, Naws})
      /\ <<Yes>> \in Seq({Yes, No, Naws}) /\ Naws \in {Yes, No, Naws}
  OBVIOUS
<1>8. /\ Append(<<>>, Naws) = <<>> \o <<Naws>> /\ Append(<<No>>, Naws) = <<No>> \o <<Naws>>
      /\ Append(<<Yes>>, Naws) = <<Yes>> \o <<Naws>>
  BY <1>7, AppendIsConcat
<1>9. <<>> \o <<Naws>> = <<Naws>>
  OBVIOUS
<1>10. <<No>> \o <<Naws>> = <<No, Naws>>
  BY Pair
<1>4. Append(<<>>, Naws) = <<Naws>> /\ Append(<<No>>, Naws) = <<No, Naws>>
  BY <1>8, <1>9, <1>10
<1>5. <<>> \o <<No>> = <<No>> /\ <<>> \o <<>> = <<>>
  OBVIOUS
<1>6. <<>> \o <<Yes>> \o <<Naws>> = <<Yes, Naws>>
  <2>1. <<>> \o <<Yes>> = <<Yes>>
    OBVIOUS
  <2>2. <<Yes>> \o <<Naws>> = <<Yes, Naws>>
    BY Pair
  <2> QED
    BY <2>1, <2>2, Zenon
<1> QED
  BY <1>1, <1>2, <1>3, <1>4, <1>5, <1>6

\* WONT ECHO while telnetd waits for the answer.
LEMMA EchoWont ==
    ASSUME opt = "ECHO"
    PROVE  WontOption(Waiting) = Result(Off, <<>>)
<1>1. opt # "TM"
  OBVIOUS
<1> QED
  BY <1>1, HalfKinds, KindsBalanced, WontUnheard, Zenon

LEMMA KindsDiffer ==
    /\ Off # Refusal /\ Waiting # On /\ Waiting # Twice /\ On # Twice
    /\ Waiting.state # Waiting.want
  BY DEF Off, Refusal, Waiting, On, Twice

LEMMA EchoRefusedStep ==
    ASSUME TelnetTypeOK, Options, TelnetNext, opt = "ECHO", ~doOk, EchoRefused
    PROVE  EchoRefused'
<1>0. /\ "run" # "start" /\ "run" # "spin" /\ "spin" # "start" /\ opt # "TM"
      /\ "run" \in {"spin", "run"} /\ "spin" \in {"spin", "run"}
      /\ ~("ECHO" \in {"SGA", "other"}) /\ ~("start" \in {"spin", "run"})
      /\ TRUE \in BOOLEAN /\ FALSE \in BOOLEAN
      /\ <<>> \in {<<>>, <<Naws>>} /\ <<Naws>> \in {<<>>, <<Naws>>}
      /\ Off \in {Off, Refusal} /\ Refusal \in {Off, Refusal}
  OBVIOUS
<1>1. /\ my \in {Off, Refusal}
      /\ \/ phase = "start" /\ his = Off /\ my = Off /\ toPeer = <<>> /\ toUs = <<>>
         \/ phase = "spin" /\ his = Waiting /\ my = Off /\ toPeer = <<Yes, Naws>> /\ toUs = <<>>
         \/ phase = "spin" /\ his = Waiting /\ my = Refusal /\ toPeer = <<Naws>> /\ toUs = <<No>>
         \/ phase = "spin" /\ his = Waiting /\ my = Refusal /\ toPeer = <<>> /\ toUs = <<No, Naws>>
         \/ phase \in {"spin", "run"} /\ his = Off /\ my = Refusal /\ toPeer = <<Naws>> /\ toUs = <<>>
         \/ phase \in {"spin", "run"} /\ his = Off /\ my = Refusal /\ toPeer = <<>> /\ toUs = <<>>
         \/ phase \in {"spin", "run"} /\ his = Off /\ my = Refusal /\ toPeer = <<>> /\ toUs = <<Naws>>
  BY <1>0, Zenon DEF EchoRefused
<1>2. toPeer \in Seq({Yes, No, Naws}) /\ toUs \in Seq({Yes, No, Naws})
  BY DEF TelnetTypeOK
<1>3. CASE RecvFromPeer
  <2>1. /\ toUs # <<>> /\ toUs' = Tail(toUs) /\ my' = my /\ phase' = phase
        /\ Head(toUs) # Naws /\ (Head(toUs) = No => his' = WontOption(his).half
                                   /\ toPeer' = toPeer \o WontOption(his).out)
    BY <1>3, HearPeer, Words, Zenon
  <2>2. /\ phase = "spin" /\ his = Waiting /\ my = Refusal
        /\ \/ toPeer = <<Naws>> /\ toUs = <<No>>
           \/ toPeer = <<>> /\ toUs = <<No, Naws>>
    BY <1>1, <2>1, Tuples, Zenon
  <2>3. PICK r : r = WontOption(Waiting)
    OBVIOUS
  <2>4. r = Result(Off, <<>>)
    BY <2>3, EchoWont, Zenon
  <2>5. r.half = Off /\ r.out = <<>>
    BY <2>4 DEF Result
  <2>6. his' = Off /\ toPeer' = toPeer \o <<>>
    BY <2>1, <2>2, <2>3, <2>5, Tuples, Zenon
  <2>7. toPeer' = toPeer
    BY <1>2, <2>6, Sent
  <2> QED
    BY <1>0, <2>1, <2>2, <2>6, <2>7, Tuples, Zenon DEF EchoRefused
<1>4. CASE RecvFromUs
  <2>1. /\ toPeer # <<>> /\ toPeer' = Tail(toPeer) /\ his' = his /\ phase' = phase
        /\ Head(toPeer) # Naws /\ (Head(toPeer) = Yes => my' = DoOption(my).half
                                   /\ toUs' = toUs \o DoOption(my).out)
    BY <1>4, HearUs, Words, Zenon
  <2>2. phase = "spin" /\ his = Waiting /\ my = Off /\ toPeer = <<Yes, Naws>> /\ toUs = <<>>
    BY <1>1, <2>1, Tuples, Zenon
  <2>3. PICK r : r = DoOption(Off)
    OBVIOUS
  <2>4. r = Result(Refusal, <<No>>)
    BY <1>0, <2>3, DoRefused, Zenon
  <2>5. r.half = Refusal /\ r.out = <<No>>
    BY <2>4 DEF Result
  <2>6. my' = Refusal /\ toUs' = <<>> \o <<No>>
    BY <2>1, <2>2, <2>3, <2>5, Tuples, Zenon
  <2> QED
    BY <1>0, <2>1, <2>2, <2>6, Tuples, Zenon DEF EchoRefused
<1>5. CASE Start
  <2>1. /\ phase = "start" /\ phase' = "spin"
        /\ his' = Ask(his, TRUE, TRUE).half
        /\ toPeer' = toPeer \o Ask(his, TRUE, TRUE).out \o <<Naws>>
        /\ toUs' = toUs /\ my' = my
    BY <1>5, StartAsks, Zenon
  <2>2. his = Off /\ my = Off /\ toPeer = <<>> /\ toUs = <<>>
    BY <1>0, <1>1, <2>1, Zenon
  <2>3. PICK r : r = Ask(Off, TRUE, TRUE)
    OBVIOUS
  <2>4. r = Result(Waiting, <<Yes>>)
    BY <2>3, AskOff, Zenon
  <2>5. r.half = Waiting /\ r.out = <<Yes>>
    BY <2>4 DEF Result
  <2>6. his' = Waiting /\ toPeer' = <<>> \o <<Yes>> \o <<Naws>>
    BY <2>1, <2>2, <2>3, <2>5, Zenon
  <2> QED
    BY <1>0, <2>1, <2>2, <2>6, Tuples, Zenon DEF EchoRefused
<1>6. CASE AnswerNaws
  <2>1. /\ toPeer # <<>> /\ Head(toPeer) = Naws
        /\ toPeer' = Tail(toPeer) /\ toUs' = Append(toUs, Naws)
        /\ his' = his /\ my' = my /\ phase' = phase
    BY <1>6, NawsAnswered, Zenon
  <2>2. /\ my = Refusal /\ toPeer = <<Naws>>
        /\ \/ phase = "spin" /\ his = Waiting /\ toUs = <<No>>
           \/ phase \in {"spin", "run"} /\ his = Off /\ toUs = <<>>
    BY <1>1, <2>1, Tuples, Words, Zenon
  <2> QED
    BY <1>0, <2>1, <2>2, Tuples, Zenon DEF EchoRefused
<1>7. CASE SpinEnds
  <2>1. /\ \/ toUs # <<>> /\ Head(toUs) = Naws /\ toUs' = Tail(toUs)
           \/ phase = "spin" /\ his.state = his.want /\ toUs' = toUs
        /\ my' = my /\ phase' = "run"
        /\ (~his.want => his' = his /\ toPeer' = toPeer)
    BY <1>7, SpinOver, Zenon
  <2>2. /\ his = Off /\ my = Refusal
        /\ \/ toPeer = <<Naws>> /\ toUs = <<>>
           \/ toPeer = <<>> /\ toUs = <<>>
           \/ toPeer = <<>> /\ toUs = <<Naws>>
    BY <1>0, <1>1, <2>1, Tuples, Words, KindsDiffer, Zenon
  <2>3. his' = his /\ toPeer' = toPeer
    BY <2>1, <2>2, HalfKinds, Zenon
  <2> QED
    BY <1>0, <2>1, <2>2, <2>3, Tuples, Zenon DEF EchoRefused
<1>8. ASSUME NEW new \in BOOLEAN, Request(new)
      PROVE  EchoRefused'
  BY <1>0, <1>8, AskPeer, Zenon
<1>9. ASSUME NEW new \in BOOLEAN, Offer(new)
      PROVE  EchoRefused'
  <2>1. my' = Ask(my, new, new).half /\ toUs' = toUs \o Ask(my, new, new).out
        /\ toPeer' = toPeer /\ his' = his /\ phase' = phase /\ (new => doOk)
    BY <1>9, OfferUs, Zenon
  <2>2. new = FALSE
    BY <2>1
  <2>3. my' = my /\ toUs' = toUs
    BY <1>1, <1>2, <2>1, <2>2, RefuserAsks, Zenon
  <2> QED
    BY <2>1, <2>3, Zenon DEF EchoRefused
<1> QED
  BY <1>3, <1>4, <1>5, <1>6, <1>7, <1>8, <1>9, Zenon DEF TelnetNext

-----------------------------------------------------------------------------
\* DO ECHO: what is under way.

\* An end that was not heard, and of which no request is under way.
LEMMA ChainOffNone ==
    ASSUME NEW w \in BOOLEAN, NEW q, Chain(FALSE, w, q), Count(q, Yes) = 0
    PROVE  w = FALSE
<1>1. q \in Seq({Yes, No})
  BY DEF Chain, Alternates
<1>2. \A i \in 1..Len(q) : q[i] # Yes
  BY <1>1, CountNat
<1>3. CASE q = <<>>
  BY <1>3 DEF Chain
<1>4. CASE q # <<>>
  <2>1. Head(q) = Message(~FALSE)
    BY <1>4, Zenon DEF Chain
  <2>2. Head(q) = Yes
    BY <2>1 DEF Message
  <2>3. Head(q) = q[1] /\ 1 \in 1..Len(q)
    BY <1>1, <1>4
  <2> QED
    BY <1>2, <2>2, <2>3
<1> QED
  BY <1>3, <1>4

LEMMA WeakOff ==
    ASSUME NEW s \in BOOLEAN, NEW w \in BOOLEAN, NEW q, WeakChain(s, w, q), Count(q, Yes) = 0
    PROVE  WeakChain(s, FALSE, q)
<1>1. q \in Seq({Yes, No}) /\ Alternates(q)
  BY DEF WeakChain, Alternates
<1>2. \A i \in 1..Len(q) : q[i] # Yes
  BY <1>1, CountNat
<1>3. CASE q = <<>>
  BY <1>1, <1>3, Zenon DEF WeakChain
<1>4. CASE q # <<>>
  <2>1. q[Len(q)] = Message(w)
    BY <1>4, Zenon DEF WeakChain
  <2>2. Len(q) \in 1..Len(q)
    BY <1>1, <1>4
  <2>3. w = FALSE
    BY <1>2, <2>1, <2>2 DEF Message
  <2> QED
    BY <2>3
<1> QED
  BY <1>3, <1>4

LEMMA WeakChainOff ==
    ASSUME NEW w \in BOOLEAN, NEW q, WeakChain(FALSE, w, q)
    PROVE  Chain(FALSE, w, q)
<1>1. Alternates(q)
  BY Zenon DEF WeakChain
<1>2. q = <<>> => FALSE = w
  BY DEF WeakChain
<1>3. q # <<>> => Head(q) = Message(~FALSE) /\ q[Len(q)] = Message(w)
  <2>1. Message(~FALSE) = Yes
    BY DEF Message
  <2> QED
    BY <2>1, Zenon DEF WeakChain
<1> QED
  BY <1>1, <1>2, <1>3, Zenon DEF Chain

\* DO ECHO follows the refusals.
LEMMA StartedCount ==
    ASSUME NEW q \in Seq({Yes, No, Naws}), Started(q)
    PROVE  Count(q, No) = Len(q) - 2 /\ Count(q, Yes) = 1 /\ Len(q) - 2 \in Nat
<1>0. Len(q) \in Nat /\ Len(q) >= 2
  BY DEF Started
<1>1. Len(q) \in Nat /\ Len(q) >= 2 /\ \A i \in 1..(Len(q) - 2) : q[i] = No
  BY <1>0 DEF Started
<1>2. q[Len(q) - 1] = Yes /\ q[Len(q)] = Naws
  BY DEF Started
<1>3. {i \in 1..Len(q) : q[i] = No} = 1..(Len(q) - 2)
  <2>1. ASSUME NEW i \in 1..Len(q) PROVE q[i] = No <=> i \in 1..(Len(q) - 2)
    <3>1. i \in 1..(Len(q) - 2) \/ i = Len(q) - 1 \/ i = Len(q)
      BY <1>1, <2>1
    <3>2. ~(Len(q) - 1 \in 1..(Len(q) - 2)) /\ ~(Len(q) \in 1..(Len(q) - 2))
      BY <1>1
    <3> QED
      BY <3>1, <3>2, <1>1, <1>2, Words
  <2>2. 1..(Len(q) - 2) \subseteq 1..Len(q)
    BY <1>1
  <2> QED
    BY <2>1, <2>2
<1>4. {i \in 1..Len(q) : q[i] = Yes} = {Len(q) - 1}
  <2>1. ASSUME NEW i \in 1..Len(q) PROVE q[i] = Yes <=> i = Len(q) - 1
    <3>1. i \in 1..(Len(q) - 2) \/ i = Len(q) - 1 \/ i = Len(q)
      BY <1>1, <2>1
    <3>2. Len(q) - 1 # Len(q)
      BY <1>1
    <3> QED
      BY <3>1, <3>2, <1>1, <1>2, Words
  <2>2. Len(q) - 1 \in 1..Len(q)
    BY <1>1
  <2> QED
    BY <2>1, <2>2
<1>5. Cardinality(1..(Len(q) - 2)) = Len(q) - 2
  <2>0. Len(q) - 2 \in Nat
    BY <1>0
  <2>1. PICK e : e = Len(q) - 2 /\ e \in Nat /\ e \in Int /\ 1 \in Int
    BY <2>0
  <2>2. Cardinality(1..e) = IF 1 > e THEN 0 ELSE e - 1 + 1
    BY <2>1, FS_Interval
  <2>3. Cardinality(1..e) = e
    BY <2>1, <2>2
  <2> QED
    BY <2>1, <2>3
<1>6. Cardinality({Len(q) - 1}) = 1
  BY FS_Singleton
<1>7. Len(q) - 2 \in Nat
  BY <1>1
<1> QED
  BY <1>3, <1>4, <1>5, <1>6, <1>7, Zenon DEF Count

LEMMA StartedTail ==
    ASSUME NEW q \in Seq({Yes, No, Naws}), Started(q)
    PROVE  /\ q # <<>> /\ Head(q) # Naws
           /\ Head(q) = No => Started(Tail(q)) /\ Len(Tail(q)) = Len(q) - 1 /\ Len(q) - 2 >= 1
           /\ Head(q) = Yes => Tail(q) = <<Naws>> /\ Len(q) = 2
<1>0. Len(q) \in Nat /\ Len(q) >= 2
  BY DEF Started
<1>1. Len(q) \in Nat /\ Len(q) >= 2 /\ \A i \in 1..(Len(q) - 2) : q[i] = No
  BY <1>0 DEF Started
<1>2. q[Len(q) - 1] = Yes /\ q[Len(q)] = Naws
  BY DEF Started
<1>3. q # <<>> /\ Head(q) = q[1]
  BY <1>1
<1>4. Tail(q) \in Seq({Yes, No, Naws}) /\ Len(Tail(q)) = Len(q) - 1
      /\ \A i \in 1..(Len(q) - 1) : Tail(q)[i] = q[i + 1]
  BY <1>1, <1>3
<1>5. CASE Len(q) = 2
  <2>1. Head(q) = Yes
    BY <1>2, <1>3, <1>5
  <2>2. Tail(q) = <<Naws>>
    <3>1. Len(Tail(q)) = 1 /\ Tail(q)[1] = Naws
      BY <1>2, <1>4, <1>5
    <3>2. PICK t : t = <<Naws>>
      OBVIOUS
    <3>3. t \in Seq({Yes, No, Naws}) /\ Len(t) = 1 /\ t[1] = Naws
      BY <3>2
    <3>4. \A i \in 1..Len(t) : t[i] = Tail(q)[i]
      BY <3>1, <3>3
    <3>5. t = Tail(q)
      BY <1>4, <3>1, <3>3, <3>4, SeqEqual
    <3> QED
      BY <3>2, <3>5
  <2> QED
    BY <1>3, <1>5, <2>1, <2>2, Words
<1>6. CASE Len(q) > 2
  <2>1. Head(q) = No
    BY <1>1, <1>3, <1>6
  <2>2. Len(Tail(q)) >= 2 /\ Len(q) - 2 >= 1
    BY <1>1, <1>4, <1>6
  <2>3. \A i \in 1..(Len(Tail(q)) - 2) : Tail(q)[i] = No
    <3>1. ASSUME NEW i \in 1..(Len(Tail(q)) - 2) PROVE Tail(q)[i] = No
      <4>1. i \in 1..(Len(q) - 1) /\ i + 1 \in 1..(Len(q) - 2)
        BY <1>1, <1>4, <3>1
      <4> QED
        BY <1>1, <1>4, <4>1
    <3> QED
      BY <3>1
  <2>4. Tail(q)[Len(Tail(q)) - 1] = Yes /\ Tail(q)[Len(Tail(q))] = Naws
    <3>1. Len(Tail(q)) - 1 \in 1..(Len(q) - 1) /\ (Len(Tail(q)) - 1) + 1 = Len(q) - 1
          /\ Len(Tail(q)) \in 1..(Len(q) - 1) /\ Len(Tail(q)) + 1 = Len(q)
      BY <1>1, <1>4, <1>6
    <3>2. Tail(q)[Len(Tail(q)) - 1] = q[Len(q) - 1] /\ Tail(q)[Len(Tail(q))] = q[Len(q)]
      BY <1>4, <3>1
    <3> QED
      BY <1>2, <3>2
  <2> QED
    BY <1>3, <1>4, <2>1, <2>2, <2>3, <2>4, Words, Zenon DEF Started
<1>7. Len(q) = 2 \/ Len(q) > 2
  <2>1. \A e \in Nat : e >= 2 => e = 2 \/ e > 2
    OBVIOUS
  <2> QED
    BY <1>0, <2>1, Zenon
<1> QED
  BY <1>5, <1>6, <1>7, Zenon

LEMMA StartedFrom ==
    ASSUME NEW q \in Seq({No})
    PROVE  Started(q \o <<Yes>> \o <<Naws>>) /\ Len(q \o <<Yes>> \o <<Naws>>) - 2 = Len(q)
<1>1. q \in Seq({Yes, No, Naws}) /\ Len(q) \in Nat /\ \A i \in 1..Len(q) : q[i] = No
  OBVIOUS
<1>2. q \o <<Yes>> = Append(q, Yes)
  BY <1>1, Sent
<1>3. PICK p : p = Append(q, Yes)
  OBVIOUS
<1>4. p \in Seq({Yes, No, Naws}) /\ Len(p) = Len(q) + 1 /\ p[Len(q) + 1] = Yes
      /\ \A i \in 1..Len(q) : p[i] = q[i]
  <2>1. Yes \in {Yes, No, Naws}
    OBVIOUS
  <2> QED
    BY <1>1, <1>3, <2>1, AppendProperties
<1>5. p \o <<Naws>> = Append(p, Naws)
  <2>1. Naws \in {Yes, No, Naws}
    OBVIOUS
  <2> QED
    BY <1>4, <2>1, AppendIsConcat
<1>6. PICK r : r = Append(p, Naws)
  OBVIOUS
<1>7. r \in Seq({Yes, No, Naws}) /\ Len(r) = Len(p) + 1 /\ r[Len(p) + 1] = Naws
      /\ \A i \in 1..Len(p) : r[i] = p[i]
  <2>1. Naws \in {Yes, No, Naws}
    OBVIOUS
  <2> QED
    BY <1>4, <1>6, <2>1, AppendProperties
<1>8. Len(r) = Len(q) + 2 /\ Len(r) >= 2 /\ Len(r) - 2 = Len(q)
  BY <1>1, <1>4, <1>7
<1>9. \A i \in 1..(Len(r) - 2) : r[i] = No
  <2>1. ASSUME NEW i \in 1..(Len(r) - 2) PROVE r[i] = No
    <3>1. i \in 1..Len(q) /\ i \in 1..Len(p)
      BY <1>1, <1>4, <1>8, <2>1
    <3> QED
      BY <1>1, <1>4, <1>7, <3>1
  <2> QED
    BY <2>1
<1>10. r[Len(r) - 1] = Yes /\ r[Len(r)] = Naws
  <2>1. Len(r) - 1 = Len(q) + 1 /\ Len(r) = Len(p) + 1 /\ Len(q) + 1 \in 1..Len(p)
    BY <1>1, <1>4, <1>7
  <2> QED
    BY <1>4, <1>7, <2>1
<1>11. Started(r)
  BY <1>8, <1>9, <1>10, Zenon DEF Started
<1> QED
  BY <1>2, <1>3, <1>5, <1>6, <1>8, <1>11, Zenon

-----------------------------------------------------------------------------
\* DO ECHO: what the peer is owed.

LEMMA OwesOffer ==
    ASSUME NEW h \in HalfState, Balanced(h), h.state = FALSE,
           NEW q \in Seq({Yes, No, Naws}), NEW i \in Nat, Owes(h, Count(q, Yes) + i),
           NEW new \in BOOLEAN, NEW r, r = Ask(h, new, new)
    PROVE  /\ Balanced(r.half) /\ r.half.state = FALSE
           /\ Owes(r.half, Count(q \o r.out, Yes) + i)
<1>2. h.state \in BOOLEAN /\ h.want \in BOOLEAN /\ h.resp \in Nat
  BY DEF HalfState
<1>3. Count(q, Yes) \in Nat
  BY CountNat, Zenon
<1>4. CASE h.want = new
  <2>1. r = Result(h, <<>>)
    BY <1>4, AskNothing, Zenon
  <2>2. r.half = h /\ r.out = <<>>
    BY <2>1 DEF Result
  <2>3. q \o r.out = q
    BY <2>2, Sent
  <2> QED
    BY <2>2, <2>3, Zenon
<1>5. CASE h.want # new
  <2>1. r = Result([state |-> h.state, want |-> new, resp |-> h.resp + 1], <<Message(new)>>)
    BY <1>5, AskIs, Zenon
  <2>2. PICK k : k = [state |-> h.state, want |-> new, resp |-> h.resp + 1]
    OBVIOUS
  <2>3. r.half = k /\ r.out = <<Message(new)>>
    BY <2>1, <2>2 DEF Result
  <2>4. k.state = h.state /\ k.want = new /\ k.resp = h.resp + 1
    BY <2>2
  <2>10. (h.state = h.want) <=> (h.resp % 2 = 0)
    BY DEF Balanced
  <2>5. Balanced(k)
    <3>2. (h.state = new) <=> ~(h.state = h.want)
      BY <1>2, <1>5
    <3>3. h.resp % 2 = 0 <=> ~((h.resp + 1) % 2 = 0)
      BY <1>2
    <3> QED
      BY <2>4, <2>10, <3>2, <3>3, Zenon DEF Balanced
  <2>6. PICK m, c : m = h.resp /\ c = Count(q, Yes)
    OBVIOUS
  <2>9. m \in Nat /\ c \in Nat /\ m <= 2 * (c + i) /\ 2 * (c + i) <= m + 1 /\ k.resp = m + 1
    BY <1>2, <1>3, <2>4, <2>6, Zenon DEF Owes
  <2>7. CASE new = TRUE
    <3>1. r.out = <<Yes>>
      BY <2>3, <2>7 DEF Message
    <3>2. Count(q \o r.out, Yes) = c + 1
      BY <2>6, <3>1, CountOut
    <3>3. m % 2 = 0
      <4>1. h.want = FALSE
        BY <1>2, <1>5, <2>7
      <4> QED
        BY <2>10, <2>6, <4>1, Zenon
    <3>4. m + 1 <= 2 * ((c + 1) + i) /\ 2 * ((c + 1) + i) <= (m + 1) + 1
      BY <2>9, <3>3
    <3> QED
      BY <2>3, <2>4, <2>5, <2>9, <3>2, <3>4, Zenon DEF Owes
  <2>8. CASE new = FALSE
    <3>1. r.out = <<No>>
      BY <2>3, <2>8 DEF Message
    <3>2. Count(q \o r.out, Yes) = c
      BY <2>6, <3>1, CountOut
    <3>3. ~(m % 2 = 0)
      <4>1. h.want # h.state
        BY <1>2, <1>5, <2>8
      <4> QED
        BY <2>10, <2>6, <4>1, Zenon
    <3>4. m + 1 <= 2 * (c + i) /\ 2 * (c + i) <= (m + 1) + 1
      BY <2>9, <3>3
    <3> QED
      BY <2>3, <2>4, <2>5, <2>9, <3>2, <3>4, Zenon DEF Owes
  <2> QED
    BY <2>7, <2>8
<1> QED
  BY <1>4, <1>5

\* The peer hears a refusal: two answers less are due, or the last one.
LEMMA OwesRefused ==
    ASSUME NEW h \in HalfState, Balanced(h), h.state = FALSE, opt = "ECHO",
           NEW i \in Nat, Owes(h, i), i >= 1, NEW r, r = DontOption(h)
    PROVE  /\ Balanced(r.half) /\ r.half.state = FALSE /\ r.out = <<>>
           /\ Owes(r.half, i - 1)
           /\ r.half.want = h.want \/ (i = 1 /\ r.half.want = FALSE)
<1>0. h.resp \in Nat /\ h.want \in BOOLEAN
  BY DEF HalfState
<1>1. h.resp <= 2 * i /\ 2 * i <= h.resp + 1
  BY Zenon DEF Owes
<1>2. CASE h.resp # 1
  <2>1. r = Kept(h, FALSE)
    BY <1>2, DontUnheard, Zenon
  <2>2. r.half = [state |-> FALSE, want |-> h.want, resp |-> RespLeft(h, FALSE)] /\ r.out = <<>>
    BY <2>1 DEF Kept, Result
  <2>3. PICK k : k = r.half
    OBVIOUS
  <2>4. k.want = h.want /\ k.resp = RespLeft(h, FALSE)
    BY <2>2, <2>3
  <2>5. Eases(h, r)
    BY <1>2, <2>1, KeptEases, Zenon
  <2>6. h.resp > 1
    BY <1>0, <1>1, <1>2
  <2>7. RespLeft(h, FALSE) = h.resp - 2
    <3>1. FALSE \in BOOLEAN
      OBVIOUS
    <3> QED
      BY <2>6, <3>1, LeftSame, Zenon
  <2>8. PICK m : m = h.resp
    OBVIOUS
  <2>9. m - 2 <= 2 * (i - 1) /\ 2 * (i - 1) <= (m - 2) + 1
    BY <1>0, <1>1, <2>8
  <2>10. Owes(k, i - 1)
    BY <2>4, <2>7, <2>8, <2>9, Zenon DEF Owes
  <2> QED
    BY <2>2, <2>3, <2>4, <2>5, <2>10, Zenon DEF Eases
<1>3. CASE h.resp = 1
  <2>0. opt # "SGA"
    OBVIOUS
  <2>1. r = Result(Off, <<>>)
    BY <1>3, <2>0, DontUnheard, Zenon
  <2>2. r.half = Off /\ r.out = <<>>
    BY <2>1 DEF Result
  <2>3. i = 1
    BY <1>1, <1>3
  <2>4. 0 <= 2 * (i - 1) /\ 2 * (i - 1) <= 0 + 1
    BY <2>3
  <2>5. Owes(Off, i - 1)
    BY <2>4, HalfKinds, Zenon DEF Owes
  <2> QED
    BY <2>2, <2>3, <2>5, HalfKinds, KindsBalanced, Zenon
<1> QED
  BY <1>2, <1>3

-----------------------------------------------------------------------------
\* Steps of the negotiation of ECHO.

LEMMA AskTwice ==
    Ask(Refusal, TRUE, TRUE) = Result(Twice, <<Yes>>)
<1>0. TRUE \in BOOLEAN /\ FALSE # TRUE
  OBVIOUS
<1>1. Balanced(Refusal) /\ Refusal.want # TRUE
  BY <1>0, HalfKinds, Parity, Zenon DEF Balanced
<1>2. Ask(Refusal, TRUE, TRUE) =
        Result([state |-> Refusal.state, want |-> TRUE, resp |-> Refusal.resp + 1], <<Message(TRUE)>>)
  BY <1>0, <1>1, HalfKinds, AskIs, Zenon
<1>3. [state |-> Refusal.state, want |-> TRUE, resp |-> Refusal.resp + 1] = Twice
  BY DEF Refusal, Twice
<1>4. Message(TRUE) = Yes
  BY DEF Message
<1> QED
  BY <1>2, <1>3, <1>4, Zenon

\* What the asking end has sent, after its own request.
LEMMA ChainAsk ==
    ASSUME NEW h \in HalfState, Balanced(h), NEW s \in BOOLEAN,
           NEW q \in Seq({Yes, No, Naws}), NEW new \in BOOLEAN, NEW r, r = Ask(h, new, new)
    PROVE  /\ Chain(s, h.want, q) => Chain(s, r.half.want, q \o r.out)
           /\ WeakChain(s, h.want, q) => WeakChain(s, r.half.want, q \o r.out)
<1>0. h.want \in BOOLEAN
  BY DEF HalfState
<1>1. CASE h.want = new
  <2>1. r = Result(h, <<>>)
    BY <1>1, AskNothing, Zenon
  <2>2. r.half = h /\ r.out = <<>>
    BY <2>1 DEF Result
  <2>3. q \o r.out = q
    BY <2>2, Sent
  <2> QED
    BY <2>2, <2>3, Zenon
<1>2. CASE h.want # new
  <2>1. r = Result([state |-> h.state, want |-> new, resp |-> h.resp + 1], <<Message(new)>>)
    BY <1>2, AskIs, Zenon
  <2>2. r.half.want = new /\ r.out = <<Message(new)>>
    BY <2>1 DEF Result
  <2>3. q \o r.out = Append(q, Message(new))
    BY <2>2, MessageIs
  <2>4. new # h.want
    BY <1>2
  <2> QED
    BY <1>0, <2>2, <2>3, <2>4, ChainAppend, WeakAppend, Zenon
<1> QED
  BY <1>1, <1>2

\* A message of a chain is not about NAWS.
LEMMA WeakHead ==
    ASSUME NEW s \in BOOLEAN, NEW w \in BOOLEAN, NEW q, WeakChain(s, w, q), q # <<>>
    PROVE  /\ Head(q) \in {Yes, No} /\ Head(q) # Naws
           /\ Head(q) = Yes => Chain(TRUE, w, Tail(q))
           /\ Head(q) = No => Chain(FALSE, w, Tail(q)) /\ s = TRUE
<1>1. q \in Seq({Yes, No})
  BY DEF WeakChain, Alternates
<1>2. Head(q) \in {Yes, No}
  BY <1>1, HeadTailProperties
<1>3. TRUE \in BOOLEAN /\ FALSE \in BOOLEAN /\ Message(TRUE) = Yes /\ Message(FALSE) = No
  BY DEF Message
<1>4. Head(q) = Yes => Chain(TRUE, w, Tail(q))
  BY <1>3, WeakTail, Zenon
<1>5. Head(q) = No => Chain(FALSE, w, Tail(q)) /\ s
  BY <1>3, WeakTail, Zenon
<1> QED
  BY <1>2, <1>4, <1>5, Words

LEMMA EchoStartStep ==
    ASSUME TelnetTypeOK, Options, TelnetNext, opt = "ECHO", ~willOk, doOk, EchoStart
    PROVE  EchoStart' \/ EchoAsked'
<1>0. /\ his \in HalfState /\ my \in HalfState
      /\ toPeer \in Seq({Yes, No, Naws}) /\ toUs \in Seq({Yes, No, Naws})
      /\ TRUE \in BOOLEAN /\ FALSE \in BOOLEAN /\ opt # "TM" /\ "start" # "spin"
      /\ ~("ECHO" \in {"SGA", "other"})
      /\ Off \in {Off, Refusal} /\ Refusal \in {Off, Refusal}
  BY DEF TelnetTypeOK
<1>1. /\ phase = "start" /\ his \in {Off, Refusal} /\ Balanced(my)
      /\ toPeer \in Seq({No}) /\ Owes(my, Count(toUs, Yes) + Len(toPeer))
      /\ WeakChain(his.state, my.want, toUs)
  BY Zenon DEF EchoStart
<1>2. my.state = FALSE
  BY <1>0 DEF EchoStart, HalfState
<1>3. /\ his.state \in BOOLEAN /\ my.want \in BOOLEAN
      /\ Len(toPeer) \in Nat /\ Count(toUs, Yes) \in Nat
  <2>1. his.state \in BOOLEAN /\ my.want \in BOOLEAN
    BY <1>0 DEF HalfState
  <2>2. Len(toPeer) \in Nat
    BY <1>1
  <2> QED
    BY <1>0, <2>1, <2>2, CountNat, Zenon
<1>10. ASSUME NEW q \in Seq({No})
       PROVE  Append(q, No) \in Seq({No}) /\ Len(Append(q, No)) = Len(q) + 1
  BY <1>10
<1>4. CASE RecvFromPeer
  <2>1. toUs # <<>> /\ toUs' = Tail(toUs) /\ my' = my /\ phase' = phase
    BY <1>4, HearPeer, Zenon
  <2>2. /\ Head(toUs) = Yes => Count(toUs, Yes) = Count(Tail(toUs), Yes) + 1
        /\ Head(toUs) # Yes => Count(toUs, Yes) = Count(Tail(toUs), Yes)
    BY <1>0, <2>1, CountTail
  <2>3. Count(Tail(toUs), Yes) \in Nat
    <3>1. Tail(toUs) \in Seq({Yes, No, Naws})
      BY <1>0, <2>1, HeadTailProperties
    <3> QED
      BY <3>1, CountNat, Zenon
  <2>4. CASE Head(toUs) = Yes
    <3>1. PICK r : r = WillOption(his)
      OBVIOUS
    <3>2. his' = r.half /\ toPeer' = toPeer \o r.out
      BY <1>4, <2>4, <3>1, Words, HearPeer, Zenon
    <3>3. r = Result(Refusal, <<No>>)
      BY <1>0, <1>1, <3>1, WillRefused, Zenon
    <3>4. r.half = Refusal /\ r.out = <<No>>
      BY <3>3 DEF Result
    <3>5. toPeer' = Append(toPeer, No)
      BY <1>0, <3>2, <3>4, Sent
    <3>6. toPeer' \in Seq({No}) /\ Len(toPeer') = Len(toPeer) + 1
      BY <1>1, <1>10, <3>5
    <3>7. Count(toUs, Yes) + Len(toPeer) = Count(Tail(toUs), Yes) + Len(toPeer')
      BY <1>3, <2>2, <2>3, <2>4, <3>6
    <3>8. WeakChain(TRUE, my.want, Tail(toUs))
      <4>1. Chain(TRUE, my.want, Tail(toUs))
        BY <1>1, <1>3, <2>1, <2>4, WeakHead, Zenon
      <4> QED
        BY <1>0, <1>3, <4>1, ChainWeak, Zenon
    <3> QED
      BY <1>0, <1>1, <1>2, <2>1, <3>2, <3>4, <3>6, <3>7, <3>8, HalfKinds, Zenon DEF EchoStart
  <2>5. CASE Head(toUs) = No
    <3>1. PICK r : r = WontOption(his)
      OBVIOUS
    <3>2. his' = r.half /\ toPeer' = toPeer \o r.out
      BY <1>4, <2>5, <3>1, Words, HearPeer, Zenon
    <3>3. r = Result(Off, <<>>)
      BY <1>1, <3>1, WontRefused, Zenon
    <3>4. r.half = Off /\ r.out = <<>>
      BY <3>3 DEF Result
    <3>5. toPeer' = toPeer
      BY <1>0, <3>2, <3>4, Sent
    <3>7. Count(toUs, Yes) = Count(Tail(toUs), Yes)
      BY <2>2, <2>5, Words, Zenon
    <3>8. WeakChain(FALSE, my.want, Tail(toUs))
      <4>1. Chain(FALSE, my.want, Tail(toUs))
        BY <1>1, <1>3, <2>1, <2>5, WeakHead, Zenon
      <4> QED
        BY <1>0, <1>3, <4>1, ChainWeak, Zenon
    <3> QED
      BY <1>0, <1>1, <1>2, <2>1, <3>2, <3>4, <3>5, <3>7, <3>8, HalfKinds, Zenon DEF EchoStart
  <2> QED
    BY <1>4, <2>4, <2>5, HearPeer, Zenon
<1>5. CASE RecvFromUs
  <2>1. toPeer # <<>> /\ toPeer' = Tail(toPeer) /\ his' = his /\ phase' = phase
    BY <1>5, HearUs, Zenon
  <2>2. Head(toPeer) = No /\ Tail(toPeer) \in Seq({No}) /\ Len(Tail(toPeer)) = Len(toPeer) - 1
        /\ Len(toPeer) >= 1
    BY <1>1, <2>1
  <2>3. PICK r : r = DontOption(my)
    OBVIOUS
  <2>4. my' = r.half /\ toUs' = toUs \o r.out
    BY <1>5, <2>2, <2>3, Words, HearUs, Zenon
  <2>5. PICK i \in Nat : i = Count(toUs, Yes) + Len(toPeer)
    BY <1>3
  <2>6. i >= 1 /\ i - 1 = Count(toUs, Yes) + Len(Tail(toPeer))
        /\ (i = 1 => Count(toUs, Yes) = 0)
    BY <1>3, <2>2, <2>5
  <2>7. /\ Balanced(r.half) /\ r.half.state = FALSE /\ r.out = <<>>
        /\ Owes(r.half, i - 1)
        /\ r.half.want = my.want \/ (i = 1 /\ r.half.want = FALSE)
    BY <1>0, <1>1, <1>2, <2>3, <2>5, <2>6, OwesRefused, Zenon
  <2>8. toUs' = toUs
    BY <1>0, <2>4, <2>7, Sent
  <2>9. WeakChain(his.state, r.half.want, toUs)
    BY <1>1, <1>3, <2>6, <2>7, WeakOff, Zenon
  <2> QED
    BY <1>1, <2>1, <2>2, <2>4, <2>6, <2>7, <2>8, <2>9, Zenon DEF EchoStart
<1>6. CASE Start
  <2>1. /\ phase' = "spin" /\ his' = Ask(his, TRUE, TRUE).half
        /\ toPeer' = toPeer \o Ask(his, TRUE, TRUE).out \o <<Naws>>
        /\ toUs' = toUs /\ my' = my
    BY <1>6, StartAsks, Zenon
  <2>2. PICK r : r = Ask(his, TRUE, TRUE)
    OBVIOUS
  <2>3. \/ his = Off /\ r = Result(Waiting, <<Yes>>)
        \/ his = Refusal /\ r = Result(Twice, <<Yes>>)
    BY <1>1, <2>2, AskOff, AskTwice
  <2>4. \/ his = Off /\ r.half = Waiting /\ r.out = <<Yes>>
        \/ his = Refusal /\ r.half = Twice /\ r.out = <<Yes>>
    <3>1. CASE his = Off /\ r = Result(Waiting, <<Yes>>)
      BY <3>1 DEF Result
    <3>2. CASE his = Refusal /\ r = Result(Twice, <<Yes>>)
      BY <3>2 DEF Result
    <3> QED
      BY <2>3, <3>1, <3>2
  <2>5. his' = r.half /\ toPeer' = toPeer \o <<Yes>> \o <<Naws>>
    BY <2>1, <2>2, <2>4, Zenon
  <2>6. Started(toPeer') /\ Len(toPeer') - 2 = Len(toPeer)
    BY <1>1, <2>5, StartedFrom, Zenon
  <2>7. his' \in Asking /\ his' # On
    <3>1. Waiting \in Asking /\ Twice \in Asking
      BY DEF Asking
    <3> QED
      BY <2>4, <2>5, <3>1, KindsDiffer, Zenon
  <2>8. (Promised)' = 0
    BY <2>7, Zenon DEF Promised
  <2>9. (Count(toUs, Yes) + (Len(toPeer) - 2) + Promised)' = Count(toUs, Yes) + Len(toPeer)
    <3>1. (Count(toUs, Yes))' = Count(toUs, Yes)
      BY <2>1, Zenon
    <3>2. Count(toUs, Yes) + Len(toPeer) + 0 = Count(toUs, Yes) + Len(toPeer)
      BY <1>3
    <3> QED
      BY <2>6, <2>8, <3>1, <3>2, Zenon
  <2>10. Heard'
    <3>1. CASE his = Off /\ r.half = Waiting
      <4>1. his' = Waiting /\ his' # Twice /\ his'.state = FALSE
        BY <2>5, <3>1, KindsDiffer, HalfKinds, Zenon
      <4>2. WeakChain(FALSE, my.want, toUs)
        BY <1>1, <3>1, HalfKinds, Zenon
      <4>3. Chain(FALSE, my.want, toUs)
        BY <1>3, <4>2, WeakChainOff, Zenon
      <4> QED
        BY <2>1, <4>1, <4>3, Zenon DEF Heard
    <3>2. CASE his = Refusal /\ r.half = Twice
      <4>1. his' = Twice /\ his'.state = TRUE /\ his.state = TRUE
        BY <2>5, <3>2, HalfKinds, Zenon
      <4> QED
        BY <1>1, <2>1, <4>1, Zenon DEF Heard
    <3> QED
      BY <2>4, <3>1, <3>2
  <2>11. Owes(my, Count(toUs, Yes) + Len(toPeer))
    BY <1>1
  <2> QED
    BY <1>1, <1>2, <2>1, <2>6, <2>7, <2>9, <2>10, <2>11, Zenon DEF EchoAsked
<1>7. CASE AnswerNaws
  <2>1. toPeer # <<>> /\ Head(toPeer) = Naws
    BY <1>7, NawsAnswered, Zenon
  <2>2. Head(toPeer) = No
    BY <1>1, <2>1
  <2> QED
    BY <2>1, <2>2, Words, Zenon
<1>8. CASE SpinEnds
  <2>1. toUs # <<>> /\ Head(toUs) = Naws
    BY <1>0, <1>1, <1>8, SpinOver, Zenon
  <2> QED
    BY <1>1, <1>3, <2>1, WeakHead, Zenon
<1>9. ASSUME NEW new \in BOOLEAN, Request(new)
      PROVE  EchoStart' \/ EchoAsked'
  BY <1>0, <1>9, AskPeer, Zenon
<1>11. ASSUME NEW new \in BOOLEAN, Offer(new)
       PROVE  EchoStart' \/ EchoAsked'
  <2>1. PICK r : r = Ask(my, new, new)
    OBVIOUS
  <2>2. my' = r.half /\ toUs' = toUs \o r.out
        /\ toPeer' = toPeer /\ his' = his /\ phase' = phase
    BY <1>11, <2>1, OfferUs, Zenon
  <2>3. /\ Balanced(r.half) /\ r.half.state = FALSE
        /\ Owes(r.half, Count(toUs \o r.out, Yes) + Len(toPeer))
    BY <1>0, <1>1, <1>2, <1>3, <2>1, OwesOffer, Zenon
  <2>4. WeakChain(his.state, r.half.want, toUs \o r.out)
    BY <1>0, <1>1, <1>3, <2>1, ChainAsk, Zenon
  <2> QED
    BY <1>1, <2>2, <2>3, <2>4, Zenon DEF EchoStart
<1> QED
  BY <1>4, <1>5, <1>6, <1>7, <1>8, <1>9, <1>11, Zenon DEF TelnetNext

\* telnetd has refused ECHO.
LEMMA NowRefused ==
    ASSUME opt' = "ECHO", his' \in {Off, Refusal}, Balanced(my'),
           Due(my') <= 2 * (Count(toUs', Yes) + Count(toPeer', No)),
           \/ my'.state = FALSE /\ Count(toPeer', Yes) <= 1
           \/ my'.state = TRUE /\ Count(toPeer', Yes) <= 0
    PROVE  WeRefuse'
<1>1. Refusing(my', his', toUs', toPeer')
  BY Zenon DEF Refusing
<1>2. opt' # "ECHO" => ~my'.state
  BY Zenon
<1>3. Count(toPeer', Yes) <= (IF my'.state \/ opt' # "ECHO" THEN 0 ELSE 1)
  BY Zenon
<1> QED
  BY <1>1, <1>2, <1>3, Zenon DEF WeRefuse

\* What telnetd makes of the next message while it waits.
LEMMA AskedHears ==
    ASSUME opt = "ECHO", NEW h \in Asking, NEW w \in BOOLEAN, NEW q, q # <<>>,
           IF h = Twice THEN WeakChain(h.state, w, q) ELSE Chain(h.state, w, q)
    PROVE  \/ /\ h = Waiting /\ Head(q) = Yes /\ Chain(TRUE, w, Tail(q))
              /\ WillOption(h) = Result(On, <<>>)
           \/ /\ h = On /\ Head(q) = No /\ WontOption(h) = Result(Off, <<No>>)
           \/ /\ h = Twice /\ Head(q) = Yes /\ WillOption(h) = Result(Refusal, <<No>>)
           \/ /\ h = Twice /\ Head(q) = No /\ Chain(FALSE, w, Tail(q))
              /\ WontOption(h) = Result(Waiting, <<>>)
<1>0. TRUE \in BOOLEAN /\ FALSE \in BOOLEAN /\ TRUE # FALSE /\ opt # "TM"
      /\ On \in {On, Twice} /\ Twice \in {On, Twice}
      /\ Message(TRUE) = Yes /\ Message(FALSE) = No
  BY DEF Message
<1>1. CASE h = Waiting
  <2>1. Chain(FALSE, w, q)
    BY <1>1, KindsDiffer, HalfKinds, Zenon
  <2>2. Head(q) = Message(TRUE) /\ Chain(TRUE, w, Tail(q))
    BY <1>0, <2>1, ChainTail, Zenon
  <2> QED
    BY <1>0, <1>1, <2>2, EchoUnheard, Zenon
<1>2. CASE h = On
  <2>1. Chain(TRUE, w, q)
    BY <1>2, KindsDiffer, HalfKinds, Zenon
  <2>2. Head(q) = Message(FALSE)
    BY <1>0, <2>1, ChainTail, Zenon
  <2>3. WontOption(On) = Result(Off, <<No>>)
    BY <1>0, HalfKinds, KindsBalanced, WontHeard, Zenon
  <2> QED
    BY <1>0, <1>2, <2>2, <2>3, Zenon
<1>3. CASE h = Twice
  <2>1. WeakChain(TRUE, w, q)
    BY <1>3, HalfKinds, Zenon
  <2>2. /\ Head(q) \in {Yes, No}
        /\ Head(q) = No => Chain(FALSE, w, Tail(q))
    BY <1>0, <2>1, WeakHead, Zenon
  <2>3. WillOption(Twice) = Result(Refusal, <<No>>)
    BY <1>0, EchoHeard, Zenon
  <2>4. CASE Head(q) = Yes
    BY <1>3, <2>3, <2>4, Zenon
  <2>5. CASE Head(q) = No
    BY <1>3, <2>2, <2>5, EchoTwice, Zenon
  <2> QED
    BY <2>2, <2>4, <2>5
<1> QED
  BY <1>1, <1>2, <1>3 DEF Asking

LEMMA AskingKinds ==
    /\ Waiting \in Asking /\ On \in Asking /\ Twice \in Asking
    /\ \A h \in Asking : h \in HalfState /\ h.want = TRUE /\ (h = Waiting \/ h = On \/ h = Twice)
  BY HalfKinds DEF Asking

LEMMA EchoAskedStep ==
    ASSUME TelnetTypeOK, Options, TelnetNext, opt = "ECHO", ~willOk, doOk, EchoAsked
    PROVE  EchoAsked' \/ EchoAgreed' \/ (phase' # "start" /\ WeRefuse')
<1>0. /\ his \in HalfState /\ my \in HalfState
      /\ toPeer \in Seq({Yes, No, Naws}) /\ toUs \in Seq({Yes, No, Naws})
      /\ TRUE \in BOOLEAN /\ FALSE \in BOOLEAN /\ opt # "TM"
      /\ "start" # "spin" /\ "run" # "start" /\ ~("ECHO" \in {"SGA", "other"})
      /\ Off \in {Off, Refusal} /\ Refusal \in {Off, Refusal}
      /\ On \in {On, Twice} /\ Twice \in {On, Twice}
  BY DEF TelnetTypeOK
<1>1. /\ phase = "spin" /\ his \in Asking /\ Balanced(my) /\ Started(toPeer)
      /\ Owes(my, Count(toUs, Yes) + (Len(toPeer) - 2) + Promised) /\ Heard
  BY Zenon DEF EchoAsked
<1>2. my.state = FALSE /\ my.resp \in Nat /\ Due(my) = my.resp
  <2>1. my.state = FALSE /\ my.resp \in Nat
    BY <1>0 DEF EchoAsked, HalfState
  <2> QED
    BY <1>0, <2>1, DueIs, Zenon
<1>3. Promised \in {0, 1} /\ (his = On => Promised = 1) /\ (his # On => Promised = 0)
  BY DEF Promised
<1>4. /\ Count(toPeer, No) = Len(toPeer) - 2 /\ Count(toPeer, Yes) = 1
      /\ Len(toPeer) - 2 \in Nat
  BY <1>0, <1>1, StartedCount, Zenon
<1>5. PICK c, e, d : c = Count(toUs, Yes) /\ e = Len(toPeer) - 2 /\ d = Promised
  OBVIOUS
<1>6. /\ c \in Nat /\ e \in Nat /\ d \in {0, 1}
      /\ my.resp <= 2 * (c + e + d) /\ 2 * (c + e + d) <= my.resp + 1
  <2>1. Count(toUs, Yes) \in Nat
    BY <1>0, CountNat, Zenon
  <2> QED
    BY <1>1, <1>3, <1>4, <1>5, <2>1, Zenon DEF Owes
<1>7. /\ IF his = Twice THEN WeakChain(his.state, my.want, toUs)
         ELSE Chain(his.state, my.want, toUs)
      /\ my.want \in BOOLEAN /\ his.state \in BOOLEAN
  <2>1. my.want \in BOOLEAN /\ his.state \in BOOLEAN
    BY <1>0 DEF HalfState
  <2> QED
    BY <1>1, <2>1, Zenon DEF Heard
<1>8. WeakChain(his.state, my.want, toUs)
  BY <1>7, ChainWeak, Zenon
\* telnetd refuses.
<1>9. ASSUME his' \in {Off, Refusal}, my' = my, toPeer' = toPeer \o <<No>>, opt' = opt,
             \/ Count(toUs', Yes) = c
             \/ Count(toUs', Yes) + 1 = c /\ d = 0 /\ Count(toUs', Yes) \in Nat
      PROVE  WeRefuse'
  <2>1. Count(toPeer', Yes) = 1 /\ Count(toPeer', No) = e + 1
    BY <1>0, <1>4, <1>5, <1>9, CountOut
  <2>2. my.resp <= 2 * (Count(toUs', Yes) + (e + 1))
    BY <1>2, <1>6, <1>9
  <2>3. 1 <= 1
    OBVIOUS
  <2> QED
    BY <1>1, <1>2, <1>9, <2>1, <2>2, <2>3, NowRefused, Zenon
<1>10. CASE RecvFromPeer
  <2>1. toUs # <<>> /\ toUs' = Tail(toUs) /\ my' = my /\ phase' = phase /\ opt' = opt
    BY <1>10, HearPeer, Zenon
  <2>2. /\ Head(toUs) = Yes => his' = WillOption(his).half /\ toPeer' = toPeer \o WillOption(his).out
        /\ Head(toUs) = No => his' = WontOption(his).half /\ toPeer' = toPeer \o WontOption(his).out
    BY <1>10, Words, HearPeer, Zenon
  <2>3. /\ Head(toUs) = Yes => c = Count(Tail(toUs), Yes) + 1
        /\ Head(toUs) # Yes => c = Count(Tail(toUs), Yes)
    BY <1>0, <1>5, <2>1, CountTail
  <2>4. Count(Tail(toUs), Yes) \in Nat
    <3>1. Tail(toUs) \in Seq({Yes, No, Naws})
      BY <1>0, <2>1, HeadTailProperties
    <3> QED
      BY <3>1, CountNat, Zenon
  <2>5. CASE his = Waiting /\ Head(toUs) = Yes /\ Chain(TRUE, my.want, Tail(toUs))
             /\ WillOption(his) = Result(On, <<>>)
    <3>1. PICK r : r = Result(On, <<>>)
      OBVIOUS
    <3>2. r.half = On /\ r.out = <<>>
      BY <3>1 DEF Result
    <3>3. his' = On /\ toPeer' = toPeer \o <<>>
      BY <2>2, <2>5, <3>1, <3>2, Zenon
    <3>4. toPeer' = toPeer
      BY <1>0, <3>3, Sent
    <3>5. Promised' = 1 /\ d = 0
      BY <1>3, <1>5, <2>5, <3>3, KindsDiffer, Zenon DEF Promised
    <3>6. c + e + d = Count(Tail(toUs), Yes) + e + 1
      BY <1>6, <2>3, <2>4, <2>5, <3>5
    <3>7. Owes(my, Count(Tail(toUs), Yes) + e + 1)
      BY <1>1, <1>5, <3>6, Zenon
    <3>8. Heard'
      BY <2>1, <2>5, <3>3, HalfKinds, KindsDiffer, Zenon DEF Heard
    <3>9. (Count(toUs, Yes) + (Len(toPeer) - 2) + Promised)' = Count(Tail(toUs), Yes) + e + 1
      BY <1>5, <2>1, <3>4, <3>5, Zenon
    <3> QED
      BY <1>1, <1>2, <2>1, <3>3, <3>4, <3>7, <3>8, <3>9, AskingKinds, Zenon DEF EchoAsked
  <2>6. CASE his = On /\ Head(toUs) = No /\ WontOption(his) = Result(Off, <<No>>)
    <3>1. PICK r : r = Result(Off, <<No>>)
      OBVIOUS
    <3>2. r.half = Off /\ r.out = <<No>>
      BY <3>1 DEF Result
    <3>3. his' = Off /\ toPeer' = toPeer \o <<No>>
      BY <2>2, <2>6, <3>1, <3>2, Zenon
    <3> QED
      BY <1>0, <1>1, <1>9, <2>1, <2>3, <2>6, <3>3, Words, Zenon
  <2>7. CASE his = Twice /\ Head(toUs) = Yes /\ WillOption(his) = Result(Refusal, <<No>>)
    <3>1. PICK r : r = Result(Refusal, <<No>>)
      OBVIOUS
    <3>2. r.half = Refusal /\ r.out = <<No>>
      BY <3>1 DEF Result
    <3>3. his' = Refusal /\ toPeer' = toPeer \o <<No>>
      BY <2>2, <2>7, <3>1, <3>2, Zenon
    <3>4. d = 0
      BY <1>3, <1>5, <2>7, KindsDiffer, Zenon
    <3> QED
      BY <1>0, <1>1, <1>9, <2>1, <2>3, <2>4, <2>7, <3>3, <3>4, Zenon
  <2>8. CASE his = Twice /\ Head(toUs) = No /\ Chain(FALSE, my.want, Tail(toUs))
             /\ WontOption(his) = Result(Waiting, <<>>)
    <3>1. PICK r : r = Result(Waiting, <<>>)
      OBVIOUS
    <3>2. r.half = Waiting /\ r.out = <<>>
      BY <3>1 DEF Result
    <3>3. his' = Waiting /\ toPeer' = toPeer \o <<>>
      BY <2>2, <2>8, <3>1, <3>2, Zenon
    <3>4. toPeer' = toPeer
      BY <1>0, <3>3, Sent
    <3>5. Promised' = 0 /\ d = 0
      BY <1>3, <1>5, <2>8, <3>3, KindsDiffer, Zenon DEF Promised
    <3>6. c = Count(Tail(toUs), Yes)
      BY <2>3, <2>8, Words, Zenon
    <3>7. Owes(my, Count(Tail(toUs), Yes) + e + 0)
      BY <1>1, <1>5, <3>5, <3>6, Zenon
    <3>8. Heard'
      BY <2>1, <2>8, <3>3, HalfKinds, KindsDiffer, Zenon DEF Heard
    <3>9. (Count(toUs, Yes) + (Len(toPeer) - 2) + Promised)' = Count(Tail(toUs), Yes) + e + 0
      BY <1>5, <2>1, <3>4, <3>5, Zenon
    <3> QED
      BY <1>1, <1>2, <2>1, <3>3, <3>4, <3>7, <3>8, <3>9, AskingKinds, Zenon DEF EchoAsked
  <2> QED
    BY <1>1, <1>7, <2>1, <2>5, <2>6, <2>7, <2>8, AskedHears, Zenon
<1>11. CASE RecvFromUs
  <2>1. toPeer # <<>> /\ toPeer' = Tail(toPeer) /\ his' = his /\ phase' = phase
    BY <1>11, HearUs, Zenon
  <2>9. Promised' = Promised
    BY <2>1, Zenon DEF Promised
  <2>2. CASE Head(toPeer) = No
    <3>1. Started(Tail(toPeer)) /\ Len(Tail(toPeer)) = Len(toPeer) - 1 /\ Len(toPeer) - 2 >= 1
      BY <1>0, <1>1, <2>2, StartedTail, Zenon
    <3>2. PICK r : r = DontOption(my)
      OBVIOUS
    <3>3. my' = r.half /\ toUs' = toUs \o r.out
      BY <1>11, <2>2, <3>2, Words, HearUs, Zenon
    <3>4. PICK i \in Nat : i = c + e + d
      BY <1>6
    <3>5. i >= 1 /\ i - 1 = c + (e - 1) + d /\ (i = 1 => c = 0)
      <4>1. e >= 1 /\ c \in Nat /\ e \in Nat /\ d \in {0, 1}
        BY <1>5, <1>6, <3>1, Zenon
      <4>2. i - 1 = c + (e - 1) + d
        BY <3>4, <4>1
      <4> QED
        BY <3>4, <4>1, <4>2
    <3>6. Owes(my, i)
      BY <1>1, <1>5, <3>4, Zenon
    <3>7. /\ Balanced(r.half) /\ r.half.state = FALSE /\ r.out = <<>>
          /\ Owes(r.half, i - 1)
          /\ r.half.want = my.want \/ (i = 1 /\ r.half.want = FALSE)
      BY <1>0, <1>1, <1>2, <3>2, <3>5, <3>6, OwesRefused, Zenon
    <3>8. toUs' = toUs
      BY <1>0, <3>3, <3>7, Sent
    <3>9. Len(Tail(toPeer)) - 2 = e - 1
      BY <1>4, <1>5, <3>1
    <3>10. (Count(toUs, Yes) + (Len(toPeer) - 2) + Promised)' = c + (e - 1) + d
      BY <1>5, <2>1, <2>9, <3>8, <3>9, Zenon
    <3>11. Heard'
      <4>1. CASE r.half.want = my.want
        BY <1>7, <2>1, <3>3, <3>8, <4>1, Zenon DEF Heard
      <4>2. CASE i = 1 /\ r.half.want = FALSE
        <5>1. Count(toUs, Yes) = 0
          BY <1>5, <3>5, <4>2, Zenon
        <5>2. CASE his = Twice
          <6>1. WeakChain(his.state, FALSE, toUs)
            BY <1>7, <1>8, <5>1, WeakOff, Zenon
          <6> QED
            BY <2>1, <3>3, <3>8, <4>2, <5>2, <6>1, Zenon DEF Heard
        <5>3. CASE his = Waiting
          <6>1. Chain(FALSE, my.want, toUs)
            BY <1>7, <5>3, HalfKinds, KindsDiffer, Zenon
          <6>2. my.want = FALSE
            BY <1>7, <5>1, <6>1, ChainOffNone, Zenon
          <6> QED
            BY <4>1, <4>2, <6>2, Zenon
        <5>4. CASE his = On
          <6>1. d = 1
            BY <1>3, <1>5, <5>4, Zenon
          <6>2. FALSE
            BY <1>6, <3>1, <3>4, <4>2, <6>1, <1>5
          <6> QED
            BY <6>2
        <5> QED
          BY <1>1, <5>2, <5>3, <5>4, AskingKinds, Zenon
      <4> QED
        BY <3>7, <4>1, <4>2, Zenon
    <3> QED
      BY <1>1, <2>1, <3>1, <3>3, <3>5, <3>7, <3>10, <3>11, Zenon DEF EchoAsked
  <2>3. CASE Head(toPeer) = Yes
    <3>1. Tail(toPeer) = <<Naws>> /\ e = 0
      <4>1. Tail(toPeer) = <<Naws>> /\ Len(toPeer) = 2
        BY <1>0, <1>1, <2>3, StartedTail, Zenon
      <4> QED
        BY <1>5, <4>1
    <3>2. PICK r : r = DoOption(my)
      OBVIOUS
    <3>3. my' = r.half /\ toUs' = toUs \o r.out
      BY <1>11, <2>3, <3>2, Words, HearUs, Zenon
    <3>4. Flips(my, TRUE, r.half, r.out)
      BY <1>0, <1>1, <1>2, <3>2, DoFlips, Zenon
    <3>5. r.half \in HalfState /\ r.half.state = TRUE /\ Balanced(r.half)
      BY <3>4, Zenon DEF Flips
    <3>6. CASE my.resp # 0 /\ r.half.want = my.want /\ r.half.resp = my.resp - 1 /\ r.out = <<>>
      <4>1. toUs' = toUs
        BY <1>0, <3>3, <3>6, Sent
      <4>2. r.half.resp + 1 <= 2 * (c + d)
        BY <1>2, <1>6, <3>1, <3>6
      <4>3. (Count(toUs, Yes) + Promised)' = c + d
        BY <1>5, <2>9, <4>1, Zenon
      <4>4. Heard'
        BY <1>7, <2>1, <3>3, <3>6, <4>1, Zenon DEF Heard
      <4> QED
        BY <1>1, <2>1, <3>1, <3>3, <3>5, <4>2, <4>3, <4>4, Zenon DEF EchoAgreed
    <3>7. CASE my.resp = 0 /\ my.want # TRUE /\ r.half.want = TRUE /\ r.half.resp = 0
               /\ r.out = <<Message(TRUE)>>
      <4>1. Message(TRUE) = Yes
        BY DEF Message
      <4>2. toUs' = Append(toUs, Message(TRUE)) /\ Count(toUs', Yes) = c + 1
        <5>1. toUs' = toUs \o <<Yes>>
          BY <3>3, <3>7, <4>1, Zenon
        <5>2. toUs \o <<Yes>> = Append(toUs, Yes)
          BY <1>0, Sent, Zenon
        <5>3. Count(toUs \o <<Yes>>, Yes) = Count(toUs, Yes) + 1
          BY <1>0, CountOut, Zenon
        <5> QED
          BY <1>5, <4>1, <5>1, <5>2, <5>3, Zenon
      <4>3. 0 + 1 <= 2 * ((c + 1) + d)
        BY <1>6
      <4>4. (Count(toUs, Yes) + Promised)' = (c + 1) + d
        BY <1>5, <2>9, <4>2, Zenon
      <4>5. TRUE # my.want
        BY <3>7
      <4>6. Heard'
        BY <1>0, <1>7, <2>1, <3>3, <3>7, <4>2, <4>5, ChainAppend, WeakAppend, Zenon DEF Heard
      <4> QED
        BY <1>1, <2>1, <3>1, <3>3, <3>5, <3>7, <4>3, <4>4, <4>6, Zenon DEF EchoAgreed
    <3> QED
      BY <3>4, <3>6, <3>7, Zenon DEF Flips
  <2> QED
    BY <1>11, <2>2, <2>3, HearUs, Zenon
<1>12. CASE Start
  BY <1>0, <1>1, <1>12, StartAsks, Zenon
<1>13. CASE AnswerNaws
  BY <1>0, <1>1, <1>13, StartedTail, NawsAnswered, Zenon
<1>14. CASE SpinEnds
  <2>1. toUs # <<>> => Head(toUs) # Naws
    BY <1>7, <1>8, WeakHead, Zenon
  <2>2. /\ his.state = his.want /\ toUs' = toUs /\ phase' = "run" /\ my' = my /\ opt' = opt
        /\ (his.want => his' = WillOption(his).half /\ toPeer' = toPeer \o WillOption(his).out)
    BY <1>1, <1>14, <2>1, SpinOver, Zenon
  <2>3. his \in {On, Twice} /\ his.want
    BY <1>0, <1>1, <2>2, AskingKinds, KindsDiffer, Zenon
  <2>4. PICK r : r = WillOption(his)
    OBVIOUS
  <2>5. r = Result(Refusal, <<No>>)
    BY <2>3, <2>4, EchoHeard, Zenon
  <2>6. r.half = Refusal /\ r.out = <<No>>
    BY <2>5 DEF Result
  <2>7. his' = Refusal /\ toPeer' = toPeer \o <<No>>
    BY <2>2, <2>3, <2>4, <2>6, Zenon
  <2> QED
    BY <1>0, <1>5, <1>9, <2>2, <2>7, Zenon
<1>15. ASSUME NEW new \in BOOLEAN, Request(new)
       PROVE  EchoAsked' \/ EchoAgreed' \/ (phase' # "start" /\ WeRefuse')
  BY <1>0, <1>15, AskPeer, Zenon
<1>16. ASSUME NEW new \in BOOLEAN, Offer(new)
       PROVE  EchoAsked' \/ EchoAgreed' \/ (phase' # "start" /\ WeRefuse')
  <2>1. PICK r : r = Ask(my, new, new)
    OBVIOUS
  <2>2. my' = r.half /\ toUs' = toUs \o r.out
        /\ toPeer' = toPeer /\ his' = his /\ phase' = phase
    BY <1>16, <2>1, OfferUs, Zenon
  <2>3. PICK i \in Nat : i = e + d
    BY <1>6
  <2>4. c + e + d = c + i
    BY <1>6, <2>3
  <2>5. Owes(my, Count(toUs, Yes) + i)
    BY <1>1, <1>5, <2>4, Zenon
  <2>6. /\ Balanced(r.half) /\ r.half.state = FALSE
        /\ Owes(r.half, Count(toUs \o r.out, Yes) + i)
    BY <1>0, <1>1, <1>2, <2>1, <2>5, OwesOffer, Zenon
  <2>7. Count(toUs', Yes) + e + d = Count(toUs', Yes) + i
    <3>1. toUs' \in Seq({Yes, No, Naws})
      BY <1>16, OfferUs, Zenon
    <3>2. Count(toUs', Yes) \in Nat
      BY <3>1, CountNat, Zenon
    <3> QED
      BY <1>6, <2>3, <3>2
  <2>8. (Count(toUs, Yes) + (Len(toPeer) - 2) + Promised)' = Count(toUs', Yes) + e + d
    BY <1>5, <2>2, Zenon DEF Promised
  <2>9. Heard'
    BY <1>0, <1>1, <1>7, <2>1, <2>2, ChainAsk, Zenon DEF Heard
  <2> QED
    BY <1>1, <2>2, <2>6, <2>7, <2>8, <2>9, Zenon DEF EchoAsked
<1> QED
  BY <1>10, <1>11, <1>12, <1>13, <1>14, <1>15, <1>16, Zenon DEF TelnetNext

\* The answer to DO NAWS is under way.
LEMMA AnsweredFrom ==
    ASSUME NEW h \in Asking, NEW w \in BOOLEAN, NEW q,
           IF h = Twice THEN WeakChain(h.state, w, q) ELSE Chain(h.state, w, q),
           h # On => Count(q, Yes) >= 1
    PROVE  Answered(h, Append(q, Naws))
<1>0. TRUE \in BOOLEAN /\ FALSE \in BOOLEAN /\ TRUE # FALSE
      /\ Message(TRUE) = Yes /\ Message(FALSE) = No
  BY DEF Message
<1>1. Alternates(q)
  BY Zenon DEF WeakChain, Chain
<1>2. q \in Seq({Yes, No}) /\ q \in Seq({Yes, No, Naws}) /\ Len(q) \in Nat
      /\ (q # <<>> => Head(q) = q[1] /\ Len(q) >= 1) /\ (q = <<>> => Len(q) = 0)
  BY <1>1 DEF Alternates
<1>3. \A i \in 1..(Len(q) - 1) : q[i] # q[i + 1]
  BY <1>1 DEF Alternates
<1>4. PICK p : p = Append(q, Naws)
  OBVIOUS
<1>5. Len(p) = Len(q) + 1 /\ p[Len(q) + 1] = Naws /\ \A i \in 1..Len(q) : p[i] = q[i]
  BY <1>2, <1>4
<1>6. \A i \in 1..Len(q) : q[i] \in {Yes, No}
  BY <1>2
<1>7. Count(q, Yes) >= 1 => \E i \in 1..Len(q) : q[i] = Yes
  <2>1. Count(q, Yes) = 0 <=> \A i \in 1..Len(q) : q[i] # Yes
    BY <1>2, CountNat, Zenon
  <2>2. Count(q, Yes) >= 1 => Count(q, Yes) # 0
    OBVIOUS
  <2> QED
    BY <2>1, <2>2, Zenon
<1>8. CASE h = Waiting
  <2>1. Chain(FALSE, w, q) /\ Count(q, Yes) >= 1
    BY <1>8, KindsDiffer, HalfKinds, Zenon
  <2>2. q # <<>>
    BY <1>2, <1>7, <2>1
  <2>3. q[1] = Yes /\ Len(q) >= 1
    BY <1>0, <1>2, <2>1, <2>2, ChainTail, Zenon
  <2>4. Len(p) >= 2 /\ p[1] = Yes
    BY <1>2, <1>5, <2>3
  <2>5. p[2] # Yes
    <3>1. CASE Len(q) = 1
      BY <1>5, <3>1, Words
    <3>2. CASE Len(q) # 1
      <4>1. 1 \in 1..(Len(q) - 1) /\ 2 \in 1..Len(q) /\ 1 + 1 = 2
        <5>1. \A m \in Nat : m >= 1 /\ m # 1 => 1 \in 1..(m - 1) /\ 2 \in 1..m
          OBVIOUS
        <5>2. Len(q) \in Nat /\ Len(q) >= 1 /\ Len(q) # 1 /\ 1 + 1 = 2
          BY <1>2, <2>3, <3>2
        <5> QED
          BY <5>1, <5>2, Zenon
      <4> QED
        BY <1>3, <1>5, <2>3, <4>1
    <3> QED
      BY <3>1, <3>2
  <2> QED
    BY <1>4, <1>8, <2>4, <2>5, KindsDiffer, Zenon DEF Answered
<1>9. CASE h = On
  <2>1. Chain(TRUE, w, q)
    BY <1>9, KindsDiffer, HalfKinds, Zenon
  <2>2. Len(p) >= 1
    BY <1>2, <1>5
  <2>3. p[1] # Yes
    <3>1. CASE q = <<>>
      BY <1>2, <1>5, <3>1, Words
    <3>2. CASE q # <<>>
      <4>1. q[1] = No /\ Len(q) >= 1
        BY <1>0, <1>2, <2>1, <3>2, ChainTail, Zenon
      <4> QED
        BY <1>2, <1>5, <4>1, Words
    <3> QED
      BY <3>1, <3>2
  <2> QED
    BY <1>4, <1>9, <2>2, <2>3, KindsDiffer, Zenon DEF Answered
<1>10. CASE h = Twice
  <2>1. \E i \in 1..Len(q) : q[i] = Yes
    BY <1>7, <1>10, KindsDiffer, Zenon
  <2>2. Len(q) >= 1 /\ Len(p) >= 1 /\ p[1] = q[1] /\ q[1] \in {Yes, No}
    BY <1>2, <1>5, <1>6, <2>1
  <2>3. CASE q[1] = Yes
    BY <1>4, <1>10, <2>2, <2>3, KindsDiffer, Zenon DEF Answered
  <2>4. CASE q[1] = No
    <3>1. Len(q) >= 2
      <4>1. PICK i \in 1..Len(q) : q[i] = Yes
        BY <2>1
      <4>2. i # 1
        BY <2>4, <4>1, Words
      <4> QED
        BY <1>2, <4>2
    <3>2. q[2] = Yes
      <4>1. 1 \in 1..(Len(q) - 1) /\ 2 \in 1..Len(q) /\ 1 + 1 = 2
        BY <1>2, <3>1
      <4> QED
        BY <1>3, <1>6, <2>4, <4>1
    <3>3. Len(p) >= 3 /\ p[2] = Yes
      BY <1>2, <1>5, <3>1, <3>2
    <3>4. p[3] # Yes
      <4>1. CASE Len(q) = 2
        BY <1>5, <4>1, Words
      <4>2. CASE Len(q) # 2
        <5>1. 2 \in 1..(Len(q) - 1) /\ 3 \in 1..Len(q) /\ 2 + 1 = 3
          <6>1. \A m \in Nat : m >= 2 /\ m # 2 => 2 \in 1..(m - 1) /\ 3 \in 1..m
            OBVIOUS
          <6>2. Len(q) \in Nat /\ Len(q) >= 2 /\ Len(q) # 2 /\ 2 + 1 = 3
            BY <1>2, <3>1, <4>2
          <6> QED
            BY <6>1, <6>2, Zenon
        <5> QED
          BY <1>3, <1>5, <3>2, <5>1
      <4> QED
        BY <4>1, <4>2
    <3> QED
      BY <1>4, <1>10, <2>2, <2>4, <3>3, <3>4, KindsDiffer, Zenon DEF Answered
  <2> QED
    BY <2>2, <2>3, <2>4
<1> QED
  BY <1>8, <1>9, <1>10, AskingKinds, Zenon

LEMMA AnsweredLonger ==
    ASSUME NEW h, NEW q \in Seq({Yes, No, Naws}), NEW o \in Seq({Yes, No, Naws}), Answered(h, q)
    PROVE  Answered(h, q \o o)
<1>1. PICK p : p = q \o o
  OBVIOUS
<1>2. Len(q) \in Nat /\ Len(o) \in Nat
  OBVIOUS
<1>3. Len(p) = Len(q) + Len(o)
      /\ \A i \in 1..(Len(q) + Len(o)) : p[i] = IF i <= Len(q) THEN q[i] ELSE o[i - Len(q)]
  BY <1>1, ConcatProperties
<1>4. \A i \in Nat : Len(q) >= i => Len(p) >= i
  BY <1>2, <1>3
<1>5. \A i \in 1..Len(q) : p[i] = q[i]
  BY <1>2, <1>3
<1>6. /\ Len(q) >= 1 => p[1] = q[1] /\ Len(p) >= 1
      /\ Len(q) >= 2 => p[1] = q[1] /\ p[2] = q[2] /\ Len(p) >= 2
      /\ Len(q) >= 3 => p[1] = q[1] /\ p[2] = q[2] /\ p[3] = q[3] /\ Len(p) >= 3
  BY <1>2, <1>4, <1>5
<1>7. Answered(h, p)
  BY <1>6, Zenon DEF Answered
<1> QED
  BY <1>1, <1>7

LEMMA AnsweredHears ==
    ASSUME opt = "ECHO", NEW h \in Asking, NEW q \in Seq({Yes, No, Naws}), q # <<>>,
           Answered(h, q)
    PROVE  /\ \/ /\ h = Waiting /\ Head(q) = Yes /\ Answered(On, Tail(q))
                 /\ WillOption(h) = Result(On, <<>>)
              \/ /\ h = On /\ Head(q) = No /\ WontOption(h) = Result(Off, <<No>>)
              \/ /\ h = Twice /\ Head(q) = Yes /\ WillOption(h) = Result(Refusal, <<No>>)
              \/ /\ h = Twice /\ Head(q) = No /\ Answered(Waiting, Tail(q))
                 /\ WontOption(h) = Result(Waiting, <<>>)
              \/ h = On /\ Head(q) = Naws
<1>0. opt # "TM" /\ On \in {On, Twice} /\ Twice \in {On, Twice}
  OBVIOUS
<1>1. /\ Head(q) = q[1] /\ q[1] \in {Yes, No, Naws} /\ Len(q) \in Nat /\ Len(q) >= 1
      /\ Len(Tail(q)) = Len(q) - 1
      /\ \A i \in 1..(Len(q) - 1) : Tail(q)[i] = q[i + 1]
  OBVIOUS
<1>2. PICK p : p = Tail(q)
  OBVIOUS
<1>3. /\ Len(q) >= 2 => Len(p) >= 1 /\ p[1] = q[2]
      /\ Len(q) >= 3 => Len(p) >= 2 /\ p[1] = q[2] /\ p[2] = q[3]
  <2>1. Len(q) >= 2 => Len(p) >= 1 /\ p[1] = q[2]
    BY <1>1, <1>2
  <2>2. Len(q) >= 3 => Len(p) >= 2 /\ p[1] = q[2] /\ p[2] = q[3]
    BY <1>1, <1>2
  <2> QED
    BY <2>1, <2>2
<1>4. CASE h = Waiting
  <2>1. Len(q) >= 2 /\ q[1] = Yes /\ q[2] # Yes
    BY <1>4, Zenon DEF Answered
  <2>2. Answered(On, p)
    BY <1>3, <2>1, KindsDiffer, Zenon DEF Answered
  <2> QED
    BY <1>1, <1>2, <1>4, <2>1, <2>2, EchoUnheard, Zenon
<1>5. CASE h = On
  <2>1. q[1] # Yes
    BY <1>5, Zenon DEF Answered
  <2>2. WontOption(On) = Result(Off, <<No>>)
    BY <1>0, HalfKinds, KindsBalanced, WontHeard, Zenon
  <2> QED
    BY <1>1, <1>5, <2>1, <2>2, Zenon
<1>6. CASE h = Twice
  <2>1. \/ q[1] = Yes
        \/ Len(q) >= 3 /\ q[1] = No /\ q[2] = Yes /\ q[3] # Yes
    BY <1>6, Zenon DEF Answered
  <2>2. q[1] = No => Answered(Waiting, p)
    BY <1>3, <2>1, Words, KindsDiffer, Zenon DEF Answered
  <2>3. WillOption(Twice) = Result(Refusal, <<No>>)
    BY <1>0, EchoHeard, Zenon
  <2> QED
    BY <1>1, <1>2, <1>6, <2>1, <2>2, <2>3, EchoTwice, Zenon
<1> QED
  BY <1>4, <1>5, <1>6, AskingKinds, Zenon

LEMMA EchoAgreedStep ==
    ASSUME TelnetTypeOK, Options, TelnetNext, opt = "ECHO", ~willOk, doOk, EchoAgreed
    PROVE  EchoAgreed' \/ (phase' # "start" /\ WeRefuse')
<1>0. /\ his \in HalfState /\ my \in HalfState
      /\ toPeer \in Seq({Yes, No, Naws}) /\ toUs \in Seq({Yes, No, Naws})
      /\ TRUE \in BOOLEAN /\ FALSE \in BOOLEAN /\ opt # "TM"
      /\ "start" # "spin" /\ "run" # "start" /\ ~("ECHO" \in {"SGA", "other"})
      /\ Off \in {Off, Refusal} /\ Refusal \in {Off, Refusal}
      /\ On \in {On, Twice} /\ Twice \in {On, Twice}
  BY DEF TelnetTypeOK
<1>1. /\ phase = "spin" /\ his \in Asking /\ Balanced(my)
      /\ my.resp + 1 <= 2 * (Count(toUs, Yes) + Promised)
      /\ \/ toPeer = <<Naws>> /\ Heard
         \/ toPeer = <<>> /\ Answered(his, toUs)
  BY Zenon DEF EchoAgreed
<1>2. my.state = TRUE /\ my.resp \in Nat /\ Due(my) = my.resp + 1
  <2>1. my.state = TRUE /\ my.resp \in Nat
    BY <1>0 DEF EchoAgreed, HalfState
  <2> QED
    BY <1>0, <2>1, DueIs, Zenon
<1>3. Promised \in {0, 1} /\ (his = On => Promised = 1) /\ (his # On => Promised = 0)
  BY DEF Promised
<1>4. Count(toPeer, Yes) = 0 /\ Count(toPeer, No) \in Nat
  <2>1. Count(<<>>, Yes) = 0
    BY CountEmpty
  <2>2. Count(Append(<<>>, Naws), Yes) = Count(<<>>, Yes)
    BY Outputs, CountOut, Zenon
  <2>3. Count(<<Naws>>, Yes) = 0
    BY <2>1, <2>2, Tuples, Zenon
  <2> QED
    BY <1>0, <1>1, <2>1, <2>3, CountNat, Zenon
<1>5. PICK c, d : c = Count(toUs, Yes) /\ d = Promised
  OBVIOUS
<1>6. c \in Nat /\ d \in {0, 1} /\ my.resp + 1 <= 2 * (c + d)
  <2>1. Count(toUs, Yes) \in Nat
    BY <1>0, CountNat, Zenon
  <2> QED
    BY <1>1, <1>3, <1>5, <2>1, Zenon
<1>7. my.want \in BOOLEAN /\ his.state \in BOOLEAN
  BY <1>0 DEF HalfState
<1>8. Heard => /\ IF his = Twice THEN WeakChain(his.state, my.want, toUs)
                  ELSE Chain(his.state, my.want, toUs)
               /\ WeakChain(his.state, my.want, toUs)
  BY <1>7, ChainWeak, Zenon DEF Heard
\* telnetd refuses.
<1>9. ASSUME his' \in {Off, Refusal}, my' = my, toPeer' = toPeer \o <<No>>, opt' = opt,
             \/ Count(toUs', Yes) = c
             \/ Count(toUs', Yes) + 1 = c /\ d = 0 /\ Count(toUs', Yes) \in Nat
      PROVE  WeRefuse'
  <2>1. Count(toPeer', Yes) = 0 /\ Count(toPeer', No) = Count(toPeer, No) + 1
    BY <1>0, <1>4, <1>9, CountOut
  <2>2. my.resp + 1 <= 2 * (Count(toUs', Yes) + (Count(toPeer, No) + 1))
    BY <1>2, <1>4, <1>6, <1>9
  <2>3. 0 <= 0
    OBVIOUS
  <2> QED
    BY <1>1, <1>2, <1>9, <2>1, <2>2, <2>3, NowRefused, Zenon
<1>10. CASE RecvFromPeer
  <2>1. toUs # <<>> /\ toUs' = Tail(toUs) /\ my' = my /\ phase' = phase /\ opt' = opt
        /\ Head(toUs) # Naws
    BY <1>10, HearPeer, Words, Zenon
  <2>2. /\ Head(toUs) = Yes => his' = WillOption(his).half /\ toPeer' = toPeer \o WillOption(his).out
        /\ Head(toUs) = No => his' = WontOption(his).half /\ toPeer' = toPeer \o WontOption(his).out
    BY <1>10, Words, HearPeer, Zenon
  <2>3. /\ Head(toUs) = Yes => c = Count(Tail(toUs), Yes) + 1
        /\ Head(toUs) # Yes => c = Count(Tail(toUs), Yes)
    BY <1>0, <1>5, <2>1, CountTail
  <2>4. Count(Tail(toUs), Yes) \in Nat
    <3>1. Tail(toUs) \in Seq({Yes, No, Naws})
      BY <1>0, <2>1, HeadTailProperties
    <3> QED
      BY <3>1, CountNat, Zenon
  <2>5. CASE /\ his = Waiting /\ Head(toUs) = Yes /\ WillOption(his) = Result(On, <<>>)
             /\ \/ toPeer = <<Naws>> /\ Chain(TRUE, my.want, Tail(toUs))
                \/ toPeer = <<>> /\ Answered(On, Tail(toUs))
    <3>1. PICK r : r = Result(On, <<>>)
      OBVIOUS
    <3>2. r.half = On /\ r.out = <<>>
      BY <3>1 DEF Result
    <3>3. his' = On /\ toPeer' = toPeer \o <<>>
      BY <2>2, <2>5, <3>1, <3>2, Zenon
    <3>4. toPeer' = toPeer
      BY <1>0, <3>3, Sent
    <3>5. Promised' = 1 /\ d = 0
      BY <1>3, <1>5, <2>5, <3>3, KindsDiffer, Zenon DEF Promised
    <3>6. c + d = Count(Tail(toUs), Yes) + 1
      BY <1>6, <2>3, <2>4, <2>5, <3>5
    <3>7. (Count(toUs, Yes) + Promised)' = Count(Tail(toUs), Yes) + 1
      BY <2>1, <3>5, Zenon
    <3>8. Chain(TRUE, my.want, Tail(toUs)) => Heard'
      BY <2>1, <3>3, HalfKinds, KindsDiffer, Zenon DEF Heard
    <3> QED
      BY <1>1, <1>2, <1>6, <2>1, <2>5, <3>3, <3>4, <3>6, <3>7, <3>8, AskingKinds, Zenon DEF EchoAgreed
  <2>6. CASE his = On /\ Head(toUs) = No /\ WontOption(his) = Result(Off, <<No>>)
    <3>1. PICK r : r = Result(Off, <<No>>)
      OBVIOUS
    <3>2. r.half = Off /\ r.out = <<No>>
      BY <3>1 DEF Result
    <3>3. his' = Off /\ toPeer' = toPeer \o <<No>>
      BY <2>2, <2>6, <3>1, <3>2, Zenon
    <3> QED
      BY <1>0, <1>1, <1>9, <2>1, <2>3, <2>6, <3>3, Words, Zenon
  <2>7. CASE his = Twice /\ Head(toUs) = Yes /\ WillOption(his) = Result(Refusal, <<No>>)
    <3>1. PICK r : r = Result(Refusal, <<No>>)
      OBVIOUS
    <3>2. r.half = Refusal /\ r.out = <<No>>
      BY <3>1 DEF Result
    <3>3. his' = Refusal /\ toPeer' = toPeer \o <<No>>
      BY <2>2, <2>7, <3>1, <3>2, Zenon
    <3>4. d = 0
      BY <1>3, <1>5, <2>7, KindsDiffer, Zenon
    <3> QED
      BY <1>0, <1>1, <1>9, <2>1, <2>3, <2>4, <2>7, <3>3, <3>4, Zenon
  <2>8. CASE /\ his = Twice /\ Head(toUs) = No /\ WontOption(his) = Result(Waiting, <<>>)
             /\ \/ toPeer = <<Naws>> /\ Chain(FALSE, my.want, Tail(toUs))
                \/ toPeer = <<>> /\ Answered(Waiting, Tail(toUs))
    <3>1. PICK r : r = Result(Waiting, <<>>)
      OBVIOUS
    <3>2. r.half = Waiting /\ r.out = <<>>
      BY <3>1 DEF Result
    <3>3. his' = Waiting /\ toPeer' = toPeer \o <<>>
      BY <2>2, <2>8, <3>1, <3>2, Zenon
    <3>4. toPeer' = toPeer
      BY <1>0, <3>3, Sent
    <3>5. Promised' = 0 /\ d = 0
      BY <1>3, <1>5, <2>8, <3>3, KindsDiffer, Zenon DEF Promised
    <3>6. c = Count(Tail(toUs), Yes)
      BY <2>3, <2>8, Words, Zenon
    <3>7. (Count(toUs, Yes) + Promised)' = c + d
      BY <2>1, <3>5, <3>6, Zenon
    <3>8. Chain(FALSE, my.want, Tail(toUs)) => Heard'
      BY <2>1, <3>3, HalfKinds, KindsDiffer, Zenon DEF Heard
    <3> QED
      BY <1>1, <1>2, <1>6, <2>1, <2>8, <3>3, <3>4, <3>7, <3>8, AskingKinds, Zenon DEF EchoAgreed
  <2>9. CASE toPeer = <<Naws>> /\ Heard
    BY <1>1, <1>7, <1>8, <2>1, <2>5, <2>6, <2>7, <2>8, <2>9, AskedHears, Zenon
  <2>10. CASE toPeer = <<>> /\ Answered(his, toUs)
    BY <1>0, <1>1, <2>1, <2>5, <2>6, <2>7, <2>8, <2>10, AnsweredHears, Zenon
  <2> QED
    BY <1>1, <2>9, <2>10
<1>11. CASE RecvFromUs
  <2>1. toPeer # <<>> /\ Head(toPeer) # Naws
    BY <1>11, HearUs, Words, Zenon
  <2> QED
    BY <1>1, <2>1, Tuples, Zenon
<1>12. CASE Start
  BY <1>0, <1>1, <1>12, StartAsks, Zenon
<1>13. CASE AnswerNaws
  <2>1. /\ toPeer # <<>> /\ toPeer' = Tail(toPeer) /\ toUs' = Append(toUs, Naws)
        /\ his' = his /\ my' = my /\ phase' = phase
    BY <1>13, NawsAnswered, Zenon
  <2>2. toPeer = <<Naws>> /\ Heard /\ toPeer' = <<>>
    BY <1>1, <2>1, Tuples, Zenon
  <2>3. his # On => Count(toUs, Yes) >= 1
    <3>1. his # On => d = 0
      BY <1>3, <1>5, Zenon
    <3>2. d = 0 => c >= 1
      BY <1>2, <1>6
    <3> QED
      BY <1>5, <3>1, <3>2, Zenon
  <2>4. Answered(his, Append(toUs, Naws))
    BY <1>1, <1>7, <1>8, <2>2, <2>3, AnsweredFrom, Zenon
  <2>5. Count(Append(toUs, Naws), Yes) = c
    BY <1>0, <1>5, CountOut, Zenon
  <2>6. (Count(toUs, Yes) + Promised)' = c + d
    BY <1>5, <2>1, <2>5, Zenon DEF Promised
  <2> QED
    BY <1>1, <1>2, <1>6, <2>1, <2>2, <2>4, <2>6, Zenon DEF EchoAgreed
<1>14. CASE SpinEnds
  <2>1. /\ \/ toUs # <<>> /\ Head(toUs) = Naws /\ toUs' = Tail(toUs)
           \/ his.state = his.want /\ toUs' = toUs
        /\ phase' = "run" /\ my' = my /\ opt' = opt
        /\ (his.want => his' = WillOption(his).half /\ toPeer' = toPeer \o WillOption(his).out)
    BY <1>1, <1>14, SpinOver, Zenon
  <2>2. toUs # <<>> /\ Head(toUs) = Naws => his = On
    <3>1. ASSUME toUs # <<>>, Head(toUs) = Naws, Heard PROVE FALSE
      BY <1>7, <1>8, <3>1, WeakHead, Zenon
    <3>2. ASSUME toUs # <<>>, Head(toUs) = Naws, Answered(his, toUs) PROVE his = On
      BY <1>0, <1>1, <3>2, AnsweredHears, Words, Zenon
    <3> QED
      BY <1>1, <3>1, <3>2, Zenon
  <2>3. his \in {On, Twice} /\ his.want
    BY <1>0, <1>1, <2>1, <2>2, AskingKinds, KindsDiffer, Zenon
  <2>4. PICK r : r = WillOption(his)
    OBVIOUS
  <2>5. r = Result(Refusal, <<No>>)
    BY <2>3, <2>4, EchoHeard, Zenon
  <2>6. r.half = Refusal /\ r.out = <<No>>
    BY <2>5 DEF Result
  <2>7. his' = Refusal /\ toPeer' = toPeer \o <<No>>
    BY <2>1, <2>3, <2>4, <2>6, Zenon
  <2>8. Count(toUs', Yes) = c
    <3>1. toUs # <<>> /\ Head(toUs) = Naws => Count(toUs, Yes) = Count(Tail(toUs), Yes)
      BY <1>0, Words, CountTail
    <3> QED
      BY <1>5, <2>1, <3>1, Zenon
  <2> QED
    BY <1>0, <1>9, <2>1, <2>7, <2>8, Zenon
<1>15. ASSUME NEW new \in BOOLEAN, Request(new)
       PROVE  EchoAgreed' \/ (phase' # "start" /\ WeRefuse')
  BY <1>0, <1>15, AskPeer, Zenon
<1>16. ASSUME NEW new \in BOOLEAN, Offer(new)
       PROVE  EchoAgreed' \/ (phase' # "start" /\ WeRefuse')
  <2>1. PICK r : r = Ask(my, new, new)
    OBVIOUS
  <2>2. my' = r.half /\ toUs' = toUs \o r.out /\ my' \in HalfState
        /\ toPeer' = toPeer /\ his' = his /\ phase' = phase
    BY <1>16, <2>1, OfferUs, Zenon
  <2>3. PICK q \in Seq({Yes, No, Naws}) : Count(q, No) = d
    <3>1. Count(<<>>, No) = 0
      BY CountEmpty
    <3>2. Count(<<>> \o <<No>>, No) = Count(<<>>, No) + 1
      BY Outputs, CountOut, Zenon
    <3>3. Count(<<No>>, No) = 1
      BY <3>1, <3>2, Tuples
    <3> QED
      BY <1>6, <3>1, <3>3, Outputs
  <2>4. Refusing(my, Off, toUs, q)
    BY <1>0, <1>1, <1>2, <1>5, <1>6, <2>3, Zenon DEF Refusing
  <2>5. Refusing(r.half, Off, toUs \o r.out, q) /\ r.half.state = TRUE
    BY <1>0, <1>2, <2>1, <2>4, AskerAsks, Zenon
  <2>6. Due(r.half) = r.half.resp + 1
    BY <2>2, <2>5, DueIs, Zenon
  <2>7. Balanced(r.half) /\ r.half.resp + 1 <= 2 * (Count(toUs \o r.out, Yes) + d)
    BY <2>3, <2>5, <2>6, Zenon DEF Refusing
  <2>8. Promised' = d
    BY <1>5, <2>2, Zenon DEF Promised
  <2>9. Heard => Heard'
    BY <1>0, <1>1, <1>7, <1>8, <2>1, <2>2, ChainAsk, Zenon DEF Heard
  <2>10. Answered(his, toUs) => Answered(his, toUs \o r.out)
    <3>1. r.out \in Seq({Yes, No, Naws})
      BY <1>0, <2>1, AskResult, Zenon DEF IsResult
    <3> QED
      BY <1>0, <3>1, AnsweredLonger, Zenon
  <2> QED
    BY <1>1, <2>2, <2>5, <2>7, <2>8, <2>9, <2>10, Zenon DEF EchoAgreed
<1> QED
  BY <1>10, <1>11, <1>12, <1>13, <1>14, <1>15, <1>16, Zenon DEF TelnetNext

-----------------------------------------------------------------------------
\* The invariant.

LEMMA OptionsKept ==
    ASSUME TelnetTypeOK, Options, TelnetNext
    PROVE  opt' = opt /\ willOk' = willOk /\ doOk' = doOk
  BY HearPeer, HearUs, StartAsks, NawsAnswered, SpinOver, AskPeer, OfferUs, Zenon DEF TelnetNext

LEMMA TelnetStart ==
    ASSUME ~AlreadyOn, TelnetInit
    PROVE  TelnetInv
<1>1. /\ opt \in {"ECHO", "SGA", "TM", "other"} /\ willOk \in BOOLEAN /\ doOk \in BOOLEAN
      /\ (opt \in {"ECHO", "TM"} => ~willOk) /\ (opt = "SGA" => doOk) /\ (opt = "TM" => ~doOk)
      /\ his = Off /\ turn_on_sga = 0 /\ toPeer = <<>> /\ toUs = <<>>
  BY DEF TelnetInit
<1>2. my = Off
  BY DEF TelnetInit
<1>3. phase = IF opt = "ECHO" THEN "start" ELSE "run"
  BY DEF TelnetInit
<1>4. TelnetTypeOK /\ Options
  <2>1. turn_on_sga \in {0, 1} /\ phase \in {"start", "spin", "run"}
    BY <1>1, <1>3
  <2> QED
    BY <1>1, <1>2, <2>1, HalfKinds, Outputs, Zenon DEF TelnetTypeOK, Options
<1>5. <<>> \in Seq({Yes, No}) /\ <<>> \in Seq({No}) /\ <<>> \in Seq({Yes}) /\ Len(<<>>) = 0
      /\ Count(<<>>, Yes) = 0 /\ Count(<<>>, No) = 0
  BY CountEmpty
<1>6. Alternates(<<>>)
  BY <1>5 DEF Alternates
<1>7. Chain(FALSE, FALSE, <<>>) /\ WeakChain(FALSE, FALSE, <<>>)
  BY <1>6, Zenon DEF Chain, WeakChain
<1>8. Off \in {Off, Refusal} /\ 0 + 0 = 0 + 0 /\ 0 <= 2 * (0 + 0) /\ 2 * (0 + 0) <= 0 + 1 /\ 0 <= 0
      /\ 0 = 0 + 0
  OBVIOUS
<1>9. Refusing(Off, Off, <<>>, <<>>)
  BY <1>5, <1>8, KindsBalanced, KindsDue, Zenon DEF Refusing
<1>10. CASE opt \in {"SGA", "other"} /\ willOk /\ doOk
  <2>1. phase = "run"
    BY <1>3, <1>10
  <2>2. BothAccept
    BY <1>1, <1>2, <1>5, <1>7, <1>8, HalfKinds, KindsBalanced, Zenon DEF BothAccept, Crossing
  <2> QED
    BY <1>4, <1>10, <2>1, <2>2, Zenon DEF TelnetInv, TelnetMode
<1>11. CASE opt \in {"SGA", "other"} /\ ~doOk
  <2>1. phase = "run" /\ opt = "other"
    BY <1>1, <1>3, <1>11
  <2>2. PeerRefuses
    BY <1>1, <1>2, <1>5, <1>9, HalfKinds, Zenon DEF PeerRefuses
  <2> QED
    BY <1>4, <1>11, <2>1, <2>2, Zenon DEF TelnetInv, TelnetMode
<1>12. CASE opt \in {"SGA", "other"} /\ ~willOk /\ doOk
  <2>1. phase = "run" /\ opt # "ECHO"
    BY <1>3, <1>12
  <2>2. WeRefuse
    BY <1>1, <1>2, <1>5, <1>8, <1>9, <2>1, HalfKinds, Zenon DEF WeRefuse
  <2> QED
    BY <1>4, <1>12, <2>1, <2>2, Zenon DEF TelnetInv, TelnetMode
<1>13. CASE opt = "TM"
  <2>1. phase = "run" /\ ~willOk /\ ~doOk
    BY <1>1, <1>3, <1>13
  <2>2. Off \in {Off, [Off EXCEPT !.resp = 1]}
    OBVIOUS
  <2>3. TimingMark
    BY <1>1, <1>2, <1>5, <1>8, <2>2, HalfKinds, Zenon DEF TimingMark
  <2> QED
    BY <1>4, <1>13, <2>1, <2>3, Zenon DEF TelnetInv, TelnetMode
<1>14. CASE opt = "ECHO" /\ doOk
  <2>1. phase = "start" /\ ~willOk
    BY <1>1, <1>3, <1>14
  <2>2. EchoStart
    BY <1>1, <1>2, <1>5, <1>7, <1>8, <2>1, HalfKinds, KindsBalanced, Zenon DEF EchoStart, Owes
  <2> QED
    BY <1>4, <1>14, <2>1, <2>2, Zenon DEF TelnetInv, TelnetMode
<1>15. CASE opt = "ECHO" /\ ~doOk
  <2>1. phase = "start" /\ ~willOk
    BY <1>1, <1>3, <1>15
  <2>2. EchoRefused
    BY <1>1, <1>2, <2>1, Zenon DEF EchoRefused
  <2> QED
    BY <1>4, <1>15, <2>1, <2>2, Zenon DEF TelnetInv, TelnetMode
<1> QED
  BY <1>1, <1>10, <1>11, <1>12, <1>13, <1>14, <1>15

LEMMA TelnetStep ==
    ASSUME TelnetInv, [TelnetNext]_telnetvars
    PROVE  TelnetInv'
<1>1. CASE UNCHANGED telnetvars
  BY <1>1 DEF telnetvars, TelnetInv, TelnetTypeOK, Options, TelnetMode, BothAccept, PeerRefuses,
     WeRefuse, TimingMark, EchoStart, EchoAsked, EchoAgreed, EchoRefused, Promised, Heard
<1>2. CASE TelnetNext
  <2>0. /\ "start" # "run" /\ "spin" # "start" /\ "run" # "start"
        /\ "ECHO" \in {"SGA", "other", "ECHO"}
        /\ \A x \in {"SGA", "other"} : x \in {"SGA", "other", "ECHO"}
    OBVIOUS
  <2>1. TelnetTypeOK /\ Options /\ TelnetMode
    BY Zenon DEF TelnetInv
  <2>2. TelnetTypeOK' /\ Options' /\ opt' = opt /\ willOk' = willOk /\ doOk' = doOk
    BY <1>2, <2>1, TypeStep, OptionsKept, Zenon
  <2>3. ASSUME opt \in {"SGA", "other"}, willOk, doOk, phase = "run", BothAccept
        PROVE  TelnetMode'
    BY <1>2, <2>1, <2>2, <2>3, BothStep, Zenon DEF TelnetMode
  <2>4. ASSUME opt = "other", ~doOk, phase = "run", PeerRefuses
        PROVE  TelnetMode'
    BY <1>2, <2>1, <2>2, <2>4, PeerStep, Zenon DEF TelnetMode
  <2>5. ASSUME opt \in {"SGA", "other"}, ~willOk, doOk, phase = "run", WeRefuse
        PROVE  TelnetMode'
    BY <1>2, <2>0, <2>1, <2>2, <2>5, WeStep, Zenon DEF TelnetMode
  <2>6. ASSUME opt = "TM", ~willOk, ~doOk, phase = "run", TimingMark
        PROVE  TelnetMode'
    BY <1>2, <2>1, <2>2, <2>6, MarkStep, Zenon DEF TelnetMode
  <2>7. ASSUME opt = "ECHO", ~willOk, doOk, EchoStart
        PROVE  TelnetMode'
    BY <1>2, <2>1, <2>2, <2>7, EchoStartStep, Zenon DEF TelnetMode
  <2>8. ASSUME opt = "ECHO", ~willOk, doOk, EchoAsked
        PROVE  TelnetMode'
    BY <1>2, <2>1, <2>2, <2>8, EchoAskedStep, Zenon DEF TelnetMode
  <2>9. ASSUME opt = "ECHO", ~willOk, doOk, EchoAgreed
        PROVE  TelnetMode'
    BY <1>2, <2>1, <2>2, <2>9, EchoAgreedStep, Zenon DEF TelnetMode
  <2>10. ASSUME opt = "ECHO", ~willOk, doOk, phase # "start", WeRefuse
         PROVE  TelnetMode'
    BY <1>2, <2>0, <2>1, <2>2, <2>10, WeStep, Zenon DEF TelnetMode
  <2>11. ASSUME opt = "ECHO", ~willOk, ~doOk, EchoRefused
         PROVE  TelnetMode'
    BY <1>2, <2>1, <2>2, <2>11, EchoRefusedStep, Zenon DEF TelnetMode
  <2>12. TelnetMode'
    BY <2>1, <2>3, <2>4, <2>5, <2>6, <2>7, <2>8, <2>9, <2>10, <2>11, Zenon DEF TelnetMode
  <2> QED
    BY <2>2, <2>12, Zenon DEF TelnetInv
<1> QED
  BY <1>1, <1>2

\* The invariant of the negotiation (state.c): in every one of its phases the
\* answers that an end waits for are matched by what is under way.
THEOREM TelnetInvariant ==
    ASSUME ~AlreadyOn
    PROVE  TelnetSpec => []TelnetInv
<1>1. TelnetInit => TelnetInv
  BY TelnetStart
<1>2. TelnetInv /\ [TelnetNext]_telnetvars => TelnetInv'
  BY TelnetStep
<1> QED
  BY <1>1, <1>2, PTL DEF TelnetSpec

-----------------------------------------------------------------------------
\* What it implies.

\* An end to which no answer is due wants nothing that it has not got.
LEMMA NothingDue ==
    ASSUME NEW h \in HalfState, NEW g, Refusing(h, g, <<>>, <<>>)
    PROVE  h.want = FALSE /\ g.want = FALSE
<1>1. Due(h) <= 2 * (Count(<<>>, Yes) + Count(<<>>, No)) /\ Balanced(h) /\ g \in {Off, Refusal}
  BY Zenon DEF Refusing
<1>2. Due(h) <= 0
  <2>1. Count(<<>>, Yes) = 0 /\ Count(<<>>, No) = 0
    BY CountEmpty
  <2> QED
    BY <1>1, <2>1
<1>3. h.state \in BOOLEAN /\ h.resp \in Nat
  BY DEF HalfState
<1>4. h.state # TRUE
  <2>1. ASSUME h.state = TRUE PROVE FALSE
    <3>1. h.resp + 1 <= 0
      BY <1>2, <2>1, DueIs, Zenon
    <3> QED
      BY <1>3, <3>1
  <2> QED
    BY <2>1
<1>5. h.state = FALSE
  BY <1>3, <1>4
<1>6. h.resp <= 0
  BY <1>2, <1>5, DueIs, Zenon
<1>7. h.resp = 0
  BY <1>3, <1>6
<1> QED
  BY <1>1, <1>5, <1>7, BalancedIs, RefuserKinds, Zenon

LEMMA QuietOff ==
    ASSUME TelnetInv, Quiet
    PROVE  \/ his.want = FALSE /\ my.want = FALSE
           \/ willOk /\ doOk /\ BothAccept
<1>0. his \in HalfState /\ my \in HalfState /\ "start" # "run" /\ "spin" # "run"
  BY DEF TelnetInv, TelnetTypeOK
<1>1. toPeer = <<>> /\ toUs = <<>> /\ phase = "run" /\ TelnetMode
  BY Zenon DEF Quiet, TelnetInv
<1>2. CASE willOk /\ doOk /\ BothAccept
  BY <1>2
<1>3. CASE PeerRefuses
  BY <1>0, <1>1, <1>3, NothingDue, Zenon DEF PeerRefuses
<1>4. CASE WeRefuse
  BY <1>0, <1>1, <1>4, NothingDue, Zenon DEF WeRefuse
<1>5. CASE TimingMark
  <2>1. [Off EXCEPT !.resp = 1].want = FALSE /\ Off.want = FALSE
    BY DEF Off
  <2> QED
    BY <1>5, <2>1, Zenon DEF TimingMark
<1>6. CASE EchoRefused
  BY <1>0, <1>1, <1>6, HalfKinds, Zenon DEF EchoRefused
<1> QED
  BY <1>0, <1>1, <1>2, <1>3, <1>4, <1>5, <1>6, Zenon DEF TelnetMode, EchoStart, EchoAsked, EchoAgreed

LEMMA InvAgreement ==
    ASSUME TelnetInv
    PROVE  Agreement
<1>0. his \in HalfState /\ my \in HalfState
  BY DEF TelnetInv, TelnetTypeOK
<1>1. SUFFICES ASSUME Quiet PROVE my.want = his.want /\ (my.want => my = On /\ his = On)
  BY DEF Agreement
<1>2. CASE his.want = FALSE /\ my.want = FALSE
  BY <1>2
<1>3. CASE BothAccept
  <2>1. Crossing(his, my, <<>>, <<>>)
    BY <1>1, <1>3, Zenon DEF BothAccept, Quiet
  <2>2. my.state = his.want /\ his.state = my.want /\ Balanced(his) /\ Balanced(my)
    BY <2>1, Zenon DEF Crossing, Chain
  <2>3. his.resp = 0 /\ my.resp = 0
    <3>1. his.resp + my.resp = Len(<<>>) + Len(<<>>)
      BY <2>1, Zenon DEF Crossing
    <3>2. his.resp \in Nat /\ my.resp \in Nat /\ Len(<<>>) = 0
      BY <1>0 DEF HalfState
    <3> QED
      BY <3>1, <3>2
  <2>4. his.want = his.state /\ my.want = my.state
    BY <1>0, <2>2, <2>3, BalancedIs, Zenon
  <2>5. my.want = his.want
    BY <2>2, <2>4, Zenon
  <2>6. ASSUME my.want PROVE my = On /\ his = On
    <3>1. my.want = TRUE /\ my.state = TRUE /\ his.want = TRUE /\ his.state = TRUE
      BY <1>0, <2>2, <2>4, <2>6 DEF HalfState
    <3>2. my = [state |-> my.state, want |-> my.want, resp |-> my.resp]
          /\ his = [state |-> his.state, want |-> his.want, resp |-> his.resp]
      BY <1>0, HalfIs, Zenon
    <3>3. my = [state |-> TRUE, want |-> TRUE, resp |-> 0]
          /\ his = [state |-> TRUE, want |-> TRUE, resp |-> 0]
      BY <2>3, <3>1, <3>2, Zenon
    <3> QED
      BY <3>3, Zenon DEF On
  <2> QED
    BY <2>5, <2>6
<1> QED
  BY <1>1, <1>2, <1>3, QuietOff, Zenon

\* Agreement of telnetd and its peer on an option when nothing is under way
\* (willoption(), wontoption(), dooption() and dontoption() of state.c), for
\* any number of requests of both ends.
THEOREM TelnetAgreement ==
    ASSUME ~AlreadyOn
    PROVE  TelnetSpec => []Agreement
<1>1. TelnetInv => Agreement
  BY InvAgreement
<1> QED
  BY <1>1, TelnetInvariant, PTL

LEMMA InvConsent ==
    ASSUME TelnetInv
    PROVE  Consent
<1>1. SUFFICES ASSUME Quiet, his.want PROVE willOk /\ doOk
  BY DEF Consent
<1>2. his.want # FALSE
  BY <1>1
<1> QED
  BY <1>1, <1>2, QuietOff, Zenon

\* An option that one of the ends does not accept is off when nothing is under
\* way, also ECHO, for which telnetd only asks (changeok in state.c).
THEOREM TelnetConsent ==
    ASSUME ~AlreadyOn
    PROVE  TelnetSpec => []Consent
<1>1. TelnetInv => Consent
  BY InvConsent
<1> QED
  BY <1>1, TelnetInvariant, PTL

LEMMA KindsAnswers ==
    /\ \A g \in {Off, Refusal} : g.resp \in Nat /\ g.resp <= 1
    /\ \A g \in Asking : g.resp \in Nat /\ g.resp <= 2
<1>1. Off.resp = 0 /\ Refusal.resp = 1 /\ Waiting.resp = 1 /\ On.resp = 0 /\ Twice.resp = 2
  BY HalfKinds
<1>2. ASSUME NEW g \in {Off, Refusal} PROVE g.resp \in {0, 1}
  BY <1>1
<1>3. ASSUME NEW g \in Asking PROVE g.resp \in {0, 1, 2}
  BY <1>1, <1>3 DEF Asking
<1> QED
  BY <1>2, <1>3

LEMMA RefusingCounts ==
    ASSUME NEW h \in HalfState, NEW g, NEW p \in Seq({Yes, No, Naws}),
           NEW q \in Seq({Yes, No, Naws}), Refusing(h, g, p, q)
    PROVE  h.resp <= 2 * (Len(p) + Len(q)) + 1 /\ g.resp <= 2 * (Len(p) + Len(q)) + 1
<1>1. Due(h) <= 2 * (Count(p, Yes) + Count(q, No)) /\ g \in {Off, Refusal}
  BY Zenon DEF Refusing
<1>2. /\ Count(p, Yes) \in Nat /\ Count(q, No) \in Nat
      /\ Count(p, Yes) <= Len(p) /\ Count(q, No) <= Len(q)
  BY CountNat, Zenon
<1>3. Len(p) \in Nat /\ Len(q) \in Nat /\ h.resp \in Nat
  BY DEF HalfState
<1>4. Due(h) \in Nat /\ h.resp <= Due(h)
  <2>1. Due(h) = h.resp \/ Due(h) = h.resp + 1
    <3>1. h.state = TRUE \/ h.state = FALSE
      BY DEF HalfState
    <3> QED
      BY <3>1, DueIs, Zenon
  <2> QED
    BY <1>3, <2>1
<1>5. g.resp \in Nat /\ g.resp <= 1
  BY <1>1, KindsAnswers, Zenon
<1>6. h.resp <= 2 * (Len(p) + Len(q)) + 1
  BY <1>1, <1>2, <1>3, <1>4
<1>7. g.resp <= 2 * (Len(p) + Len(q)) + 1
  BY <1>3, <1>5
<1> QED
  BY <1>6, <1>7

LEMMA InvCounted ==
    ASSUME TelnetInv
    PROVE  Counted
<1> DEFINE Few == /\ his.resp <= 2 * (Len(toPeer) + Len(toUs)) + 1
                  /\ my.resp <= 2 * (Len(toPeer) + Len(toUs)) + 1
<1>0. /\ TelnetTypeOK /\ his \in HalfState /\ my \in HalfState
      /\ toPeer \in Seq({Yes, No, Naws}) /\ toUs \in Seq({Yes, No, Naws})
  BY DEF TelnetInv, TelnetTypeOK
<1>1. his.resp \in Nat /\ my.resp \in Nat /\ Len(toPeer) \in Nat /\ Len(toUs) \in Nat
  BY <1>0 DEF HalfState
<1>2. Count(toUs, Yes) \in Nat /\ Count(toUs, Yes) <= Len(toUs)
  BY <1>0, CountNat, Zenon
<1>3. ASSUME BothAccept PROVE Few
  <2>1. his.resp + my.resp = Len(toPeer) + Len(toUs)
    BY <1>3, Zenon DEF BothAccept, Crossing
  <2> QED
    BY <1>1, <2>1
<1>4. ASSUME PeerRefuses PROVE Few
  BY <1>0, <1>4, RefusingCounts, Zenon DEF PeerRefuses
<1>5. ASSUME WeRefuse PROVE Few
  <2>1. /\ my.resp <= 2 * (Len(toUs) + Len(toPeer)) + 1
        /\ his.resp <= 2 * (Len(toUs) + Len(toPeer)) + 1
    BY <1>0, <1>5, RefusingCounts, Zenon DEF WeRefuse
  <2>2. Len(toUs) + Len(toPeer) = Len(toPeer) + Len(toUs)
    BY <1>1
  <2> QED
    BY <2>1, <2>2, Zenon
<1>6. ASSUME TimingMark PROVE Few
  <2>1. his.resp = Len(toPeer) + Len(toUs) /\ my.resp = 0
    BY <1>6, HalfKinds, Zenon DEF TimingMark
  <2> QED
    BY <1>1, <2>1
<1>7. ASSUME EchoStart PROVE Few
  <2>1. my.resp <= 2 * (Count(toUs, Yes) + Len(toPeer)) /\ his.resp <= 1
    BY <1>7, KindsAnswers, Zenon DEF EchoStart, Owes
  <2> QED
    BY <1>1, <1>2, <2>1
<1>8. ASSUME EchoAsked PROVE Few
  <2>1. /\ my.resp <= 2 * (Count(toUs, Yes) + (Len(toPeer) - 2) + Promised)
        /\ his.resp <= 2 /\ Len(toPeer) >= 2
    BY <1>8, KindsAnswers, Zenon DEF EchoAsked, Owes, Started
  <2>2. PICK d : d = Promised
    OBVIOUS
  <2>3. d \in {0, 1}
    BY <2>2 DEF Promised
  <2>4. my.resp <= 2 * (Count(toUs, Yes) + (Len(toPeer) - 2) + d)
    BY <2>1, <2>2, Zenon
  <2> QED
    BY <1>1, <1>2, <2>1, <2>3, <2>4, SMTT(60)
<1>9. ASSUME EchoAgreed PROVE Few
  <2>1. my.resp + 1 <= 2 * (Count(toUs, Yes) + Promised) /\ his.resp <= 2
    BY <1>9, KindsAnswers, Zenon DEF EchoAgreed
  <2>2. PICK d : d = Promised
    OBVIOUS
  <2>3. d \in {0, 1}
    BY <2>2 DEF Promised
  <2>4. my.resp + 1 <= 2 * (Count(toUs, Yes) + d)
    BY <2>1, <2>2, Zenon
  <2>5. Len(toPeer) >= 1 \/ Len(toUs) >= 1
    <3>1. Len(<<Naws>>) >= 1
      OBVIOUS
    <3>2. \A m \in Nat : m >= 2 \/ m >= 3 => m >= 1
      OBVIOUS
    <3>3. ASSUME Answered(his, toUs) PROVE Len(toUs) >= 1
      BY <1>1, <1>9, <3>2, <3>3, AskingKinds, Zenon DEF Answered, EchoAgreed
    <3> QED
      BY <1>9, <3>1, <3>3, Zenon DEF EchoAgreed
  <2> QED
    BY <1>1, <1>2, <2>1, <2>3, <2>4, <2>5, SMTT(60)
<1>10. ASSUME EchoRefused PROVE Few
  <2>1. Off.resp = 0 /\ Refusal.resp = 1 /\ Waiting.resp = 1
    BY HalfKinds
  <2>2. his \in {Off, Waiting} /\ my \in {Off, Refusal}
    BY <1>10 DEF EchoRefused
  <2>3. his.resp \in {0, 1} /\ my.resp \in {0, 1}
    BY <2>1, <2>2
  <2> QED
    BY <1>1, <2>3
<1>11. TelnetMode
  BY Zenon DEF TelnetInv
<1>12. Few
  <2> HIDE DEF Few
  <2> QED
    BY <1>3, <1>4, <1>5, <1>6, <1>7, <1>8, <1>9, <1>10, <1>11, Zenon DEF TelnetMode
<1> QED
  BY <1>0, <1>12, Zenon DEF Counted

\* do_dont_resp and will_wont_resp stay in step with what is under way
\* (state.c), for any number of requests of both ends.
THEOREM TelnetCounted ==
    ASSUME ~AlreadyOn
    PROVE  TelnetSpec => []Counted
<1>1. TelnetInv => Counted
  BY InvCounted
<1> QED
  BY <1>1, TelnetInvariant, PTL
=============================================================================
