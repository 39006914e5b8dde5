--------------------------- MODULE DumpTapeProofs ---------------------------
(***************************************************************************)
(* Proofs about DumpTape: type correctness and the passing of the turn     *)
(* round the ring of slaves, for any number of slaves, any block size and  *)
(* any behaviour of the tape drive; and that no record is lost at the end  *)
(* of a tape, for drives that stop at a short write.                       *)
(***************************************************************************)
EXTENDS DumpTape, TLAPS, SequenceTheorems

USE SlavesAssumption, RecAssumption, TapeAssumption, BoundAssumption

\* What a slave knows at the points between setjmp() and the end of its turn.
Alert ==
    \A s \in Slaves :
        /\ spc[s] \in {"test", "pause"} => ready[s]
        /\ spc[s] \in {"pause", "write", "pass"} => ~caught[s]

\* The ring is sound whatever the master does.
RingInv == OneTurn /\ Alert

\* What keeps the context and the list of volumes well formed.
ContextInv ==
    /\ mpc = "newtape" => why \in {"size", "roll"}
    /\ checkpoint.vols <= Len(vols)
    /\ (\E s \in Slaves : spc[s] # "dead") => vols # <<>>

IInv == TypeOK /\ RingInv /\ ContextInv

-----------------------------------------------------------------------------
\* The neighbours of a slave in the ring are slaves.
LEMMA RingType == \A s \in Slaves : Succ(s) \in Slaves /\ Pred(s) \in Slaves
  BY DEF Slaves, Succ, Pred

\* alloctape() sets up a state that satisfies the invariant.
LEMMA InitInv == Init => IInv
<1> SUFFICES ASSUME Init PROVE IInv
  OBVIOUS
<1> USE DEF Init
<1>1. 0 \in Slaves
  BY DEF Slaves
<1>2. <<>> \in Blocks /\ <<>> \in Seq(Volume) /\ Len(<<>>) = 0
  BY DEF Blocks
<1>3. block \in [Slaves -> Blocks] /\ firstrec \in [Slaves -> Nat]
  BY <1>2
<1>4. checkpoint \in Context
  <2>1. \A b \in [Slaves -> Blocks], f \in [Slaves -> Nat] :
           [slp |-> 0, block |-> b, firstrec |-> f, next |-> 1,
            why |-> "size", vols |-> 0] \in Context
    BY <1>1 DEF Context
  <2> QED
    BY <1>3, <2>1
<1>5. TypeOK
  <2>1. /\ spc \in [Slaves -> {"read", "lock", "test", "pause", "clrready",
                               "clrcaught", "write", "pass", "dead"}]
        /\ ready \in [Slaves -> BOOLEAN] /\ caught \in [Slaves -> BOOLEAN]
        /\ usr2 \in [Slaves -> BOOLEAN] /\ sent \in [Slaves -> BOOLEAN]
        /\ reply \in [Slaves -> {"none", "full", "short"}]
    OBVIOUS
  <2>2. pipe \in [Slaves -> Blocks] /\ buffer \in [Slaves -> Blocks]
    BY <1>2
  <2>3. vols \in Seq(Volume) /\ hups \in 0 .. MaxHups
    BY <1>2
  <2>4. /\ mpc = "newtape" /\ why = "size" /\ slp \in Slaves /\ next \in Nat
        /\ blocksthisvol \in Nat /\ dumpdates \in BOOLEAN
    BY <1>1
  <2> QED
    BY <1>3, <1>4, <2>1, <2>2, <2>3, <2>4 DEF TypeOK
<1>6. RingInv
  BY <1>1 DEF RingInv, OneTurn, Alert, HasTurn, Writing
<1>7. ContextInv
  BY <1>2 DEF ContextInv
<1> QED
  BY <1>5, <1>6, <1>7 DEF IInv

-----------------------------------------------------------------------------
(* The ring.                                                               *)

\* A step that starts new slaves gives the turn to one of them.
LEMMA RingEnslave == ASSUME TypeOK, enslave PROVE RingInv'
<1> USE DEF enslave, FirstCaught
<1>1. slp \in Slaves
  BY DEF TypeOK
<1>2. \A s \in Slaves : HasTurn(s)' <=> s = slp
  BY DEF HasTurn, Writing
<1>3. OneTurn'
  BY <1>1, <1>2 DEF OneTurn, HasTurn, Writing
<1>4. Alert'
  BY DEF Alert
<1> QED
  BY <1>3, <1>4 DEF RingInv

\* When the slaves are killed nobody writes any more.
LEMMA RingQuit ==
  ASSUME TypeOK, RingInv, quit, UNCHANGED <<ready, caught, usr2>>
  PROVE RingInv'
<1> USE DEF quit
<1>1. \A s \in Slaves : HasTurn(s)' => HasTurn(s)
  BY DEF HasTurn, Writing
<1>2. \E s \in Slaves : spc'[s] = "dead"
  BY DEF TypeOK
<1>3. OneTurn'
  BY <1>1, <1>2 DEF RingInv, OneTurn, HasTurn, Writing
<1>4. Alert'
  BY DEF Alert
<1> QED
  BY <1>3, <1>4 DEF RingInv

\* Every other step of the master leaves the ring alone.
LEMMA RingSame ==
  ASSUME RingInv, UNCHANGED <<spc, ready, caught, usr2>>
  PROVE RingInv'
  BY DEF RingInv, OneTurn, Alert, HasTurn, Writing

\* The steps of a slave keep the turn in one place.
LEMMA RingSlave ==
  ASSUME TypeOK, RingInv, NEW s \in Slaves, Slave(s) \/ proceed(s)
  PROVE RingInv'
<1> USE DEF RingInv, TypeOK, Goto
<1>1. CASE SlaveRead(s)
  BY <1>1 DEF SlaveRead, mvars, OneTurn, Alert, HasTurn, Writing
<1>2. CASE SlaveExit(s)
  BY <1>2 DEF SlaveExit, mvars, OneTurn, Alert, HasTurn, Writing
<1>3. CASE SlaveReady(s)
  BY <1>3 DEF SlaveReady, mvars, OneTurn, Alert, HasTurn, Writing
<1>4. CASE SlaveTest(s)
  BY <1>4 DEF SlaveTest, mvars, OneTurn, Alert, HasTurn, Writing
<1>5. CASE SlaveClearReady(s)
  BY <1>5 DEF SlaveClearReady, mvars, OneTurn, Alert, HasTurn, Writing
<1>6. CASE SlaveClearCaught(s)
  BY <1>6 DEF SlaveClearCaught, mvars, OneTurn, Alert, HasTurn, Writing
<1>7. CASE proceed(s)
  BY <1>7 DEF proceed, Proceeds, mvars, OneTurn, Alert, HasTurn, Writing
<1>8. CASE SlaveWrite(s)
  BY <1>8 DEF SlaveWrite, mvars, OneTurn, Alert, HasTurn, Writing
<1>9. CASE \E m \in 0 .. Len(buffer[s]), c \in Causes : SlaveWriteShort(s, m, c)
  BY <1>9 DEF SlaveWriteShort, mvars, OneTurn, Alert, HasTurn, Writing
<1>10. CASE SlavePass(s)
  <2>1. Succ(s) \in Slaves
    BY RingType
  <2>2. \A t \in Slaves : HasTurn(t)' <=> t = Succ(s)
    BY <1>10, <2>1 DEF SlavePass, mvars, OneTurn, Alert, HasTurn, Writing
  <2>3. OneTurn'
    BY <1>10, <2>1, <2>2 DEF SlavePass, mvars, OneTurn, Alert, HasTurn, Writing
  <2>4. Alert'
    BY <1>10 DEF SlavePass, mvars, Alert
  <2> QED
    BY <2>3, <2>4
<1> QED
  BY <1>1, <1>2, <1>3, <1>4, <1>5, <1>6, <1>7, <1>8, <1>9, <1>10 DEF Slave

\* Every step of dump keeps the ring sound.
LEMMA RingStep == ASSUME TypeOK, RingInv, [Next]_vars PROVE RingInv'
<1>1. CASE Master
  <2>1. CASE startnewtape
    BY <2>1, RingEnslave DEF startnewtape
  <2>2. CASE trewind
    <3>1. CASE quit
      BY <2>2, <3>1, RingQuit DEF trewind
    <3>2. CASE UNCHANGED spc
      BY <2>2, <3>2, RingSame DEF trewind
    <3> QED
      BY <2>2, <3>1, <3>2 DEF trewind
  <2>3. CASE rollforward
    <3>1. CASE quit
      BY <2>3, <3>1, RingQuit DEF rollforward
    <3>2. CASE UNCHANGED spc
      BY <2>3, <3>2, RingSame DEF rollforward
    <3> QED
      BY <2>3, <3>1, <3>2 DEF rollforward
  <2>4. CASE RollClear
    <3>1. CASE quit
      BY <2>4, <3>1, RingQuit DEF RollClear
    <3>2. CASE UNCHANGED spc
      BY <2>4, <3>2, RingSame DEF RollClear
    <3> QED
      BY <2>4, <3>1, <3>2 DEF RollClear
  <2>5. CASE writerec \/ finish \/ FlushSend \/ FlushNext \/ FlushEot
    BY <2>5, RingSame DEF writerec, finish, FlushSend, FlushNext, FlushEot,
                          svars
  <2>6. CASE FlushDrain \/ Finished \/ NextVolume \/ Rewrite
    BY <2>6, RingSame DEF FlushDrain, Finished, NextVolume, Rewrite, svars
  <2> QED
    BY <1>1, <2>1, <2>2, <2>3, <2>4, <2>5, <2>6 DEF Master
<1>2. CASE sig
  BY <1>2, RingSame DEF sig, svars
<1>3. CASE dumpabort
  BY <1>3, RingQuit DEF dumpabort
<1>4. CASE \E s \in Slaves : Slave(s) \/ proceed(s)
  BY <1>4, RingSlave
<1>5. CASE Ended \/ UNCHANGED vars
  BY <1>5, RingSame DEF Ended, vars
<1> QED
  BY <1>1, <1>2, <1>3, <1>4, <1>5 DEF Next

-----------------------------------------------------------------------------
(* Types and the context.                                                  *)

\* The shifted blocks of rollforward() are blocks, if no block is empty.
LEMMA RolledType ==
  ASSUME TypeOK, \A s \in Slaves : block[s] # <<>>
  PROVE  /\ \A s \in Slaves : LastOf(block[s]) \in Nat
         /\ \A s \in Slaves : Rolled(s) \in Blocks
<1>1. \A s \in Slaves : block[s] \in Seq(Nat)
  BY DEF TypeOK, Blocks
<1>2. ASSUME NEW s \in Slaves PROVE LastOf(block[s]) \in Nat
  <2>1. block[s] \in Seq(Nat) /\ Len(block[s]) \in Nat /\ Len(block[s]) # 0
    BY <1>1, EmptySeq
  <2> QED
    BY <2>1 DEF LastOf
<1>3. ASSUME NEW s \in Slaves PROVE Rolled(s) \in Blocks
  <2> DEFINE h == IF s = slp THEN Header ELSE LastOf(block[Pred(s)])
             r == SubSeq(block[s], 1, Len(block[s]) - 1)
  <2>1. h \in Nat
    BY <1>2, RingType DEF Header
  <2>2. r \in Seq(Nat)
    BY <1>1
  <2>3. <<h>> \in Seq(Nat)
    BY <2>1
  <2> HIDE DEF h, r
  <2>4. <<h>> \o r \in Seq(Nat)
    BY <2>2, <2>3
  <2> QED
    BY <2>4 DEF Rolled, Blocks, h, r
<1> QED
  BY <1>2, <1>3

\* The steps of the master that only move it on.
LEMMA TypeMasterSmall ==
  ASSUME IInv, writerec \/ finish \/ FlushSend \/ FlushNext \/ FlushEot
               \/ FlushDrain \/ trewind \/ Finished \/ NextVolume \/ RollClear
  PROVE TypeOK' /\ ContextInv'
<1> USE DEF IInv
<1>1. CASE writerec
  <2>1. Append(block[slp], next) \in Blocks
    BY DEF TypeOK, Blocks
  <2> QED
    BY <1>1, <2>1 DEF writerec, svars, TypeOK, ContextInv
<1>2. CASE finish
  BY <1>2 DEF finish, svars, TypeOK, ContextInv
<1>3. CASE FlushSend
  BY <1>3, RingType DEF FlushSend, TypeOK, ContextInv
<1>4. CASE FlushNext
  <2>1. <<>> \in Blocks
    BY DEF Blocks
  <2>2. firstrec[Pred(slp)] + ntrec \in Nat
    BY RingType DEF TypeOK
  <2>3. /\ block' \in [Slaves -> Blocks] /\ firstrec' \in [Slaves -> Nat]
        /\ blocksthisvol' \in Nat
    BY <1>4, <2>1, <2>2 DEF FlushNext, TypeOK
  <2>4. /\ sent' \in [Slaves -> BOOLEAN]
        /\ reply' \in [Slaves -> {"none", "full", "short"}]
    BY <1>4 DEF FlushNext, TakeReply, TypeOK
  <2>5. \/ mpc' = "trewind" /\ why' = "size"
        \/ mpc' = "gen" /\ why' = why
    BY <1>4 DEF FlushNext
  <2>6. UNCHANGED <<slp, next, dumpdates, checkpoint, spc, ready, caught,
                    usr2, pipe, buffer, vols, hups>>
    BY <1>4 DEF FlushNext
  <2> QED
    BY <2>3, <2>4, <2>5, <2>6 DEF TypeOK, ContextInv
<1>5. CASE FlushEot
  BY <1>5 DEF FlushEot, TakeReply, TypeOK, ContextInv
<1>6. CASE FlushDrain
  BY <1>6 DEF FlushDrain, TakeAll, TypeOK, ContextInv
<1>7. CASE trewind
  BY <1>7 DEF trewind, TakeAll, quit, TypeOK, ContextInv
<1>8. CASE Finished
  BY <1>8 DEF Finished, svars, TypeOK, ContextInv
<1>9. CASE NextVolume
  BY <1>9 DEF NextVolume, ChangesVolume, svars, TypeOK, ContextInv
<1>10. CASE RollClear
  BY <1>10 DEF RollClear, TakeReply, quit, TypeOK, ContextInv
<1> QED
  BY <1>1, <1>2, <1>3, <1>4, <1>5, <1>6, <1>7, <1>8, <1>9, <1>10

\* Going back to a checkpoint.
LEMMA TypeRewrite == ASSUME IInv, Rewrite PROVE TypeOK' /\ ContextInv'
<1> USE DEF IInv
<1>1. /\ checkpoint.slp \in Slaves /\ checkpoint.block \in [Slaves -> Blocks]
      /\ checkpoint.firstrec \in [Slaves -> Nat] /\ checkpoint.next \in Nat
      /\ checkpoint.why \in {"size", "roll"} /\ checkpoint.vols \in Nat
  BY DEF TypeOK, Context
<1>2. checkpoint.vols <= Len(vols) /\ vols \in Seq(Volume)
  BY DEF TypeOK, ContextInv
<1>3. /\ SubSeq(vols, 1, checkpoint.vols) \in Seq(Volume)
      /\ Len(SubSeq(vols, 1, checkpoint.vols)) = checkpoint.vols
  BY <1>1, <1>2, SubSeqProperties
<1>4. TypeOK'
  BY <1>1, <1>3 DEF Rewrite, svars, TypeOK
<1>5. ContextInv'
  BY <1>1, <1>3 DEF Rewrite, AllGone, svars, ContextInv
<1> QED
  BY <1>4, <1>5

\* Starting a volume.
LEMMA TypeNewTape == ASSUME IInv, startnewtape PROVE TypeOK' /\ ContextInv'
<1> USE DEF IInv
<1> DEFINE v == [first |-> firstrec[slp], recs |-> <<>>, end |-> "open",
                 full |-> FALSE]
<1>1. <<>> \in Seq(Nat) /\ <<Header>> \in Seq(Nat)
  BY DEF Header
<1>2. v \in Volume
  <2>1. firstrec[slp] \in Nat
    BY DEF TypeOK
  <2> QED
    BY <1>1, <2>1 DEF Volume
<1>3. vols \in Seq(Volume) /\ Len(vols) \in Nat
  BY DEF TypeOK
<1> HIDE DEF v
<1>4. /\ Append(vols, v) \in Seq(Volume)
      /\ Len(Append(vols, v)) = Len(vols) + 1
  BY <1>2, <1>3, AppendProperties
<1>5. vols' = Append(vols, v)
  BY DEF startnewtape, v
<1>6. Saved \in Context /\ Saved.vols = Len(vols)
  <2>1. why \in {"size", "roll"}
    BY DEF startnewtape, ContextInv
  <2> QED
    BY <1>3, <2>1 DEF Saved, Context, TypeOK
<1>7. checkpoint' = Saved
  BY DEF startnewtape
<1>8. block' \in [Slaves -> Blocks]
  BY <1>1 DEF startnewtape, TypeOK, Blocks
<1>9. /\ spc' \in [Slaves -> {"read", "lock", "test", "pause", "clrready",
                              "clrcaught", "write", "pass", "dead"}]
      /\ ready' \in [Slaves -> BOOLEAN] /\ caught' \in [Slaves -> BOOLEAN]
      /\ usr2' \in [Slaves -> BOOLEAN] /\ sent' \in [Slaves -> BOOLEAN]
      /\ reply' \in [Slaves -> {"none", "full", "short"}]
  BY DEF startnewtape, enslave, FirstCaught
<1>10. pipe' \in [Slaves -> Blocks] /\ buffer' \in [Slaves -> Blocks]
  BY <1>1 DEF startnewtape, enslave, Blocks
<1>11. TypeOK'
  BY <1>4, <1>5, <1>6, <1>7, <1>8, <1>9, <1>10 DEF startnewtape, TypeOK
<1>12. ContextInv'
  BY <1>3, <1>4, <1>5, <1>6, <1>7, EmptySeq DEF startnewtape, ContextInv
<1> QED
  BY <1>11, <1>12

\* Replaying the blocks of the old volume.
LEMMA TypeRoll == ASSUME IInv, rollforward PROVE TypeOK' /\ ContextInv'
<1> USE DEF IInv
<1>1. CASE \E s \in Slaves : block[s] = <<>>
  BY <1>1 DEF rollforward, quit, TypeOK, ContextInv
<1>2. CASE \A s \in Slaves : block[s] # <<>>
  <2>1. <<LastOf(block[Pred(slp)])>> \in Blocks
    <3>1. Pred(slp) \in Slaves
      BY RingType DEF TypeOK
    <3>2. LastOf(block[Pred(slp)]) \in Nat
      BY <1>2, <3>1, RolledType
    <3> QED
      BY <3>2 DEF Blocks
  <2>2. \A s \in Slaves : Rolled(s) \in Blocks
    BY <1>2, RolledType
  <2>3. pipe' \in [Slaves -> Blocks] /\ block' \in [Slaves -> Blocks]
    <3>1. /\ pipe' = [s \in Slaves |-> Rolled(s)]
          /\ block' = [block EXCEPT ![slp] = <<LastOf(block[Pred(slp)])>>]
      BY <1>2 DEF rollforward
    <3> QED
      BY <2>1, <2>2, <3>1 DEF TypeOK
  <2> QED
    BY <1>2, <2>3 DEF rollforward, TypeOK, ContextInv
<1> QED
  BY <1>1, <1>2

\* The slaves, and the tape they write.
LEMMA TypeSlave ==
  ASSUME IInv, NEW s \in Slaves, Slave(s) \/ proceed(s)
  PROVE TypeOK' /\ ContextInv'
<1> USE DEF IInv, Goto
<1>1. CASE SlaveRead(s)
  <2>1. <<>> \in Blocks
    BY DEF Blocks
  <2> QED
    BY <1>1, <2>1 DEF SlaveRead, mvars, TypeOK, ContextInv
<1>2. CASE SlaveExit(s)
  BY <1>2 DEF SlaveExit, mvars, TypeOK, ContextInv
<1>3. CASE SlaveReady(s)
  BY <1>3 DEF SlaveReady, mvars, TypeOK, ContextInv
<1>4. CASE SlaveTest(s)
  BY <1>4 DEF SlaveTest, mvars, TypeOK, ContextInv
<1>5. CASE SlaveClearReady(s)
  BY <1>5 DEF SlaveClearReady, mvars, TypeOK, ContextInv
<1>6. CASE SlaveClearCaught(s)
  BY <1>6 DEF SlaveClearCaught, mvars, TypeOK, ContextInv
<1>7. CASE proceed(s)
  BY <1>7 DEF proceed, mvars, TypeOK, ContextInv
<1>8. CASE SlavePass(s)
  BY <1>8, RingType DEF SlavePass, mvars, TypeOK, ContextInv
<1>9. ASSUME NEW w \in Volume, spc[s] = "write", spc' = [spc EXCEPT ![s] = "pass"],
             vols' = [vols EXCEPT ![Len(vols)] = w],
             NEW a \in {"full", "short"}, reply' = [reply EXCEPT ![s] = a],
             UNCHANGED <<mvars, ready, caught, usr2, pipe, buffer, hups>>
      PROVE TypeOK' /\ ContextInv'
  <2>1. vols \in Seq(Volume) /\ vols # <<>> /\ Len(vols) \in 1 .. Len(vols)
    BY <1>9, EmptySeq DEF TypeOK, ContextInv
  <2>2. vols' \in Seq(Volume) /\ Len(vols') = Len(vols)
    BY <1>9, <2>1, ExceptSeq
  <2>3. TypeOK'
    BY <1>9, <2>2 DEF mvars, TypeOK
  <2>4. ContextInv'
    BY <1>9, <2>1, <2>2, EmptySeq DEF mvars, ContextInv
  <2> QED
    BY <2>3, <2>4
<1>10. ASSUME spc[s] = "write"
       PROVE  Vol \in Volume /\ Vol.recs \in Seq(Nat) /\ Vol.full \in BOOLEAN
  <2>1. vols \in Seq(Volume) /\ Len(vols) \in 1 .. Len(vols)
    BY <1>10, EmptySeq DEF TypeOK, ContextInv
  <2>2. Vol \in Volume
    BY <2>1 DEF Vol
  <2> QED
    BY <2>2 DEF Volume
<1>11. CASE SlaveWrite(s)
  <2> DEFINE w == [Vol EXCEPT !.recs = @ \o buffer[s]]
  <2>1. spc[s] = "write" /\ buffer[s] \in Seq(Nat)
    BY <1>11 DEF SlaveWrite, TypeOK, Blocks
  <2>2. Vol.recs \o buffer[s] \in Seq(Nat)
    BY <1>10, <2>1
  <2>3. w \in Volume
    BY <1>10, <2>1, <2>2 DEF Volume
  <2>4. vols' = [vols EXCEPT ![Len(vols)] = w]
    BY <1>11 DEF SlaveWrite, Vol
  <2> QED
    BY <1>9, <1>11, <2>3, <2>4 DEF SlaveWrite
<1>12. CASE \E m \in 0 .. Len(buffer[s]), c \in Causes : SlaveWriteShort(s, m, c)
  <2>1. PICK m \in 0 .. Len(buffer[s]), c \in Causes : SlaveWriteShort(s, m, c)
    BY <1>12
  <2> DEFINE r == Vol.recs \o SubSeq(buffer[s], 1, m)
             w == EndOf(Vol, buffer[s], m, c)
  <2>2. spc[s] = "write" /\ buffer[s] \in Seq(Nat)
    BY <2>1 DEF SlaveWriteShort, TypeOK, Blocks
  <2>3. SubSeq(buffer[s], 1, m) \in Seq(Nat)
    BY <2>2, SubSeqProperties
  <2>4. r \in Seq(Nat)
    BY <1>10, <2>2, <2>3
  <2>5. w \in Volume
    BY <1>10, <2>2, <2>4 DEF Volume, EndOf
  <2>6. vols' = [vols EXCEPT ![Len(vols)] = w]
    BY <2>1 DEF SlaveWriteShort, Vol
  <2> QED
    BY <1>9, <2>1, <2>5, <2>6 DEF SlaveWriteShort
<1> QED
  BY <1>1, <1>2, <1>3, <1>4, <1>5, <1>6, <1>7, <1>8, <1>11, <1>12 DEF Slave

-----------------------------------------------------------------------------
\* Every step preserves the inductive invariant.
LEMMA StepInv == IInv /\ [Next]_vars => IInv'
<1> SUFFICES ASSUME IInv, [Next]_vars PROVE IInv'
  OBVIOUS
<1>1. RingInv'
  BY RingStep DEF IInv
<1>2. TypeOK' /\ ContextInv'
  <2>1. CASE Master
    BY <2>1, TypeMasterSmall, TypeRewrite, TypeNewTape, TypeRoll DEF Master
  <2>2. CASE sig
    BY <2>2 DEF sig, svars, IInv, TypeOK, ContextInv
  <2>3. CASE dumpabort
    BY <2>3 DEF dumpabort, quit, IInv, TypeOK, ContextInv
  <2>4. CASE \E s \in Slaves : Slave(s) \/ proceed(s)
    BY <2>4, TypeSlave
  <2>5. CASE Ended \/ UNCHANGED vars
    BY <2>5 DEF Ended, vars, IInv, TypeOK, ContextInv
  <2> QED
    BY <2>1, <2>2, <2>3, <2>4, <2>5 DEF Next
<1> QED
  BY <1>1, <1>2 DEF IInv

\* The inductive invariant holds in every reachable state.
THEOREM Inductive == Spec => []IInv
  BY InitInv, StepInv, PTL DEF Spec

\* Every variable of the master, the slaves and the tape keeps its type, also
\* when rollforward() builds new blocks or a checkpoint is restored.
THEOREM TypeCorrect == Spec => []TypeOK
<1>1. IInv => TypeOK
  BY DEF IInv
<1> QED
  BY <1>1, Inductive, PTL

\* Exactly one slave has the turn to write while the tape is open, for a ring
\* of any size, and no SIGUSR2 ever meets one that was not yet used.
THEOREM Turn == Spec => []OneTurn
<1>1. IInv => OneTurn
  BY DEF IInv, RingInv
<1> QED
  BY <1>1, Inductive, PTL

\* No slave pauses after its SIGUSR2 has come.
THEOREM Awake == Spec => []NotMissed
<1>1. IInv => NotMissed
  BY DEF IInv, RingInv, Alert, NotMissed
<1> QED
  BY <1>1, Inductive, PTL

-----------------------------------------------------------------------------
(* The records on the tape.                                                *)

Mul(k) == k * ntrec

\* How long ago a slave got its block: 0 is the one that gets the next.
AgeFrom(p, s) == IF s >= p THEN s - p ELSE s - p + SLAVES
Age(s) == AgeFrom(slp, s)

\* The first record of the dump on a volume that starts from a context.
FirstOf(w, x) == IF w = "roll" THEN x - Mul(SLAVES) ELSE x
First == FirstOf(checkpoint.why, checkpoint.next)

\* Places on a volume are counted like the records of the dump, the header
\* being in the place before its first record f; a run fills the places from
\* p on.
Rec(f, p) == IF p = f - 1 THEN Header ELSE p
Run(f, b, p) == \A i \in 1 .. Len(b) : b[i] = Rec(f, p + i - 1)

\* Where the tape is.
End == First - 1 + Len(Vol.recs)

\* A slave that has a block to write; the block it got last.
Work(s) == \/ pipe[s] # <<>>
           \/ spc[s] \in {"lock", "test", "pause", "clrready", "clrcaught",
                          "write"}
Batch(s) == IF pipe[s] # <<>> THEN pipe[s] ELSE buffer[s]
Owed(s) == sent[s] /\ reply[s] = "none"
Short(s) == sent[s] /\ reply[s] = "short"

\* The slave that is to write next.
Turns(s) == \/ spc[s] \in {"clrready", "clrcaught", "write"}
            \/ caught[s] \/ usr2[s] \/ spc[Pred(s)] = "pass"

\* The blocks of a roll: all of the ring, consecutive, up to record x.
Rollable(p, b, x) ==
    \A s \in Slaves :
        /\ Len(b[s]) = ntrec
        /\ \A i \in 1 .. ntrec :
              b[s][i] = x - Mul(SLAVES - AgeFrom(p, s)) + i - 1

\* A context from which volume v + 1 can be started.
Ctx(p, b, x, w, v) ==
    /\ w = "roll" => Rollable(p, b, x)
    /\ IF v = 0 THEN w = "size" /\ x = 1
       ELSE FirstOf(w, x) \in 1 .. (LastOf(vols[v].recs) + 1)

\* A volume and the one before.
SeamlessAt(v) ==
    LET r == vols[v].recs IN
    /\ \A i \in 1 .. Len(r) : /\ i = 1 => r[i] = Header
                              /\ i > 2 => r[i] = r[i - 1] + 1
    /\ Len(r) > 1 => IF v = 1 THEN r[2] = 1
                     ELSE r[2] \in 1 .. (LastOf(vols[v - 1].recs) + 1)
Closed(v) == SeamlessAt(v) /\ Len(vols[v].recs) > 1

Past ==
    /\ Len(vols) \in {checkpoint.vols, checkpoint.vols + 1}
    /\ \A v \in 1 .. checkpoint.vols : Closed(v)
    /\ Ctx(checkpoint.slp, checkpoint.block, checkpoint.next, checkpoint.why,
           checkpoint.vols)
Cur == Len(vols) = checkpoint.vols + 1

\* The sent blocks end at n, the last k of them are still to be written.
Place(n, s) == n - Mul(SLAVES - Age(s))
Batches(n) ==
    \A s \in Slaves :
        /\ sent[s] => /\ Len(Batch(s)) = ntrec /\ Run(First, Batch(s), Place(n, s))
                      /\ \/ Batch(s) = block[s]
                         \/ Place(n, s) + ntrec < First + Mul(SLAVES)
        /\ sent[s] => \A t \in Slaves : Age(t) >= Age(s) => sent[t]
Working ==
    \A s \in Slaves :
        /\ Work(s) <=> Owed(s)
        /\ ~sent[s] => reply[s] = "none"
        /\ pipe[s] # <<>> => spc[s] \in {"read", "pass", "dead"}
        /\ ready[s] => spc[s] \in {"test", "pause", "clrready"}
Queue(k) ==
    /\ \A s \in Slaves : Owed(s) <=> Age(s) >= SLAVES - k
    /\ \A s \in Slaves : Turns(s) => IF k = 0 THEN s = slp
                                     ELSE Age(s) = SLAVES - k
Tape(n, k) ==
    /\ ~Vol.full => End = n - Mul(k)
    /\ Vol.full => Vol.end # "open"
    /\ Vol.end # "open" => Len(Vol.recs) >= Mul(SLAVES)
    /\ \A s \in Slaves : Short(s) => Vol.end # "open"
SlavesOK(n, k) == Working /\ Batches(n) /\ Queue(k) /\ Tape(n, k)

\* The master: the block being filled starts at n.
Filling(n) == next = n + Len(block[slp]) /\ Run(First, block[slp], n)
Unseen(n) ==
    Vol.end # "open" =>
        \E s \in Slaves :
            /\ Short(s) /\ Place(n, s) >= First - 1 + Mul(SLAVES)
            /\ Place(n, s) <= End
            /\ \A t \in Slaves : Short(t) => Age(t) >= Age(s)
Idle == \A s \in Slaves : ~sent[s]
Done == \E v \in 1 .. Len(vols) :
            vols[v].recs # <<>> /\ LastOf(vols[v].recs) > Data
MasterOK(n) ==
    /\ n = First - 1 \/ n >= First - 1 + ntrec
    /\ next >= First
    /\ mpc \in {"clear", "gen", "flush", "collect", "trewind"} => Unseen(n)
    /\ mpc = "roll" => /\ n = First - 1 /\ Vol.recs = <<>> /\ Vol.end = "open"
                       /\ checkpoint.next = next /\ checkpoint.why = "roll"
                       /\ Rollable(slp, block, next)
    /\ mpc = "clear" => Filling(n) /\ Len(block[slp]) = 1
    /\ mpc = "gen" => Filling(n) /\ Len(block[slp]) < ntrec /\ ~sent[slp]
    /\ mpc = "flush" => Filling(n) /\ Len(block[slp]) = ntrec /\ ~sent[slp]
    /\ mpc = "collect" => next = n /\ n >= First - 1 + ntrec
    /\ mpc = "drain" => /\ next = n /\ Rollable(slp, block, next)
                        /\ Len(Vol.recs) > 1
                        /\ First <= n - Mul(SLAVES) /\ n - Mul(SLAVES) <= End
    /\ mpc = "trewind" /\ why = "size" => next = n /\ n >= First - 1 + ntrec
    /\ mpc = "trewind" /\ why = "finish" =>
          Filling(n) /\ Len(block[slp]) < ntrec /\ next > Total
    /\ mpc = "trewind" => why # "roll"
    /\ mpc = "closing" /\ why = "finish" => Done
    /\ mpc = "closing" /\ why # "finish" =>
          Len(Vol.recs) > 1 /\ Ctx(slp, block, next, why, Len(vols))
Between ==
    /\ mpc \in {"roll", "newtape", "closing"} => Idle
    /\ ~Running => \A s \in Slaves : spc[s] = "dead"
    /\ why = "rewrite" => mpc \in {"trewind", "closing", "abort"}
    /\ mpc = "newtape" =>
          /\ Ctx(slp, block, next, why, Len(vols))
          /\ \A v \in 1 .. Len(vols) : Len(vols[v].recs) > 1
    /\ mpc = "finok" => Done
Gone == \A s \in Slaves : spc[s] = "dead" /\ ~sent[s]

TapeInv ==
    /\ Past /\ Between
    /\ Cur => Run(First, Vol.recs, First - 1)
    /\ Running /\ Cur => \E n \in Nat, k \in 0 .. SLAVES :
                            SlavesOK(n, k) /\ (why # "rewrite" => MasterOK(n))
    /\ Running /\ ~Cur => Gone /\ (mpc = "newtape" \/ why = "rewrite")

-----------------------------------------------------------------------------
(* Numbers, the ring and runs.                                             *)

\* Whole blocks.
LEMMA MulIs ==
    /\ Mul(0) = 0 /\ Mul(1) = ntrec
    /\ \A k \in Nat : Mul(k) \in Nat /\ Mul(k + 1) = Mul(k) + ntrec
    /\ \A j, k \in Nat : j <= k => Mul(j) <= Mul(k)
<1>1. ntrec \in Nat
  OBVIOUS
<1>2. Mul(0) = 0 /\ Mul(1) = ntrec
  BY <1>1 DEF Mul
<1>3. ASSUME NEW k \in Nat
      PROVE  Mul(k) \in Nat /\ Mul(k + 1) = Mul(k) + ntrec
  BY <1>1 DEF Mul
<1>4. ASSUME NEW j \in Nat, NEW k \in Nat, j <= k
      PROVE  Mul(j) <= Mul(k)
  <2>1. k - j \in Nat /\ (k - j) * ntrec \in Nat
    BY <1>1, <1>4
  <2>2. (k - j) * ntrec = k * ntrec - j * ntrec
    BY <1>1
  <2>3. j * ntrec \in Nat /\ k * ntrec \in Nat
    BY <1>1
  <2> DEFINE x == j * ntrec
             y == k * ntrec
             z == (k - j) * ntrec
  <2>4. x \in Nat /\ y \in Nat /\ z \in Nat /\ z = y - x
    BY <2>1, <2>2, <2>3
  <2> HIDE DEF x, y, z
  <2>5. x <= y
    BY <2>4
  <2> QED
    BY <2>5 DEF x, y, Mul
<1> QED
  BY <1>2, <1>3, <1>4

\* Blocks that are not sent yet are behind those that are.
LEMMA MulLess ==
    ASSUME NEW j \in Nat, NEW k \in Nat, j < k
    PROVE  Mul(j) + ntrec <= Mul(k)
<1>1. j + 1 \in Nat /\ j + 1 <= k
  OBVIOUS
<1>2. Mul(j + 1) = Mul(j) + ntrec /\ Mul(j + 1) <= Mul(k)
  BY <1>1, MulIs
<1> QED
  BY <1>2

\* Going round the ring.
LEMMA AgeIs ==
    ASSUME NEW p \in Slaves, NEW s \in Slaves
    PROVE  /\ AgeFrom(p, s) \in 0 .. SLAVES - 1
           /\ AgeFrom(p, s) = 0 <=> s = p
           /\ Succ(s) # p => AgeFrom(p, Succ(s)) = AgeFrom(p, s) + 1
           /\ Succ(s) = p <=> AgeFrom(p, s) = SLAVES - 1
           /\ Pred(Succ(s)) = s /\ Succ(Pred(s)) = s
           /\ s # p => AgeFrom(p, Pred(s)) = AgeFrom(p, s) - 1
           /\ s # p => AgeFrom(Succ(p), s) = AgeFrom(p, s) - 1
           /\ AgeFrom(Succ(p), p) = SLAVES - 1
           /\ \A t \in Slaves : AgeFrom(p, t) = AgeFrom(p, s) => t = s
  BY DEF AgeFrom, Slaves, Succ, Pred

\* The blocks sent to slave s start here.
LEMMA PlaceIs ==
    ASSUME TypeOK, NEW n \in Nat, NEW s \in Slaves
    PROVE  /\ Age(s) \in 0 .. SLAVES - 1 /\ SLAVES - Age(s) \in 1 .. SLAVES
           /\ Mul(SLAVES - Age(s)) \in Nat /\ Mul(SLAVES - Age(s)) <= Mul(SLAVES)
           /\ Place(n, s) \in Int /\ Place(n, s) + ntrec <= n
           /\ n - Mul(SLAVES) <= Place(n, s)
<1>1. slp \in Slaves /\ SLAVES \in Nat
  BY DEF TypeOK
<1>2. Age(s) \in 0 .. SLAVES - 1
  BY <1>1, AgeIs DEF Age
<1> DEFINE k == SLAVES - Age(s)
<1>3. k \in Nat /\ k >= 1 /\ k <= SLAVES /\ k \in 1 .. SLAVES
  BY <1>1, <1>2
<1> HIDE DEF k
<1>4. Mul(k) \in Nat /\ Mul(1) <= Mul(k) /\ Mul(k) <= Mul(SLAVES)
      /\ Mul(SLAVES) \in Nat /\ Mul(1) = ntrec
  BY <1>1, <1>3, MulIs
<1>5. Place(n, s) = n - Mul(k)
  BY DEF Place, k
<1> QED
  BY <1>2, <1>3, <1>4, <1>5 DEF k

\* A block is made of natural numbers.
LEMMA BlockIs ==
    ASSUME TypeOK, NEW s \in Slaves
    PROVE  /\ block[s] \in Seq(Nat) /\ pipe[s] \in Seq(Nat) /\ buffer[s] \in Seq(Nat)
           /\ Batch(s) \in Seq(Nat) /\ slp \in Slaves /\ next \in Nat
           /\ Len(block[s]) \in Nat /\ Len(Batch(s)) \in Nat
<1>1. /\ block[s] \in Seq(Nat) /\ pipe[s] \in Seq(Nat) /\ buffer[s] \in Seq(Nat)
      /\ slp \in Slaves /\ next \in Nat
  BY DEF TypeOK, Blocks
<1>2. Batch(s) \in Seq(Nat)
  BY <1>1 DEF Batch
<1> QED
  BY <1>1, <1>2

\* The context of the volume.
LEMMA ContextIs ==
    ASSUME TypeOK, Past
    PROVE  /\ First \in Nat /\ First >= 1
           /\ checkpoint.vols \in Nat /\ checkpoint.slp \in Slaves
           /\ checkpoint.next \in Nat /\ vols \in Seq(Volume) /\ Len(vols) \in Nat
           /\ \A v \in 1 .. Len(vols) : /\ vols[v] \in Volume
                                        /\ vols[v].recs \in Seq(Nat)
                                        /\ Len(vols[v].recs) \in Nat
<1>1. /\ checkpoint.vols \in Nat /\ checkpoint.slp \in Slaves
      /\ checkpoint.next \in Nat /\ vols \in Seq(Volume)
  BY DEF TypeOK, Context
<1>2. \A v \in 1 .. Len(vols) : vols[v] \in Volume
  BY <1>1
<1>3. \A v \in 1 .. Len(vols) : vols[v].recs \in Seq(Nat)
  BY <1>2 DEF Volume
<1>4. First \in Nat /\ First >= 1
  <2>1. CASE checkpoint.vols = 0
    BY <1>1, <2>1 DEF Past, Ctx, First, FirstOf
  <2>2. CASE checkpoint.vols # 0
    <3>1. checkpoint.vols \in 1 .. Len(vols)
      BY <1>1, <2>2 DEF Past
    <3>2. LastOf(vols[checkpoint.vols].recs) \in Nat
      <4>1. Closed(checkpoint.vols)
        BY <1>1, <2>2 DEF Past
      <4>2. Len(vols[checkpoint.vols].recs) > 1
        BY <4>1 DEF Closed
      <4> QED
        BY <1>3, <3>1, <4>2 DEF LastOf
    <3>3. First \in 1 .. (LastOf(vols[checkpoint.vols].recs) + 1)
      BY <2>2 DEF Past, Ctx, First
    <3> QED
      BY <3>2, <3>3
  <2> QED
    BY <2>1, <2>2
<1> QED
  BY <1>1, <1>2, <1>3, <1>4

\* The volume on the drive.
LEMMA VolIs ==
    ASSUME TypeOK, Past, Cur
    PROVE  /\ Vol \in Volume /\ Vol.recs \in Seq(Nat) /\ Len(Vol.recs) \in Nat
           /\ Vol.full \in BOOLEAN /\ Len(vols) \in 1 .. Len(vols)
           /\ End \in Nat /\ First \in Nat /\ First >= 1
<1>1. Len(vols) \in Nat /\ Len(vols) \in 1 .. Len(vols)
  BY ContextIs DEF Cur
<1>2. Vol \in Volume /\ Vol.recs \in Seq(Nat)
  BY <1>1, ContextIs DEF Vol
<1>3. Len(Vol.recs) \in Nat /\ Vol.full \in BOOLEAN
  BY <1>2 DEF Volume
<1> QED
  BY <1>1, <1>2, <1>3, ContextIs DEF End

\* The last record of a volume with a record.
LEMMA LastIs ==
    ASSUME TypeOK, Past, Cur, Run(First, Vol.recs, First - 1), Len(Vol.recs) > 1
    PROVE  LastOf(Vol.recs) = End - 1 /\ LastOf(Vol.recs) \in Nat
<1> DEFINE l == Len(Vol.recs)
<1>1. l \in Nat /\ First \in Nat /\ Vol.recs \in Seq(Nat)
  BY VolIs
<1>2. l > 1 /\ l \in 1 .. l
  BY <1>1
<1>3. Vol.recs[l] = Rec(First, First - 1 + l - 1)
  BY <1>2 DEF Run
<1>4. First - 1 + l - 1 # First - 1
  BY <1>1, <1>2
<1>5. Vol.recs[l] = First - 1 + l - 1
  BY <1>3, <1>4 DEF Rec
<1>6. Vol.recs[l] \in Nat
  BY <1>1, <1>2
<1>7. LastOf(Vol.recs) = Vol.recs[l] /\ End = First - 1 + l
  BY DEF LastOf, End
<1> HIDE DEF l
<1> QED
  BY <1>1, <1>5, <1>6, <1>7

\* All volumes are seamless.
LEMMA AllSeamless ==
    ASSUME TypeOK, Past, Cur => Run(First, Vol.recs, First - 1)
    PROVE  \A v \in 1 .. Len(vols) : SeamlessAt(v)
<1> SUFFICES ASSUME NEW v \in 1 .. Len(vols)
             PROVE  SeamlessAt(v)
  OBVIOUS
<1>1. CASE v <= checkpoint.vols
  <2>1. v \in 1 .. checkpoint.vols
    BY <1>1, ContextIs
  <2> QED
    BY <2>1 DEF Past, Closed
<1>2. CASE v > checkpoint.vols
  <2>1. Cur /\ v = Len(vols) /\ v = checkpoint.vols + 1
    BY <1>2, ContextIs DEF Past, Cur
  <2> DEFINE r == Vol.recs
  <2>2. r = vols[v].recs /\ r \in Seq(Nat) /\ Len(r) \in Nat
    BY <2>1, VolIs DEF Vol
  <2>3. First \in Nat /\ First >= 1 /\ Header = 0
    BY ContextIs DEF Header
  <2>4. \A i \in 1 .. Len(r) : r[i] = Rec(First, First - 1 + i - 1)
    BY <2>1 DEF Run
  <2> HIDE DEF r
  <2>5. ASSUME NEW i \in 1 .. Len(r)
        PROVE  (i = 1 => r[i] = Header) /\ (i > 1 => r[i] = First + i - 2)
    BY <2>3, <2>4 DEF Rec
  <2>6. ASSUME NEW i \in 1 .. Len(r)
        PROVE  (i = 1 => r[i] = Header) /\ (i > 2 => r[i] = r[i - 1] + 1)
    <3>1. ASSUME i > 2
          PROVE  r[i] = r[i - 1] + 1
      <4>1. i - 1 \in 1 .. Len(r) /\ i > 1 /\ i - 1 > 1
        BY <2>2, <3>1
      <4>2. r[i] = First + i - 2 /\ r[i - 1] = First + (i - 1) - 2
        BY <2>5, <4>1
      <4> QED
        BY <2>3, <4>2
    <3> QED
      BY <2>5, <3>1
  <2>7. ASSUME Len(r) > 1
        PROVE  IF v = 1 THEN r[2] = 1
               ELSE r[2] \in 1 .. (LastOf(vols[v - 1].recs) + 1)
    <3>1. r[2] = First
      <4>1. 2 \in 1 .. Len(r)
        BY <2>2, <2>7
      <4> QED
        BY <2>3, <2>5, <4>1
    <3>2. CASE v = 1
      <4>1. checkpoint.vols = 0
        BY <2>1, <3>2, ContextIs
      <4> QED
        BY <3>1, <3>2, <4>1 DEF Past, Ctx, First, FirstOf
    <3>3. CASE v # 1
      <4>1. checkpoint.vols # 0 /\ v - 1 = checkpoint.vols
        <5>1. checkpoint.vols \in Nat /\ v = checkpoint.vols + 1
          BY <2>1, ContextIs
        <5> HIDE DEF r
        <5> QED
          BY ONLY <3>3, <5>1
      <4> QED
        BY <3>1, <3>3, <4>1 DEF Past, Ctx, First
    <3> QED
      BY <3>2, <3>3
  <2> QED
    BY <2>2, <2>6, <2>7 DEF SeamlessAt
<1> QED
  BY <1>1, <1>2, ContextIs

-----------------------------------------------------------------------------
(* The steps that leave the tape alone.                                    *)

\* What is said of the master and the volumes depends on these.
LEMMA SameMaster ==
    ASSUME UNCHANGED <<mpc, why, slp, block, next, sent, checkpoint, reply, vols>>
    PROVE  /\ Past => Past'
           /\ First' = First /\ (Cur' <=> Cur) /\ Vol' = Vol /\ End' = End
           /\ \A t \in Slaves : /\ Age(t)' = Age(t)
                                /\ (Owed(t)' <=> Owed(t)) /\ (Short(t)' <=> Short(t))
           /\ \A n \in Nat : MasterOK(n) => MasterOK(n)'
           /\ Between /\ (~Running => \A t \in Slaves : spc'[t] = "dead")
                 => Between'
<1>1. First' = First /\ (Cur' <=> Cur) /\ Vol' = Vol /\ End' = End
  BY DEF First, Cur, Vol, End
<1>2. \A t \in Slaves : /\ Age(t)' = Age(t)
                        /\ (Owed(t)' <=> Owed(t)) /\ (Short(t)' <=> Short(t))
  BY DEF Age, Owed, Short
<1>3. Past => Past'
  BY DEF Past, Ctx, Closed, SeamlessAt
<1>4. Done' <=> Done
  BY DEF Done
<1>5. Ctx(slp, block, next, why, Len(vols))' <=> Ctx(slp, block, next, why, Len(vols))
  BY DEF Ctx
<1>6. ASSUME NEW n \in Nat
      PROVE  Unseen(n)' <=> Unseen(n)
  BY <1>1, <1>2 DEF Unseen, Place
<1>7. ASSUME NEW n \in Nat
      PROVE  Filling(n)' <=> Filling(n)
  BY <1>1 DEF Filling
<1>8. ASSUME NEW n \in Nat, MasterOK(n)
      PROVE  MasterOK(n)'
  BY <1>1, <1>4, <1>5, <1>6, <1>7, <1>8 DEF MasterOK
<1>9. ASSUME Between, ~Running => \A t \in Slaves : spc'[t] = "dead"
      PROVE  Between'
  BY <1>4, <1>5, <1>9 DEF Between, Running, Idle
<1> QED
  BY <1>1, <1>2, <1>3, <1>8, <1>9

\* A step of the slaves that neither writes nor answers.
LEMMA Quiet ==
    ASSUME TypeOK, TapeInv, UNCHANGED <<mvars, reply, vols>>,
           \A t \in Slaves :
              /\ (Work(t)' <=> Work(t)) /\ Batch(t)' = Batch(t)
              /\ Turns(t)' => Turns(t)
              /\ spc[t] = "dead" => spc'[t] = "dead",
           Working =>
              \A t \in Slaves :
                 /\ pipe'[t] # <<>> => spc'[t] \in {"read", "pass", "dead"}
                 /\ ready'[t] => spc'[t] \in {"test", "pause", "clrready"}
    PROVE  TapeInv'
<1>1. UNCHANGED <<mpc, why, slp, block, next, sent, checkpoint, reply, vols>>
  BY DEF mvars
<1>2. /\ Past' /\ First' = First /\ (Cur' <=> Cur) /\ Vol' = Vol /\ End' = End
      /\ \A t \in Slaves : /\ Age(t)' = Age(t)
                           /\ (Owed(t)' <=> Owed(t)) /\ (Short(t)' <=> Short(t))
  BY <1>1, SameMaster DEF TapeInv
<1>3. Between'
  <2>1. ~Running => \A t \in Slaves : spc'[t] = "dead"
    BY DEF TapeInv, Between
  <2> QED
    BY <1>1, <2>1, SameMaster DEF TapeInv
<1>4. ASSUME NEW n \in Nat, NEW k \in 0 .. SLAVES, SlavesOK(n, k)
      PROVE  SlavesOK(n, k)'
  <2>1. Working'
    BY <1>1, <1>2, <1>4 DEF SlavesOK, Working
  <2>2. Batches(n)'
    BY <1>1, <1>2, <1>4 DEF SlavesOK, Batches, Place
  <2>3. Queue(k)'
    BY <1>1, <1>2, <1>4 DEF SlavesOK, Queue
  <2>4. Tape(n, k)'
    BY <1>1, <1>2, <1>4 DEF SlavesOK, Tape
  <2> QED
    BY <2>1, <2>2, <2>3, <2>4 DEF SlavesOK
<1>5. ASSUME Running', Cur'
      PROVE  \E n \in Nat, k \in 0 .. SLAVES :
                SlavesOK(n, k)' /\ (why' # "rewrite" => MasterOK(n)')
  <2>1. PICK n \in Nat, k \in 0 .. SLAVES :
           SlavesOK(n, k) /\ (why # "rewrite" => MasterOK(n))
    BY <1>1, <1>2, <1>5 DEF TapeInv, Running
  <2>2. why # "rewrite" => MasterOK(n)'
    BY <1>1, <2>1, SameMaster
  <2> QED
    BY <1>1, <1>4, <2>1, <2>2
<1>6. Cur' => Run(First, Vol.recs, First - 1)'
  BY <1>2 DEF TapeInv
<1>7. Running' /\ ~Cur' => Gone' /\ (mpc' = "newtape" \/ why' = "rewrite")
  BY <1>1, <1>2 DEF TapeInv, Running, Gone
<1> QED
  BY <1>2, <1>3, <1>5, <1>6, <1>7 DEF TapeInv

\* The slaves from reading their requests to the write, and passing the turn.
LEMMA QuietSlave ==
    ASSUME IInv, TapeInv, NEW s \in Slaves,
           \/ SlaveRead(s) \/ SlaveExit(s) \/ SlaveReady(s) \/ SlaveTest(s)
           \/ SlaveClearReady(s) \/ SlaveClearCaught(s) \/ SlavePass(s)
           \/ proceed(s)
    PROVE  TapeInv'
<1> USE DEF Goto
<1>1. TypeOK /\ OneTurn /\ Alert
  BY DEF IInv, RingInv
<1>2. CASE SlaveRead(s)
  <2>1. \A t \in Slaves :
           /\ (Work(t)' <=> Work(t)) /\ Batch(t)' = Batch(t)
           /\ Turns(t)' => Turns(t)
           /\ spc[t] = "dead" => spc'[t] = "dead"
    <3>1. \A t \in Slaves : Work(t)' <=> Work(t)
      BY <1>1, <1>2 DEF SlaveRead, TypeOK, Work
    <3>2. \A t \in Slaves : Batch(t)' = Batch(t)
      BY <1>1, <1>2 DEF SlaveRead, TypeOK, Batch
    <3>3. \A t \in Slaves : Turns(t)' => Turns(t)
      BY <1>1, <1>2, RingType DEF SlaveRead, TypeOK, Turns
    <3> QED
      BY <1>1, <1>2, <3>1, <3>2, <3>3 DEF SlaveRead, TypeOK
  <2>2. Working =>
           \A t \in Slaves :
              /\ pipe'[t] # <<>> => spc'[t] \in {"read", "pass", "dead"}
              /\ ready'[t] => spc'[t] \in {"test", "pause", "clrready"}
    BY <1>1, <1>2 DEF SlaveRead, TypeOK, Working
  <2> QED
    BY <1>1, <1>2, <2>1, <2>2, Quiet DEF SlaveRead
<1>3. ASSUME UNCHANGED <<mvars, pipe, buffer, reply, vols>>,
             \A t \in Slaves : Work(t)' <=> Work(t),
             \A t \in Slaves : Turns(t)' => Turns(t),
             \A t \in Slaves : spc[t] = "dead" => spc'[t] = "dead",
             Working =>
                \A t \in Slaves :
                   /\ pipe[t] # <<>> => spc'[t] \in {"read", "pass", "dead"}
                   /\ ready'[t] => spc'[t] \in {"test", "pause", "clrready"}
      PROVE  TapeInv'
  <2>1. \A t \in Slaves : Batch(t)' = Batch(t)
    BY <1>3 DEF Batch
  <2> QED
    BY <1>1, <1>3, <2>1, Quiet
<1>4. CASE SlaveExit(s)
  <2>1. \A t \in Slaves : Work(t)' <=> Work(t)
    BY <1>1, <1>4 DEF SlaveExit, TypeOK, Work
  <2>2. \A t \in Slaves : Turns(t)' => Turns(t)
    BY <1>1, <1>4, RingType DEF SlaveExit, TypeOK, Turns
  <2> QED
    BY <1>1, <1>3, <1>4, <2>1, <2>2 DEF SlaveExit, TypeOK, Working
<1>5. CASE SlaveReady(s)
  <2>1. \A t \in Slaves : Work(t)' <=> Work(t)
    BY <1>1, <1>5 DEF SlaveReady, TypeOK, Work
  <2>2. \A t \in Slaves : Turns(t)' => Turns(t)
    BY <1>1, <1>5, RingType DEF SlaveReady, TypeOK, Turns
  <2> QED
    BY <1>1, <1>3, <1>5, <2>1, <2>2 DEF SlaveReady, TypeOK, Working
<1>6. CASE SlaveTest(s)
  <2>1. \A t \in Slaves : Work(t)' <=> Work(t)
    BY <1>1, <1>6 DEF SlaveTest, TypeOK, Work
  <2>2. \A t \in Slaves : Turns(t)' => Turns(t)
    BY <1>1, <1>6, RingType DEF SlaveTest, TypeOK, Turns
  <2> QED
    BY <1>1, <1>3, <1>6, <2>1, <2>2 DEF SlaveTest, TypeOK, Working
<1>7. CASE SlaveClearReady(s)
  <2>1. \A t \in Slaves : Work(t)' <=> Work(t)
    BY <1>1, <1>7 DEF SlaveClearReady, TypeOK, Work
  <2>2. \A t \in Slaves : Turns(t)' => Turns(t)
    BY <1>1, <1>7, RingType DEF SlaveClearReady, TypeOK, Turns
  <2> QED
    BY <1>1, <1>3, <1>7, <2>1, <2>2 DEF SlaveClearReady, TypeOK, Working
<1>8. CASE SlaveClearCaught(s)
  <2>1. \A t \in Slaves : Work(t)' <=> Work(t)
    BY <1>1, <1>8 DEF SlaveClearCaught, TypeOK, Work
  <2>2. \A t \in Slaves : Turns(t)' => Turns(t)
    BY <1>1, <1>8, RingType DEF SlaveClearCaught, TypeOK, Turns
  <2> QED
    BY <1>1, <1>3, <1>8, <2>1, <2>2 DEF SlaveClearCaught, TypeOK, Working
<1>9. CASE SlavePass(s)
  <2>1. \A t \in Slaves : Work(t)' <=> Work(t)
    BY <1>1, <1>9 DEF SlavePass, TypeOK, Work
  <2>2. \A t \in Slaves : Turns(t)' => Turns(t)
    <3>1. Pred(Succ(s)) = s /\ Succ(s) \in Slaves
      BY AgeIs, RingType
    <3> QED
      BY <1>1, <1>9, <3>1, RingType DEF SlavePass, TypeOK, Turns
  <2> QED
    BY <1>1, <1>3, <1>9, <2>1, <2>2 DEF SlavePass, TypeOK, Working
<1>10. CASE proceed(s)
  <2>1. spc[s] \in {"test", "pause"} \/ ~ready[s] \/ ~Working
    BY <1>1, <1>10 DEF proceed, OneTurn, Writing, Working
  <2>2. CASE ~Working
    <3>1. ~Running \/ ~Cur
      BY <2>2 DEF TapeInv, SlavesOK
    <3> QED
      BY <1>10, <3>1 DEF proceed, TapeInv, Between, Gone
  <2>3. CASE Working
    <3>1. \A t \in Slaves : Work(t)' <=> Work(t)
      BY <1>1, <1>10, <2>1, <2>3 DEF proceed, Proceeds, TypeOK, Work
    <3>2. \A t \in Slaves : Turns(t)' => Turns(t)
      BY <1>1, <1>10, RingType DEF proceed, TypeOK, Turns
    <3>3. \A t \in Slaves :
             /\ pipe[t] # <<>> => spc'[t] \in {"read", "pass", "dead"}
             /\ ready'[t] => spc'[t] \in {"test", "pause", "clrready"}
             /\ spc[t] = "dead" => spc'[t] = "dead"
      BY <1>1, <1>10, <2>1, <2>3 DEF proceed, Proceeds, TypeOK, Working
    <3>4. UNCHANGED <<mvars, pipe, buffer, reply, vols>>
      BY <1>10 DEF proceed
    <3> QED
      BY <1>3, <3>1, <3>2, <3>3, <3>4
  <2> QED
    BY <2>2, <2>3
<1> QED
  BY <1>2, <1>4, <1>5, <1>6, <1>7, <1>8, <1>9, <1>10

-----------------------------------------------------------------------------
(* Writing a block.                                                        *)

\* A drive that stops at a short write, and tapes that hold a round of blocks.
Tapes == ~SoftEot /\ MinBlocks >= SLAVES

\* SlaveWrite and SlaveWriteShort: m records reach the tape, which becomes w.
Writes(s, m, a, w) ==
    /\ spc[s] = "write" /\ spc' = [spc EXCEPT ![s] = "pass"]
    /\ w \in Volume /\ vols' = [vols EXCEPT ![Len(vols)] = w]
    /\ a \in {"full", "short"} /\ reply' = [reply EXCEPT ![s] = a]
    /\ m \in 0 .. Len(buffer[s])
    /\ w.recs = Vol.recs \o SubSeq(buffer[s], 1, m)
    /\ a = "full" => m = Len(buffer[s]) /\ ~Vol.full /\ ~w.full /\ w.end = Vol.end
    /\ a = "short" => /\ MayEnd /\ w.end # "open" /\ (Vol.full => m = 0)
                      /\ ~w.full => ~Vol.full /\ m = Len(buffer[s])
    /\ UNCHANGED <<mvars, ready, caught, usr2, pipe, buffer, hups>>

LEMMA Joined ==
    ASSUME NEW r \in Seq(Nat), NEW b \in Seq(Nat)
    PROVE  /\ Len(r \o b) = Len(r) + Len(b)
           /\ \A i \in 1 .. (Len(r) + Len(b)) :
                 (r \o b)[i] = IF i <= Len(r) THEN r[i] ELSE b[i - Len(r)]
<1>1. Len(r \o b) = Len(r) + Len(b)
  BY ConcatProperties
<1>2. ASSUME NEW i \in 1 .. (Len(r) + Len(b))
      PROVE  (r \o b)[i] = IF i <= Len(r) THEN r[i] ELSE b[i - Len(r)]
  BY ConcatProperties
<1> QED
  BY <1>1, <1>2

LEMMA WriteIs ==
    ASSUME IInv, Past, Cur, Tapes, NEW s \in Slaves,
           \/ SlaveWrite(s)
           \/ \E m \in 0 .. Len(buffer[s]), c \in Causes : SlaveWriteShort(s, m, c)
    PROVE  \E m, a, w : Writes(s, m, a, w)
<1>1. TypeOK
  BY DEF IInv
<1>2. /\ Vol \in Volume /\ Vol.recs \in Seq(Nat) /\ Vol.full \in BOOLEAN
  BY <1>1, VolIs
<1>3. buffer[s] \in Seq(Nat) /\ Len(buffer[s]) \in Nat
  BY <1>1, BlockIs
<1>4. CASE SlaveWrite(s)
  <2> DEFINE w == [Vol EXCEPT !.recs = Vol.recs \o buffer[s]]
             l == Len(buffer[s])
  <2>1. Vol.recs \o buffer[s] \in Seq(Nat)
    BY <1>2, <1>3
  <2>2. /\ w \in Volume /\ w.recs = Vol.recs \o buffer[s] /\ w.full = Vol.full
        /\ w.end = Vol.end
    BY <1>2, <2>1 DEF Volume
  <2>3. vols' = [vols EXCEPT ![Len(vols)] = w]
    BY <1>4 DEF SlaveWrite, Vol
  <2>4. SubSeq(buffer[s], 1, l) = buffer[s] /\ l \in 0 .. Len(buffer[s])
    BY <1>3, SubSeqFull
  <2>5. spc[s] = "write" /\ spc' = [spc EXCEPT ![s] = "pass"] /\ ~Vol.full
    BY <1>4 DEF SlaveWrite, Goto
  <2> HIDE DEF w, l
  <2>6. Writes(s, l, "full", w)
    BY <1>4, <2>2, <2>3, <2>4, <2>5 DEF Writes, SlaveWrite, l
  <2> QED
    BY <2>6
<1>5. CASE \E m \in 0 .. Len(buffer[s]), c \in Causes : SlaveWriteShort(s, m, c)
  <2>1. PICK m \in 0 .. Len(buffer[s]), c \in Causes : SlaveWriteShort(s, m, c)
    BY <1>5
  <2> DEFINE w == EndOf(Vol, buffer[s], m, c)
             r == Vol.recs \o SubSeq(buffer[s], 1, m)
  <2>2. r \in Seq(Nat)
    <3>1. SubSeq(buffer[s], 1, m) \in Seq(Nat)
      BY <1>3, SubSeqProperties
    <3> QED
      BY <1>2, <3>1
  <2>3. /\ w.recs = r /\ w.end = c /\ w.first = Vol.first
        /\ w.full = (Vol.full \/ (m < Len(buffer[s]) /\ ~SoftEot))
    BY DEF EndOf
  <2>4. w \in Volume
    BY <1>2, <2>2 DEF Volume, EndOf
  <2>5. vols' = [vols EXCEPT ![Len(vols)] = w]
    BY <2>1 DEF SlaveWriteShort, Vol
  <2>6. c # "open"
    OBVIOUS
  <2>7. ASSUME ~w.full
        PROVE  ~Vol.full /\ m = Len(buffer[s])
    <3>1. ~SoftEot
      BY DEF Tapes
    <3> HIDE DEF w
    <3>2. ~Vol.full /\ ~(m < Len(buffer[s]))
      BY <2>3, <2>7, <3>1, Zenon
    <3> QED
      BY <1>3, <3>2
  <2>8. /\ spc[s] = "write" /\ spc' = [spc EXCEPT ![s] = "pass"]
        /\ MayEnd /\ (Vol.full => m = 0) /\ reply' = [reply EXCEPT ![s] = "short"]
        /\ UNCHANGED <<mvars, ready, caught, usr2, pipe, buffer, hups>>
    BY <2>1 DEF SlaveWriteShort, Goto
  <2> HIDE DEF w
  <2>9. Writes(s, m, "short", w)
    BY <2>3, <2>4, <2>5, <2>6, <2>7, <2>8 DEF Writes
  <2> QED
    BY <2>9
<1> QED
  BY <1>4, <1>5

\* The slave that writes: its block is the next one for the tape.
LEMMA WriteAt ==
    ASSUME IInv, NEW n \in Nat, NEW k \in 0 .. SLAVES, SlavesOK(n, k),
           NEW s \in Slaves, spc[s] = "write"
    PROVE  /\ Owed(s) /\ k - 1 \in 0 .. SLAVES /\ k # 0 /\ Age(s) = SLAVES - k
           /\ Batch(s) = buffer[s] /\ Len(buffer[s]) = ntrec
           /\ Run(First, buffer[s], n - Mul(k)) /\ Place(n, s) = n - Mul(k)
           /\ Mul(k) = Mul(k - 1) + ntrec /\ Mul(k) \in Nat /\ Mul(k - 1) \in Nat
           /\ ~caught[s] /\ ~usr2[s] /\ pipe[s] = <<>>
           /\ \A t \in Slaves : HasTurn(t) => t = s
<1>1. TypeOK /\ OneTurn /\ Alert
  BY DEF IInv, RingInv
<1>2. Work(s) /\ Turns(s) /\ HasTurn(s)
  BY DEF Work, Turns, HasTurn, Writing
<1>3. Owed(s) /\ sent[s] /\ pipe[s] = <<>>
  BY <1>2 DEF SlavesOK, Working, Owed
<1>4. Age(s) \in 0 .. SLAVES - 1 /\ (Age(s) = 0 <=> s = slp)
  BY <1>1, AgeIs DEF Age, TypeOK
<1>5. Age(s) >= SLAVES - k /\ (IF k = 0 THEN s = slp ELSE Age(s) = SLAVES - k)
  BY <1>2, <1>3 DEF SlavesOK, Queue
<1>6. k # 0 /\ Age(s) = SLAVES - k
  BY <1>4, <1>5
<1>7. k - 1 \in Nat /\ k - 1 \in 0 .. SLAVES /\ k = (k - 1) + 1
  BY <1>6
<1>8. Mul(k) = Mul(k - 1) + ntrec /\ Mul(k) \in Nat /\ Mul(k - 1) \in Nat
  <2> DEFINE j == k - 1
  <2>1. j \in Nat /\ k = j + 1
    BY <1>7
  <2> HIDE DEF j
  <2>2. Mul(j + 1) = Mul(j) + ntrec /\ Mul(j) \in Nat
    BY <2>1, MulIs
  <2> QED
    BY <2>1, <2>2 DEF j
<1>9. Batch(s) = buffer[s]
  BY <1>3 DEF Batch
<1>10. Place(n, s) = n - Mul(k)
  <2>1. SLAVES - Age(s) = k
    BY <1>6
  <2> QED
    BY <2>1 DEF Place
<1>11. Len(buffer[s]) = ntrec /\ Run(First, buffer[s], n - Mul(k))
  BY <1>3, <1>9, <1>10 DEF SlavesOK, Batches
<1>12. ~caught[s] /\ ~usr2[s] /\ \A t \in Slaves : HasTurn(t) => t = s
  BY <1>1, <1>2 DEF OneTurn, Alert, Writing
<1> QED
  BY <1>3, <1>6, <1>7, <1>8, <1>9, <1>10, <1>11, <1>12

\* The tape after a write.
LEMMA WriteVol ==
    ASSUME IInv, Past, Cur, Run(First, Vol.recs, First - 1),
           NEW n \in Nat, NEW k \in 0 .. SLAVES, SlavesOK(n, k),
           NEW s \in Slaves, NEW m, NEW a, NEW w, Writes(s, m, a, w)
    PROVE  /\ Vol' = w /\ Cur' /\ First' = First /\ End' = End + m
           /\ Len(w.recs) = Len(Vol.recs) + m /\ m \in Nat
           /\ Run(First, w.recs, First - 1) /\ Past' /\ Len(vols') = Len(vols)
<1>1. TypeOK
  BY DEF IInv
<1>2. /\ Vol \in Volume /\ Vol.recs \in Seq(Nat) /\ Len(Vol.recs) \in Nat
      /\ Len(vols) \in 1 .. Len(vols) /\ First \in Nat
  BY <1>1, VolIs
<1>3. vols \in Seq(Volume) /\ checkpoint.vols \in Nat
  BY <1>1, ContextIs
<1>4. vols' = [vols EXCEPT ![Len(vols)] = w] /\ w \in Volume /\ UNCHANGED mvars
  BY DEF Writes
<1>5. vols' \in Seq(Volume) /\ Len(vols') = Len(vols) /\ vols'[Len(vols)] = w
      /\ \A v \in 1 .. Len(vols) : v # Len(vols) => vols'[v] = vols[v]
  BY <1>2, <1>3, <1>4, ExceptSeq
<1>6. Vol' = w /\ Cur' /\ First' = First
  BY <1>4, <1>5 DEF Vol, Cur, First, mvars
<1> DEFINE b == SubSeq(buffer[s], 1, m)
<1>7. /\ buffer[s] \in Seq(Nat) /\ m \in 0 .. Len(buffer[s]) /\ m \in Nat
      /\ Len(buffer[s]) \in Nat
  BY <1>1, BlockIs DEF Writes
<1>8. b \in Seq(Nat) /\ Len(b) = m /\ \A i \in 1 .. m : b[i] = buffer[s][i]
  <2>1. PICK c \in Seq(Nat) : c = buffer[s]
    BY <1>7
  <2>2. m \in Nat /\ m \in 0 .. Len(c) /\ b = SubSeq(c, 1, m)
    BY <1>7, <2>1
  <2> HIDE DEF b
  <2>3. b \in Seq(Nat) /\ Len(b) = m /\ \A i \in 1 .. m : b[i] = c[i]
    BY <2>2, SubSeqProperties
  <2> QED
    BY <2>1, <2>3
<1>9. w.recs = Vol.recs \o b
  BY DEF Writes
<1> HIDE DEF b
<1>10. /\ Len(w.recs) = Len(Vol.recs) + m
       /\ \A i \in 1 .. (Len(Vol.recs) + m) :
             w.recs[i] = IF i <= Len(Vol.recs) THEN Vol.recs[i]
                         ELSE b[i - Len(Vol.recs)]
  <2> DEFINE r == Vol.recs
  <2>1. r \in Seq(Nat) /\ b \in Seq(Nat) /\ Len(b) = m /\ w.recs = r \o b
    BY <1>2, <1>8, <1>9
  <2> HIDE DEF r
  <2>2. /\ Len(r \o b) = Len(r) + Len(b)
        /\ \A i \in 1 .. (Len(r) + Len(b)) :
              (r \o b)[i] = IF i <= Len(r) THEN r[i] ELSE b[i - Len(r)]
    BY <2>1, Joined
  <2> QED
    BY <2>1, <2>2 DEF r
<1>11. End' = End + m
  BY <1>2, <1>6, <1>7, <1>10 DEF End
<1>12. Run(First, w.recs, First - 1)
  <2> SUFFICES ASSUME NEW i \in 1 .. Len(w.recs)
               PROVE  w.recs[i] = Rec(First, First - 1 + i - 1)
    BY DEF Run
  <2> DEFINE l == Len(Vol.recs)
  <2>1. i \in 1 .. (l + m)
    BY <1>10
  <2>2. CASE i <= l
    <3>1. i \in 1 .. l
      BY <1>2, <2>1, <2>2
    <3> QED
      BY <1>10, <2>1, <2>2, <3>1 DEF Run
  <2>3. CASE i > l
    <3>1. i - l \in 1 .. m /\ i - l \in 1 .. Len(buffer[s]) /\ m # 0
      <4>1. l \in Nat
        BY <1>2
      <4>2. m \in Nat /\ Len(buffer[s]) \in Nat /\ m <= Len(buffer[s])
        BY <1>7
      <4> HIDE DEF l
      <4> QED
        BY <2>1, <2>3, <4>1, <4>2
    <3>2. w.recs[i] = buffer[s][i - l]
      <4>1. ~(i <= l)
        BY <1>2, <2>1, <2>3
      <4>2. w.recs[i] = b[i - l]
        BY <1>10, <2>1, <4>1
      <4> QED
        BY <1>8, <3>1, <4>2
    <3>3. ~Vol.full /\ spc[s] = "write"
      BY <3>1 DEF Writes
    <3>4. Run(First, buffer[s], n - Mul(k)) /\ Mul(k) \in Nat
      BY <3>3, WriteAt
    <3>5. n - Mul(k) = First - 1 + l
      BY <3>3 DEF SlavesOK, Tape, End
    <3>6. buffer[s][i - l] = Rec(First, n - Mul(k) + (i - l) - 1)
      BY <3>1, <3>4 DEF Run
    <3>7. n - Mul(k) + (i - l) - 1 = First - 1 + i - 1
      BY <1>2, <2>1, <3>5
    <3> QED
      BY <3>2, <3>6, <3>7
  <2> QED
    BY <1>2, <2>1, <2>2, <2>3
<1>13. \A v \in 1 .. checkpoint.vols : v \in 1 .. Len(vols) /\ vols'[v] = vols[v]
  BY <1>2, <1>3, <1>5 DEF Cur
<1>14. Past'
  <2>1. checkpoint' = checkpoint
    BY <1>4 DEF mvars
  <2>2. \A v \in 1 .. checkpoint.vols : Closed(v)'
    <3> SUFFICES ASSUME NEW v \in 1 .. checkpoint.vols
                 PROVE  Closed(v)'
      OBVIOUS
    <3>1. Closed(v) /\ vols'[v] = vols[v]
      BY <1>13 DEF Past
    <3>2. v # 1 => vols'[v - 1] = vols[v - 1]
      <4>1. v # 1 => v - 1 \in 1 .. checkpoint.vols
        BY <1>3
      <4> QED
        BY <1>13, <4>1
    <3> QED
      BY <3>1, <3>2 DEF Closed, SeamlessAt
  <2>3. Ctx(checkpoint.slp, checkpoint.block, checkpoint.next, checkpoint.why,
            checkpoint.vols)'
    <3>1. checkpoint.vols # 0 => checkpoint.vols \in 1 .. checkpoint.vols
      BY <1>3
    <3>2. checkpoint.vols # 0 => vols'[checkpoint.vols] = vols[checkpoint.vols]
      BY <1>13, <3>1
    <3> QED
      BY <2>1, <3>2 DEF Past, Ctx
  <2> QED
    BY <1>5, <2>1, <2>2, <2>3 DEF Past
<1> QED
  BY <1>5, <1>6, <1>7, <1>10, <1>11, <1>12, <1>14

\* A written block is one block less in the queue.
LEMMA WriteSlaves ==
    ASSUME IInv, Tapes, Past, Cur, Run(First, Vol.recs, First - 1),
           NEW n \in Nat, NEW k \in 0 .. SLAVES, SlavesOK(n, k),
           NEW s \in Slaves, NEW m, NEW a, NEW w, Writes(s, m, a, w)
    PROVE  SlavesOK(n, k - 1)'
<1>1. TypeOK /\ OneTurn /\ Alert
  BY DEF IInv, RingInv
<1>2. spc[s] = "write"
  BY DEF Writes
<1>3. /\ Owed(s) /\ k - 1 \in 0 .. SLAVES /\ k # 0 /\ Age(s) = SLAVES - k
      /\ Batch(s) = buffer[s] /\ Len(buffer[s]) = ntrec
      /\ Mul(k) = Mul(k - 1) + ntrec /\ Mul(k) \in Nat /\ Mul(k - 1) \in Nat
      /\ ~caught[s] /\ ~usr2[s] /\ pipe[s] = <<>>
      /\ \A t \in Slaves : HasTurn(t) => t = s
  BY <1>2, WriteAt
<1>4. /\ Vol' = w /\ Cur' /\ First' = First /\ End' = End + m
      /\ Len(w.recs) = Len(Vol.recs) + m /\ m \in Nat
  BY WriteVol
<1>5. /\ UNCHANGED <<slp, block, sent, ready, caught, usr2, pipe, buffer>>
      /\ spc' = [spc EXCEPT ![s] = "pass"] /\ reply' = [reply EXCEPT ![s] = a]
      /\ a \in {"full", "short"}
  BY DEF Writes, mvars
<1>6. /\ \A t \in Slaves : Age(t)' = Age(t) /\ Batch(t)' = Batch(t)
      /\ \A t \in Slaves : t # s => spc'[t] = spc[t] /\ reply'[t] = reply[t]
      /\ spc'[s] = "pass" /\ reply'[s] = a
  BY <1>1, <1>5 DEF Age, Batch, TypeOK
<1>7. Working'
  <2> SUFFICES ASSUME NEW t \in Slaves
               PROVE  /\ Work(t)' <=> Owed(t)'
                      /\ ~sent'[t] => reply'[t] = "none"
                      /\ pipe'[t] # <<>> => spc'[t] \in {"read", "pass", "dead"}
                      /\ ready'[t] => spc'[t] \in {"test", "pause", "clrready"}
    BY DEF Working
  <2>1. CASE t = s
    BY <1>2, <1>3, <1>5, <1>6, <2>1 DEF SlavesOK, Working, Work, Owed
  <2>2. CASE t # s
    BY <1>5, <1>6, <2>2 DEF SlavesOK, Working, Work, Owed
  <2> QED
    BY <2>1, <2>2
<1>8. Batches(n)'
  BY <1>4, <1>5, <1>6 DEF SlavesOK, Batches, Place
<1>9. Queue(k - 1)'
  <2>1. \A t \in Slaves : Owed(t)' <=> (Owed(t) /\ t # s)
    BY <1>5, <1>6 DEF Owed
  <2>2. ASSUME NEW t \in Slaves
        PROVE  Owed(t)' <=> Age(t)' >= SLAVES - (k - 1)
    <3>1. Age(t) \in 0 .. SLAVES - 1 /\ (Age(t) = Age(s) => t = s)
      BY <1>1, AgeIs DEF Age, TypeOK
    <3>2. Owed(t) <=> Age(t) >= SLAVES - k
      BY DEF SlavesOK, Queue
    <3>3. Age(t)' = Age(t)
      BY <1>6
    <3>4. Owed(t) /\ t # s <=> Age(t) >= SLAVES - (k - 1)
      BY <1>3, <3>1, <3>2
    <3> QED
      BY <2>1, <3>3, <3>4
  <2>3. ASSUME NEW t \in Slaves, Turns(t)'
        PROVE  t = Succ(s)
    <3>1. ~(spc'[t] \in {"clrready", "clrcaught", "write"} \/ caught'[t] \/ usr2'[t])
      BY <1>3, <1>5, <1>6 DEF HasTurn, Writing
    <3>2. spc'[Pred(t)] = "pass" /\ Pred(t) \in Slaves
      BY <2>3, <3>1, RingType DEF Turns
    <3>3. Pred(t) = s
      BY <1>3, <1>6, <3>2 DEF HasTurn, Writing
    <3> QED
      BY <3>3, AgeIs
  <2>4. slp' = slp /\ slp \in Slaves /\ Succ(s) \in Slaves
    BY <1>1, <1>5, RingType DEF TypeOK
  <2>5. IF k - 1 = 0 THEN Succ(s) = slp ELSE Age(Succ(s)) = SLAVES - (k - 1)
    <3>1. /\ Succ(s) # slp => Age(Succ(s)) = Age(s) + 1
          /\ Succ(s) = slp <=> Age(s) = SLAVES - 1
      BY <2>4, AgeIs DEF Age
    <3> QED
      BY <1>3, <3>1
  <2> QED
    BY <1>6, <2>2, <2>3, <2>4, <2>5 DEF Queue
<1>10. Tape(n, k - 1)'
  <2>1. /\ Vol.recs \in Seq(Nat) /\ Len(Vol.recs) \in Nat /\ End \in Nat
    BY <1>1, VolIs
  <2>2. Mul(SLAVES) \in Nat
    BY MulIs
  <2>3. ASSUME ~w.full
        PROVE  End + m = n - Mul(k - 1)
    <3>1. ~Vol.full /\ m = ntrec
      BY <1>3, <2>3 DEF Writes
    <3>2. End = n - Mul(k)
      BY <3>1 DEF SlavesOK, Tape
    <3>3. PICK x \in Nat : x = Mul(k - 1)
      BY <1>3
    <3>4. Mul(k) = x + ntrec
      BY <1>3, <3>3
    <3>5. End + m = n - x
      BY <3>1, <3>2, <3>4
    <3> QED
      BY <3>3, <3>5
  <2>4. ASSUME w.end # "open"
        PROVE  Len(w.recs) >= Mul(SLAVES)
    <3>1. CASE Vol.end # "open"
      BY <1>4, <2>1, <2>2, <3>1 DEF SlavesOK, Tape
    <3>2. CASE Vol.end = "open"
      <4>1. Len(Vol.recs) >= Mul(MinBlocks)
        BY <2>4, <3>2 DEF Writes, MayEnd, Mul
      <4>2. MinBlocks \in Nat /\ MinBlocks >= SLAVES
        BY DEF Tapes
      <4>3. Mul(SLAVES) <= Mul(MinBlocks) /\ Mul(MinBlocks) \in Nat
        BY <4>2, MulIs
      <4> QED
        BY <1>4, <2>1, <2>2, <4>1, <4>3
    <3> QED
      BY <3>1, <3>2
  <2>5. w.full => w.end # "open"
    BY DEF Writes
  <2>6. ASSUME NEW t \in Slaves, Short(t)'
        PROVE  w.end # "open"
    <3>1. CASE a = "short"
      BY <3>1 DEF Writes
    <3>2. CASE a = "full"
      <4>1. Short(t)
        BY <1>5, <1>6, <2>6, <3>2 DEF Short
      <4>2. Vol.end # "open" /\ w.end = Vol.end
        BY <3>2, <4>1 DEF SlavesOK, Tape, Writes
      <4> QED
        BY <4>2
    <3> QED
      BY <1>5, <3>1, <3>2
  <2> QED
    BY <1>4, <2>3, <2>4, <2>5, <2>6 DEF Tape
<1> QED
  BY <1>7, <1>8, <1>9, <1>10 DEF SlavesOK

\* The master's knowledge of a tape that ended stays true.
LEMMA WriteMaster ==
    ASSUME IInv, Tapes, Past, Cur, Run(First, Vol.recs, First - 1), Between,
           NEW n \in Nat, NEW k \in 0 .. SLAVES, SlavesOK(n, k), MasterOK(n),
           NEW s \in Slaves, NEW m, NEW a, NEW w, Writes(s, m, a, w)
    PROVE  MasterOK(n)'
<1>1. TypeOK
  BY DEF IInv
<1>2. spc[s] = "write" /\ a \in {"full", "short"}
  BY DEF Writes
<1>3. /\ Owed(s) /\ k # 0 /\ Age(s) = SLAVES - k
      /\ Place(n, s) = n - Mul(k) /\ Mul(k) \in Nat
  BY <1>2, WriteAt
<1>4. /\ Vol' = w /\ Cur' /\ First' = First /\ End' = End + m
      /\ Len(w.recs) = Len(Vol.recs) + m /\ m \in Nat
  BY WriteVol
<1>5. /\ UNCHANGED <<mpc, why, slp, block, next, sent, checkpoint>>
      /\ reply' = [reply EXCEPT ![s] = a]
  BY DEF Writes, mvars
<1>6. /\ Len(Vol.recs) \in Nat /\ End \in Nat /\ First \in Nat
  BY <1>1, VolIs
<1>7. mpc \notin {"roll", "newtape", "closing"}
  BY <1>3 DEF Between, Idle, Owed
<1>8. ASSUME Unseen(n)
      PROVE  Unseen(n)'
  <2> SUFFICES ASSUME w.end # "open"
               PROVE  \E t \in Slaves :
                         /\ Short(t)' /\ Place(n, t)' >= First - 1 + Mul(SLAVES)
                         /\ Place(n, t)' <= End + m
                         /\ \A u \in Slaves : Short(u)' => Age(u)' >= Age(t)'
    BY <1>4 DEF Unseen
  <2>1. \A t \in Slaves : /\ Age(t)' = Age(t) /\ Place(n, t)' = Place(n, t)
                          /\ Place(n, t) \in Int
    BY <1>1, <1>5, PlaceIs DEF Age, Place
  <2>2. \A t \in Slaves : Short(t)' <=> Short(t) \/ (t = s /\ a = "short")
    <3>1. sent[s] /\ reply[s] = "none"
      BY <1>3 DEF Owed
    <3> QED
      BY <1>1, <1>2, <1>5, <3>1 DEF Short, TypeOK
  <2>3. CASE Vol.end # "open"
    <3>1. PICK t \in Slaves :
             /\ Short(t) /\ Place(n, t) >= First - 1 + Mul(SLAVES)
             /\ Place(n, t) <= End
             /\ \A u \in Slaves : Short(u) => Age(u) >= Age(t)
      BY <1>8, <2>3 DEF Unseen
    <3>2. Age(s) >= Age(t)
      <4>1. ~Owed(t)
        BY <3>1 DEF Owed, Short
      <4>2. ~(Age(t) >= SLAVES - k)
        BY <4>1 DEF SlavesOK, Queue
      <4>3. Age(t) \in Int
        BY <1>1, PlaceIs
      <4> QED
        BY <1>3, <4>2, <4>3
    <3>3. \A u \in Slaves : Short(u)' => Age(u)' >= Age(t)'
      BY <2>1, <2>2, <3>1, <3>2
    <3>4. Place(n, t) <= End + m
      BY <1>4, <1>6, <2>1, <3>1
    <3> QED
      BY <2>1, <2>2, <3>1, <3>3, <3>4
  <2>4. CASE Vol.end = "open"
    <3>1. a = "short" /\ MayEnd
      BY <1>2, <2>4 DEF Writes
    <3>2. \A u \in Slaves : Short(u)' => u = s
      BY <2>2, <2>4 DEF SlavesOK, Tape
    <3>3. Place(n, s) = End
      BY <1>3, <2>4 DEF SlavesOK, Tape
    <3>4. Len(Vol.recs) >= Mul(SLAVES)
      <4>1. Len(Vol.recs) >= Mul(MinBlocks)
        BY <2>4, <3>1 DEF MayEnd, Mul
      <4>2. MinBlocks \in Nat /\ MinBlocks >= SLAVES
        BY DEF Tapes
      <4>3. Mul(SLAVES) <= Mul(MinBlocks) /\ Mul(MinBlocks) \in Nat /\ Mul(SLAVES) \in Nat
        BY <4>2, MulIs
      <4> QED
        BY <1>6, <4>1, <4>3
    <3>5. Mul(SLAVES) \in Nat
      BY MulIs
    <3>6. End >= First - 1 + Mul(SLAVES) /\ End <= End + m
      BY <1>4, <1>6, <3>4, <3>5 DEF End
    <3>7. Age(s) \in Int
      BY <1>1, PlaceIs
    <3>8. \A u \in Slaves : Short(u)' => Age(u)' >= Age(s)'
      BY <2>1, <3>2, <3>7
    <3> QED
      BY <2>1, <2>2, <3>1, <3>3, <3>6, <3>8
  <2> QED
    BY <2>3, <2>4
<1>9. Filling(n)' <=> Filling(n)
  BY <1>4, <1>5 DEF Filling
<1>10. ASSUME mpc = "drain"
       PROVE  Len(Vol'.recs) > 1 /\ n - Mul(SLAVES) <= End'
  <2>1. /\ Len(Vol.recs) > 1 /\ n - Mul(SLAVES) <= End /\ Mul(SLAVES) \in Nat
    BY <1>10, MulIs DEF MasterOK
  <2> QED
    BY <1>4, <1>6, <2>1
<1> QED
  BY <1>4, <1>5, <1>7, <1>8, <1>9, <1>10 DEF MasterOK

\* Writing keeps the invariant.
LEMMA WriteInv ==
    ASSUME IInv, TapeInv, Tapes, NEW s \in Slaves,
           \/ SlaveWrite(s)
           \/ \E m \in 0 .. Len(buffer[s]), c \in Causes : SlaveWriteShort(s, m, c)
    PROVE  TapeInv'
<1>1. spc[s] = "write"
  BY DEF SlaveWrite, SlaveWriteShort, Goto
<1>2. Running /\ Cur
  BY <1>1 DEF TapeInv, Between, Gone
<1>3. Past /\ Between /\ Run(First, Vol.recs, First - 1)
  BY <1>2 DEF TapeInv
<1>4. PICK m, a, w : Writes(s, m, a, w)
  BY <1>2, <1>3, WriteIs
<1>5. PICK n \in Nat, k \in 0 .. SLAVES :
         SlavesOK(n, k) /\ (why # "rewrite" => MasterOK(n))
  BY <1>2 DEF TapeInv
<1>6. /\ Vol' = w /\ Cur' /\ First' = First /\ Past'
      /\ Run(First, w.recs, First - 1)
  BY <1>2, <1>3, <1>4, <1>5, WriteVol
<1>7. SlavesOK(n, k - 1)' /\ k - 1 \in 0 .. SLAVES
  BY <1>1, <1>2, <1>3, <1>4, <1>5, WriteSlaves, WriteAt
<1>8. UNCHANGED <<mpc, why>>
  BY <1>4 DEF Writes, mvars
<1>9. why' # "rewrite" => MasterOK(n)'
  BY <1>2, <1>3, <1>4, <1>5, <1>8, WriteMaster
<1>10. Between'
  <2>1. Owed(s)
    BY <1>1, <1>5, WriteAt
  <2>2. mpc \notin {"roll", "newtape", "closing"}
    BY <1>3, <2>1 DEF Between, Idle, Owed
  <2> QED
    BY <1>2, <1>3, <1>8, <2>2 DEF Between, Running
<1> QED
  BY <1>6, <1>7, <1>9, <1>10 DEF TapeInv

-----------------------------------------------------------------------------
(* The master while it fills blocks and deals them out.                    *)

\* A step that does not touch the tape.
LEMMA SameVols ==
    ASSUME TapeInv, UNCHANGED <<checkpoint, vols>>
    PROVE  /\ Past' /\ First' = First /\ (Cur' <=> Cur) /\ Vol' = Vol /\ End' = End
           /\ (Cur => Run(First, Vol.recs, First - 1)')
           /\ (Done' <=> Done)
<1>1. First' = First /\ (Cur' <=> Cur) /\ Vol' = Vol /\ End' = End
  BY DEF First, Cur, Vol, End
<1>2. Past'
  BY DEF TapeInv, Past, Ctx, Closed, SeamlessAt
<1>3. Cur => Run(First, Vol.recs, First - 1)'
  BY <1>1 DEF TapeInv
<1>4. Done' <=> Done
  BY DEF Done
<1> QED
  BY <1>1, <1>2, <1>3, <1>4

\* The end of dump without success.
LEMMA QuitInv ==
    ASSUME TapeInv, quit, UNCHANGED <<checkpoint, vols>>
    PROVE  TapeInv'
<1>1. Past' /\ (Cur' => Run(First, Vol.recs, First - 1)')
  BY SameVols
<1>2. mpc' = "abort" /\ \A s \in Slaves : spc'[s] = "dead"
  BY DEF quit
<1>3. ~Running' /\ Between'
  BY <1>2 DEF Running, Between
<1> QED
  BY <1>1, <1>3 DEF TapeInv

\* A dump that goes on writes to a volume.
LEMMA AtWork ==
    ASSUME TapeInv, Running, mpc # "newtape",
           why # "rewrite" \/ mpc \notin {"trewind", "closing"}
    PROVE  /\ Cur /\ Past /\ Between /\ Run(First, Vol.recs, First - 1)
           /\ \E n \in Nat, k \in 0 .. SLAVES : SlavesOK(n, k) /\ MasterOK(n)
           /\ why # "rewrite"
<1>1. why # "rewrite"
  BY DEF TapeInv, Between, Running
<1> QED
  BY <1>1 DEF TapeInv

\* The invariant after a step of a master that goes on.
LEMMA Onward ==
    ASSUME TapeInv, Cur, UNCHANGED <<checkpoint, vols>>, Running',
           NEW n \in Nat, NEW k \in 0 .. SLAVES, SlavesOK(n, k)', MasterOK(n)',
           Between'
    PROVE  TapeInv'
<1>1. Past' /\ Cur' /\ Run(First, Vol.recs, First - 1)'
  BY SameVols
<1> QED
  BY <1>1 DEF TapeInv

\* The slaves do not notice what the master does to other blocks.
LEMMA SameSlaves ==
    ASSUME NEW n \in Nat, NEW k \in 0 .. SLAVES, SlavesOK(n, k),
           UNCHANGED <<slp, sent, reply, checkpoint, svars, vols>>,
           \A s \in Slaves : sent[s] => block'[s] = block[s]
    PROVE  SlavesOK(n, k)'
<1>1. /\ UNCHANGED <<slp, sent, reply, checkpoint, spc, ready, caught, usr2,
                     pipe, buffer, vols>>
  BY DEF svars
<1>2. First' = First /\ Vol' = Vol /\ End' = End
  BY <1>1 DEF First, Vol, End
<1>3. \A s \in Slaves : /\ Age(s)' = Age(s) /\ Batch(s)' = Batch(s)
                        /\ (Work(s)' <=> Work(s)) /\ (Owed(s)' <=> Owed(s))
                        /\ (Turns(s)' <=> Turns(s)) /\ (Short(s)' <=> Short(s))
  BY <1>1 DEF Age, Batch, Work, Owed, Turns, Short
<1>4. Working'
  BY <1>1, <1>3 DEF SlavesOK, Working
<1>5. Batches(n)'
  BY <1>1, <1>2, <1>3 DEF SlavesOK, Batches, Place
<1>6. Queue(k)'
  BY <1>1, <1>3 DEF SlavesOK, Queue
<1>7. Tape(n, k)'
  BY <1>2, <1>3 DEF SlavesOK, Tape
<1> QED
  BY <1>4, <1>5, <1>6, <1>7 DEF SlavesOK

LEMMA SameUnseen ==
    ASSUME NEW n \in Nat, Unseen(n),
           UNCHANGED <<slp, sent, reply, checkpoint, vols>>
    PROVE  Unseen(n)'
<1>1. First' = First /\ Vol' = Vol /\ End' = End
  BY DEF First, Vol, End
<1>2. \A s \in Slaves : /\ Age(s)' = Age(s) /\ (Short(s)' <=> Short(s))
                        /\ Place(n, s)' = Place(n, s)
  BY DEF Age, Short, Place
<1> QED
  BY <1>1, <1>2 DEF Unseen

\* The reply of the slave slp is taken.
Taken == /\ sent' = [sent EXCEPT ![slp] = FALSE]
         /\ reply' = [reply EXCEPT ![slp] = "none"]
         /\ UNCHANGED <<slp, checkpoint, spc, ready, caught, usr2, pipe,
                        buffer, vols>>

LEMMA TakenSlaves ==
    ASSUME TypeOK, NEW n \in Nat, NEW k \in 0 .. SLAVES, SlavesOK(n, k), Taken,
           ~Owed(slp), \A s \in Slaves : s # slp => block'[s] = block[s]
    PROVE  SlavesOK(n, k)'
<1>1. /\ UNCHANGED <<slp, checkpoint, spc, ready, caught, usr2, pipe, buffer, vols>>
      /\ slp \in Slaves /\ ~sent'[slp] /\ reply'[slp] = "none"
      /\ \A s \in Slaves : s # slp => sent'[s] = sent[s] /\ reply'[s] = reply[s]
  BY DEF Taken, TypeOK
<1>2. First' = First /\ Vol' = Vol /\ End' = End
  BY <1>1 DEF First, Vol, End
<1>3. \A s \in Slaves : /\ Age(s)' = Age(s) /\ Batch(s)' = Batch(s)
                        /\ (Work(s)' <=> Work(s)) /\ (Turns(s)' <=> Turns(s))
  BY <1>1 DEF Age, Batch, Work, Turns
<1>4. \A s \in Slaves : (Owed(s)' <=> Owed(s)) /\ (Short(s)' => Short(s))
  BY <1>1 DEF Owed, Short
<1>5. Working'
  BY <1>1, <1>3, <1>4 DEF SlavesOK, Working
<1>6. Batches(n)'
  <2> SUFFICES ASSUME NEW s \in Slaves, sent'[s]
               PROVE  /\ Len(Batch(s)') = ntrec
                      /\ Run(First, Batch(s), Place(n, s))'
                      /\ \/ Batch(s)' = block'[s]
                         \/ Place(n, s)' + ntrec < First' + Mul(SLAVES)
                      /\ \A t \in Slaves : Age(t)' >= Age(s)' => sent'[t]
    BY DEF Batches
  <2>1. s # slp /\ sent[s] /\ block'[s] = block[s]
    BY <1>1
  <2>2. Place(n, s)' = Place(n, s)
    BY <1>3 DEF Place
  <2>3. /\ Len(Batch(s)) = ntrec /\ Run(First, Batch(s), Place(n, s))
        /\ \/ Batch(s) = block[s]
           \/ Place(n, s) + ntrec < First + Mul(SLAVES)
        /\ \A t \in Slaves : Age(t) >= Age(s) => sent[t]
    BY <2>1 DEF SlavesOK, Batches
  <2>4. ASSUME NEW t \in Slaves, Age(t) >= Age(s)
        PROVE  sent'[t]
    <3>1. t # slp
      <4>1. Age(slp) = 0 /\ Age(s) # 0 /\ Age(s) \in Nat
        BY <1>1, <2>1, AgeIs DEF Age
      <4> QED
        BY <2>4, <4>1
    <3> QED
      BY <1>1, <2>3, <2>4, <3>1
  <2> QED
    BY <1>2, <1>3, <2>1, <2>2, <2>3, <2>4
<1>7. Queue(k)'
  BY <1>1, <1>3, <1>4 DEF SlavesOK, Queue
<1>8. Tape(n, k)'
  BY <1>2, <1>4 DEF SlavesOK, Tape
<1> QED
  BY <1>5, <1>6, <1>7, <1>8 DEF SlavesOK

\* If it was not short, what is still to be found out is elsewhere.
LEMMA TakenUnseen ==
    ASSUME TypeOK, NEW n \in Nat, Unseen(n), Taken, ~Short(slp)
    PROVE  Unseen(n)'
<1>1. /\ UNCHANGED <<slp, checkpoint, vols>>
      /\ slp \in Slaves /\ ~sent'[slp]
      /\ \A s \in Slaves : s # slp => sent'[s] = sent[s] /\ reply'[s] = reply[s]
  BY DEF Taken, TypeOK
<1>2. First' = First /\ Vol' = Vol /\ End' = End
  BY <1>1 DEF First, Vol, End
<1>3. \A s \in Slaves : /\ Age(s)' = Age(s) /\ (Short(s)' <=> Short(s))
                        /\ Place(n, s)' = Place(n, s)
  BY <1>1 DEF Age, Short, Place
<1> QED
  BY <1>2, <1>3 DEF Unseen

\* A run is continued by the record whose place comes next.
LEMMA RunOn ==
    ASSUME NEW f \in Nat, NEW b \in Seq(Nat), NEW p \in Nat, NEW x \in Nat,
           Run(f, b, p), x = Rec(f, p + Len(b))
    PROVE  Run(f, Append(b, x), p) /\ Len(Append(b, x)) = Len(b) + 1
<1>1. /\ Len(Append(b, x)) = Len(b) + 1 /\ Len(b) \in Nat
      /\ \A i \in 1 .. Len(b) : Append(b, x)[i] = b[i]
      /\ Append(b, x)[Len(b) + 1] = x
  BY AppendProperties
<1>2. ASSUME NEW i \in 1 .. (Len(b) + 1)
      PROVE  Append(b, x)[i] = Rec(f, p + i - 1)
  <2>1. CASE i = Len(b) + 1
    <3>1. p + i - 1 = p + Len(b)
      BY <1>1, <2>1
    <3> QED
      BY <1>1, <2>1, <3>1
  <2>2. CASE i \in 1 .. Len(b)
    BY <1>1, <2>2 DEF Run
  <2> QED
    BY <1>1, <2>1, <2>2
<1> QED
  BY <1>1, <1>2 DEF Run

LEMMA WriterecInv == ASSUME IInv, TapeInv, writerec PROVE TapeInv'
<1>1. TypeOK
  BY DEF IInv
<1>2. mpc = "gen" /\ Running
  BY DEF writerec, Running
<1>3. /\ Cur /\ Past /\ Between /\ why # "rewrite"
      /\ \E n \in Nat, k \in 0 .. SLAVES : SlavesOK(n, k) /\ MasterOK(n)
  BY <1>2, AtWork
<1>4. PICK n \in Nat, k \in 0 .. SLAVES : SlavesOK(n, k) /\ MasterOK(n)
  BY <1>3
<1>5. /\ UNCHANGED <<why, slp, sent, checkpoint, svars, vols>> /\ UNCHANGED reply
      /\ next' = next + 1 /\ block' = [block EXCEPT ![slp] = Append(@, next)]
      /\ mpc' = IF Len(block[slp]) + 1 >= ntrec THEN "flush" ELSE "gen"
  BY DEF writerec, svars
<1>6. /\ slp \in Slaves /\ block[slp] \in Seq(Nat) /\ next \in Nat
      /\ Len(block[slp]) \in Nat /\ First \in Nat /\ First >= 1
  BY <1>1, <1>3, BlockIs, ContextIs DEF TypeOK
<1>7. /\ next = n + Len(block[slp]) /\ Run(First, block[slp], n)
      /\ Len(block[slp]) < ntrec /\ ~sent[slp] /\ next >= First /\ Unseen(n)
      /\ (n = First - 1 \/ n >= First - 1 + ntrec)
  BY <1>2, <1>4 DEF MasterOK, Filling
<1>8. SlavesOK(n, k)'
  <2>1. \A s \in Slaves : sent[s] => block'[s] = block[s]
    BY <1>1, <1>5, <1>7 DEF TypeOK
  <2> QED
    BY <1>4, <1>5, <2>1, SameSlaves
<1>9. First' = First
  BY SameVols, <1>5
<1>10. block'[slp] = Append(block[slp], next)
  BY <1>1, <1>5, <1>6 DEF TypeOK
<1>11. /\ Run(First, Append(block[slp], next), n)
       /\ Len(Append(block[slp], next)) = Len(block[slp]) + 1
  <2>1. next = Rec(First, n + Len(block[slp]))
    BY <1>6, <1>7 DEF Rec
  <2> DEFINE b == block[slp]
             f == First
  <2>2. f \in Nat /\ b \in Seq(Nat) /\ Run(f, b, n) /\ next = Rec(f, n + Len(b))
    BY <1>6, <1>7, <2>1
  <2> HIDE DEF b, f
  <2>3. Run(f, Append(b, next), n) /\ Len(Append(b, next)) = Len(b) + 1
    BY <1>6, <2>2, RunOn
  <2> QED
    BY <2>3 DEF b, f
<1>12. Filling(n)'
  <2>1. slp' = slp /\ block'[slp'] = Append(block[slp], next)
    BY <1>5, <1>10
  <2>2. next' = n + Len(block'[slp'])
    BY <1>5, <1>6, <1>7, <1>11, <2>1
  <2>3. Run(First, block'[slp'], n)
    BY <1>11, <2>1
  <2> QED
    BY <1>9, <2>2, <2>3 DEF Filling
<1>13. Unseen(n)'
  BY <1>4, <1>5, <1>7, SameUnseen
<1>14. MasterOK(n)'
  BY <1>5, <1>6, <1>7, <1>9, <1>10, <1>11, <1>12, <1>13 DEF MasterOK
<1>15. Between' /\ Running'
  BY <1>3, <1>5 DEF Between, Running
<1> QED
  BY <1>3, <1>4, <1>5, <1>8, <1>14, <1>15, Onward

LEMMA FinishInv == ASSUME IInv, TapeInv, finish PROVE TapeInv'
<1>1. mpc = "gen" /\ Running /\ next > Total
  BY DEF finish, Running
<1>2. /\ Cur /\ Past /\ Between /\ why # "rewrite"
      /\ \E n \in Nat, k \in 0 .. SLAVES : SlavesOK(n, k) /\ MasterOK(n)
  BY <1>1, AtWork
<1>3. PICK n \in Nat, k \in 0 .. SLAVES : SlavesOK(n, k) /\ MasterOK(n)
  BY <1>2
<1>4. /\ UNCHANGED <<slp, block, next, sent, checkpoint, svars, vols>>
      /\ UNCHANGED reply /\ mpc' = "trewind" /\ why' = "finish"
  BY DEF finish, svars
<1>5. SlavesOK(n, k)'
  BY <1>3, <1>4, SameSlaves
<1>6. Unseen(n)' /\ First' = First
  <2>1. Unseen(n)
    BY <1>1, <1>3 DEF MasterOK
  <2> QED
    BY <1>3, <1>4, <2>1, SameUnseen, SameVols
<1>7. Filling(n)'
  BY <1>1, <1>3, <1>4, <1>6 DEF MasterOK, Filling
<1>8. MasterOK(n)'
  BY <1>1, <1>3, <1>4, <1>6, <1>7 DEF MasterOK
<1>9. Between' /\ Running'
  BY <1>4 DEF Between, Running
<1> QED
  BY <1>2, <1>3, <1>4, <1>5, <1>8, <1>9, Onward

\* The block goes to the slave, which is now the one that got its block last.
LEMMA SendAge ==
    ASSUME TypeOK, NEW p \in Slaves, p = slp, slp' = Succ(p), NEW n \in Nat
    PROVE  /\ slp' \in Slaves /\ Age(p)' = SLAVES - 1
           /\ Place(n + ntrec, p)' = n
           /\ \A s \in Slaves : s # p => /\ Age(s)' = Age(s) - 1
                                           /\ Age(s) \in 1 .. SLAVES - 1
                                           /\ Place(n + ntrec, s)' = Place(n, s)
<1>1. slp' \in Slaves
  BY RingType DEF TypeOK
<1>2. Age(p)' = SLAVES - 1
  BY <1>1, AgeIs DEF Age
<1>3. Place(n + ntrec, p)' = n
  <2>1. SLAVES - Age(p)' = 1
    BY <1>2
  <2>2. Place(n + ntrec, p)' = n + ntrec - Mul(1)
    BY <2>1 DEF Place, Mul
  <2> QED
    BY <2>2, MulIs
<1>4. ASSUME NEW s \in Slaves, s # p
      PROVE  /\ Age(s)' = Age(s) - 1 /\ Age(s) \in 1 .. SLAVES - 1
             /\ Place(n + ntrec, s)' = Place(n, s)
  <2>1. Age(s)' = Age(s) - 1 /\ Age(s) \in 1 .. SLAVES - 1
    <3>1. AgeFrom(Succ(p), s) = AgeFrom(p, s) - 1
      BY <1>1, <1>4, AgeIs
    <3>2. AgeFrom(p, s) \in 0 .. SLAVES - 1 /\ AgeFrom(p, s) # 0
      BY <1>1, <1>4, AgeIs
    <3> QED
      BY <3>1, <3>2 DEF Age
  <2>2. PICK j \in Nat : j = SLAVES - Age(s) /\ SLAVES - Age(s)' = j + 1
    BY <2>1
  <2>3. Place(n + ntrec, s)' = n + ntrec - Mul(j + 1)
    BY <2>2 DEF Place, Mul
  <2>4. Place(n, s) = n - Mul(j)
    BY <2>2 DEF Place
  <2>5. Mul(j + 1) = Mul(j) + ntrec /\ Mul(j) \in Nat
    BY <2>2, MulIs
  <2> QED
    BY <2>1, <2>3, <2>4, <2>5
<1> QED
  BY <1>1, <1>2, <1>3, <1>4

LEMMA SendSlaves ==
    ASSUME TypeOK, FlushSend, NEW p \in Slaves, p = slp, NEW n \in Nat, NEW k \in 0 .. SLAVES, SlavesOK(n, k),
           ~sent[p], Run(First, block[p], n), Len(block[p]) = ntrec
    PROVE  SlavesOK(n + ntrec, k + 1)' /\ k + 1 \in 0 .. SLAVES
<1>1. /\ slp' \in Slaves /\ Age(p)' = SLAVES - 1
      /\ Place(n + ntrec, p)' = n
      /\ \A s \in Slaves : s # p => /\ Age(s)' = Age(s) - 1
                                      /\ Age(s) \in 1 .. SLAVES - 1
                                      /\ Place(n + ntrec, s)' = Place(n, s)
  BY SendAge DEF FlushSend
<1>2. /\ UNCHANGED <<block, checkpoint, spc, ready, caught, usr2, reply, buffer, vols>>
      /\ pipe'[p] = block[p] /\ sent'[p] = TRUE /\ slp' = Succ(p)
      /\ \A s \in Slaves : s # p => pipe'[s] = pipe[s] /\ sent'[s] = sent[s]
  BY DEF FlushSend, TypeOK
<1>3. /\ reply[p] = "none" /\ ~Owed(p) /\ ~Work(p) /\ block[p] # <<>>
  <2>1. block[p] # <<>>
    OBVIOUS
  <2> QED
    BY <1>1, <2>1 DEF SlavesOK, Working, Owed
<1>4. Age(p) = 0 /\ k < SLAVES
  <2>1. Age(p) = 0
    BY <1>1, AgeIs DEF Age
  <2>2. ~(Age(p) >= SLAVES - k)
    BY <1>1, <1>3 DEF SlavesOK, Queue
  <2> QED
    BY <2>1, <2>2
<1>5. First' = First /\ Vol' = Vol /\ End' = End
  BY <1>2 DEF First, Vol, End
<1>6. /\ Batch(p)' = block[p] /\ Work(p)' /\ Owed(p)'
      /\ \A s \in Slaves : s # p => /\ Batch(s)' = Batch(s)
                                      /\ (Work(s)' <=> Work(s))
                                      /\ (Owed(s)' <=> Owed(s))
  BY <1>2, <1>3 DEF Batch, Work, Owed
<1>7. \A s \in Slaves : (Turns(s)' <=> Turns(s)) /\ (Short(s)' => Short(s))
  <2>1. \A s \in Slaves : Turns(s)' <=> Turns(s)
    BY <1>2 DEF Turns
  <2>2. \A s \in Slaves : Short(s)' => Short(s)
    BY <1>2, <1>3 DEF Short
  <2> QED
    BY <2>1, <2>2
<1>8. Working'
  <2> SUFFICES ASSUME NEW s \in Slaves
               PROVE  /\ Work(s)' <=> Owed(s)'
                      /\ ~sent'[s] => reply'[s] = "none"
                      /\ pipe'[s] # <<>> => spc'[s] \in {"read", "pass", "dead"}
                      /\ ready'[s] => spc'[s] \in {"test", "pause", "clrready"}
    BY DEF Working
  <2>1. CASE s = p
    <3>1. spc[s] \in {"read", "pass", "dead"}
      BY <1>3, <2>1 DEF Work, TypeOK
    <3> QED
      BY <1>2, <1>6, <2>1, <3>1 DEF SlavesOK, Working
  <2>2. CASE s # p
    BY <1>2, <1>6, <2>2 DEF SlavesOK, Working
  <2> QED
    BY <2>1, <2>2
<1>9. Batches(n + ntrec)'
  <2> SUFFICES ASSUME NEW s \in Slaves, sent'[s]
               PROVE  /\ Len(Batch(s)') = ntrec
                      /\ Run(First', Batch(s)', Place(n + ntrec, s)')
                      /\ \/ Batch(s)' = block'[s]
                         \/ Place(n + ntrec, s)' + ntrec < First' + Mul(SLAVES)
                      /\ \A t \in Slaves : Age(t)' >= Age(s)' => sent'[t]
    BY DEF Batches, Run, Rec
  <2>1. CASE s = p
    <3>1. ASSUME NEW t \in Slaves, Age(t)' >= Age(s)'
          PROVE  sent'[t]
      BY <1>1, <1>2, <2>1, <3>1
    <3> QED
      BY <1>1, <1>2, <1>5, <1>6, <2>1, <3>1
  <2>2. CASE s # p
    <3>1. /\ Len(Batch(s)) = ntrec /\ Run(First, Batch(s), Place(n, s))
          /\ \/ Batch(s) = block[s]
             \/ Place(n, s) + ntrec < First + Mul(SLAVES)
          /\ \A t \in Slaves : Age(t) >= Age(s) => sent[t]
      BY <1>2, <2>2 DEF SlavesOK, Batches
    <3>2. ASSUME NEW t \in Slaves, Age(t)' >= Age(s)'
          PROVE  sent'[t]
      <4>1. CASE t = p
        BY <1>2, <4>1
      <4>2. CASE t # p
        <5>1. Age(t) >= Age(s)
          BY <1>1, <2>2, <3>2, <4>2
        <5> QED
          BY <1>2, <3>1, <4>2, <5>1
      <4> QED
        BY <4>1, <4>2
    <3> QED
      BY <1>1, <1>2, <1>5, <1>6, <2>2, <3>1, <3>2
  <2> QED
    BY <2>1, <2>2
<1>10. Queue(k + 1)'
  <2>1. ASSUME NEW s \in Slaves
        PROVE  Owed(s)' <=> Age(s)' >= SLAVES - (k + 1)
    <3>1. CASE s = p
      BY <1>1, <1>6, <3>1
    <3>2. CASE s # p
      <4>1. Owed(s) <=> Age(s) >= SLAVES - k
        BY DEF SlavesOK, Queue
      <4> QED
        BY <1>1, <1>6, <3>2, <4>1
    <3> QED
      BY <3>1, <3>2
  <2>2. ASSUME NEW s \in Slaves, Turns(s)'
        PROVE  Age(s)' = SLAVES - (k + 1)
    <3>1. IF k = 0 THEN s = p ELSE Age(s) = SLAVES - k
      BY <1>7, <2>2 DEF SlavesOK, Queue
    <3>2. CASE k = 0
      BY <1>1, <3>1, <3>2
    <3>3. CASE k # 0
      BY <1>1, <1>4, <3>1, <3>3
    <3> QED
      BY <3>2, <3>3
  <2>3. k + 1 # 0
    OBVIOUS
  <2> QED
    BY <2>1, <2>2, <2>3 DEF Queue
<1>11. Tape(n + ntrec, k + 1)'
  <2>1. Mul(k + 1) = Mul(k) + ntrec /\ Mul(k) \in Nat
    BY MulIs
  <2>2. n - Mul(k) = n + ntrec - Mul(k + 1)
    BY <2>1
  <2>3. Mul(k + 1)' = Mul(k + 1) /\ Mul(SLAVES)' = Mul(SLAVES)
    BY DEF Mul
  <2>4. /\ ~Vol.full => End = n + ntrec - Mul(k + 1)
        /\ Vol.full => Vol.end # "open"
        /\ Vol.end # "open" => Len(Vol.recs) >= Mul(SLAVES)
        /\ \A s \in Slaves : Short(s) => Vol.end # "open"
    BY <2>2 DEF SlavesOK, Tape
  <2>5. /\ ~Vol'.full => End' = n + ntrec - Mul(k + 1)'
        /\ Vol'.full => Vol'.end # "open"
        /\ Vol'.end # "open" => Len(Vol'.recs) >= Mul(SLAVES)'
        /\ \A s \in Slaves : Short(s)' => Vol'.end # "open"
    BY <1>5, <1>7, <2>3, <2>4
  <2> QED
    BY <2>5 DEF Tape, Mul
<1> QED
  BY <1>4, <1>8, <1>9, <1>10, <1>11 DEF SlavesOK

LEMMA FlushSendInv == ASSUME IInv, TapeInv, FlushSend PROVE TapeInv'
<1>1. TypeOK
  BY DEF IInv
<1>2. mpc = "flush" /\ Running
  BY DEF FlushSend, Running
<1>3. /\ Cur /\ Past /\ Between /\ why # "rewrite"
      /\ \E n \in Nat, k \in 0 .. SLAVES : SlavesOK(n, k) /\ MasterOK(n)
  BY <1>2, AtWork
<1>4. PICK n \in Nat, k \in 0 .. SLAVES : SlavesOK(n, k) /\ MasterOK(n)
  BY <1>3
<1>5. /\ next = n + ntrec /\ Run(First, block[slp], n)
      /\ Len(block[slp]) = ntrec /\ ~sent[slp] /\ next >= First /\ Unseen(n)
      /\ (n = First - 1 \/ n >= First - 1 + ntrec)
  BY <1>2, <1>4 DEF MasterOK, Filling
<1>6. SlavesOK(n + ntrec, k + 1)' /\ k + 1 \in 0 .. SLAVES
  <2>1. slp \in Slaves
    BY <1>1 DEF TypeOK
  <2> QED
    BY <1>1, <1>4, <1>5, <2>1, SendSlaves
<1>7. /\ UNCHANGED <<why, block, next, checkpoint, reply, vols>>
      /\ mpc' = "collect" /\ slp' = Succ(slp)
      /\ \A s \in Slaves : s # slp => sent'[s] = sent[s]
  BY <1>1 DEF FlushSend, TypeOK
<1>8. First' = First /\ Vol' = Vol /\ End' = End /\ First \in Nat
  BY <1>1, <1>3, <1>7, SameVols, ContextIs
<1>9. Unseen(n + ntrec)'
  <2> SUFFICES ASSUME Vol.end # "open"
               PROVE  \E s \in Slaves :
                         /\ Short(s)'
                         /\ Place(n + ntrec, s)' >= First - 1 + Mul(SLAVES)
                         /\ Place(n + ntrec, s)' <= End
                         /\ \A t \in Slaves : Short(t)' => Age(t)' >= Age(s)'
    BY <1>8 DEF Unseen
  <2>1. PICK s \in Slaves :
           /\ Short(s) /\ Place(n, s) >= First - 1 + Mul(SLAVES)
           /\ Place(n, s) <= End
           /\ \A t \in Slaves : Short(t) => Age(t) >= Age(s)
    BY <1>5 DEF Unseen
  <2>2. s # slp
    BY <1>5, <2>1 DEF Short
  <2>3. \A t \in Slaves : t # slp => /\ Age(t)' = Age(t) - 1
                                     /\ Age(t) \in 1 .. SLAVES - 1
                                     /\ Place(n + ntrec, t)' = Place(n, t)
    <3>1. PICK p \in Slaves : p = slp
      BY <1>1 DEF TypeOK
    <3>2. slp' = Succ(p)
      BY <1>7, <3>1
    <3>3. \A t \in Slaves : t # p => /\ Age(t)' = Age(t) - 1
                                     /\ Age(t) \in 1 .. SLAVES - 1
                                     /\ Place(n + ntrec, t)' = Place(n, t)
      BY <1>1, <3>1, <3>2, SendAge
    <3> QED
      BY <3>1, <3>3
  <2>4. \A t \in Slaves : t # slp => (Short(t)' <=> Short(t))
    BY <1>7 DEF Short
  <2>5. ASSUME NEW t \in Slaves, Short(t)'
        PROVE  t # slp
    <3>1. reply[slp] = "none"
      BY <1>1, <1>4, <1>5 DEF SlavesOK, Working, TypeOK
    <3> QED
      BY <1>7, <2>5, <3>1 DEF Short
  <2>6. ASSUME NEW t \in Slaves, Short(t)'
        PROVE  Age(t)' >= Age(s)'
    <3>1. t # slp /\ Age(t) >= Age(s)
      BY <2>1, <2>4, <2>5, <2>6
    <3> QED
      BY <2>2, <2>3, <3>1
  <2> QED
    BY <2>1, <2>2, <2>3, <2>4, <2>6
<1>10. MasterOK(n + ntrec)'
  <2>1. n + ntrec >= First - 1 + ntrec
    BY <1>5, <1>8
  <2> QED
    BY <1>5, <1>7, <1>8, <1>9, <2>1 DEF MasterOK
<1>11. Between' /\ Running'
  BY <1>3, <1>7 DEF Between, Running
<1>12. n + ntrec \in Nat
  OBVIOUS
<1>13. UNCHANGED <<checkpoint, vols>>
  BY <1>7
<1> QED
  BY <1>3, <1>6, <1>10, <1>11, <1>12, <1>13, Onward

-----------------------------------------------------------------------------
(* The answers.                                                            *)

\* A full block was written, or none was outstanding.
LEMMA FlushNextInv == ASSUME IInv, TapeInv, FlushNext PROVE TapeInv'
<1>1. TypeOK /\ slp \in Slaves
  BY DEF IInv, TypeOK
<1>2. mpc = "collect" /\ Running
  BY DEF FlushNext, Running
<1>3. /\ Cur /\ Past /\ Between /\ why # "rewrite"
      /\ \E n \in Nat, k \in 0 .. SLAVES : SlavesOK(n, k) /\ MasterOK(n)
  BY <1>2, AtWork
<1>4. PICK n \in Nat, k \in 0 .. SLAVES : SlavesOK(n, k) /\ MasterOK(n)
  BY <1>3
<1>5. ~Owed(slp) /\ ~Short(slp)
  BY DEF FlushNext, Owed, Short
<1>6. Taken
  <2>1. /\ sent' = [sent EXCEPT ![slp] = FALSE]
        /\ reply' = [reply EXCEPT ![slp] = "none"]
    <3>1. CASE sent[slp]
      BY <3>1 DEF FlushNext, TakeReply
    <3>2. CASE ~sent[slp]
      <4>1. sent' = sent /\ reply' = reply
        BY <3>2 DEF FlushNext
      <4>2. reply[slp] = "none" /\ sent[slp] = FALSE
        BY <1>1, <1>4, <3>2 DEF SlavesOK, Working, TypeOK
      <4> QED
        BY <1>1, <4>1, <4>2 DEF TypeOK
    <3> QED
      BY <3>1, <3>2
  <2> QED
    BY <2>1 DEF FlushNext, Taken
<1>7. /\ UNCHANGED <<slp, next, checkpoint, vols>>
      /\ block'[slp] = <<>> /\ \A s \in Slaves : s # slp => block'[s] = block[s]
      /\ \/ mpc' = "trewind" /\ why' = "size"
         \/ mpc' = "gen" /\ why' = why
  BY <1>1 DEF FlushNext, TypeOK
<1>8. SlavesOK(n, k)'
  BY <1>1, <1>4, <1>5, <1>6, <1>7, TakenSlaves
<1>9. /\ next = n /\ n >= First - 1 + ntrec /\ next >= First /\ Unseen(n)
  BY <1>2, <1>4 DEF MasterOK
<1>10. Unseen(n)'
  BY <1>1, <1>4, <1>5, <1>6, <1>9, TakenUnseen
<1>11. First' = First
  BY <1>7, SameVols
<1>12. Filling(n)' /\ Len(block'[slp']) = 0 /\ ~sent'[slp']
  <2>1. slp' = slp /\ block'[slp'] = <<>> /\ Len(block'[slp']) = 0
    BY <1>7
  <2>2. next' = n + Len(block'[slp'])
    BY <1>7, <1>9, <2>1
  <2>3. ~sent'[slp']
    BY <1>1, <1>6, <2>1 DEF Taken, TypeOK
  <2> QED
    BY <2>1, <2>2, <2>3 DEF Filling, Run
<1>13. MasterOK(n)'
  BY <1>7, <1>9, <1>10, <1>11, <1>12 DEF MasterOK
<1>14. Between' /\ Running'
  BY <1>3, <1>7 DEF Between, Running
<1> QED
  BY <1>3, <1>4, <1>7, <1>8, <1>13, <1>14, Onward

\* The first block of a roll fitted.
LEMMA RollClearInv == ASSUME IInv, TapeInv, RollClear PROVE TapeInv'
<1>1. TypeOK /\ slp \in Slaves
  BY DEF IInv, TypeOK
<1>2. mpc = "clear" /\ Running /\ UNCHANGED <<checkpoint, vols>>
  BY DEF RollClear, Running
<1>3. CASE reply[slp] = "short"
  BY <1>2, <1>3, QuitInv DEF RollClear
<1>4. CASE reply[slp] # "short"
  <2>1. /\ Cur /\ Past /\ Between /\ why # "rewrite"
        /\ \E n \in Nat, k \in 0 .. SLAVES : SlavesOK(n, k) /\ MasterOK(n)
    BY <1>2, AtWork
  <2>2. PICK n \in Nat, k \in 0 .. SLAVES : SlavesOK(n, k) /\ MasterOK(n)
    BY <2>1
  <2>3. ~Owed(slp) /\ ~Short(slp)
    BY <1>4 DEF RollClear, Owed, Short
  <2>4. Taken
    BY <1>4 DEF RollClear, TakeReply, Taken
  <2>5. UNCHANGED <<slp, next, block, why, checkpoint, vols>> /\ mpc' = "gen"
    BY <1>4 DEF RollClear
  <2>6. SlavesOK(n, k)'
    BY <1>1, <2>2, <2>3, <2>4, <2>5, TakenSlaves
  <2>7. /\ Filling(n) /\ Len(block[slp]) = 1 /\ next >= First /\ Unseen(n)
        /\ n = First - 1 \/ n >= First - 1 + ntrec
    BY <1>2, <2>2 DEF MasterOK
  <2>8. Unseen(n)'
    BY <1>1, <2>2, <2>3, <2>4, <2>7, TakenUnseen
  <2>9. First' = First
    BY <2>5, SameVols
  <2>10. Filling(n)' /\ Len(block'[slp']) < ntrec /\ ~sent'[slp']
    <3>1. Filling(n)'
      BY <2>5, <2>7, <2>9 DEF Filling
    <3>2. Len(block'[slp']) < ntrec
      BY <2>5, <2>7
    <3>3. ~sent'[slp']
      BY <1>1, <2>4, <2>5 DEF Taken, TypeOK
    <3> QED
      BY <3>1, <3>2, <3>3
  <2>11. MasterOK(n)'
    BY <2>5, <2>7, <2>8, <2>9, <2>10 DEF MasterOK
  <2>12. Between' /\ Running'
    BY <2>1, <2>5 DEF Between, Running
  <2> QED
    BY <2>1, <2>2, <2>5, <2>6, <2>11, <2>12, Onward
<1> QED
  BY <1>3, <1>4

\* A short block: the master holds all the blocks that may be missing.
LEMMA ShortSeen ==
    ASSUME TypeOK, Past, Cur, NEW n \in Nat, NEW k \in 0 .. SLAVES,
           SlavesOK(n, k), Unseen(n), Short(slp)
    PROVE  /\ Rollable(slp, block, n) /\ Len(Vol.recs) > 1
           /\ First <= n - Mul(SLAVES) /\ n - Mul(SLAVES) <= End
<1>1. /\ slp \in Slaves /\ SLAVES \in Nat /\ ntrec \in Nat /\ ntrec >= 2
  BY DEF TypeOK
<1>2. /\ First \in Nat /\ Len(Vol.recs) \in Nat /\ End \in Nat
  BY VolIs
<1>3. /\ Mul(SLAVES) \in Nat /\ ntrec <= Mul(SLAVES)
  <2>1. 1 \in Nat /\ 1 <= SLAVES
    OBVIOUS
  <2> QED
    BY <1>1, <2>1, MulIs
<1>4. Vol.end # "open"
  BY <1>1 DEF SlavesOK, Tape
<1>5. Len(Vol.recs) > 1
  BY <1>1, <1>2, <1>3, <1>4 DEF SlavesOK, Tape
<1>6. Age(slp) = 0 /\ Place(n, slp) = n - Mul(SLAVES)
  <2>1. Age(slp) = 0
    BY <1>1, AgeIs DEF Age
  <2>2. SLAVES - Age(slp) = SLAVES
    BY <1>1, <2>1
  <2> QED
    BY <2>1, <2>2 DEF Place
<1>7. /\ n - Mul(SLAVES) >= First - 1 + Mul(SLAVES) /\ n - Mul(SLAVES) <= End
  <2>1. PICK s \in Slaves :
           /\ Short(s) /\ Place(n, s) >= First - 1 + Mul(SLAVES)
           /\ Place(n, s) <= End
           /\ \A t \in Slaves : Short(t) => Age(t) >= Age(s)
    BY <1>4 DEF Unseen
  <2>2. Age(s) = 0
    <3>1. Age(s) \in 0 .. SLAVES - 1 /\ 0 >= Age(s)
      BY <1>1, <1>6, <2>1, PlaceIs
    <3> QED
      BY <3>1
  <2>3. s = slp
    BY <1>1, <2>2, AgeIs DEF Age
  <2> QED
    BY <1>6, <2>1, <2>3
<1>8. \A s \in Slaves : sent[s]
  <2>1. sent[slp]
    BY DEF Short
  <2>2. \A s \in Slaves : Age(s) >= Age(slp)
    BY <1>6, PlaceIs
  <2> QED
    BY <1>1, <2>1, <2>2 DEF SlavesOK, Batches
<1>9. ASSUME NEW s \in Slaves
      PROVE  /\ Len(block[s]) = ntrec
             /\ \A i \in 1 .. ntrec :
                   block[s][i] = n - Mul(SLAVES - AgeFrom(slp, s)) + i - 1
  <2>1. /\ Len(Batch(s)) = ntrec /\ Run(First, Batch(s), Place(n, s))
        /\ \/ Batch(s) = block[s]
           \/ Place(n, s) + ntrec < First + Mul(SLAVES)
    BY <1>8 DEF SlavesOK, Batches
  <2>2. Place(n, s) \in Int /\ n - Mul(SLAVES) <= Place(n, s)
    BY PlaceIs
  <2>3. Batch(s) = block[s]
    BY <1>1, <1>2, <1>3, <1>7, <2>1, <2>2
  <2>4. ASSUME NEW i \in 1 .. ntrec
        PROVE  block[s][i] = Place(n, s) + i - 1
    <3>1. block[s][i] = Rec(First, Place(n, s) + i - 1)
      BY <2>1, <2>3, <2>4 DEF Run
    <3>2. Place(n, s) + i - 1 # First - 1
      BY <1>1, <1>2, <1>3, <1>7, <2>2, <2>4
    <3> QED
      BY <3>1, <3>2 DEF Rec
  <2>5. Place(n, s) = n - Mul(SLAVES - AgeFrom(slp, s))
    BY DEF Place, Age
  <2> QED
    BY <2>1, <2>3, <2>4, <2>5
<1>10. Rollable(slp, block, n)
  BY <1>9 DEF Rollable
<1>11. First <= n - Mul(SLAVES)
  BY <1>1, <1>2, <1>3, <1>7
<1> QED
  BY <1>5, <1>7, <1>10, <1>11

LEMMA FlushEotInv == ASSUME IInv, TapeInv, FlushEot PROVE TapeInv'
<1>1. TypeOK /\ slp \in Slaves
  BY DEF IInv, TypeOK
<1>2. mpc = "collect" /\ Running
  BY DEF FlushEot, Running
<1>3. /\ Cur /\ Past /\ Between /\ why # "rewrite"
      /\ \E n \in Nat, k \in 0 .. SLAVES : SlavesOK(n, k) /\ MasterOK(n)
  BY <1>2, AtWork
<1>4. PICK n \in Nat, k \in 0 .. SLAVES : SlavesOK(n, k) /\ MasterOK(n)
  BY <1>3
<1>5. ~Owed(slp) /\ Short(slp)
  BY DEF FlushEot, Owed, Short
<1>6. Taken
  BY DEF FlushEot, TakeReply, Taken
<1>7. /\ UNCHANGED <<slp, next, block, why, checkpoint, vols>> /\ mpc' = "drain"
  BY DEF FlushEot
<1>8. SlavesOK(n, k)'
  BY <1>1, <1>4, <1>5, <1>6, <1>7, TakenSlaves
<1>9. /\ next = n /\ n >= First - 1 + ntrec /\ next >= First /\ Unseen(n)
  BY <1>2, <1>4 DEF MasterOK
<1>10. /\ Rollable(slp, block, n) /\ Len(Vol.recs) > 1
       /\ First <= n - Mul(SLAVES) /\ n - Mul(SLAVES) <= End
  BY <1>1, <1>3, <1>4, <1>5, <1>9, ShortSeen
<1>11. First' = First /\ Vol' = Vol /\ End' = End
  BY <1>7, SameVols
<1>12. Rollable(slp, block, next)'
  BY <1>7, <1>9, <1>10 DEF Rollable
<1>13. MasterOK(n)'
  BY <1>7, <1>9, <1>10, <1>11, <1>12 DEF MasterOK
<1>14. Between' /\ Running'
  BY <1>3, <1>7 DEF Between, Running
<1> QED
  BY <1>3, <1>4, <1>7, <1>8, <1>13, <1>14, Onward

-----------------------------------------------------------------------------
(* The end of a volume.                                                    *)

\* All outstanding answers are taken: nothing is left to be written.
LEMMA AllTaken ==
    ASSUME TypeOK, NEW n \in Nat, NEW k \in 0 .. SLAVES, SlavesOK(n, k),
           Drained, TakeAll,
           UNCHANGED <<slp, checkpoint, spc, ready, caught, usr2, pipe, buffer, vols>>
    PROVE  /\ SlavesOK(n, 0)' /\ Idle' /\ 0 \in 0 .. SLAVES
           /\ ~Vol.full => End = n
<1>1. /\ slp \in Slaves /\ SLAVES \in Nat /\ SLAVES # 0
  BY DEF TypeOK
<1>2. \A s \in Slaves : /\ sent'[s] = FALSE /\ reply'[s] = "none" /\ ~Owed(s)
                        /\ ~Owed(s)' /\ ~Short(s)'
  BY DEF Drained, TakeAll, Owed, Short
<1>3. First' = First /\ Vol' = Vol /\ End' = End
  BY DEF First, Vol, End
<1>4. \A s \in Slaves : /\ Age(s)' = Age(s)
                        /\ (Work(s)' <=> Work(s)) /\ (Turns(s)' <=> Turns(s))
  BY DEF Age, Work, Turns
<1>5. k = 0
  <2>1. Pred(slp) \in Slaves /\ Succ(Pred(slp)) = slp
    BY <1>1, AgeIs, RingType
  <2>2. Age(Pred(slp)) = SLAVES - 1
    BY <1>1, <2>1, AgeIs DEF Age
  <2>3. ~(Age(Pred(slp)) >= SLAVES - k)
    BY <1>2, <2>1 DEF SlavesOK, Queue
  <2> QED
    BY <1>1, <2>2, <2>3
<1>6. Mul(0) = 0 /\ Mul(k) = 0 /\ Mul(SLAVES)' = Mul(SLAVES) /\ Mul(0)' = 0
  BY <1>5, MulIs DEF Mul
<1>7. ~Vol.full => End = n
  BY <1>6 DEF SlavesOK, Tape
<1>8. Working'
  BY <1>2, <1>4 DEF SlavesOK, Working
<1>9. Batches(n)'
  BY <1>2 DEF Batches
<1>10. Queue(0)'
  <2>1. ASSUME NEW s \in Slaves
        PROVE  Owed(s)' <=> Age(s)' >= SLAVES - 0
    <3>1. Age(s)' \in 0 .. SLAVES - 1
      BY <1>4, PlaceIs
    <3> QED
      BY <1>1, <1>2, <3>1
  <2>2. ASSUME NEW s \in Slaves, Turns(s)'
        PROVE  s = slp'
    BY <1>4, <1>5, <2>2 DEF SlavesOK, Queue
  <2> QED
    BY <2>1, <2>2 DEF Queue
<1>11. Tape(n, 0)'
  <2>1. /\ ~Vol'.full => End' = n - Mul(0)'
        /\ Vol'.full => Vol'.end # "open"
        /\ Vol'.end # "open" => Len(Vol'.recs) >= Mul(SLAVES)'
        /\ \A s \in Slaves : Short(s)' => Vol'.end # "open"
    BY <1>2, <1>3, <1>6, <1>7 DEF SlavesOK, Tape
  <2> QED
    BY <2>1 DEF Tape, Mul
<1>12. Idle'
  BY <1>2 DEF Idle
<1> QED
  BY <1>1, <1>7, <1>8, <1>9, <1>10, <1>11, <1>12 DEF SlavesOK

LEMMA FlushDrainInv == ASSUME IInv, TapeInv, FlushDrain PROVE TapeInv'
<1>1. TypeOK
  BY DEF IInv
<1>2. mpc = "drain" /\ Running
  BY DEF FlushDrain, Running
<1>3. /\ Cur /\ Past /\ Between /\ Run(First, Vol.recs, First - 1)
      /\ \E n \in Nat, k \in 0 .. SLAVES : SlavesOK(n, k) /\ MasterOK(n)
  BY <1>2, AtWork
<1>4. PICK n \in Nat, k \in 0 .. SLAVES : SlavesOK(n, k) /\ MasterOK(n)
  BY <1>3
<1>5. /\ UNCHANGED <<slp, next, block, checkpoint, spc, ready, caught, usr2,
                     pipe, buffer, vols>>
      /\ mpc' = "closing" /\ why' = "roll" /\ Drained /\ TakeAll
  BY DEF FlushDrain
<1>6. SlavesOK(n, 0)' /\ Idle' /\ 0 \in 0 .. SLAVES
  BY <1>1, <1>4, <1>5, AllTaken
<1>7. /\ next = n /\ Rollable(slp, block, next) /\ Len(Vol.recs) > 1
      /\ First <= n - Mul(SLAVES) /\ n - Mul(SLAVES) <= End /\ next >= First
      /\ n = First - 1 \/ n >= First - 1 + ntrec
  BY <1>2, <1>4 DEF MasterOK
<1>8. First' = First /\ Vol' = Vol
  BY <1>5, SameVols
<1>9. Ctx(slp, block, next, why, Len(vols))'
  <2>1. /\ Len(vols) \in Nat /\ Len(vols) # 0 /\ First \in Nat /\ First >= 1
        /\ End \in Nat
    BY <1>1, <1>3, VolIs, ContextIs
  <2>2. LastOf(vols[Len(vols)].recs) + 1 = End
    BY <1>1, <1>3, <1>7, <2>1, LastIs DEF Vol
  <2>3. FirstOf("roll", next) = n - Mul(SLAVES) /\ Mul(SLAVES) \in Nat
    BY <1>7, MulIs DEF FirstOf
  <2>4. FirstOf("roll", next) \in 1 .. (LastOf(vols[Len(vols)].recs) + 1)
    BY <1>7, <2>1, <2>2, <2>3
  <2>5. Ctx(slp, block, next, "roll", Len(vols))
    BY <1>7, <2>1, <2>4 DEF Ctx
  <2> QED
    BY <1>5, <2>5 DEF Ctx
<1>10. MasterOK(n)'
  BY <1>5, <1>7, <1>8, <1>9 DEF MasterOK
<1>11. Between' /\ Running'
  BY <1>5, <1>6 DEF Between, Running
<1> QED
  BY <1>3, <1>4, <1>5, <1>6, <1>10, <1>11, Onward

\* A tape that was closed with no short write outstanding holds all its blocks.
LEMMA TapeFull ==
    ASSUME TypeOK, NEW n \in Nat, NEW k \in 0 .. SLAVES, SlavesOK(n, k), Unseen(n),
           ~EotUnseen, ~Vol.full => End = n
    PROVE  End = n
<1>1. \A s \in Slaves : ~Short(s)
  BY DEF EotUnseen, Short
<1>2. Vol.end = "open"
  BY <1>1 DEF Unseen
<1>3. ~Vol.full
  BY <1>2 DEF SlavesOK, Tape
<1> QED
  BY <1>3

\* The dump is on tape when the last tape has been closed.
LEMMA LastTape ==
    ASSUME TypeOK, Past, Cur, Run(First, Vol.recs, First - 1), NEW n \in Nat,
           End = n, Filling(n), Len(block[slp]) < ntrec, next > Total,
           n = First - 1 \/ n >= First - 1 + ntrec
    PROVE  Done
<1>1. /\ First \in Nat /\ First >= 1 /\ Len(Vol.recs) \in Nat /\ Data \in Nat
      /\ Len(vols) \in 1 .. Len(vols) /\ ntrec \in Nat /\ ntrec >= 2
  BY VolIs
<1>2. n > Data
  <2>1. Len(block[slp]) \in Nat /\ next = n + Len(block[slp]) /\ next > Data + ntrec
    BY BlockIs DEF Filling, Total, TypeOK
  <2> QED
    BY <1>1, <2>1
<1>3. CASE n >= First - 1 + ntrec
  <2>1. Len(Vol.recs) > 1
    BY <1>1, <1>3 DEF End
  <2>2. LastOf(Vol.recs) = n - 1 /\ Vol.recs # <<>>
    BY <2>1, LastIs
  <2>3. n - 1 > Data
    <3>1. next > Data + ntrec /\ next = n + Len(block[slp]) /\ Len(block[slp]) \in Nat
      BY BlockIs DEF Filling, Total, TypeOK
    <3> QED
      BY <1>1, <3>1
  <2> QED
    BY <1>1, <2>2, <2>3 DEF Done, Vol
<1>4. CASE n = First - 1
  <2>1. checkpoint.vols # 0
    <3> SUFFICES ASSUME checkpoint.vols = 0 PROVE FALSE
      OBVIOUS
    <3>1. First = 1
      BY DEF Past, Ctx, First, FirstOf
    <3> QED
      BY <1>1, <1>2, <1>4, <3>1
  <2> DEFINE v == checkpoint.vols
  <2>2. v \in Nat /\ v \in 1 .. Len(vols) /\ v \in 1 .. v
    BY <1>1, <2>1, ContextIs DEF Cur
  <2>3. Closed(v) /\ First \in 1 .. (LastOf(vols[v].recs) + 1)
    BY <2>1, <2>2 DEF Past, Ctx, First
  <2>4. vols[v].recs \in Seq(Nat) /\ Len(vols[v].recs) > 1
    BY <2>2, <2>3, ContextIs DEF Closed
  <2>5. LastOf(vols[v].recs) \in Nat /\ vols[v].recs # <<>>
    <3>1. PICK r \in Seq(Nat) : r = vols[v].recs
      BY <2>4
    <3>2. Len(r) > 1 /\ Len(r) \in 1 .. Len(r)
      BY <2>4, <3>1
    <3>3. r[Len(r)] \in Nat /\ r # <<>>
      BY <3>2
    <3> QED
      BY <3>1, <3>3 DEF LastOf
  <2>6. LastOf(vols[v].recs) > Data
    BY <1>1, <1>2, <1>4, <2>3, <2>5
  <2> QED
    BY <2>2, <2>5, <2>6 DEF Done
<1> QED
  BY <1>3, <1>4

LEMMA TrewindInv == ASSUME IInv, TapeInv, trewind PROVE TapeInv'
<1>1. TypeOK
  BY DEF IInv
<1>2. /\ mpc = "trewind" /\ Running /\ Drained /\ TakeAll
      /\ UNCHANGED <<checkpoint, vols>>
  BY DEF trewind, Running
<1>3. CASE EotUnseen
  BY <1>2, <1>3, QuitInv DEF trewind
<1>4. CASE ~EotUnseen
  <2>1. /\ UNCHANGED <<why, slp, next, block, checkpoint, spc, ready, caught, usr2,
                       pipe, buffer, vols>>
        /\ mpc' = "closing" /\ Running'
    BY <1>4 DEF trewind, Running
  <2>2. /\ Past' /\ First' = First /\ (Cur' <=> Cur) /\ Vol' = Vol
        /\ (Cur => Run(First, Vol.recs, First - 1)') /\ (Done' <=> Done)
    BY <2>1, SameVols
  <2>3. Idle' /\ \A s \in Slaves : sent'[s] = FALSE
    BY <1>2 DEF TakeAll, Idle
  <2>4. Between'
    BY <2>1, <2>3 DEF Between, Running
  <2>5. CASE ~Cur
    <3>1. Gone /\ why = "rewrite"
      BY <1>2, <2>5 DEF TapeInv
    <3>2. Gone'
      BY <2>1, <2>3, <3>1 DEF Gone
    <3> QED
      BY <2>1, <2>2, <2>4, <2>5, <3>1, <3>2 DEF TapeInv
  <2>6. CASE Cur
    <3>1. PICK n \in Nat, k \in 0 .. SLAVES :
             SlavesOK(n, k) /\ (why # "rewrite" => MasterOK(n))
      BY <1>2, <2>6 DEF TapeInv
    <3>2. SlavesOK(n, 0)' /\ 0 \in 0 .. SLAVES /\ (~Vol.full => End = n)
      BY <1>1, <1>2, <2>1, <3>1, AllTaken
    <3>3. ASSUME why # "rewrite"
          PROVE  MasterOK(n)'
      <4>1. /\ MasterOK(n) /\ Unseen(n) /\ why # "roll"
            /\ n = First - 1 \/ n >= First - 1 + ntrec
            /\ next >= First
        BY <1>2, <3>1, <3>3 DEF MasterOK
      <4>2. End = n
        BY <1>1, <1>4, <3>1, <3>2, <4>1, TapeFull
      <4>3. Past /\ Run(First, Vol.recs, First - 1)
        BY <2>6 DEF TapeInv
      <4>4. CASE why = "finish"
        <5>1. Filling(n) /\ Len(block[slp]) < ntrec /\ next > Total
          BY <1>2, <4>1, <4>4 DEF MasterOK
        <5>2. Done
          BY <1>1, <2>6, <4>1, <4>2, <4>3, <5>1, LastTape
        <5> QED
          BY <2>1, <2>2, <4>1, <4>4, <5>2 DEF MasterOK
      <4>5. CASE why = "size"
        <5>1. next = n /\ n >= First - 1 + ntrec
          BY <1>2, <4>1, <4>5 DEF MasterOK
        <5>2. /\ First \in Nat /\ First >= 1 /\ Len(Vol.recs) \in Nat
              /\ Len(vols) \in Nat /\ Len(vols) # 0
          BY <1>1, <2>6, <4>3, VolIs, ContextIs
        <5>3. Len(Vol.recs) > 1
          BY <4>2, <5>1, <5>2 DEF End
        <5>4. LastOf(vols[Len(vols)].recs) + 1 = n
          BY <1>1, <2>6, <4>2, <4>3, <5>3, LastIs DEF Vol
        <5>5. FirstOf("size", next) = n
          BY <5>1 DEF FirstOf
        <5>6. n \in 1 .. n
          BY <5>1, <5>2
        <5>7. Ctx(slp, block, next, "size", Len(vols))
          BY <5>2, <5>4, <5>5, <5>6 DEF Ctx
        <5>8. Ctx(slp, block, next, why, Len(vols))'
          BY <2>1, <4>5, <5>7 DEF Ctx
        <5> QED
          BY <2>1, <2>2, <4>1, <4>5, <5>3, <5>8 DEF MasterOK
      <4> QED
        BY <1>1, <3>3, <4>1, <4>4, <4>5 DEF TypeOK
    <3> QED
      BY <2>1, <2>2, <2>4, <2>6, <3>2, <3>3 DEF TapeInv
  <2> QED
    BY <2>5, <2>6
<1> QED
  BY <1>3, <1>4

LEMMA FinishedInv == ASSUME IInv, TapeInv, Finished PROVE TapeInv'
<1>1. /\ mpc = "closing" /\ why = "finish" /\ Running
      /\ UNCHANGED <<checkpoint, vols, why>> /\ UNCHANGED spc
      /\ mpc' = "finok" /\ \A s \in Slaves : spc[s] = "dead"
  BY DEF Finished, AllGone, Running, svars
<1>2. \E n \in Nat, k \in 0 .. SLAVES : SlavesOK(n, k) /\ MasterOK(n)
  BY <1>1, AtWork
<1>3. Done
  BY <1>1, <1>2 DEF MasterOK
<1>4. Past' /\ (Cur' => Run(First, Vol.recs, First - 1)') /\ Done'
  BY <1>1, <1>3, SameVols
<1>5. Between' /\ ~Running'
  BY <1>1, <1>4 DEF Between, Running
<1> QED
  BY <1>4, <1>5 DEF TapeInv

LEMMA NextVolumeInv == ASSUME IInv, TapeInv, NextVolume PROVE TapeInv'
<1>1. /\ mpc = "closing" /\ why \in {"size", "roll"} /\ Running
      /\ UNCHANGED <<why, slp, next, block, sent, checkpoint, svars, vols>>
      /\ UNCHANGED reply /\ mpc' = "newtape"
  BY DEF NextVolume, AllGone, ChangesVolume, Running, svars
<1>2. /\ Cur /\ Past /\ Between
      /\ \E n \in Nat, k \in 0 .. SLAVES : SlavesOK(n, k) /\ MasterOK(n)
  BY <1>1, AtWork
<1>3. PICK n \in Nat, k \in 0 .. SLAVES : SlavesOK(n, k) /\ MasterOK(n)
  BY <1>2
<1>4. SlavesOK(n, k)'
  BY <1>1, <1>3, SameSlaves
<1>5. /\ Len(Vol.recs) > 1 /\ Ctx(slp, block, next, why, Len(vols))
      /\ n = First - 1 \/ n >= First - 1 + ntrec
      /\ next >= First
  BY <1>1, <1>3 DEF MasterOK
<1>6. First' = First
  BY <1>1, SameVols
<1>7. MasterOK(n)'
  BY <1>1, <1>5, <1>6 DEF MasterOK
<1>8. Between' /\ Running'
  <2>1. Idle'
    BY <1>1, <1>2 DEF Between, Idle
  <2>2. Ctx(slp, block, next, why, Len(vols))'
    BY <1>1, <1>5 DEF Ctx
  <2>3. \A v \in 1 .. Len(vols) : Len(vols[v].recs) > 1
    <3>1. checkpoint.vols \in Nat /\ Len(vols) = checkpoint.vols + 1
      BY <1>2, ContextIs DEF Cur, IInv
    <3>2. \A v \in 1 .. checkpoint.vols : Len(vols[v].recs) > 1
      BY <1>2 DEF Past, Closed
    <3>3. Len(vols[Len(vols)].recs) > 1
      BY <1>5 DEF Vol
    <3> QED
      BY <3>1, <3>2, <3>3
  <2> QED
    BY <1>1, <2>1, <2>2, <2>3 DEF Between, Running
<1> QED
  BY <1>1, <1>2, <1>3, <1>4, <1>7, <1>8, Onward

-----------------------------------------------------------------------------
(* The start of a volume.                                                  *)

\* The parent starts the volume again.
LEMMA RewriteInv == ASSUME IInv, TapeInv, Rewrite PROVE TapeInv'
<1>1. /\ mpc = "closing" /\ why = "rewrite" /\ Running /\ TypeOK
      /\ \A s \in Slaves : spc[s] = "dead"
  BY DEF Rewrite, AllGone, Running, IInv
<1>2. Past /\ Between
  BY DEF TapeInv
<1>3. /\ UNCHANGED <<sent, checkpoint>> /\ UNCHANGED spc /\ mpc' = "newtape"
      /\ why' = checkpoint.why /\ slp' = checkpoint.slp /\ next' = checkpoint.next
      /\ block' = checkpoint.block
      /\ vols' = SubSeq(vols, 1, checkpoint.vols)
  BY DEF Rewrite, svars
<1> DEFINE c == checkpoint.vols
<1>4. /\ vols \in Seq(Volume) /\ c \in Nat /\ c \in 0 .. Len(vols)
  BY <1>1, <1>2, ContextIs DEF Past
<1>5. /\ Len(vols') = c /\ \A v \in 1 .. c : vols'[v] = vols[v]
  BY <1>3, <1>4, SubSeqProperties
<1>6. \A v \in 1 .. c : Closed(v)'
  <2> SUFFICES ASSUME NEW v \in 1 .. c
               PROVE  Closed(v)'
    OBVIOUS
  <2>1. Closed(v) /\ vols'[v] = vols[v]
    BY <1>2, <1>5 DEF Past
  <2>2. v # 1 => vols'[v - 1] = vols[v - 1]
    <3>1. v # 1 => v - 1 \in 1 .. c
      BY <1>4
    <3> QED
      BY <1>5, <3>1
  <2> QED
    BY <2>1, <2>2 DEF Closed, SeamlessAt
<1>7. Ctx(checkpoint.slp, checkpoint.block, checkpoint.next, checkpoint.why,
          checkpoint.vols)'
  <2>1. c # 0 => c \in 1 .. c
    BY <1>4
  <2>2. c # 0 => vols'[c] = vols[c]
    BY <1>5, <2>1
  <2> QED
    BY <1>2, <1>3, <2>2 DEF Past, Ctx
<1>8. Past' /\ ~Cur'
  <2>1. c # c + 1 /\ checkpoint'.vols = c
    BY <1>3, <1>4
  <2> QED
    BY <1>5, <1>6, <1>7, <2>1 DEF Past, Cur
<1>9. Gone'
  BY <1>1, <1>2, <1>3 DEF Between, Idle, Gone
<1>10. Between'
  <2>1. why' # "rewrite"
    BY <1>1, <1>3 DEF TypeOK, Context
  <2>2. Ctx(slp, block, next, why, Len(vols))'
    BY <1>3, <1>5, <1>7 DEF Ctx
  <2>3. \A v \in 1 .. Len(vols') : Len(vols'[v].recs) > 1
    BY <1>5, <1>6 DEF Closed
  <2>4. Idle'
    BY <1>9 DEF Gone, Idle
  <2> QED
    BY <1>3, <2>1, <2>2, <2>3, <2>4 DEF Between, Running
<1> QED
  BY <1>3, <1>8, <1>9, <1>10 DEF TapeInv

\* The slaves of a new tape have nothing to do.
LEMMA FreshSlaves ==
    ASSUME TypeOK, enslave, slp' = slp, NEW n \in Nat, End' = n,
           Vol'.full = FALSE, Vol'.end = "open"
    PROVE  SlavesOK(n, 0)'
<1>1. /\ slp \in Slaves /\ SLAVES \in Nat /\ SLAVES # 0
  BY DEF TypeOK
<1>2. \A s \in Slaves : /\ spc'[s] = "read" /\ ready'[s] = FALSE /\ usr2'[s] = FALSE
                        /\ (caught'[s] <=> s = slp) /\ pipe'[s] = <<>>
                        /\ reply'[s] = "none" /\ sent'[s] = FALSE
  BY DEF enslave, FirstCaught
<1>3. \A s \in Slaves : ~Work(s)' /\ ~Owed(s)' /\ ~Short(s)'
  BY <1>2 DEF Work, Owed, Short
<1>4. Working'
  BY <1>2, <1>3 DEF Working
<1>5. Batches(n)'
  BY <1>2 DEF Batches
<1>6. Queue(0)'
  <2>1. ASSUME NEW s \in Slaves
        PROVE  Owed(s)' <=> Age(s)' >= SLAVES - 0
    <3>1. Age(s)' \in 0 .. SLAVES - 1
      <4>1. Age(s)' = Age(s)
        BY DEF Age
      <4> QED
        BY <4>1, PlaceIs
    <3> QED
      BY <1>1, <1>3, <3>1
  <2>2. ASSUME NEW s \in Slaves, Turns(s)'
        PROVE  s = slp'
    <3>1. spc'[Pred(s)] # "pass"
      BY <1>2, RingType
    <3> QED
      BY <1>2, <2>2, <3>1 DEF Turns
  <2> QED
    BY <2>1, <2>2 DEF Queue
<1>7. Tape(n, 0)'
  BY <1>3 DEF Tape, Mul
<1> QED
  BY <1>4, <1>5, <1>6, <1>7 DEF SlavesOK

LEMMA StartInv == ASSUME IInv, TapeInv, startnewtape PROVE TapeInv'
<1>1. /\ mpc = "newtape" /\ Running /\ TypeOK
  BY DEF startnewtape, Running, IInv
<1>2. /\ Past /\ Between /\ Ctx(slp, block, next, why, Len(vols))
      /\ \A v \in 1 .. Len(vols) : Len(vols[v].recs) > 1
      /\ why # "rewrite"
  BY <1>1 DEF TapeInv, Between
<1> DEFINE new == [first |-> firstrec[slp], recs |-> <<>>, end |-> "open",
                   full |-> FALSE]
           f == FirstOf(why, next)
<1>3. /\ UNCHANGED <<why, slp, next>> /\ vols' = Append(vols, new) /\ enslave
      /\ checkpoint'.slp = slp /\ checkpoint'.block = block
      /\ checkpoint'.next = next /\ checkpoint'.why = why
      /\ checkpoint'.vols = Len(vols)
  BY DEF startnewtape, Saved
<1>4. \/ why = "roll" /\ mpc' = "roll" /\ block' = block
      \/ why # "roll" /\ mpc' = "gen" /\ block' = [block EXCEPT ![slp] = <<Header>>]
  BY DEF startnewtape
<1>5. /\ vols \in Seq(Volume) /\ Len(vols) \in Nat /\ slp \in Slaves /\ next \in Nat
  BY <1>1, <1>2, ContextIs DEF TypeOK
<1>6. new \in Volume /\ new.recs = <<>> /\ new.end = "open" /\ new.full = FALSE
  BY <1>1, <1>5 DEF TypeOK, Volume
<1> HIDE DEF new
<1>7. /\ Len(vols') = Len(vols) + 1 /\ vols'[Len(vols) + 1] = new
      /\ \A v \in 1 .. Len(vols) : vols'[v] = vols[v]
  BY <1>3, <1>5, <1>6, AppendProperties
<1>8. Cur' /\ Vol' = new /\ First' = f
  BY <1>3, <1>7 DEF Cur, Vol, First, FirstOf, Mul
<1>9. \A v \in 1 .. Len(vols) : Closed(v)'
  <2> SUFFICES ASSUME NEW v \in 1 .. Len(vols)
               PROVE  Closed(v)'
    OBVIOUS
  <2>1. SeamlessAt(v) /\ Len(vols[v].recs) > 1 /\ vols'[v] = vols[v]
    BY <1>1, <1>2, <1>7, AllSeamless DEF TapeInv
  <2>2. v # 1 => vols'[v - 1] = vols[v - 1]
    <3>1. v # 1 => v - 1 \in 1 .. Len(vols)
      BY <1>5
    <3> QED
      BY <1>7, <3>1
  <2> QED
    BY <2>1, <2>2 DEF Closed, SeamlessAt
<1>10. Len(vols) # 0 => /\ vols'[Len(vols)] = vols[Len(vols)]
                        /\ LastOf(vols[Len(vols)].recs) \in Nat
  <2> SUFFICES ASSUME Len(vols) # 0
               PROVE  /\ vols'[Len(vols)] = vols[Len(vols)]
                      /\ LastOf(vols[Len(vols)].recs) \in Nat
    OBVIOUS
  <2>1. Len(vols) \in 1 .. Len(vols)
    BY <1>5
  <2>2. vols[Len(vols)].recs \in Seq(Nat) /\ Len(vols[Len(vols)].recs) > 1
    BY <1>1, <1>2, <2>1, ContextIs
  <2> QED
    BY <1>7, <2>1, <2>2 DEF LastOf
<1>11. Past'
  <2>1. Ctx(checkpoint.slp, checkpoint.block, checkpoint.next, checkpoint.why,
            checkpoint.vols)'
    <3>1. /\ why = "roll" => Rollable(slp, block, next)
          /\ IF Len(vols) = 0 THEN why = "size" /\ next = 1
             ELSE f \in 1 .. (LastOf(vols[Len(vols)].recs) + 1)
      BY <1>2 DEF Ctx
    <3>2. /\ checkpoint'.why = "roll" =>
                Rollable(checkpoint'.slp, checkpoint'.block, checkpoint'.next)
          /\ IF checkpoint'.vols = 0
             THEN checkpoint'.why = "size" /\ checkpoint'.next = 1
             ELSE FirstOf(checkpoint'.why, checkpoint'.next) \in
                     1 .. (LastOf(vols'[checkpoint'.vols].recs) + 1)
      BY <1>3, <1>10, <3>1
    <3> QED
      BY <3>2 DEF Ctx, Rollable, FirstOf, Mul, LastOf
  <2> QED
    BY <1>3, <1>7, <1>9, <2>1 DEF Past
<1>12. f \in Nat /\ f >= 1 /\ f <= next
  <2>1. Mul(SLAVES) \in Nat
    BY MulIs
  <2>2. f <= next /\ f \in Int
    BY <1>5, <2>1 DEF FirstOf
  <2>3. CASE Len(vols) = 0
    BY <1>2, <2>2, <2>3 DEF Ctx, FirstOf
  <2>4. CASE Len(vols) # 0
    <3>1. f \in 1 .. (LastOf(vols[Len(vols)].recs) + 1)
      BY <1>2, <2>4 DEF Ctx
    <3> QED
      BY <1>10, <2>2, <2>4, <3>1
  <2> QED
    BY <2>3, <2>4
<1> HIDE DEF f
<1>13. PICK n \in Nat : n = f - 1
  BY <1>12
<1>14. End' = n
  <2>1. Len(new.recs) = 0
    BY <1>6
  <2> QED
    BY <1>13, <1>8, <1>12, <2>1 DEF End
<1>15. SlavesOK(n, 0)' /\ 0 \in 0 .. SLAVES
  <2>1. Vol'.full = FALSE /\ Vol'.end = "open" /\ slp' = slp
    BY <1>3, <1>6, <1>8
  <2>2. SlavesOK(n, 0)'
    BY <1>1, <1>3, <1>14, <2>1, FreshSlaves
  <2> QED
    BY <2>2
<1>16. mpc' = "gen" => Filling(n)' /\ Len(block'[slp']) < ntrec /\ ~sent'[slp']
  <2> SUFFICES ASSUME mpc' = "gen"
               PROVE  Filling(n)' /\ Len(block'[slp']) < ntrec /\ ~sent'[slp']
    OBVIOUS
  <2>1. block'[slp'] = <<Header>> /\ why # "roll" /\ ~sent'[slp']
    BY <1>1, <1>3, <1>4, <1>5 DEF TypeOK, enslave
  <2>2. next' = f
    BY <1>3, <2>1 DEF f, FirstOf
  <2>3. Len(block'[slp']) = 1 /\ block'[slp'][1] = Header
    BY <2>1
  <2>4. next' = n + Len(block'[slp'])
    BY <1>13, <1>12, <2>2, <2>3
  <2>5. \A i \in 1 .. Len(block'[slp']) : block'[slp'][i] = Rec(f, n + i - 1)
    BY <1>13, <1>12, <2>3 DEF Rec
  <2>6. Filling(n)'
    BY <1>8, <2>4, <2>5 DEF Filling, Run, Rec
  <2> QED
    BY <2>1, <2>3, <2>6
<1>17. MasterOK(n)'
  <2>1. n = First' - 1 /\ next' >= First'
    BY <1>13, <1>3, <1>8, <1>12
  <2>2. Unseen(n)'
    BY <1>6, <1>8 DEF Unseen
  <2>3. mpc' = "roll" => /\ Vol'.recs = <<>> /\ Vol'.end = "open"
                         /\ checkpoint'.next = next' /\ checkpoint'.why = "roll"
                         /\ Rollable(slp, block, next)'
    <3>1. mpc' = "roll" => why = "roll" /\ block' = block
      BY <1>4
    <3>2. why = "roll" => Rollable(slp, block, next)
      BY <1>2 DEF Ctx
    <3>3. mpc' = "roll" => Rollable(slp, block, next)'
      BY <1>3, <3>1, <3>2 DEF Rollable
    <3> QED
      BY <1>3, <1>6, <1>8, <3>1, <3>3
  <2> QED
    BY <1>4, <1>16, <2>1, <2>2, <2>3 DEF MasterOK
<1>18. Between' /\ Running'
  <2>1. Idle'
    BY <1>3 DEF enslave, Idle
  <2> QED
    BY <1>2, <1>3, <1>4, <2>1 DEF Between, Running
<1>19. Run(First, Vol.recs, First - 1)'
  <2>1. Len(Vol'.recs) = 0
    BY <1>6, <1>8
  <2> QED
    BY <2>1 DEF Run
<1> QED
  BY <1>8, <1>11, <1>14, <1>15, <1>17, <1>18, <1>19 DEF TapeInv

\* What rollforward() sends: the blocks of the ring, each one place later.
LEMMA RolledIs ==
    ASSUME TypeOK, Past, Rollable(slp, block, next), First = next - Mul(SLAVES),
           NEW n \in Nat, n = next - 1, NEW s \in Slaves
    PROVE  /\ Len(Rolled(s)) = ntrec /\ Run(First, Rolled(s), Place(n, s))
           /\ Rolled(s) # <<>>
<1>1. /\ slp \in Slaves /\ SLAVES \in Nat /\ ntrec \in Nat /\ ntrec >= 2
      /\ next \in Nat /\ First \in Nat /\ Mul(SLAVES) \in Nat
  <2>1. slp \in Slaves /\ next \in Nat
    BY DEF TypeOK
  <2>2. First \in Nat
    BY ContextIs
  <2>3. SLAVES \in Nat /\ ntrec \in Nat /\ ntrec >= 2
    OBVIOUS
  <2>4. Mul(SLAVES) \in Nat
    BY <2>3, MulIs
  <2> QED
    BY <2>1, <2>2, <2>3, <2>4
<1>2. \A t \in Slaves :
         /\ block[t] \in Seq(Nat) /\ Len(block[t]) = ntrec
         /\ \A i \in 1 .. ntrec : block[t][i] = n + 1 - Mul(SLAVES - Age(t)) + i - 1
  <2> SUFFICES ASSUME NEW t \in Slaves
               PROVE  /\ block[t] \in Seq(Nat) /\ Len(block[t]) = ntrec
                      /\ \A i \in 1 .. ntrec :
                            block[t][i] = n + 1 - Mul(SLAVES - Age(t)) + i - 1
    OBVIOUS
  <2>1. block[t] \in Seq(Nat) /\ next = n + 1
    BY <1>1, BlockIs
  <2>2. /\ Len(block[t]) = ntrec
        /\ \A i \in 1 .. ntrec :
              block[t][i] = next - Mul(SLAVES - AgeFrom(slp, t)) + i - 1
    BY DEF Rollable
  <2>3. Age(t) = AgeFrom(slp, t) /\ Mul(SLAVES - Age(t)) \in Nat
    BY PlaceIs DEF Age
  <2> QED
    BY <2>1, <2>2, <2>3
<1>3. PICK a \in 0 .. SLAVES - 1 : a = Age(s)
  BY PlaceIs
<1>4. PICK m \in Nat : m = Mul(SLAVES - a)
  BY <1>3, PlaceIs
<1>5. /\ Place(n, s) = n - m /\ m <= Mul(SLAVES)
  BY <1>3, <1>4, PlaceIs DEF Place
<1> DEFINE x == IF s = slp THEN Header ELSE LastOf(block[Pred(s)])
           b == SubSeq(block[s], 1, Len(block[s]) - 1)
<1>6. x = Rec(First, n - m)
  <2>1. CASE s = slp
    <3>1. a = 0
      BY <1>1, <1>3, <2>1, AgeIs DEF Age
    <3>2. m = Mul(SLAVES)
      <4>1. SLAVES - a = SLAVES
        BY <1>1, <3>1
      <4> QED
        BY <1>4, <4>1
    <3>3. n - m = First - 1
      BY <1>1, <3>2
    <3> QED
      BY <2>1, <3>3 DEF Rec
  <2>2. CASE s # slp
    <3>1. Pred(s) \in Slaves /\ Age(Pred(s)) = a - 1 /\ a # 0
      BY <1>1, <1>3, <2>2, AgeIs, RingType DEF Age
    <3>2. PICK j \in Nat : j = SLAVES - a /\ j < SLAVES
      BY <1>1, <3>1
    <3>3. SLAVES - Age(Pred(s)) = j + 1
      BY <1>1, <1>3, <3>1, <3>2
    <3>4. m = Mul(j) /\ Mul(j + 1) = m + ntrec
      BY <1>4, <3>2, MulIs
    <3>5. m + ntrec <= Mul(SLAVES)
      BY <1>1, <3>2, <3>4, MulLess
    <3>6. block[Pred(s)][ntrec] = n + 1 - (m + ntrec) + ntrec - 1
      <4>1. ntrec \in 1 .. ntrec
        BY <1>1
      <4>2. block[Pred(s)][ntrec] = n + 1 - Mul(SLAVES - Age(Pred(s))) + ntrec - 1
        BY <1>2, <3>1, <4>1
      <4> QED
        BY <3>3, <3>4, <4>2
    <3>7. x = n - m
      <4>1. LastOf(block[Pred(s)]) = block[Pred(s)][ntrec]
        BY <1>2, <3>1 DEF LastOf
      <4> QED
        BY <1>1, <1>4, <2>2, <3>6, <4>1
    <3>8. n - m # First - 1
      BY <1>1, <3>5
    <3> QED
      BY <3>7, <3>8 DEF Rec
  <2> QED
    BY <2>1, <2>2
<1>7. x \in Nat
  <2>1. CASE s = slp
    BY <2>1 DEF Header
  <2>2. CASE s # slp
    <3>1. Pred(s) \in Slaves
      BY RingType
    <3>2. Len(block[Pred(s)]) = ntrec
      BY <1>2, <3>1
    <3>3. PICK c \in Seq(Nat) : c = block[Pred(s)]
      BY <1>2, <3>1
    <3>4. c[Len(c)] \in Nat
      <4>1. Len(c) \in 1 .. Len(c)
        BY <1>1, <3>2, <3>3
      <4> QED
        BY <4>1
    <3> QED
      BY <2>2, <3>3, <3>4 DEF LastOf
  <2> QED
    BY <2>1, <2>2
<1>8. b \in Seq(Nat) /\ Len(b) = ntrec - 1 /\ \A i \in 1 .. ntrec - 1 : b[i] = block[s][i]
  <2>1. ntrec - 1 \in 0 .. Len(block[s]) /\ Len(block[s]) - 1 = ntrec - 1
    BY <1>1, <1>2
  <2> QED
    <3> DEFINE c == block[s]
               j == ntrec - 1
    <3>1. c \in Seq(Nat) /\ j \in 0 .. Len(c) /\ j \in Nat /\ b = SubSeq(c, 1, j)
      BY <1>1, <1>2, <2>1
    <3> HIDE DEF b, c, j
    <3>2. b \in Seq(Nat) /\ Len(b) = j /\ \A i \in 1 .. j : b[i] = c[i]
      BY <3>1, SubSeqProperties
    <3> QED
      BY <3>2 DEF c, j
<1>9. Rolled(s) = <<x>> \o b
  BY DEF Rolled
<1> HIDE DEF x, b
<1>10. /\ <<x>> \in Seq(Nat) /\ Len(<<x>>) = 1 /\ <<x>>[1] = x
  BY <1>7
<1>11. /\ Len(Rolled(s)) = ntrec
       /\ \A i \in 1 .. ntrec : Rolled(s)[i] = IF i = 1 THEN x ELSE b[i - 1]
  <2>1. PICK r \in Seq(Nat) : r = <<x>>
    BY <1>10
  <2>2. /\ Len(r \o b) = Len(r) + Len(b)
        /\ \A i \in 1 .. (Len(r) + Len(b)) :
              (r \o b)[i] = IF i <= Len(r) THEN r[i] ELSE b[i - Len(r)]
    BY <1>8, Joined
  <2>3. Len(r) = 1 /\ r[1] = x /\ Rolled(s) = r \o b
    BY <1>9, <1>10, <2>1
  <2>4. Len(r) + Len(b) = ntrec
    BY <1>1, <1>8, <2>3
  <2>5. ASSUME NEW i \in 1 .. ntrec
        PROVE  (r \o b)[i] = IF i = 1 THEN x ELSE b[i - 1]
    <3>1. (r \o b)[i] = IF i <= 1 THEN r[i] ELSE b[i - 1]
      BY <2>2, <2>3, <2>4
    <3> QED
      BY <2>3, <3>1
  <2> QED
    BY <2>2, <2>3, <2>4, <2>5
<1>12. ASSUME NEW i \in 1 .. ntrec
       PROVE  Rolled(s)[i] = Rec(First, n - m + i - 1)
  <2>1. CASE i = 1
    <3>1. n - m + i - 1 = n - m
      BY <1>4, <2>1
    <3> QED
      BY <1>6, <1>11, <2>1, <3>1
  <2>2. CASE i # 1
    <3>1. i - 1 \in 1 .. ntrec - 1 /\ i - 1 \in 1 .. ntrec
      BY <1>1, <2>2
    <3>2. Rolled(s)[i] = block[s][i - 1]
      BY <1>8, <1>11, <2>2, <3>1
    <3>3. block[s][i - 1] = n + 1 - m + (i - 1) - 1
      BY <1>2, <1>3, <1>4, <3>1
    <3>4. Rolled(s)[i] = n - m + i - 1
      BY <1>4, <3>2, <3>3
    <3>5. n - m + i - 1 # First - 1
      BY <1>1, <1>4, <1>5, <2>2
    <3> QED
      BY <3>4, <3>5 DEF Rec
  <2> QED
    BY <2>1, <2>2
<1>13. Run(First, Rolled(s), Place(n, s))
  BY <1>5, <1>11, <1>12 DEF Run
<1>14. Rolled(s) # <<>>
  BY <1>1, <1>11
<1> QED
  BY <1>11, <1>13, <1>14

\* An idle ring waits for a block at slp.
LEMMA IdleSlaves ==
    ASSUME TypeOK, NEW n \in Nat, NEW k \in 0 .. SLAVES, SlavesOK(n, k), Idle
    PROVE  /\ k = 0
           /\ \A s \in Slaves : /\ ~Work(s) /\ pipe[s] = <<>> /\ reply[s] = "none"
                                /\ spc[s] \in {"read", "pass", "dead"}
                                /\ Turns(s) => s = slp
<1>1. /\ slp \in Slaves /\ SLAVES \in Nat /\ SLAVES # 0
  BY DEF TypeOK
<1>2. \A s \in Slaves : ~sent[s] /\ ~Owed(s) /\ ~Work(s) /\ reply[s] = "none"
  BY DEF Idle, Owed, SlavesOK, Working
<1>3. k = 0
  <2>1. Pred(slp) \in Slaves /\ Succ(Pred(slp)) = slp
    BY <1>1, AgeIs, RingType
  <2>2. Age(Pred(slp)) = SLAVES - 1
    BY <1>1, <2>1, AgeIs DEF Age
  <2>3. ~(Age(Pred(slp)) >= SLAVES - k)
    BY <1>2, <2>1 DEF SlavesOK, Queue
  <2> QED
    BY <1>1, <2>2, <2>3
<1>4. \A s \in Slaves : pipe[s] = <<>> /\ spc[s] \in {"read", "pass", "dead"}
  BY <1>2 DEF Work, TypeOK
<1>5. \A s \in Slaves : Turns(s) => s = slp
  BY <1>3 DEF SlavesOK, Queue
<1> QED
  BY <1>2, <1>3, <1>4, <1>5

LEMMA RollInv == ASSUME IInv, TapeInv, rollforward PROVE TapeInv'
<1>1. mpc = "roll" /\ Running /\ TypeOK /\ UNCHANGED <<checkpoint, vols>>
  BY DEF rollforward, Running, IInv
<1>2. CASE \E s \in Slaves : block[s] = <<>>
  BY <1>1, <1>2, QuitInv DEF rollforward
<1>3. CASE ~\E s \in Slaves : block[s] = <<>>
  <2>1. /\ Cur /\ Past /\ Between /\ why # "rewrite"
        /\ \E n \in Nat, k \in 0 .. SLAVES : SlavesOK(n, k) /\ MasterOK(n)
    BY <1>1, AtWork
  <2>2. PICK l \in Nat, k \in 0 .. SLAVES : SlavesOK(l, k) /\ MasterOK(l)
    BY <2>1
  <2>3. /\ l = First - 1 /\ Vol.recs = <<>> /\ Vol.end = "open"
        /\ checkpoint.next = next /\ checkpoint.why = "roll"
        /\ Rollable(slp, block, next) /\ next >= First
    BY <1>1, <2>2 DEF MasterOK
  <2>4. /\ slp \in Slaves /\ SLAVES \in Nat /\ ntrec \in Nat /\ ntrec >= 2
        /\ next \in Nat /\ First \in Nat /\ First >= 1 /\ Mul(SLAVES) \in Nat
        /\ SLAVES # 0 /\ ntrec <= Mul(SLAVES)
    <3>1. 1 \in Nat /\ 1 <= SLAVES /\ SLAVES \in Nat /\ ntrec \in Nat /\ ntrec >= 2
      OBVIOUS
    <3>2. Mul(SLAVES) \in Nat /\ ntrec <= Mul(SLAVES)
      BY <3>1, MulIs
    <3>3. First \in Nat /\ First >= 1
      BY <1>1, <2>1, ContextIs
    <3>4. slp \in Slaves /\ next \in Nat
      BY <1>1 DEF TypeOK
    <3> QED
      BY <3>1, <3>2, <3>3, <3>4
  <2>5. First = next - Mul(SLAVES)
    BY <2>3 DEF First, FirstOf
  <2>6. PICK n \in Nat : n = next - 1
    BY <2>3, <2>4
  <2>7. /\ pipe' = [s \in Slaves |-> Rolled(s)] /\ sent' = [s \in Slaves |-> TRUE]
        /\ block' = [block EXCEPT ![slp] = <<LastOf(block[Pred(slp)])>>]
        /\ mpc' = "clear"
        /\ UNCHANGED <<spc, why, slp, next, checkpoint, ready, caught, usr2, reply,
                       buffer, vols>>
    BY <1>3 DEF rollforward
  <2>8. /\ k = 0
        /\ \A s \in Slaves : /\ ~Work(s) /\ pipe[s] = <<>> /\ reply[s] = "none"
                             /\ spc[s] \in {"read", "pass", "dead"}
                             /\ Turns(s) => s = slp
    BY <1>1, <2>1, <2>2, IdleSlaves DEF Between
  <2>9. \A s \in Slaves :
           /\ Len(Rolled(s)) = ntrec /\ Run(First, Rolled(s), Place(n, s))
           /\ Rolled(s) # <<>>
    BY <1>1, <2>1, <2>3, <2>5, <2>6, RolledIs
  <2>10. First' = First /\ Vol' = Vol /\ End' = End
    BY <2>7 DEF First, Vol, End
  <2>11. \A s \in Slaves :
            /\ Age(s)' = Age(s) /\ Batch(s)' = Rolled(s) /\ Work(s)' /\ Owed(s)'
            /\ pipe'[s] = Rolled(s) /\ sent'[s] = TRUE /\ ~Short(s)'
            /\ Place(n, s)' = Place(n, s) /\ (Turns(s)' <=> Turns(s))
    BY <2>7, <2>8, <2>9 DEF Age, Batch, Work, Owed, Short, Place, Turns
  <2>12. Working'
    BY <2>2, <2>7, <2>8, <2>11 DEF SlavesOK, Working
  <2>13. Batches(n)'
    <3> SUFFICES ASSUME NEW s \in Slaves
                 PROVE  /\ Len(Batch(s)') = ntrec
                        /\ Run(First, Batch(s), Place(n, s))'
                        /\ Place(n, s)' + ntrec < First' + Mul(SLAVES)
                        /\ \A t \in Slaves : sent'[t]
      BY DEF Batches
    <3>1. Place(n, s) \in Int /\ Place(n, s) + ntrec <= n
      BY <1>1, PlaceIs
    <3>2. Place(n, s) + ntrec < First + Mul(SLAVES)
      BY <2>4, <2>5, <2>6, <3>1
    <3>3. Run(First, Batch(s), Place(n, s))'
      BY <2>9, <2>10, <2>11
    <3> QED
      BY <2>9, <2>10, <2>11, <3>2, <3>3
  <2>14. Queue(SLAVES)'
    <3>1. \A s \in Slaves : Age(s)' >= SLAVES - SLAVES /\ SLAVES - SLAVES = 0
      BY <1>1, <2>4, <2>11, PlaceIs
    <3>2. ASSUME NEW s \in Slaves, Turns(s)'
          PROVE  Age(s)' = SLAVES - SLAVES
      <4>1. Age(s) = 0
        BY <2>4, <2>8, <2>11, <3>2, AgeIs DEF Age
      <4> QED
        BY <2>11, <3>1, <4>1
    <3> QED
      BY <2>4, <2>11, <3>1, <3>2 DEF Queue
  <2>15. Tape(n, SLAVES)'
    <3>1. ~Vol.full
      BY <2>2, <2>3 DEF SlavesOK, Tape
    <3>2. End = n - Mul(SLAVES)
      BY <2>3, <2>4, <2>5, <2>6 DEF End
    <3>3. Mul(SLAVES)' = Mul(SLAVES)
      BY DEF Mul
    <3>4. End' = n - Mul(SLAVES)' /\ ~Vol'.full /\ Vol'.end = "open"
      BY <2>3, <2>10, <3>1, <3>2, <3>3
    <3> QED
      BY <2>11, <3>4 DEF Tape
  <2>16. SlavesOK(n, SLAVES)' /\ SLAVES \in 0 .. SLAVES
    BY <2>4, <2>12, <2>13, <2>14, <2>15 DEF SlavesOK
  <2>17. Filling(n)' /\ Len(block'[slp']) = 1
    <3>1. Pred(slp) \in Slaves /\ Succ(Pred(slp)) = slp
      BY <2>4, AgeIs, RingType
    <3>2. AgeFrom(slp, Pred(slp)) = SLAVES - 1
      BY <2>4, <3>1, AgeIs
    <3>3. SLAVES - AgeFrom(slp, Pred(slp)) = 1
      BY <2>4, <3>2
    <3>4. ntrec \in 1 .. ntrec /\ Len(block[Pred(slp)]) = ntrec
      BY <2>3, <2>4, <3>1 DEF Rollable
    <3>5. block[Pred(slp)][ntrec] = next - Mul(1) + ntrec - 1
      BY <2>3, <3>1, <3>3, <3>4 DEF Rollable
    <3>6. LastOf(block[Pred(slp)]) = n
      BY <2>4, <2>6, <3>4, <3>5, MulIs DEF LastOf
    <3>7. slp' = slp /\ block'[slp'] = <<n>>
      BY <1>1, <2>4, <2>7, <3>6 DEF TypeOK
    <3>8. Len(block'[slp']) = 1 /\ block'[slp'][1] = n
      BY <3>7
    <3>9. next' = n + Len(block'[slp'])
      <4>1. next' = n + 1
        BY <2>4, <2>6, <2>7
      <4> QED
        BY <3>8, <4>1
    <3>10. n = Rec(First, n + 1 - 1)
      BY <2>4, <2>5, <2>6 DEF Rec
    <3>11. Run(First, block'[slp'], n)
      BY <3>8, <3>10 DEF Run
    <3> QED
      BY <2>10, <3>8, <3>9, <3>11 DEF Filling
  <2>18. MasterOK(n)'
    <3>1. n >= First - 1 + ntrec
      BY <2>4, <2>5, <2>6
    <3>2. Unseen(n)'
      BY <2>3, <2>10 DEF Unseen
    <3> QED
      BY <2>3, <2>7, <2>10, <2>17, <3>1, <3>2 DEF MasterOK
  <2>19. Between' /\ Running'
    BY <2>1, <2>7 DEF Between, Running
  <2> QED
    BY <2>1, <2>7, <2>16, <2>18, <2>19, Onward
<1> QED
  BY <1>2, <1>3

-----------------------------------------------------------------------------
(* Nothing is lost.                                                        *)

LEMMA SigInv == ASSUME IInv, TapeInv, sig PROVE TapeInv'
<1>1. /\ Running /\ mpc' = "trewind" /\ why' = "rewrite"
      /\ UNCHANGED <<slp, block, sent, reply, next, checkpoint, svars, vols>>
      /\ UNCHANGED spc
  BY DEF sig, svars
<1>2. /\ Past' /\ (Cur' <=> Cur) /\ (Cur => Run(First, Vol.recs, First - 1)')
  BY <1>1, SameVols
<1>3. Between'
  BY <1>1 DEF Between, Running
<1>4. CASE Cur
  <2>1. PICK n \in Nat, k \in 0 .. SLAVES : SlavesOK(n, k)
    BY <1>1, <1>4 DEF TapeInv
  <2>2. SlavesOK(n, k)'
    BY <1>1, <2>1, SameSlaves
  <2> QED
    BY <1>1, <1>2, <1>3, <1>4, <2>2 DEF TapeInv
<1>5. CASE ~Cur
  <2>1. Gone'
    BY <1>1, <1>5 DEF TapeInv, Gone
  <2> QED
    BY <1>1, <1>2, <1>3, <1>5, <2>1 DEF TapeInv
<1> QED
  BY <1>4, <1>5

LEMMA StayInv == ASSUME IInv, TapeInv, UNCHANGED vars PROVE TapeInv'
<1>1. /\ UNCHANGED <<mvars, reply, vols>>
      /\ UNCHANGED <<spc, ready, caught, usr2, pipe, buffer>>
  BY DEF vars, mvars
<1>2. \A t \in Slaves :
         /\ (Work(t)' <=> Work(t)) /\ Batch(t)' = Batch(t)
         /\ Turns(t)' => Turns(t)
         /\ spc[t] = "dead" => spc'[t] = "dead"
  BY <1>1 DEF Work, Batch, Turns
<1>3. Working =>
         \A t \in Slaves :
            /\ pipe'[t] # <<>> => spc'[t] \in {"read", "pass", "dead"}
            /\ ready'[t] => spc'[t] \in {"test", "pause", "clrready"}
  BY <1>1 DEF Working
<1> QED
  BY <1>1, <1>2, <1>3, Quiet DEF IInv

LEMMA TapeInit == ASSUME Init PROVE TapeInv
<1>1. /\ vols = <<>> /\ Len(vols) = 0 /\ mpc = "newtape" /\ why = "size"
      /\ slp = 0 /\ next = 1 /\ Running
      /\ checkpoint.vols = 0 /\ checkpoint.why = "size" /\ checkpoint.next = 1
      /\ \A s \in Slaves : spc[s] = "dead" /\ ~sent[s]
  BY DEF Init, Running
<1>2. Past
  BY <1>1 DEF Past, Ctx
<1>3. ~Cur
  BY <1>1 DEF Cur
<1>4. Between
  BY <1>1 DEF Between, Idle, Ctx, Running
<1>5. Gone
  BY <1>1 DEF Gone
<1> QED
  BY <1>1, <1>2, <1>3, <1>4, <1>5 DEF TapeInv

\* Every step keeps the records in their places.
LEMMA TapeStep == ASSUME IInv, TapeInv, Tapes, [Next]_vars PROVE TapeInv'
<1>1. CASE Master
  BY <1>1, WriterecInv, FinishInv, FlushSendInv, FlushNextInv, FlushEotInv,
     FlushDrainInv, TrewindInv, FinishedInv, NextVolumeInv, RewriteInv, StartInv,
     RollInv, RollClearInv DEF Master
<1>2. CASE sig
  BY <1>2, SigInv
<1>3. CASE dumpabort
  BY <1>3, QuitInv DEF dumpabort
<1>4. ASSUME NEW s \in Slaves, Slave(s) \/ proceed(s)
      PROVE  TapeInv'
  BY <1>4, QuietSlave, WriteInv DEF Slave
<1>5. CASE Ended \/ UNCHANGED vars
  BY <1>5, StayInv DEF Ended
<1> QED
  BY <1>1, <1>2, <1>3, <1>4, <1>5 DEF Next

\* The records of the dump are where they belong in every reachable state.
THEOREM InPlace == ASSUME Tapes PROVE Spec => []TapeInv
<1>1. Init => IInv /\ TapeInv
  BY InitInv, TapeInit
<1>2. IInv /\ TapeInv /\ [Next]_vars => (IInv /\ TapeInv)'
  BY StepInv, TapeStep
<1> QED
  BY <1>1, <1>2, PTL DEF Spec

\* On a drive that does not write any more after an incomplete write, with
\* tapes that hold at least one block of every slave, the volumes are seamless
\* for every number of slaves, blocking factor, size of the dump and number of
\* volumes, whatever the causes of the ends of tape and however often a volume
\* is written again: what rollforward() replays always reaches back to where
\* the tape stopped.
THEOREM NoRecordLost == ASSUME Tapes PROVE Spec => []Seamless
<1>1. IInv /\ TapeInv => Seamless
  <2> SUFFICES ASSUME IInv, TapeInv PROVE Seamless
    OBVIOUS
  <2>1. \A v \in 1 .. Len(vols) : SeamlessAt(v)
    BY AllSeamless DEF IInv, TapeInv
  <2> QED
    BY <2>1 DEF SeamlessAt, Seamless
<1> QED
  BY <1>1, Inductive, InPlace, PTL

\* Under the same conditions a dump that exits with X_FINOK has written its
\* last record of data, and a TS_END after it, to some volume: a short write
\* that is discovered only by trewind() never ends in success.
THEOREM AllOnTape == ASSUME Tapes PROVE Spec => []Complete
<1>1. TapeInv => Complete
  BY DEF TapeInv, Between, Done, Complete
<1> QED
  BY <1>1, InPlace, PTL
=============================================================================
