------------------------------ MODULE DumpTape ------------------------------
(***************************************************************************)
(* The tape side of dump (sbin/dump/tape.c): the master collects records   *)
(* into blocks of ntrec and deals the blocks to a ring of slaves, which    *)
(* take turns at writing to the tape; the right to write goes round with   *)
(* SIGUSR2.  At the end of a tape the master replays the blocks that did   *)
(* not make it onto a new volume, each shifted by the record that the new  *)
(* volume's header takes.  At the start of a volume the process forks; the *)
(* parent keeps the context, and starts the volume again if asked to.      *)
(*                                                                         *)
(* A record is its number in the dump, 1 .. Data for what is dumped,       *)
(* followed by ntrec TS_END records; a volume header is 0.                 *)
(***************************************************************************)
EXTENDS Integers, Sequences

CONSTANTS
    SLAVES,         \* processes that write the tape
    ntrec,          \* records in a block
    Data,           \* records to be dumped before the first TS_END
    blocksperfile,  \* blocks dump puts on a volume of its own accord
    MinBlocks,      \* blocks that fit on every tape
    SoftEot,        \* the drive may write again after an incomplete write
    Causes,         \* what may end a tape early: "eot" or "error"
    MaxVols,        \* bound: volumes
    MaxHups         \* bound: SIGHUPs sent to the master

ASSUME SlavesAssumption == SLAVES \in Nat \ {0}
ASSUME RecAssumption == ntrec \in Nat \ {0, 1} /\ Data \in Nat
ASSUME TapeAssumption ==
    /\ blocksperfile \in Nat \ {0} /\ MinBlocks \in Nat
    /\ SoftEot \in BOOLEAN /\ Causes \subseteq {"eot", "error"}
ASSUME BoundAssumption == MaxVols \in Nat /\ MaxHups \in Nat

VARIABLES
    \* the master
    mpc,            \* where it is; how it ended
    why,            \* why the tape is, or was last, closed
    slp,            \* the slave that gets the block being filled
    block,          \* per slave: the records in its request buffer
    firstrec,       \* per slave: firstrec, the record number of its block
    sent,           \* per slave: a reply is outstanding
    next,           \* the next record to be written
    blocksthisvol, dumpdates,
    checkpoint,     \* the context kept by the parent process
    \* the slaves
    spc, ready, caught,
    usr2,           \* per slave: SIGUSR2 is pending
    pipe, reply,    \* per slave: what is in the two directions of its socket
    buffer,         \* per slave: the block it has read
    \* the world
    vols,           \* the volumes written so far
    hups

mvars == <<mpc, why, slp, block, firstrec, sent, next, blocksthisvol,
           dumpdates, checkpoint>>
svars == <<spc, ready, caught, usr2, pipe, reply, buffer>>
vars  == <<mpc, why, slp, block, firstrec, sent, next, blocksthisvol,
           dumpdates, checkpoint, spc, ready, caught, usr2, pipe, reply,
           buffer, vols, hups>>

Slaves  == 0 .. (SLAVES - 1)
Succ(s) == IF s = SLAVES - 1 THEN 0 ELSE s + 1
Pred(s) == IF s = 0 THEN SLAVES - 1 ELSE s - 1
Total   == Data + ntrec
Header  == 0

Blocks  == Seq(Nat)
Volume  == [first : Nat, recs : Seq(Nat), end : {"open", "eot", "error"},
            full : BOOLEAN]
Context == [slp : Slaves, block : [Slaves -> Blocks],
            firstrec : [Slaves -> Nat], next : Nat,
            why : {"size", "roll"}, vols : Nat]

TypeOK ==
    /\ mpc \in {"newtape", "roll", "clear", "gen", "flush", "collect",
                "drain", "trewind", "closing", "finok", "abort"}
    /\ why \in {"size", "roll", "rewrite", "finish"}
    /\ slp \in Slaves /\ block \in [Slaves -> Blocks]
    /\ firstrec \in [Slaves -> Nat] /\ sent \in [Slaves -> BOOLEAN]
    /\ next \in Nat /\ blocksthisvol \in Nat /\ dumpdates \in BOOLEAN
    /\ checkpoint \in Context
    /\ spc \in [Slaves -> {"read", "lock", "test", "pause", "clrready",
                           "clrcaught", "write", "pass", "dead"}]
    /\ ready \in [Slaves -> BOOLEAN] /\ caught \in [Slaves -> BOOLEAN]
    /\ usr2 \in [Slaves -> BOOLEAN]
    /\ pipe \in [Slaves -> Blocks] /\ buffer \in [Slaves -> Blocks]
    /\ reply \in [Slaves -> {"none", "full", "short"}]
    /\ vols \in Seq(Volume) /\ hups \in 0 .. MaxHups

\* What the parent of the process that writes a volume remembers.
Saved == [slp |-> slp, block |-> block, firstrec |-> firstrec, next |-> next,
          why |-> why, vols |-> Len(vols)]

\* main() and alloctape(): the first volume is still to be started.
Init ==
    /\ mpc = "newtape" /\ why = "size"
    /\ slp = 0 /\ next = 1
    /\ block = [s \in Slaves |-> <<>>] /\ firstrec = [s \in Slaves |-> 0]
    /\ sent = [s \in Slaves |-> FALSE]
    /\ blocksthisvol = 0 /\ dumpdates = FALSE
    /\ spc = [s \in Slaves |-> "dead"]
    /\ ready = [s \in Slaves |-> FALSE] /\ caught = [s \in Slaves |-> FALSE]
    /\ usr2 = [s \in Slaves |-> FALSE]
    /\ pipe = [s \in Slaves |-> <<>>] /\ buffer = [s \in Slaves |-> <<>>]
    /\ reply = [s \in Slaves |-> "none"]
    /\ vols = <<>> /\ hups = 0
    /\ checkpoint = [slp |-> 0, block |-> block, firstrec |-> firstrec,
                     next |-> 1, why |-> "size", vols |-> 0]

-----------------------------------------------------------------------------
(* The master.                                                             *)

Running == mpc \notin {"finok", "abort"}

\* quit(): killall() and exit(X_ABORT); the parents follow.
quit ==
    /\ mpc' = "abort"
    /\ spc' = [s \in Slaves |-> "dead"]

\* writerec() and dumpblock(): one more record for the block; a full block
\* is flushed.
writerec ==
    /\ mpc = "gen" /\ next <= Total
    /\ block' = [block EXCEPT ![slp] = Append(@, next)]
    /\ next' = next + 1
    /\ mpc' = IF Len(block[slp]) + 1 >= ntrec THEN "flush" ELSE "gen"
    /\ UNCHANGED <<why, slp, firstrec, sent, blocksthisvol, dumpdates,
                   checkpoint, svars, vols, hups>>

\* main(): after the last TS_END record the date of the dump is recorded and
\* the tape is closed.  The records of an incomplete block are all TS_END.
finish ==
    /\ mpc = "gen" /\ next > Total
    /\ dumpdates' = TRUE
    /\ mpc' = "trewind" /\ why' = "finish"
    /\ UNCHANGED <<slp, block, firstrec, sent, next, blocksthisvol,
                   checkpoint, svars, vols, hups>>

\* flushtape(): the block goes to slave slp, and the result of the next
\* slave's last block is awaited.
FlushSend ==
    /\ mpc = "flush"
    /\ pipe' = [pipe EXCEPT ![slp] = block[slp]]
    /\ sent' = [sent EXCEPT ![slp] = TRUE]
    /\ slp' = Succ(slp)
    /\ mpc' = "collect"
    /\ UNCHANGED <<why, block, firstrec, next, blocksthisvol,
                   dumpdates, checkpoint, spc, ready, caught, usr2, reply,
                   buffer, vols, hups>>

\* The reply of slave slp, if it owes one, is taken.
TakeReply ==
    /\ sent' = [sent EXCEPT ![slp] = FALSE]
    /\ reply' = [reply EXCEPT ![slp] = "none"]

FlushNext ==
    /\ mpc = "collect"
    /\ \/ ~sent[slp] /\ UNCHANGED <<sent, reply>>
       \/ sent[slp] /\ reply[slp] = "full" /\ TakeReply
    /\ firstrec' = [firstrec EXCEPT ![slp] = firstrec[Pred(slp)] + ntrec]
    /\ block' = [block EXCEPT ![slp] = <<>>]
    /\ blocksthisvol' = blocksthisvol + 1
    /\ IF blocksthisvol' >= blocksperfile
       THEN mpc' = "trewind" /\ why' = "size"
       ELSE mpc' = "gen" /\ UNCHANGED why
    /\ UNCHANGED <<slp, next, dumpdates, checkpoint, spc, ready,
                   caught, usr2, pipe, buffer, vols, hups>>

\* "End of tape detected": a result smaller than the block.
FlushEot ==
    /\ mpc = "collect"
    /\ sent[slp] /\ reply[slp] = "short" /\ TakeReply
    /\ mpc' = "drain"
    /\ UNCHANGED <<why, slp, block, firstrec, next, blocksthisvol,
                   dumpdates, checkpoint, spc, ready, caught, usr2, pipe,
                   buffer, vols, hups>>

\* All outstanding results have come.
Drained == \A s \in Slaves : sent[s] => reply[s] # "none"
TakeAll ==
    /\ sent' = [s \in Slaves |-> FALSE]
    /\ reply' = [s \in Slaves |-> "none"]

FlushDrain ==
    /\ mpc = "drain" /\ Drained /\ TakeAll
    /\ mpc' = "closing" /\ why' = "roll"
    /\ UNCHANGED <<slp, block, firstrec, next, blocksthisvol,
                   dumpdates, checkpoint, spc, ready, caught, usr2, pipe,
                   buffer, vols, hups>>

\* trewind(): a short result here ends the dump.  Mutant: nobody looks.
MutEotUnseen == FALSE
EotUnseen == \E s \in Slaves : sent[s] /\ reply[s] = "short"

trewind ==
    /\ mpc = "trewind" /\ Drained
    /\ TakeAll
    /\ IF EotUnseen THEN quit
                    ELSE mpc' = "closing" /\ UNCHANGED spc
    /\ UNCHANGED <<why, slp, block, firstrec, next, blocksthisvol, dumpdates,
                   checkpoint, ready, caught, usr2, pipe, buffer, vols, hups>>

\* wait() until the slaves, whose pipes are closed, are gone.
AllGone == mpc = "closing" /\ \A s \in Slaves : spc[s] = "dead"

Finished ==
    /\ AllGone /\ why = "finish"
    /\ mpc' = "finok"
    /\ UNCHANGED <<why, slp, block, firstrec, sent, next, blocksthisvol,
                   dumpdates, checkpoint, svars, vols, hups>>

\* The operator has mounted the next volume.
\* Mutant: a process that is to exit with X_REWRITE goes on, too.
MutChangesVolume == why # "finish"
ChangesVolume == why \in {"size", "roll"}

NextVolume ==
    /\ AllGone /\ ChangesVolume
    /\ mpc' = "newtape"
    /\ UNCHANGED <<why, slp, block, firstrec, sent, next,
                   blocksthisvol, dumpdates, checkpoint, svars, vols, hups>>

\* exit(X_REWRITE): the parent forks again from the context it kept, and the
\* volume is written anew.
Rewrite ==
    /\ AllGone /\ why = "rewrite"
    /\ mpc' = "newtape" /\ why' = checkpoint.why
    /\ slp' = checkpoint.slp /\ block' = checkpoint.block
    /\ firstrec' = checkpoint.firstrec /\ next' = checkpoint.next
    /\ vols' = SubSeq(vols, 1, checkpoint.vols)
    /\ UNCHANGED <<sent, blocksthisvol, dumpdates, checkpoint, svars,
                   hups>>

\* enslave(): the slave whose turn it is may write at once.
\* Mutant: caught is not reset for the slaves forked after that one.
MutFirstCaught(s) == s >= slp
FirstCaught(s) == s = slp

enslave ==
    /\ spc' = [s \in Slaves |-> "read"]
    /\ ready' = [s \in Slaves |-> FALSE]
    /\ caught' = [s \in Slaves |-> FirstCaught(s)]
    /\ usr2' = [s \in Slaves |-> FALSE]
    /\ pipe' = [s \in Slaves |-> <<>>]
    /\ reply' = [s \in Slaves |-> "none"]
    /\ buffer' = [s \in Slaves |-> <<>>]
    /\ sent' = [s \in Slaves |-> FALSE]

\* startnewtape(): fork, open the tape, start the slaves.  The volume header
\* is the first record of the block of slp, or of the blocks that
\* rollforward() is going to send.
startnewtape ==
    /\ mpc = "newtape"
    /\ checkpoint' = Saved
    /\ vols' = Append(vols, [first |-> firstrec[slp], recs |-> <<>>,
                             end |-> "open", full |-> FALSE])
    /\ enslave
    /\ blocksthisvol' = 0
    /\ IF why = "roll"
       THEN mpc' = "roll" /\ UNCHANGED block
       ELSE mpc' = "gen" /\ block' = [block EXCEPT ![slp] = <<Header>>]
    /\ UNCHANGED <<why, slp, firstrec, next, dumpdates, hups>>

\* rollforward(): the old blocks are sent again, shifted by one record: a
\* block starts with the last record of the block before it, the first one
\* with the volume header.  The last record of all starts the next block.
\* A slave that has nothing to be sent again is a "protocol botch".
\* Mutant: the record pushed out of a block is dropped.
MutRolled(s) == <<IF s = slp THEN Header ELSE Head(block[s])>>
                   \o SubSeq(block[s], 1, Len(block[s]) - 1)
LastOf(b) == b[Len(b)]
Rolled(s) == <<IF s = slp THEN Header ELSE LastOf(block[Pred(s)])>>
                \o SubSeq(block[s], 1, Len(block[s]) - 1)

rollforward ==
    /\ mpc = "roll"
    /\ IF \E s \in Slaves : block[s] = <<>>
       THEN quit /\ UNCHANGED <<block, sent, pipe>>
       ELSE /\ pipe' = [s \in Slaves |-> Rolled(s)]
            /\ sent' = [s \in Slaves |-> TRUE]
            /\ block' = [block EXCEPT ![slp] = <<LastOf(block[Pred(slp)])>>]
            /\ mpc' = "clear" /\ UNCHANGED spc
    /\ UNCHANGED <<why, slp, firstrec, next, blocksthisvol, dumpdates,
                   checkpoint, ready, caught, usr2, reply, buffer, vols, hups>>

\* The end of rollforward(): the first block must have fitted.
RollClear ==
    /\ mpc = "clear"
    /\ reply[slp] # "none" /\ TakeReply
    /\ IF reply[slp] = "short" THEN quit
                               ELSE mpc' = "gen" /\ UNCHANGED spc
    /\ UNCHANGED <<why, slp, block, firstrec, next, blocksthisvol, dumpdates,
                   checkpoint, ready, caught, usr2, pipe, buffer, vols, hups>>

\* sig(): a hangup of the master makes it close the volume and start it
\* again from the checkpoint.
sig ==
    /\ Running /\ vols # <<>> /\ why # "rewrite" /\ hups < MaxHups
    /\ mpc' = "trewind" /\ why' = "rewrite"
    /\ hups' = hups + 1
    /\ UNCHANGED <<slp, block, firstrec, sent, next, blocksthisvol,
                   dumpdates, checkpoint, svars, vols>>

\* dumpabort(), called by the master or through a SIGTERM from a slave or
\* the operator: the slaves are killed.
dumpabort ==
    /\ Running /\ quit
    /\ UNCHANGED <<why, slp, block, firstrec, sent, next, blocksthisvol,
                   dumpdates, checkpoint, ready, caught, usr2, pipe, reply,
                   buffer, vols, hups>>

-----------------------------------------------------------------------------
(* The slaves: doslave().                                                  *)

Goto(s, from, to) == spc[s] = from /\ spc' = [spc EXCEPT ![s] = to]

\* The requests are read, and the disk blocks they name.
SlaveRead(s) ==
    /\ pipe[s] # <<>>
    /\ Goto(s, "read", "lock")
    /\ buffer' = [buffer EXCEPT ![s] = pipe[s]]
    /\ pipe' = [pipe EXCEPT ![s] = <<>>]
    /\ UNCHANGED <<mvars, ready, caught, usr2, reply, vols, hups>>

\* End of file on the pipe.
SlaveExit(s) ==
    /\ mpc = "closing" /\ pipe[s] = <<>>
    /\ Goto(s, "read", "dead")
    /\ UNCHANGED <<mvars, ready, caught, usr2, pipe, reply, buffer, vols,
                   hups>>

\* setjmp(jmpbuf) == 0: ready is set, caught is tested, the slave pauses.
SlaveReady(s) ==
    /\ Goto(s, "lock", "test")
    /\ ready' = [ready EXCEPT ![s] = TRUE]
    /\ UNCHANGED <<mvars, caught, usr2, pipe, reply, buffer, vols, hups>>

SlaveTest(s) ==
    /\ Goto(s, "test", IF caught[s] THEN "clrready" ELSE "pause")
    /\ UNCHANGED <<mvars, ready, caught, usr2, pipe, reply, buffer, vols,
                   hups>>

SlaveClearReady(s) ==
    /\ Goto(s, "clrready", "clrcaught")
    /\ ready' = [ready EXCEPT ![s] = FALSE]
    /\ UNCHANGED <<mvars, caught, usr2, pipe, reply, buffer, vols, hups>>

SlaveClearCaught(s) ==
    /\ Goto(s, "clrcaught", "write")
    /\ caught' = [caught EXCEPT ![s] = FALSE]
    /\ UNCHANGED <<mvars, ready, usr2, pipe, reply, buffer, vols, hups>>

\* proceed(), the handler of SIGUSR2, jumps to setjmp() or remembers the
\* signal.  Mutant: it only remembers it.
MutProceeds(s) == FALSE
Proceeds(s) == ready[s]

proceed(s) ==
    /\ usr2[s] /\ spc[s] # "dead"
    /\ usr2' = [usr2 EXCEPT ![s] = FALSE]
    /\ IF Proceeds(s)
       THEN spc' = [spc EXCEPT ![s] = "clrready"] /\ UNCHANGED caught
       ELSE caught' = [caught EXCEPT ![s] = TRUE] /\ UNCHANGED spc
    /\ UNCHANGED <<mvars, ready, pipe, reply, buffer, vols, hups>>

\* The loop around write(), and the reply to the master: the block is on the
\* tape ...
Vol == vols[Len(vols)]

SlaveWrite(s) ==
    /\ Goto(s, "write", "pass")
    /\ ~Vol.full
    /\ vols' = [vols EXCEPT ![Len(vols)].recs = @ \o buffer[s]]
    /\ reply' = [reply EXCEPT ![s] = "full"]
    /\ UNCHANGED <<mvars, ready, caught, usr2, pipe, buffer, hups>>

\* ... or write() failed, or came back with nothing at least once, when m
\* records of the block may nevertheless be on the tape.  (After ten of those
\* the slave gives up.)
MayEnd == \/ Vol.end # "open"
          \/ Len(vols) < MaxVols /\ Len(Vol.recs) >= MinBlocks * ntrec

EndOf(v, b, m, c) ==
    [first |-> v.first, recs |-> v.recs \o SubSeq(b, 1, m), end |-> c,
     full |-> v.full \/ (m < Len(b) /\ ~SoftEot)]

SlaveWriteShort(s, m, c) ==
    /\ Goto(s, "write", "pass")
    /\ MayEnd
    /\ Vol.full => m = 0
    /\ c = "error" => m < Len(buffer[s])
    /\ vols' = [vols EXCEPT ![Len(vols)] = EndOf(@, buffer[s], m, c)]
    /\ reply' = [reply EXCEPT ![s] = "short"]
    /\ UNCHANGED <<mvars, ready, caught, usr2, pipe, buffer, hups>>

\* kill(nextslave, SIGUSR2), and back to the head of the loop.
SlavePass(s) ==
    /\ Goto(s, "pass", "read")
    /\ usr2' = [usr2 EXCEPT ![Succ(s)] = TRUE]
    /\ UNCHANGED <<mvars, ready, caught, pipe, reply, buffer, vols, hups>>

-----------------------------------------------------------------------------
Master ==
    \/ writerec \/ finish \/ FlushSend \/ FlushNext \/ FlushEot \/ FlushDrain
    \/ trewind \/ Finished \/ NextVolume \/ Rewrite \/ startnewtape
    \/ rollforward \/ RollClear

Slave(s) ==
    \/ SlaveRead(s) \/ SlaveExit(s) \/ SlaveReady(s) \/ SlaveTest(s)
    \/ SlaveClearReady(s) \/ SlaveClearCaught(s) \/ SlaveWrite(s)
    \/ \E m \in 0 .. Len(buffer[s]), c \in Causes : SlaveWriteShort(s, m, c)
    \/ SlavePass(s)

Ended == ~Running /\ UNCHANGED vars

Next == \/ Master \/ sig \/ dumpabort
        \/ \E s \in Slaves : Slave(s) \/ proceed(s)
        \/ Ended

Spec == Init /\ [][Next]_vars

\* The kernel runs every process and delivers every signal.
FairSpec ==
    /\ Spec
    /\ WF_vars(Master)
    /\ \A s \in Slaves : WF_vars(Slave(s)) /\ WF_vars(proceed(s))

-----------------------------------------------------------------------------
(* Properties.                                                             *)

\* Slaves that have taken over the tape and not yet passed it on.
Writing(s) == spc[s] \in {"clrready", "clrcaught", "write", "pass"}

\* The slave has the turn, or is about to be told.
HasTurn(s) == Writing(s) \/ caught[s] \/ usr2[s]

\* "They pass control of the tape in a ring via signals": while the tape is
\* open exactly one slave has the turn, and it is never signalled again while
\* it has it (a second SIGUSR2 would be forgotten).
OneTurn ==
    /\ \A s, t \in Slaves : HasTurn(s) /\ HasTurn(t) => s = t
    /\ \A s \in Slaves : usr2[s] => ~caught[s] /\ ~Writing(s)
    /\ (\A s \in Slaves : spc[s] # "dead") => \E s \in Slaves : HasTurn(s)

\* A slave that pauses has not overlooked a signal that came while it read
\* the disk, nor one between the test of caught and pause().
NotMissed == \A s \in Slaves : spc[s] = "pause" => ready[s] /\ ~caught[s]

\* A volume holds its header and then consecutive records, and starts at the
\* latest where the volume before it stopped: nothing is lost at the end of
\* a tape, whatever the drive had already done with the blocks in flight.
Seamless ==
    \A v \in 1 .. Len(vols) :
        LET r == vols[v].recs IN
        /\ \A i \in 1 .. Len(r) :
              /\ i = 1 => r[i] = Header
              /\ i > 2 => r[i] = r[i - 1] + 1
        /\ Len(r) > 1 => IF v = 1 THEN r[2] = 1
                         ELSE r[2] \in 1 .. (LastOf(vols[v - 1].recs) + 1)

\* A dump that exits with X_FINOK has everything on tape, up to a TS_END.
Complete ==
    mpc = "finok" =>
        \E v \in 1 .. Len(vols) :
            vols[v].recs # <<>> /\ LastOf(vols[v].recs) > Data

\* The dump comes to its end.
Terminates == <>(mpc \in {"finok", "abort"})

-----------------------------------------------------------------------------
(* What the documentation and comments say and the code does not do.       *)

\* "first record on volume" (c_firstrec) and "record number of this block":
\* counting every record, headers included, a volume starts in place of the
\* record that follows its header.
FirstRecord ==
    \A v \in 2 .. Len(vols) :
        LET r == vols[v].recs
            p == vols[v - 1].recs IN
        Len(r) > 1 => vols[v].first = vols[v - 1].first + (r[2] - p[2]) + 1

\* "If writing that volume fails for some reason, dump will, with operator
\* permission, restart itself from the checkpoint": no volume with a write
\* error is part of a complete dump.
FailedRewritten ==
    mpc = "finok" => \A v \in 1 .. Len(vols) : vols[v].end # "error"

\* "If partial write, don't want next slave to go."
PartialStops ==
    \A s \in Slaves : spc[s] = "write" => Vol.end = "open"

\* "Update the file /etc/dumpdates after a successful dump."
RecordedIfSuccessful == mpc = "abort" => ~dumpdates
=============================================================================
