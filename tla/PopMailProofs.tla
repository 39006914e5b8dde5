--------------------------- MODULE PopMailProofs ----------------------------
(***************************************************************************)
(* mail.local and popper exclude each other, keep what a session has       *)
(* listed and implement MailDrop, for any number of deliveries, sessions   *)
(* and deaths of popper processes.                                         *)
(***************************************************************************)
EXTENDS PopMail, PositionsProofs, FiniteSetTheorems, TLAPS

\* What mail.local would cut off is its own message, and the message only.
Truncating ==
    \A m \in Messages :
        /\ dpc[m] = "write" => curoff[m] = Len(mbox)
        /\ dpc[m] = "fsync" => /\ Len(mbox) = curoff[m] + 1
                               /\ ~ShortWrites => mbox[Len(mbox)] = m

\* The list of a session is the temporary maildrop without the new mail.
Listed(s) ==
    /\ spc[s] \in {"trans", "reflock"} => temp = list[s]
    /\ spc[s] \in {"append", "return", "close"} =>
          /\ offset[s] = Len(list[s]) /\ offset[s] <= Len(temp)
          /\ \A i \in 1..offset[s] : temp[i] = list[s][i]
    /\ spc[s] \in {"trans", "reflock", "append", "return", "close"} =>
          del[s] \subseteq 1..Len(list[s])

\* While mail is moved to the temporary maildrop, what is behind offset is a
\* copy of the beginning of the mailbox.
Copying(s) ==
    /\ spc[s] = "flock" => offset[s] = Len(temp)
    /\ spc[s] \in {"copy", "append"} =>
          /\ pos[s] <= Len(mbox) /\ Len(temp) = offset[s] + pos[s]
          /\ \A i \in 1..pos[s] : temp[offset[s] + i] = mbox[i]

\* While mail is put back, and until the temporary maildrop is emptied, the
\* mailbox begins with messages of the temporary maildrop.
Returning(s) ==
    spc[s] \in {"return", "close"} =>
        /\ pos[s] <= Len(mbox) /\ pos[s] <= Len(Kept(s))
        /\ \A i \in 1..pos[s] : mbox[i] = temp[Kept(s)[i]]
        /\ spc[s] = "return" => pos[s] = Len(mbox)
        /\ spc[s] = "close" =>
              /\ pos[s] = Len(Kept(s))
              /\ \A m \in Messages : dpc[m] = "fsync" => pos[s] <= curoff[m]

At(s) == Listed(s) /\ Copying(s) /\ Returning(s)

IInv == Typed /\ Exclusive /\ Truncating /\ \A s \in Sessions : At(s)

Session(s) == Work(s) \/ Client(s) \/ Kill(s)

-----------------------------------------------------------------------------
\* Two sessions are not in the temporary maildrop at the same time ...
LEMMA Alone ==
    ASSUME IInv, NEW s \in Sessions, tlock \in {s, NoOne},
           NEW t \in Sessions, t # s
    PROVE  spc[t] \in {"auth", "end"}
  BY MailAssumption DEF IInv, Exclusive

\* ... and no delivery is in the mailbox while a session has its lock.
LEMMA LockedOut ==
    ASSUME IInv, mlock \notin Messages, NEW m \in Messages
    PROVE  dpc[m] \notin {"write", "fsync"}
  BY DEF IInv, Exclusive

LEMMA KeptType ==
    ASSUME temp \in Seq(Messages \cup {Cut}), NEW s
    PROVE  Kept(s) \in Seq(1..Len(temp)) /\ Len(Kept(s)) \in Nat
<1>1. Len(temp) \in Nat
  OBVIOUS
<1>2. Kept(s) \in Seq(1..Len(temp))
  BY <1>1, PositionsType DEF Kept
<1>3. QED
  BY <1>2, LenProperties

\* A part of a file that is there is a file.
LEMMA Part ==
    ASSUME NEW f \in Seq(Messages \cup {Cut}), NEW k \in Nat, k <= Len(f)
    PROVE  /\ SubSeq(f, 1, k) \in Seq(Messages \cup {Cut})
           /\ Len(SubSeq(f, 1, k)) = k
           /\ \A i \in 1..k : SubSeq(f, 1, k)[i] = f[i]
  OBVIOUS

-----------------------------------------------------------------------------
LEMMA InitInv == Init => IInv
<1> SUFFICES ASSUME Init
             PROVE  IInv
  OBVIOUS
<1>1. Typed
  <2>1. <<>> \in Seq(Messages \cup {Cut})
    OBVIOUS
  <2>2. /\ list \in [Sessions -> Seq(Messages \cup {Cut})]
        /\ del \in [Sessions -> SUBSET Nat]
    BY <2>1 DEF Init
  <2>3. /\ dpc \in [Messages -> {"stat", "create", "open", "flock", "write",
                                "fsync", "ok", "changed", "failed"}]
        /\ curoff \in [Messages -> Nat]
        /\ spc \in [Sessions -> {"auth", "flock", "copy", "info", "trans",
                                 "reflock", "append", "return", "close", "end"}]
        /\ offset \in [Sessions -> Nat] /\ pos \in [Sessions -> Nat]
    BY DEF Init
  <2>4. mbox \in Seq(Messages \cup {Cut}) /\ temp \in Seq(Messages \cup {Cut})
    BY <2>1 DEF Init
  <2>5. /\ exists \in BOOLEAN /\ linked \in BOOLEAN
        /\ mlock \in Messages \cup Sessions \cup {NoOne}
        /\ tlock \in Sessions \cup {NoOne}
    BY Zenon DEF Init
  <2>6. crashes \in 0..MaxCrash
    BY MailAssumption DEF Init
  <2>7. QED
    BY <2>2, <2>3, <2>4, <2>5, <2>6 DEF Typed
<1>2. Exclusive /\ Truncating
  BY DEF Init, Exclusive, Truncating
<1>3. \A s \in Sessions : At(s)
  BY DEF Init, At, Listed, Copying, Returning
<1>4. QED
  BY <1>1, <1>2, <1>3 DEF IInv

\* The steps of mail.local.
LEMMA TypedDeliver ==
    ASSUME IInv, NEW m \in Messages, Deliver(m)
    PROVE  Typed'
<1> USE MailAssumption DEF IInv, Typed
<1>1. CASE Lstat(m)
  BY <1>1 DEF Lstat, Goto, svars
<1>2. CASE Create(m)
  BY <1>2 DEF Create, Goto, svars
<1>3. CASE DeliverFails(m)
  BY <1>3 DEF DeliverFails, Goto, svars
<1>4. CASE LockMailbox(m)
  BY <1>4 DEF LockMailbox, Goto, svars, Flock
<1>5. CASE WriteMessage(m)
  <2>1. PICK x \in Messages \cup {Cut} : mbox' = Append(mbox, x)
    BY <1>5 DEF WriteMessage
  <2>2. mbox' \in Seq(Messages \cup {Cut})
    BY <2>1, AppendProperties
  <2>3. QED
    BY <1>5, <2>2 DEF WriteMessage, Goto, svars
<1>6. CASE WriteFails(m)
  <2>1. curoff[m] \in Nat /\ curoff[m] <= Len(mbox)
    BY <1>6 DEF WriteFails, Truncating
  <2>2. SubSeq(mbox, 1, curoff[m]) \in Seq(Messages \cup {Cut})
    BY <2>1, Part
  <2>3. QED
    BY <1>6, <2>2 DEF WriteFails, Goto, svars, CutOff
<1>7. CASE CloseMailbox(m)
  BY <1>7 DEF CloseMailbox, Goto, svars
<1>8. CASE FsyncFails(m)
  <2>1. curoff[m] \in Nat /\ curoff[m] <= Len(mbox)
    BY <1>8 DEF FsyncFails, Truncating
  <2>2. SubSeq(mbox, 1, curoff[m]) \in Seq(Messages \cup {Cut})
    BY <2>1, Part
  <2>3. QED
    BY <1>8, <2>2 DEF FsyncFails, Goto, svars, CutOff
<1>9. CASE CloseFails(m)
  BY <1>9 DEF CloseFails, Goto, svars
<1>10. CASE OpenMailbox(m)
  BY <1>10 DEF OpenMailbox, Goto, svars
<1>11. QED
  BY <1>1, <1>2, <1>3, <1>4, <1>5, <1>6, <1>7, <1>8, <1>9, <1>10
     DEF Deliver, Proceed

\* The steps of popper.
LEMMA TypedSession ==
    ASSUME IInv, NEW s \in Sessions, Session(s)
    PROVE  Typed'
<1> USE MailAssumption DEF IInv, Typed
<1>1. CASE LockDrop(s)
  BY <1>1 DEF LockDrop, Locked, Step, Flock
<1>2. CASE LockDropFails(s)
  BY <1>2 DEF LockDropFails, Locked, Step
<1>3. CASE CopyMessage(s)
  BY <1>3, SMTT(30) DEF CopyMessage, Fetch
<1>4. CASE CopyDone(s)
  BY <1>4 DEF CopyDone, Locked, Step, Unlocked
<1>5. CASE CopyFails(s)
  <2>1. offset[s] \in Nat /\ offset[s] <= Len(temp)
    BY <1>5 DEF CopyFails, At, Copying
  <2>2. SubSeq(temp, 1, offset[s]) \in Seq(Messages \cup {Cut})
    BY <2>1, Part
  <2>3. QED
    BY <1>5, <2>2 DEF CopyFails, Locked, Step, Restore, Unlocked
<1>6. CASE DropInfo(s)
  BY <1>6 DEF DropInfo, Locked, Step
<1>7. CASE DropInfoFails(s)
  BY <1>7 DEF DropInfoFails, Locked, Step
<1>8. CASE LockUpdate(s)
  BY <1>8 DEF LockUpdate, Locked, Step, Flock
<1>9. CASE AppendNew(s)
  BY <1>9, SMTT(30) DEF AppendNew, Fetch, Added
<1>10. CASE AppendDone(s)
  BY <1>10 DEF AppendDone, Locked, Step
<1>11. CASE AppendFails(s)
  <2>1. offset[s] \in Nat /\ offset[s] <= Len(temp)
    BY <1>11 DEF AppendFails, At, Copying
  <2>2. SubSeq(temp, 1, offset[s]) \in Seq(Messages \cup {Cut})
    BY <2>1, Part
  <2>3. QED
    BY <1>11, <2>2 DEF AppendFails, Restore, Gone, Step
<1>12. CASE ReturnMessage(s)
  <2>1. Kept(s)[pos[s] + 1] \in 1..Len(temp)
    BY <1>12, KeptType, SMTT(60) DEF ReturnMessage
  <2>2. temp[Kept(s)[pos[s] + 1]] \in Messages \cup {Cut}
    BY <2>1
  <2>3. QED
    <3>1. mbox' \in Seq(Messages \cup {Cut})
      BY <1>12, <2>2, AppendProperties DEF ReturnMessage
    <3>2. /\ pos' \in [Sessions -> Nat]
          /\ UNCHANGED <<exists, linked, temp, mlock, tlock, dpc, curoff,
                         spc, offset, list, del, crashes>>
      BY <1>12 DEF ReturnMessage
    <3>3. QED
      BY <3>1, <3>2
<1>13. CASE ReturnDone(s)
  BY <1>13 DEF ReturnDone, Locked, Step
<1>14. CASE CloseDrop(s)
  BY <1>14 DEF CloseDrop, Gone, Step
<1>15. CASE ReturnFails(s)
  BY <1>15 DEF ReturnFails, Gone, Step
<1>16. CASE Login(s)
  BY <1>16 DEF Login, Flock, Locked, Step
<1>17. CASE Rset(s)
  BY <1>17 DEF Rset, Command
<1>18. CASE QuitAll(s)
  BY <1>18 DEF QuitAll, Command, Step
<1>19. CASE Quit(s)
  BY <1>19 DEF Quit, Step
<1>20. CASE Leave(s)
  BY <1>20 DEF Leave, Gone, Step
<1>21. CASE Kill(s)
  BY <1>21 DEF Kill, Gone, Step
<1>22. ASSUME NEW i \in 1..Len(list[s]), Dele(s, i)
      PROVE  Typed'
  BY <1>22 DEF Dele, Command
<1>23. QED
  BY <1>1, <1>2, <1>3, <1>4, <1>5, <1>6, <1>7, <1>8, <1>9, <1>10, <1>11, <1>12, <1>13, <1>14, <1>15, <1>16, <1>17, <1>18, <1>19, <1>20, <1>21, <1>22 DEF Session, Work, Client

\* The locks exclude: whoever enters finds the lock free, and whoever frees
\* it had it.
LEMMA ExclusiveDeliver ==
    ASSUME IInv, NEW m \in Messages, Deliver(m)
    PROVE  Exclusive'

<1> USE MailAssumption DEF IInv, Typed, Exclusive
<1>1. CASE Lstat(m)
  BY <1>1 DEF Lstat, Goto, svars
<1>2. CASE Create(m)
  BY <1>2 DEF Create, Goto, svars
<1>3. CASE DeliverFails(m)
  BY <1>3 DEF DeliverFails, Goto, svars
<1>4. CASE LockMailbox(m)
  BY <1>4 DEF LockMailbox, Goto, svars, Flock
<1>5. CASE WriteMessage(m)
  BY <1>5 DEF WriteMessage, Goto, svars
<1>6. CASE WriteFails(m)
  BY <1>6 DEF WriteFails, Goto, svars, CutOff
<1>7. CASE CloseMailbox(m)
  BY <1>7 DEF CloseMailbox, Goto, svars
<1>8. CASE FsyncFails(m)
  BY <1>8 DEF FsyncFails, Goto, svars, CutOff
<1>9. CASE CloseFails(m)
  BY <1>9 DEF CloseFails, Goto, svars
<1>10. CASE OpenMailbox(m)
  BY <1>10 DEF OpenMailbox, Goto, svars
<1>11. QED
  BY <1>1, <1>2, <1>3, <1>4, <1>5, <1>6, <1>7, <1>8, <1>9, <1>10
     DEF Deliver, Proceed

LEMMA ExclusiveSession ==
    ASSUME IInv, NEW s \in Sessions, Session(s)
    PROVE  Exclusive'

<1> USE MailAssumption DEF IInv, Typed, Exclusive
<1>1. CASE LockDrop(s)
  BY <1>1 DEF LockDrop, Locked, Step, Flock
<1>2. CASE LockDropFails(s)
  BY <1>2 DEF LockDropFails, Locked, Step
<1>3. CASE CopyMessage(s)
  BY <1>3 DEF CopyMessage, Fetch
<1>4. CASE CopyDone(s)
  BY <1>4 DEF CopyDone, Locked, Step, Unlocked
<1>5. CASE CopyFails(s)
  BY <1>5 DEF CopyFails, Locked, Step, Restore, Unlocked
<1>6. CASE DropInfo(s)
  BY <1>6 DEF DropInfo, Locked, Step
<1>7. CASE DropInfoFails(s)
  BY <1>7 DEF DropInfoFails, Locked, Step
<1>8. CASE LockUpdate(s)
  BY <1>8 DEF LockUpdate, Locked, Step, Flock
<1>9. CASE AppendNew(s)
  BY <1>9 DEF AppendNew, Fetch, Added
<1>10. CASE AppendDone(s)
  BY <1>10 DEF AppendDone, Locked, Step
<1>11. CASE AppendFails(s)
  BY <1>11 DEF AppendFails, Restore, Gone, Step
<1>12. CASE ReturnMessage(s)
  BY <1>12 DEF ReturnMessage
<1>13. CASE ReturnDone(s)
  BY <1>13 DEF ReturnDone, Locked, Step
<1>14. CASE CloseDrop(s)
  BY <1>14 DEF CloseDrop, Gone, Step
<1>15. CASE ReturnFails(s)
  BY <1>15 DEF ReturnFails, Gone, Step
<1>16. CASE Login(s)
  BY <1>16 DEF Login, Flock, Locked, Step
<1>17. CASE Rset(s)
  BY <1>17 DEF Rset, Command
<1>18. CASE QuitAll(s)
  BY <1>18 DEF QuitAll, Command, Step
<1>19. CASE Quit(s)
  BY <1>19 DEF Quit, Step
<1>20. CASE Leave(s)
  BY <1>20 DEF Leave, Gone, Step
<1>21. CASE Kill(s)
  BY <1>21 DEF Kill, Gone, Step
<1>22. ASSUME NEW i \in 1..Len(list[s]), Dele(s, i)
      PROVE  Exclusive'
  BY <1>22 DEF Dele, Command
<1>23. QED
  BY <1>1, <1>2, <1>3, <1>4, <1>5, <1>6, <1>7, <1>8, <1>9, <1>10, <1>11, <1>12, <1>13, <1>14, <1>15, <1>16, <1>17, <1>18, <1>19, <1>20, <1>21, <1>22 DEF Session, Work, Client

\* Only the delivery that has the lock changes the mailbox before it is done.
LEMMA TruncatingDeliver ==
    ASSUME IInv, NEW m \in Messages, Deliver(m)
    PROVE  Truncating'

<1> USE MailAssumption DEF IInv, Typed, Exclusive, Truncating
<1>1. CASE Lstat(m)
  BY <1>1 DEF Lstat, Goto, svars
<1>2. CASE Create(m)
  BY <1>2 DEF Create, Goto, svars
<1>3. CASE DeliverFails(m)
  BY <1>3 DEF DeliverFails, Goto, svars
<1>4. CASE LockMailbox(m)
  BY <1>4 DEF LockMailbox, Goto, svars, Flock
<1>5. CASE WriteMessage(m)
  BY <1>5 DEF WriteMessage, Goto, svars
<1>6. CASE WriteFails(m)
  BY <1>6 DEF WriteFails, Goto, svars, CutOff
<1>7. CASE CloseMailbox(m)
  BY <1>7 DEF CloseMailbox, Goto, svars
<1>8. CASE FsyncFails(m)
  BY <1>8 DEF FsyncFails, Goto, svars, CutOff
<1>9. CASE CloseFails(m)
  BY <1>9 DEF CloseFails, Goto, svars
<1>10. CASE OpenMailbox(m)
  BY <1>10 DEF OpenMailbox, Goto, svars
<1>11. QED
  BY <1>1, <1>2, <1>3, <1>4, <1>5, <1>6, <1>7, <1>8, <1>9, <1>10
     DEF Deliver, Proceed

LEMMA TruncatingSession ==
    ASSUME IInv, NEW s \in Sessions, Session(s)
    PROVE  Truncating'

<1> USE MailAssumption DEF IInv, Typed, Exclusive, Truncating
<1>1. CASE LockDrop(s)
  BY <1>1 DEF LockDrop, Locked, Step, Flock
<1>2. CASE LockDropFails(s)
  BY <1>2 DEF LockDropFails, Locked, Step
<1>3. CASE CopyMessage(s)
  BY <1>3 DEF CopyMessage, Fetch
<1>4. CASE CopyDone(s)
  BY <1>4 DEF CopyDone, Locked, Step, Unlocked
<1>5. CASE CopyFails(s)
  BY <1>5 DEF CopyFails, Locked, Step, Restore, Unlocked
<1>6. CASE DropInfo(s)
  BY <1>6 DEF DropInfo, Locked, Step
<1>7. CASE DropInfoFails(s)
  BY <1>7 DEF DropInfoFails, Locked, Step
<1>8. CASE LockUpdate(s)
  BY <1>8 DEF LockUpdate, Locked, Step, Flock
<1>9. CASE AppendNew(s)
  BY <1>9 DEF AppendNew, Fetch, Added
<1>10. CASE AppendDone(s)
  BY <1>10 DEF AppendDone, Locked, Step
<1>11. CASE AppendFails(s)
  BY <1>11 DEF AppendFails, Restore, Gone, Step
<1>12. CASE ReturnMessage(s)
  BY <1>12 DEF ReturnMessage
<1>13. CASE ReturnDone(s)
  BY <1>13 DEF ReturnDone, Locked, Step
<1>14. CASE CloseDrop(s)
  BY <1>14 DEF CloseDrop, Gone, Step
<1>15. CASE ReturnFails(s)
  BY <1>15 DEF ReturnFails, Gone, Step
<1>16. CASE Login(s)
  BY <1>16 DEF Login, Flock, Locked, Step
<1>17. CASE Rset(s)
  BY <1>17 DEF Rset, Command
<1>18. CASE QuitAll(s)
  BY <1>18 DEF QuitAll, Command, Step
<1>19. CASE Quit(s)
  BY <1>19 DEF Quit, Step
<1>20. CASE Leave(s)
  BY <1>20 DEF Leave, Gone, Step
<1>21. CASE Kill(s)
  BY <1>21 DEF Kill, Gone, Step
<1>22. ASSUME NEW i \in 1..Len(list[s]), Dele(s, i)
      PROVE  Truncating'
  BY <1>22 DEF Dele, Command
<1>23. QED
  BY <1>1, <1>2, <1>3, <1>4, <1>5, <1>6, <1>7, <1>8, <1>9, <1>10, <1>11, <1>12, <1>13, <1>14, <1>15, <1>16, <1>17, <1>18, <1>19, <1>20, <1>21, <1>22 DEF Session, Work, Client

\* A delivery disturbs no session: a session that is in the mailbox has the
\* lock, and what a session has put back stays when a message is cut off.
LEMMA AtDeliver ==
    ASSUME IInv, NEW m \in Messages, Deliver(m), NEW s \in Sessions
    PROVE  At(s)'
<1> USE MailAssumption DEF IInv, Typed
<1>1. At(s) /\ UNCHANGED <<temp, spc, offset, pos, list, del>>
  BY DEF Deliver, Proceed, Lstat, Create, OpenMailbox, DeliverFails, LockMailbox,
         WriteMessage, WriteFails, CloseMailbox, FsyncFails, CloseFails, svars
<1>2. Kept(s)' = Kept(s)
  BY <1>1 DEF Kept
<1>3. Listed(s)'
  BY <1>1 DEF At, Listed
<1>4. CASE UNCHANGED mbox
  <2>1. Copying(s)'
    BY <1>1, <1>4 DEF At, Copying
  <2>2. ASSUME NEW k \in Messages, dpc'[k] = "fsync", spc[s] = "close"
        PROVE  dpc[k] = "fsync" /\ UNCHANGED curoff
    <3>1. dpc'[k] = dpc[k] \/ k = m
      BY DEF Deliver, Proceed, Lstat, Create, OpenMailbox, DeliverFails, LockMailbox,
             WriteMessage, WriteFails, CloseMailbox, FsyncFails, CloseFails, Goto
    <3>2. ~WriteMessage(m)
      <4>1. \A x : Append(mbox, x) # mbox
        OBVIOUS
      <4>2. QED
        BY <1>4, <4>1 DEF WriteMessage
    <3>3. dpc'[m] # "fsync"
      BY <3>2 DEF Deliver, Proceed, Lstat, Create, OpenMailbox, DeliverFails, LockMailbox,
             WriteFails, CloseMailbox, FsyncFails, CloseFails, Goto
    <3>4. UNCHANGED curoff \/ LockMailbox(m)
      BY DEF Deliver, Proceed, Lstat, Create, OpenMailbox, DeliverFails,
             WriteMessage, WriteFails, CloseMailbox, FsyncFails, CloseFails
    <3>5. ~LockMailbox(m)
      BY <2>2, <3>1, <3>3 DEF LockMailbox, Flock, Exclusive
    <3>6. QED
      BY <2>2, <3>1, <3>3, <3>4, <3>5
  <2>3. Returning(s)'
    BY <1>1, <1>2, <1>4, <2>2 DEF At, Returning
  <2>4. QED
    BY <1>3, <2>1, <2>3 DEF At
<1>5. CASE WriteMessage(m)
  <2>1. spc[s] \notin {"copy", "append", "return"} /\ curoff[m] = Len(mbox)
    BY <1>5 DEF WriteMessage, Exclusive, Truncating
  <2>2. PICK x \in Messages \cup {Cut} : mbox' = Append(mbox, x)
    BY <1>5 DEF WriteMessage
  <2>3. Len(mbox') = Len(mbox) + 1 /\ \A i \in 1..Len(mbox) : mbox'[i] = mbox[i]
    BY <2>2, AppendProperties
  <2>4. \A k \in Messages : dpc'[k] = "fsync" => k = m
    BY <1>5 DEF WriteMessage, Goto, Exclusive
  <2>5. Copying(s)'
    BY <1>1, <2>1 DEF At, Copying
  <2>6. UNCHANGED curoff
    BY <1>5 DEF WriteMessage
  <2>7. Returning(s)'
    <3>1. SUFFICES ASSUME spc[s] = "close"
                   PROVE  Returning(s)'
      BY <1>1, <2>1 DEF Returning
    <3>2. /\ pos[s] \in Nat /\ pos[s] <= Len(mbox) /\ pos[s] = Len(Kept(s))
          /\ \A i \in 1..pos[s] : mbox[i] = temp[Kept(s)[i]]
      BY <1>1, <3>1 DEF At, Returning
    <3>3. \A i \in 1..pos[s] : mbox'[i] = temp[Kept(s)[i]]
      <4>1. \A i \in 1..pos[s] : i \in 1..Len(mbox)
        BY <3>2
      <4>2. QED
        BY <2>3, <3>2, <4>1
    <3>4. QED
      BY <1>1, <1>2, <2>1, <2>3, <2>4, <2>6, <3>1, <3>2, <3>3 DEF Returning
  <2>8. QED
    BY <1>3, <2>5, <2>7 DEF At
<1>6. CASE WriteFails(m) \/ FsyncFails(m)
  <2>1. /\ spc[s] \notin {"copy", "append", "return"}
        /\ curoff[m] \in Nat /\ curoff[m] <= Len(mbox)
        /\ spc[s] = "close" => pos[s] <= curoff[m]
    BY <1>1, <1>6 DEF WriteFails, FsyncFails, Exclusive, Truncating, At, Returning
  <2>2. /\ Len(mbox') = curoff[m]
        /\ \A i \in 1..curoff[m] : mbox'[i] = mbox[i]
    BY <1>6, <2>1, Part DEF WriteFails, FsyncFails, CutOff
  <2>3. \A k \in Messages : dpc'[k] # "fsync"
    BY <1>6 DEF WriteFails, FsyncFails, Goto, Exclusive
  <2>4. Copying(s)'
    BY <1>1, <2>1 DEF At, Copying
  <2>5. Returning(s)'
    <3>1. SUFFICES ASSUME spc[s] = "close"
                   PROVE  Returning(s)'
      BY <1>1, <2>1 DEF Returning
    <3>2. /\ pos[s] \in Nat /\ pos[s] <= Len(mbox) /\ pos[s] = Len(Kept(s))
          /\ \A i \in 1..pos[s] : mbox[i] = temp[Kept(s)[i]]
      BY <1>1, <3>1 DEF At, Returning
    <3>3. \A i \in 1..pos[s] : mbox'[i] = temp[Kept(s)[i]]
      <4>1. \A i \in 1..pos[s] : i \in 1..curoff[m]
        BY <2>1, <3>1, <3>2
      <4>2. QED
        BY <2>2, <3>2, <4>1
    <3>4. QED
      BY <1>1, <1>2, <2>1, <2>2, <2>3, <3>1, <3>2, <3>3 DEF Returning
  <2>6. QED
    BY <1>3, <2>4, <2>5 DEF At
<1>7. QED
  BY <1>4, <1>5, <1>6 DEF Deliver, Proceed, Lstat, Create, OpenMailbox, DeliverFails,
     LockMailbox, CloseMailbox, CloseFails

\* Nor does one session disturb another: one that has not got the temporary
\* maildrop can only leave.
LEMMA AtOthers ==
    ASSUME IInv, NEW s \in Sessions, Session(s), NEW t \in Sessions, t # s
    PROVE  At(t)'
<1> USE MailAssumption DEF IInv, Typed
<1>1. spc'[t] = spc[t]

  <2>1. CASE LockDrop(s)
    BY <2>1 DEF LockDrop, Locked, Step, Flock
  <2>2. CASE LockDropFails(s)
    BY <2>2 DEF LockDropFails, Locked, Step
  <2>3. CASE CopyMessage(s)
    BY <2>3 DEF CopyMessage, Fetch
  <2>4. CASE CopyDone(s)
    BY <2>4 DEF CopyDone, Locked, Step, Unlocked
  <2>5. CASE CopyFails(s)
    BY <2>5 DEF CopyFails, Locked, Step, Restore, Unlocked
  <2>6. CASE DropInfo(s)
    BY <2>6 DEF DropInfo, Locked, Step
  <2>7. CASE DropInfoFails(s)
    BY <2>7 DEF DropInfoFails, Locked, Step
  <2>8. CASE LockUpdate(s)
    BY <2>8 DEF LockUpdate, Locked, Step, Flock
  <2>9. CASE AppendNew(s)
    BY <2>9 DEF AppendNew, Fetch, Added
  <2>10. CASE AppendDone(s)
    BY <2>10 DEF AppendDone, Locked, Step
  <2>11. CASE AppendFails(s)
    BY <2>11 DEF AppendFails, Restore, Gone, Step
  <2>12. CASE ReturnMessage(s)
    BY <2>12 DEF ReturnMessage
  <2>13. CASE ReturnDone(s)
    BY <2>13 DEF ReturnDone, Locked, Step
  <2>14. CASE CloseDrop(s)
    BY <2>14 DEF CloseDrop, Gone, Step
  <2>15. CASE ReturnFails(s)
    BY <2>15 DEF ReturnFails, Gone, Step
  <2>16. CASE Login(s)
    BY <2>16 DEF Login, Flock, Locked, Step
  <2>17. CASE Rset(s)
    BY <2>17 DEF Rset, Command
  <2>18. CASE QuitAll(s)
    BY <2>18 DEF QuitAll, Command, Step
  <2>19. CASE Quit(s)
    BY <2>19 DEF Quit, Step
  <2>20. CASE Leave(s)
    BY <2>20 DEF Leave, Gone, Step
  <2>21. CASE Kill(s)
    BY <2>21 DEF Kill, Gone, Step
  <2>22. QED
    BY <2>1, <2>2, <2>3, <2>4, <2>5, <2>6, <2>7, <2>8, <2>9, <2>10, <2>11, <2>12, <2>13, <2>14, <2>15, <2>16, <2>17, <2>18, <2>19, <2>20, <2>21 DEF Session, Work, Client, Dele
<1>2. CASE tlock \in {s, NoOne}
  <2>1. spc'[t] \in {"auth", "end"}
    BY <1>1, <1>2, Alone
  <2>2. QED
    BY <2>1 DEF At, Listed, Copying, Returning
<1>3. CASE tlock \notin {s, NoOne}
  <2>1. spc[s] \in {"auth", "end"}
    BY <1>3 DEF Exclusive
  <2>2. Leave(s)
    BY <1>3, <2>1 DEF Session, Work, Client, Kill, LockDrop, LockDropFails,
       CopyMessage, CopyDone, CopyFails, DropInfo, DropInfoFails, LockUpdate,
       AppendNew, AppendDone, AppendFails, ReturnMessage, ReturnDone, CloseDrop,
       ReturnFails, Login, Flock, Dele, Rset, QuitAll, Quit, Command
  <2>3. UNCHANGED <<mbox, temp, dpc, curoff, offset, pos, list, del>>
    BY <2>2 DEF Leave
  <2>4. Kept(t)' = Kept(t)
    BY <2>3 DEF Kept
  <2>5. Listed(t)' /\ Copying(t)'
    BY <1>1, <2>3 DEF At, Listed, Copying
  <2>6. Returning(t)'
    BY <1>1, <2>3, <2>4 DEF At, Returning
  <2>7. QED
    BY <2>5, <2>6 DEF At
<1>4. QED
  BY <1>2, <1>3


\* A session keeps its own promises.
LEMMA AtSelf ==
    ASSUME IInv, NEW s \in Sessions, Session(s)
    PROVE  At(s)'
<1> USE MailAssumption DEF IInv, Typed
<1> USE DEF At, Listed, Copying, Returning
<1>1. CASE LockDrop(s)
  BY <1>1 DEF LockDrop, Locked, Step, Flock
<1>2. CASE LockDropFails(s)
  BY <1>2 DEF LockDropFails, Locked, Step
<1>3. CASE CopyMessage(s)
  <2>1. /\ pos[s] \in Nat /\ offset[s] \in Nat /\ pos[s] < Len(mbox)
        /\ mbox[pos[s] + 1] \in Messages \cup {Cut}
        /\ temp' = Append(temp, mbox[pos[s] + 1])
        /\ pos'[s] = pos[s] + 1
        /\ UNCHANGED <<mbox, spc, offset, list, del>>
    BY <1>3 DEF CopyMessage, Fetch
  <2>2. /\ Len(temp') = Len(temp) + 1 /\ temp'[Len(temp) + 1] = mbox[pos[s] + 1]
        /\ \A i \in 1..Len(temp) : temp'[i] = temp[i]
    BY <2>1, AppendProperties
  <2>3. /\ Len(temp) = offset[s] + pos[s]
        /\ \A i \in 1..pos[s] : temp[offset[s] + i] = mbox[i]
    BY <1>3 DEF CopyMessage
  <2>4. \A i \in 1..(pos[s] + 1) : temp'[offset[s] + i] = mbox[i]
    <3> SUFFICES ASSUME NEW i \in 1..(pos[s] + 1)
                 PROVE  temp'[offset[s] + i] = mbox[i]
      OBVIOUS
    <3>1. CASE i = pos[s] + 1
      BY <3>1, <2>1, <2>2, <2>3, SMTT(30)
    <3>2. CASE i \in 1..pos[s]
      <4>1. offset[s] + i \in 1..Len(temp)
        BY <3>2, <2>1, <2>3, SMTT(60)
      <4>2. QED
        BY <3>2, <4>1, <2>2, <2>3
    <3>3. i = pos[s] + 1 \/ i \in 1..pos[s]
      BY <2>1
    <3>4. QED
      BY <3>1, <3>2, <3>3, Zenon
  <2>5. Copying(s)'
    <3>1. spc[s] = "copy" /\ spc' = spc /\ mbox' = mbox
      BY <1>3, <2>1 DEF CopyMessage
    <3>2. pos'[s] <= Len(mbox') /\ Len(temp') = offset'[s] + pos'[s]
      BY <2>1, <2>2, <2>3, SMTT(60)
    <3>3. \A i \in 1..pos'[s] : temp'[offset'[s] + i] = mbox'[i]
      BY <2>1, <2>4
    <3>4. QED
      BY <3>1, <3>2, <3>3
  <2>6. Listed(s)'
    BY <1>3, <2>1 DEF CopyMessage
  <2>7. Returning(s)'
    BY <1>3, <2>1 DEF CopyMessage
  <2>8. QED
    BY <2>5, <2>6, <2>7
<1>4. CASE CopyDone(s)
  BY <1>4 DEF CopyDone, Locked, Step, Unlocked
<1>5. CASE CopyFails(s)
  BY <1>5 DEF CopyFails, Locked, Step, Restore, Unlocked
<1>6. CASE DropInfo(s)
  BY <1>6 DEF DropInfo, Locked, Step
<1>7. CASE DropInfoFails(s)
  BY <1>7 DEF DropInfoFails, Locked, Step
<1>8. CASE LockUpdate(s)
  BY <1>8 DEF LockUpdate, Locked, Step, Flock
<1>9. CASE AppendNew(s)
  <2>1. /\ pos[s] \in Nat /\ offset[s] \in Nat /\ pos[s] < Len(mbox)
        /\ mbox[pos[s] + 1] \in Messages \cup {Cut}
        /\ temp' = Append(temp, mbox[pos[s] + 1])
        /\ pos'[s] = pos[s] + 1
        /\ UNCHANGED <<mbox, spc, offset, list, del>>
    BY <1>9 DEF AppendNew, Fetch, Added
  <2>2. /\ Len(temp') = Len(temp) + 1 /\ temp'[Len(temp) + 1] = mbox[pos[s] + 1]
        /\ \A i \in 1..Len(temp) : temp'[i] = temp[i]
    BY <2>1, AppendProperties
  <2>3. /\ Len(temp) = offset[s] + pos[s]
        /\ \A i \in 1..pos[s] : temp[offset[s] + i] = mbox[i]
    BY <1>9 DEF AppendNew
  <2>4. \A i \in 1..(pos[s] + 1) : temp'[offset[s] + i] = mbox[i]
    <3> SUFFICES ASSUME NEW i \in 1..(pos[s] + 1)
                 PROVE  temp'[offset[s] + i] = mbox[i]
      OBVIOUS
    <3>1. CASE i = pos[s] + 1
      BY <3>1, <2>1, <2>2, <2>3, SMTT(30)
    <3>2. CASE i \in 1..pos[s]
      <4>1. offset[s] + i \in 1..Len(temp)
        BY <3>2, <2>1, <2>3, SMTT(60)
      <4>2. QED
        BY <3>2, <4>1, <2>2, <2>3
    <3>3. i = pos[s] + 1 \/ i \in 1..pos[s]
      BY <2>1
    <3>4. QED
      BY <3>1, <3>2, <3>3, Zenon
  <2>5. Copying(s)'
    BY <1>9, <2>1, <2>2, <2>3, <2>4, SMTT(30) DEF AppendNew
  <2>6. Listed(s)'
    <3>1. /\ offset[s] = Len(list[s]) /\ offset[s] <= Len(temp)
          /\ \A i \in 1..offset[s] : temp[i] = list[s][i]
          /\ del[s] \subseteq 1..Len(list[s])
      BY <1>9 DEF AppendNew
    <3>2. \A i \in 1..offset[s] : i \in 1..Len(temp)
      BY <2>1, <3>1
    <3>3. \A i \in 1..offset[s] : temp'[i] = list[s][i]
      BY <2>2, <3>1, <3>2
    <3>4. QED
      BY <1>9, <2>1, <2>2, <3>1, <3>3 DEF AppendNew
  <2>7. Returning(s)'
    BY <1>9, <2>1 DEF AppendNew
  <2>8. QED
    BY <2>5, <2>6, <2>7
<1>10. CASE AppendDone(s)
  BY <1>10, SMTT(30) DEF AppendDone, Locked, Step
<1>11. CASE AppendFails(s)
  BY <1>11 DEF AppendFails, Restore, Gone, Step
<1>12. CASE ReturnMessage(s)
  <2>1. /\ pos[s] \in Nat /\ pos[s] < Len(Kept(s)) /\ pos[s] = Len(mbox)
        /\ mbox' = Append(mbox, temp[Kept(s)[pos[s] + 1]])
        /\ pos'[s] = pos[s] + 1
        /\ UNCHANGED <<temp, spc, offset, list, del>>
        /\ \A i \in 1..pos[s] : mbox[i] = temp[Kept(s)[i]]
    BY <1>12 DEF ReturnMessage
  <2>2. Kept(s)' = Kept(s) /\ Len(Kept(s)) \in Nat
    BY <2>1, KeptType DEF Kept
  <2>3. /\ Len(mbox') = pos[s] + 1 /\ mbox'[pos[s] + 1] = temp[Kept(s)[pos[s] + 1]]
        /\ \A i \in 1..pos[s] : mbox'[i] = mbox[i]
    <3>1. Kept(s)[pos[s] + 1] \in 1..Len(temp)
      BY <2>1, KeptType, SMTT(30)
    <3>2. temp[Kept(s)[pos[s] + 1]] \in Messages \cup {Cut}
      BY <3>1
    <3>3. QED
      BY <2>1, <3>2, AppendProperties
  <2>4. \A i \in 1..(pos[s] + 1) : mbox'[i] = temp[Kept(s)[i]]
    <3>1. \A i \in 1..(pos[s] + 1) : i \in 1..pos[s] \/ i = pos[s] + 1
      BY <2>1
    <3>2. QED
      BY <2>1, <2>3, <3>1
  <2>5. Returning(s)'
    BY <1>12, <2>1, <2>2, <2>3, <2>4, SMTT(30) DEF ReturnMessage
  <2>6. Listed(s)' /\ Copying(s)'
    BY <1>12, <2>1 DEF ReturnMessage
  <2>7. QED
    BY <2>5, <2>6
<1>13. CASE ReturnDone(s)
  <2>1. Kept(s)' = Kept(s)
    BY <1>13 DEF ReturnDone, Kept
  <2>2. \A m \in Messages : dpc'[m] # "fsync"
    BY <1>13 DEF ReturnDone, Locked, Exclusive
  <2>3. QED
    BY <1>13, <2>1, <2>2 DEF ReturnDone, Locked, Step
<1>14. CASE CloseDrop(s)
  BY <1>14 DEF CloseDrop, Gone, Step
<1>15. CASE ReturnFails(s)
  BY <1>15 DEF ReturnFails, Gone, Step
<1>16. CASE Login(s)
  BY <1>16 DEF Login, Flock, Locked, Step
<1>17. CASE Rset(s)
  BY <1>17 DEF Rset, Command
<1>18. CASE QuitAll(s)
  BY <1>18 DEF QuitAll, Command, Step
<1>19. CASE Quit(s)
  BY <1>19 DEF Quit, Step
<1>20. CASE Leave(s)
  BY <1>20 DEF Leave, Gone, Step
<1>21. CASE Kill(s)
  BY <1>21 DEF Kill, Gone, Step
<1>22. ASSUME NEW i \in 1..Len(list[s]), Dele(s, i)
      PROVE  At(s)'
  BY <1>22 DEF Dele, Command
<1>23. QED
  BY <1>1, <1>2, <1>3, <1>4, <1>5, <1>6, <1>7, <1>8, <1>9, <1>10, <1>11, <1>12, <1>13, <1>14, <1>15, <1>16, <1>17, <1>18, <1>19, <1>20, <1>21, <1>22 DEF Session, Work, Client

LEMMA NextInv == IInv /\ [Next]_vars => IInv'
<1> SUFFICES ASSUME IInv, [Next]_vars
             PROVE  IInv'
  OBVIOUS
<1>1. ASSUME NEW m \in Messages, Deliver(m)
      PROVE  IInv'
  <2>1. Typed' /\ Exclusive' /\ Truncating'
    BY <1>1, TypedDeliver, ExclusiveDeliver, TruncatingDeliver
  <2>2. \A s \in Sessions : At(s)'
    BY <1>1, AtDeliver
  <2>3. QED
    BY <2>1, <2>2 DEF IInv
<1>2. ASSUME NEW s \in Sessions, Session(s)
      PROVE  IInv'
  <2>1. Typed' /\ Exclusive' /\ Truncating'
    BY <1>2, TypedSession, ExclusiveSession, TruncatingSession
  <2>2. \A t \in Sessions : At(t)'
    BY <1>2, AtSelf, AtOthers
  <2>3. QED
    BY <2>1, <2>2 DEF IInv
<1>3. CASE Link \/ UNCHANGED vars
  <2>1. /\ UNCHANGED <<exists, mbox, temp, mlock, tlock, dpc, curoff, spc,
                       offset, pos, list, del, crashes>>
        /\ linked \in BOOLEAN => linked' \in BOOLEAN
    BY <1>3 DEF Link, vars, svars
  <2>2. Typed' /\ Exclusive' /\ Truncating'
    BY <2>1 DEF IInv, Typed, Exclusive, Truncating
  <2>3. \A s \in Sessions : Kept(s)' = Kept(s)
    BY <2>1 DEF Kept
  <2>4. \A s \in Sessions : At(s)'
    BY <2>1, <2>3 DEF IInv, At, Listed, Copying, Returning
  <2>5. QED
    BY <2>2, <2>4 DEF IInv
<1>4. QED
  BY <1>1, <1>2, <1>3 DEF Next, Session

\* The invariant of mailboxes, locks and sessions, from which the following
\* theorems are read off.
THEOREM Invariance == Spec => []IInv
<1>1. QED
  BY InitInv, NextInv, PTL DEF Spec

\* The locks exclude: a mailbox or temporary maildrop is only read and
\* written by the one process that has locked it, for any number of
\* mail.local and popper processes, whatever fails and whichever popper is
\* killed.
THEOREM TypeCorrect == Spec => []TypeOK
<1>1. IInv => TypeOK
  BY DEF IInv, TypeOK
<1>2. QED
  BY <1>1, Invariance, PTL

\* The messages a session has listed stay where they are until it ends.
THEOREM ListStays == Spec => []ListStable
<1>1. IInv => ListStable
  <2> SUFFICES ASSUME IInv, NEW s \in Sessions,
                      spc[s] \in {"trans", "reflock", "append", "return", "close"}
               PROVE  SubSeq(temp, 1, Len(list[s])) = list[s]
    BY DEF ListStable
  <2>1. temp \in Seq(Messages \cup {Cut}) /\ list[s] \in Seq(Messages \cup {Cut})
    BY DEF IInv, Typed
  <2>2. /\ Len(list[s]) <= Len(temp)
        /\ \A i \in 1..Len(list[s]) : temp[i] = list[s][i]
    BY <2>1 DEF IInv, At, Listed
  <2>3. QED
    BY <2>1, <2>2, Part, SeqEqual
<1>2. QED
  BY <1>1, Invariance, PTL


-----------------------------------------------------------------------------
(* The refinement.                                                         *)

Idle == \A s \in Sessions : spc[s] \notin {"copy", "append", "return", "close"}
Asked(s) == spc[s] \in {"trans", "reflock", "append", "return", "close"}

\* What Mail is: the copies that are not complete do not count.
MailIs ==
    /\ Mail \in Seq(Messages \cup {Cut})
    /\ Safe \in Nat /\ Safe <= Len(mbox)
    /\ Idle => Mail = temp \o SubSeq(mbox, 1, Safe)
    /\ \A s \in Sessions :
         /\ spc[s] \in {"copy", "append"} =>
               Mail = SubSeq(temp, 1, offset[s]) \o mbox
         /\ spc[s] = "return" => Mail = temp
         /\ spc[s] = "close" => /\ pos[s] <= Safe
                                /\ Mail = temp \o SubSeq(mbox, pos[s] + 1, Safe)

LEMMA SubFile ==
    ASSUME NEW f \in Seq(Messages \cup {Cut}), NEW j \in Nat, NEW k \in Nat,
           k <= Len(f)
    PROVE  /\ SubSeq(f, j + 1, k) \in Seq(Messages \cup {Cut})
           /\ Len(SubSeq(f, j + 1, k)) = IF j <= k THEN k - j ELSE 0
           /\ \A i \in 1..k - j : SubSeq(f, j + 1, k)[i] = f[j + i]
<1>1. \A i \in (j + 1)..k : f[i] \in Messages \cup {Cut}
  OBVIOUS
<1>2. /\ SubSeq(f, j + 1, k) \in Seq(Messages \cup {Cut})
      /\ Len(SubSeq(f, j + 1, k)) = IF j + 1 <= k THEN k - (j + 1) + 1 ELSE 0
      /\ \A i \in 1..k - (j + 1) + 1 :
             SubSeq(f, j + 1, k)[i] = f[j + 1 + i - 1]
  BY <1>1, SubSeqProperties
<1>3. QED
  BY <1>2

\* Only the messages up to the last one wanted matter.
LEMMA SubFileEqual ==
    ASSUME NEW f \in Seq(Messages \cup {Cut}), NEW g \in Seq(Messages \cup {Cut}),
           NEW j \in Nat, NEW k \in Nat, k <= Len(f), k <= Len(g),
           \A i \in 1..k : f[i] = g[i]
    PROVE  SubSeq(f, j + 1, k) = SubSeq(g, j + 1, k)
<1> DEFINE a == SubSeq(f, j + 1, k)
           b == SubSeq(g, j + 1, k)
<1>1. /\ a \in Seq(Messages \cup {Cut}) /\ b \in Seq(Messages \cup {Cut})
      /\ Len(a) = Len(b) /\ Len(a) = IF j <= k THEN k - j ELSE 0
      /\ \A i \in 1..k - j : a[i] = f[j + i]
      /\ \A i \in 1..k - j : b[i] = g[j + i]
  BY SubFile
<1>2. \A i \in 1..k - j : j + i \in 1..k
  OBVIOUS
<1> HIDE DEF a, b
<1>3. \A i \in 1..Len(a) : a[i] = b[i]
  <2>1. CASE j <= k
    <3>1. Len(a) = k - j
      BY <1>1, <2>1
    <3>2. \A i \in 1..k - j : a[i] = b[i]
      BY <1>1, <1>2
    <3>3. QED
      BY <3>1, <3>2, Zenon
  <2>2. CASE ~(j <= k)
    <3>1. Len(a) = 0 /\ 1..0 = {}
      BY <1>1, <2>2
    <3>2. QED
      BY <3>1
  <2>3. QED
    BY <2>1, <2>2
<1>4. a = b
  BY <1>1, <1>3, SeqEqual
<1>5. QED
  BY <1>4 DEF a, b

LEMMA MailForm == IInv => MailIs
<1> SUFFICES ASSUME IInv
             PROVE  MailIs
  OBVIOUS
<1> USE MailAssumption DEF IInv
<1>1. Safe \in Nat /\ Safe <= Len(mbox)
  <2>1. CASE \E m \in Messages : dpc[m] = "fsync"
    <3>1. PICK m \in Messages : dpc[m] = "fsync"
      BY <2>1
    <3>2. Len(mbox) = curoff[m] + 1 /\ curoff[m] \in Nat
      BY <3>1 DEF Typed, Truncating
    <3>3. QED
      BY <2>1, <3>2 DEF Safe
  <2>2. CASE ~ \E m \in Messages : dpc[m] = "fsync"
    BY <2>2 DEF Safe, Typed
  <2>3. QED
    BY <2>1, <2>2
<1>2. mlock \in Sessions => Safe = Len(mbox)
  BY LockedOut DEF Safe
<1>3. ASSUME Idle
      PROVE  Mail = temp \o SubSeq(mbox, 1, Safe)
  <2>1. Moving = {} /\ Writing = {}
    BY <1>3 DEF Idle, Moving, Writing
  <2>2. QED
    BY <2>1 DEF Mail, Old, From
<1>4. ASSUME NEW s \in Sessions, spc[s] \in {"copy", "append"}
      PROVE  Mail = SubSeq(temp, 1, offset[s]) \o mbox
  <2>1. tlock = s /\ mlock = s
    BY <1>4 DEF Exclusive
  <2>2. \A t \in Sessions : t # s => spc[t] \in {"auth", "end"}
    BY <2>1, Alone
  <2>3. Moving = {s} /\ Writing = {}
    BY <1>4, <2>2 DEF Moving, Writing
  <2>4. (CHOOSE t \in Moving : TRUE) = s
    BY <2>3
  <2>5. Mail = SubSeq(temp, 1, offset[s]) \o SubSeq(mbox, 1, Len(mbox))
    <3>1. Old = SubSeq(temp, 1, offset[s])
      BY <2>3, <2>4 DEF Old
    <3>2. From + 1 = 1 /\ Safe = Len(mbox)
      BY <1>2, <2>1, <2>3 DEF From
    <3>3. QED
      BY <3>1, <3>2 DEF Mail
  <2>6. SubSeq(mbox, 1, Len(mbox)) = mbox
    BY SubSeqFull DEF Typed
  <2>7. QED
    BY <2>5, <2>6
<1>5. ASSUME NEW s \in Sessions, spc[s] \in {"return", "close"}
      PROVE  Mail = temp \o SubSeq(mbox, pos[s] + 1, Safe)
  <2>1. tlock = s
    BY <1>5 DEF Exclusive
  <2>2. \A t \in Sessions : t # s => spc[t] \in {"auth", "end"}
    BY <2>1, Alone
  <2>3. Moving = {} /\ Writing = {s}
    BY <1>5, <2>2 DEF Moving, Writing
  <2>4. (CHOOSE t \in Writing : TRUE) = s
    BY <2>3
  <2>5. QED
    BY <2>3, <2>4 DEF Mail, Old, From
<1>6. ASSUME NEW s \in Sessions, spc[s] = "return"
      PROVE  Mail = temp
  <2>1. Safe = Len(mbox) /\ pos[s] = Len(mbox)
    BY <1>2, <1>6 DEF Exclusive, At, Returning
  <2>2. Len(mbox) \in Nat /\ temp \in Seq(Messages \cup {Cut})
    BY DEF Typed
  <2>3. SubSeq(mbox, pos[s] + 1, Safe) = <<>>
    BY <2>1, <2>2, SubSeqEmpty
  <2>4. temp \o <<>> = temp
    BY <2>2, ConcatEmptySeq
  <2>5. QED
    BY <1>5, <1>6, <2>3, <2>4
<1>7. ASSUME NEW s \in Sessions, spc[s] = "close"
      PROVE  pos[s] <= Safe
  <2>1. CASE \E m \in Messages : dpc[m] = "fsync"
    <3>1. PICK m \in Messages : dpc[m] = "fsync"
      BY <2>1
    <3>2. Len(mbox) = curoff[m] + 1 /\ curoff[m] \in Nat /\ pos[s] <= curoff[m]
      BY <3>1, <1>7 DEF Typed, Truncating, At, Returning
    <3>3. QED
      BY <2>1, <3>2 DEF Safe
  <2>2. CASE ~ \E m \in Messages : dpc[m] = "fsync"
    BY <1>7, <2>2 DEF Safe, At, Returning
  <2>3. QED
    BY <2>1, <2>2
<1>8. Mail \in Seq(Messages \cup {Cut})
  <2> DEFINE X == Messages \cup {Cut}
  <2>1. temp \in Seq(X) /\ mbox \in Seq(X)
    BY DEF Typed
  <2>2. ASSUME NEW s \in Sessions, spc[s] \in {"copy", "append"}
        PROVE  SubSeq(temp, 1, offset[s]) \in Seq(X)
    <3>1. offset[s] \in Nat /\ offset[s] <= Len(temp)
      BY <2>2 DEF Typed, At, Copying
    <3>2. QED
      BY <2>1, <3>1, Part
  <2>3. SubSeq(mbox, 1, Safe) \in Seq(X)
    BY <1>1, <2>1, Part
  <2>4. ASSUME NEW s \in Sessions
        PROVE  SubSeq(mbox, pos[s] + 1, Safe) \in Seq(X)
    <3>1. pos[s] \in Nat
      BY DEF Typed
    <3>2. QED
      BY <1>1, <2>1, <3>1, SubFile
  <2> HIDE DEF X
  <2>9. \A f, g \in Seq(X) : f \o g \in Seq(X)
    BY ConcatProperties
  <2>5. ASSUME Idle
        PROVE  Mail \in Seq(X)
    BY <1>3, <2>1, <2>3, <2>5, <2>9, Zenon
  <2>6. ASSUME NEW s \in Sessions, spc[s] \in {"copy", "append"}
        PROVE  Mail \in Seq(X)
    BY <1>4, <2>1, <2>2, <2>6, <2>9, Zenon
  <2>7. ASSUME NEW s \in Sessions, spc[s] \in {"return", "close"}
        PROVE  Mail \in Seq(X)
    BY <1>5, <2>1, <2>4, <2>7, <2>9, Zenon
  <2>8. QED
    BY <2>5, <2>6, <2>7 DEF Idle, X
<1>9. QED
  BY <1>1, <1>3, <1>4, <1>5, <1>6, <1>7, <1>8 DEF MailIs

\* One session at most has flagged messages.
FlaggedIs ==
    /\ \A s \in Sessions : Asked(s) => Flagged = del[s]
    /\ (\A s \in Sessions : ~Asked(s)) => Flagged = {}

LEMMA FlaggedForm == IInv => FlaggedIs
<1> SUFFICES ASSUME IInv
             PROVE  FlaggedIs
  OBVIOUS
<1>1. ASSUME NEW s \in Sessions, Asked(s)
      PROVE  Flagged = del[s]
  <2>1. tlock = s
    BY <1>1 DEF IInv, Exclusive, Asked
  <2>2. \A t \in Sessions : t # s => ~Asked(t)
    BY <2>1, Alone DEF Asked
  <2>3. {t \in Sessions : spc[t] \in {"trans", "reflock", "append", "return", "close"}} = {s}
    BY <1>1, <2>2 DEF Asked
  <2>4. QED
    BY <2>3 DEF Flagged
<1>2. (\A s \in Sessions : ~Asked(s)) => Flagged = {}
  BY DEF Flagged, Asked
<1>3. QED
  BY <1>1, <1>2 DEF FlaggedIs

LEMMA FromForm == IInv => From \in Nat /\ From <= Safe
<1> SUFFICES ASSUME IInv
             PROVE  From \in Nat /\ From <= Safe
  OBVIOUS
<1>1. MailIs
  BY MailForm
<1>2. CASE Writing = {}
  BY <1>1, <1>2 DEF From, MailIs
<1>3. CASE Writing # {}
  <2>1. PICK s \in Writing : From = pos[s]
    BY <1>3 DEF From
  <2>2. s \in Sessions /\ spc[s] \in {"return", "close"} /\ pos[s] \in Nat
    BY <2>1 DEF Writing, IInv, Typed
  <2>3. CASE spc[s] = "close"
    BY <1>1, <2>1, <2>2, <2>3 DEF MailIs
  <2>4. CASE spc[s] = "return"
    <3>1. mlock = s /\ pos[s] = Len(mbox)
      BY <2>2, <2>4 DEF IInv, Exclusive, At, Returning
    <3>2. mlock \notin Messages
      BY <2>2, <3>1, MailAssumption
    <3>3. Safe = Len(mbox)
      BY <3>2, LockedOut DEF Safe
    <3>4. QED
      BY <2>1, <2>2, <3>1, <3>3
  <2>5. QED
    BY <2>2, <2>3, <2>4
<1>4. QED
  BY <1>2, <1>3

\* A delivery is one step of MailDrop: when the message is safe.
LEMMA RefineDeliver ==
    ASSUME IInv, ~ShortWrites, NEW m \in Messages, Deliver(m)
    PROVE  MD!Next \/ UNCHANGED MD!vars
<1> DEFINE X == Messages \cup {Cut}
           Succeeds(l) == l \in {"ok", "changed"}
<1> USE MailAssumption
<1>1. UNCHANGED <<temp, linked, spc, offset, pos, list, del, crashes>>
  BY DEF Deliver, Proceed, Lstat, Create, OpenMailbox, DeliverFails, LockMailbox,
         WriteMessage, WriteFails, CloseMailbox, FsyncFails, CloseFails, svars
<1>2. Old' = Old /\ From' = From /\ Flagged' = Flagged
  BY <1>1 DEF Old, From, Flagged, Moving, Writing
<1>3. /\ From \in Nat /\ Safe \in Nat /\ From <= Safe /\ Safe <= Len(mbox)
      /\ mbox \in Seq(X) /\ Mail \in Seq(X)
  BY FromForm, MailForm DEF MailIs, IInv, Typed
<1>4. ASSUME SubSeq(mbox', From + 1, Safe') = SubSeq(mbox, From + 1, Safe),
             Reported' = Reported
      PROVE  UNCHANGED MD!vars
  BY <1>1, <1>2, <1>4 DEF Mail, MD!vars
<1>5. CASE \/ Lstat(m) \/ Create(m) \/ DeliverFails(m) \/ LockMailbox(m)
           \/ (OpenMailbox(m) /\ ~linked)
  <2>1. /\ UNCHANGED mbox
        /\ \A k \in Messages : /\ dpc'[k] = "fsync" <=> dpc[k] = "fsync"
                               /\ Succeeds(dpc'[k]) <=> Succeeds(dpc[k])
    BY <1>5 DEF Lstat, Create, OpenMailbox, DeliverFails, LockMailbox, Goto, IInv,
       Typed
  <2>2. Safe' = Safe /\ Reported' = Reported
    BY <2>1 DEF Safe, Reported
  <2>3. QED
    BY <1>2, <1>4, <2>1, <2>2
<1>6. ASSUME dpc[m] = "write"
      PROVE  Safe = Len(mbox) /\ curoff[m] = Len(mbox)
  BY <1>6 DEF IInv, Exclusive, Safe, Truncating
<1>7. ASSUME dpc[m] = "fsync"
      PROVE  /\ Safe = Len(mbox) - 1 /\ curoff[m] = Safe
             /\ \A k \in Messages : dpc[k] = "fsync" => k = m
             /\ mbox[Len(mbox)] = m
  BY <1>7 DEF IInv, Typed, Exclusive, Safe, Truncating
<1>8. CASE WriteMessage(m)
  <2>1. PICK x \in X : mbox' = Append(mbox, x)
    BY <1>8 DEF WriteMessage
  <2>2. mbox' \in Seq(X) /\ Len(mbox') = Len(mbox) + 1
        /\ \A i \in 1..Len(mbox) : mbox'[i] = mbox[i]
    BY <1>3, <2>1, AppendProperties
  <2>3. Safe = Len(mbox) /\ dpc[m] = "write"
    BY <1>6, <1>8 DEF WriteMessage
  <2>4. /\ dpc'[m] = "fsync"
        /\ \A k \in Messages : Succeeds(dpc'[k]) <=> Succeeds(dpc[k])
    BY <1>8 DEF WriteMessage, Goto, IInv, Typed
  <2>5. Safe' = Safe /\ Reported' = Reported
    BY <2>2, <2>3, <2>4, <1>3 DEF Safe, Reported
  <2> HIDE DEF X
  <2>6. SubSeq(mbox', From + 1, Safe) = SubSeq(mbox, From + 1, Safe)
    BY <1>3, <2>2, <2>3, SubFileEqual DEF X
  <2>7. QED
    BY <1>4, <2>5, <2>6
<1>9. CASE WriteFails(m) \/ FsyncFails(m)
  <2>1. dpc[m] \in {"write", "fsync"} /\ mbox' = SubSeq(mbox, 1, Safe)
    BY <1>6, <1>7, <1>9 DEF WriteFails, FsyncFails, CutOff
  <2>2. mbox' \in Seq(X) /\ Len(mbox') = Safe
        /\ \A i \in 1..Safe : mbox'[i] = mbox[i]
    BY <1>3, <2>1, Part
  <2>3. /\ \A k \in Messages : dpc'[k] # "fsync"
        /\ \A k \in Messages : Succeeds(dpc'[k]) <=> Succeeds(dpc[k])
    BY <1>7, <1>9 DEF WriteFails, FsyncFails, Goto, IInv, Typed, Exclusive
  <2>4. Safe' = Safe /\ Reported' = Reported
    BY <2>2, <2>3 DEF Safe, Reported
  <2> HIDE DEF X
  <2>5. SubSeq(mbox', From + 1, Safe) = SubSeq(mbox, From + 1, Safe)
    BY <1>3, <2>2, SubFileEqual DEF X
  <2>6. QED
    BY <1>4, <2>4, <2>5
<1>10. CASE CloseMailbox(m) \/ CloseFails(m)
  <2>1. dpc[m] = "fsync" /\ UNCHANGED mbox
    BY <1>10 DEF CloseMailbox, CloseFails
  <2>2. Safe' = Len(mbox) /\ Reported' \in {Reported, Reported \cup {m}}
    <3>1. /\ \A k \in Messages : dpc'[k] # "fsync"
          /\ \A k \in Messages : k # m => dpc'[k] = dpc[k]
          /\ dpc'[m] \in {"ok", "failed"}
      BY <1>7, <1>10, <2>1 DEF CloseMailbox, CloseFails, Goto, IInv, Typed, Exclusive
    <3>2. QED
      BY <2>1, <3>1 DEF Safe, Reported
  <2>3. SubSeq(mbox, From + 1, Len(mbox)) = Append(SubSeq(mbox, From + 1, Safe), m)
    <3> DEFINE a == From + 1
               b == Len(mbox)
    <3>1. a \in 1..Len(mbox) /\ b \in a..Len(mbox) /\ Safe = b - 1 /\ mbox[b] = m
      BY <1>3, <1>7, <2>1
    <3>2. SubSeq(mbox, a, b) = SubSeq(mbox, a, b - 1) \o <<mbox[b]>>
      BY <1>3, <3>1, SubSeqRecursiveSecond
    <3>3. SubSeq(mbox, From + 1, Safe) \in Seq(X) /\ m \in X
      BY <1>3, SubFile
    <3>4. Append(SubSeq(mbox, From + 1, Safe), m) = SubSeq(mbox, From + 1, Safe) \o <<m>>
      BY <3>3, AppendIsConcat
    <3>5. QED
      BY <3>1, <3>2, <3>4
  <2>4. Mail' = Append(Mail, m)
    <3>1. Mail' = Old \o Append(SubSeq(mbox, From + 1, Safe), m)
      BY <1>2, <2>1, <2>2, <2>3 DEF Mail
    <3>2. Old \in Seq(X)
      BY <1>3 DEF Mail, Old, Moving, IInv, Typed, At, Copying
    <3>3. SubSeq(mbox, From + 1, Safe) \in Seq(X)
      BY <1>3, SubFile
    <3>4. \A f, g \in Seq(X) : f \o Append(g, m) = Append(f \o g, m)
      BY AppendConcat
    <3>5. QED
      BY <3>1, <3>2, <3>3, <3>4 DEF Mail
  <2>5. MD!Deliver(m)
    BY <1>1, <1>2, <2>2, <2>4 DEF MD!Deliver
  <2>6. QED
    BY <2>5 DEF MD!Next
<1>11. CASE OpenMailbox(m) /\ linked
  <2>1. /\ UNCHANGED mbox /\ dpc'[m] = "changed" /\ dpc[m] = "open"
        /\ \A k \in Messages : k # m => dpc'[k] = dpc[k]
    BY <1>11 DEF OpenMailbox, Goto, IInv, Typed
  <2>2. Safe' = Safe /\ Reported' = Reported \cup {m}
    BY <2>1 DEF Safe, Reported
  <2>3. Mail' = Mail
    BY <1>2, <2>1, <2>2 DEF Mail
  <2>4. MD!Mislay(m)
    BY <1>1, <1>2, <1>11, <2>2, <2>3 DEF MD!Mislay
  <2>5. QED
    BY <2>4 DEF MD!Next
<1>12. CASE OpenMailbox(m)
  <2>1. CASE linked
    BY <1>11, <1>12, <2>1
  <2>2. CASE ~linked
    BY <1>5, <1>12, <2>2
  <2>3. QED
    BY <2>1, <2>2
<1>13. QED
  BY <1>5, <1>8, <1>9, <1>10, <1>12 DEF Deliver, Proceed

\* While mail is moved: the old part of the temporary maildrop, and the copy.
LEMMA MovingForm ==
    ASSUME IInv, NEW s \in Sessions, spc[s] \in {"copy", "append"}
    PROVE  /\ offset[s] \in Nat /\ pos[s] \in Nat /\ offset[s] <= Len(temp)
           /\ pos[s] <= Len(mbox)
           /\ temp = SubSeq(temp, 1, offset[s]) \o SubSeq(mbox, 1, pos[s])
           /\ SubSeq(temp, 1, offset[s]) \in Seq(Messages \cup {Cut})
<1> DEFINE A == SubSeq(temp, 1, offset[s])
           B == SubSeq(mbox, 1, pos[s])
<1>1. /\ temp \in Seq(Messages \cup {Cut}) /\ mbox \in Seq(Messages \cup {Cut})
      /\ offset[s] \in Nat /\ pos[s] \in Nat /\ offset[s] <= Len(temp)
      /\ pos[s] <= Len(mbox) /\ Len(temp) = offset[s] + pos[s]
      /\ \A i \in 1..pos[s] : temp[offset[s] + i] = mbox[i]
  BY DEF IInv, Typed, At, Copying
<1>2. /\ A \in Seq(Messages \cup {Cut}) /\ Len(A) = offset[s]
      /\ \A i \in 1..offset[s] : A[i] = temp[i]
  BY <1>1, Part
<1>3. /\ B \in Seq(Messages \cup {Cut}) /\ Len(B) = pos[s]
      /\ \A i \in 1..pos[s] : B[i] = mbox[i]
  BY <1>1, Part
<1> HIDE DEF A, B
<1>4. /\ A \o B \in Seq(Messages \cup {Cut}) /\ Len(A \o B) = Len(temp)
      /\ \A i \in 1..Len(temp) : (A \o B)[i] = IF i <= Len(A) THEN A[i]
                                               ELSE B[i - Len(A)]
  <2>1. /\ A \o B \in Seq(Messages \cup {Cut})
        /\ Len(A \o B) = Len(A) + Len(B)
        /\ \A i \in 1..(Len(A) + Len(B)) :
              (A \o B)[i] = IF i <= Len(A) THEN A[i] ELSE B[i - Len(A)]
    BY <1>2, <1>3, ConcatProperties
  <2>2. Len(A) + Len(B) = Len(temp)
    BY <1>1, <1>2, <1>3
  <2>3. QED
    BY <2>1, <2>2
<1>5. ASSUME NEW i \in 1..Len(temp)
      PROVE  temp[i] = (A \o B)[i]
  <2>1. CASE i <= offset[s]
    <3>1. i \in 1..offset[s] /\ i <= Len(A)
      BY <1>1, <1>2, <2>1
    <3>2. (A \o B)[i] = A[i]
      BY <1>4, <3>1
    <3>3. A[i] = temp[i]
      BY <1>2, <3>1
    <3>4. QED
      BY <3>2, <3>3
  <2>2. CASE i > offset[s]
    <3>1. i - offset[s] \in 1..pos[s] /\ i = offset[s] + (i - offset[s])
      BY <1>1, <2>2
    <3>2. temp[i] = mbox[i - offset[s]] /\ B[i - offset[s]] = mbox[i - offset[s]]
      BY <1>1, <1>3, <3>1
    <3>3. QED
      BY <1>1, <1>2, <1>4, <2>2, <3>2
  <2>3. i <= offset[s] \/ i > offset[s]
    BY <1>1
  <2>4. QED
    BY <2>1, <2>2, <2>3, Zenon
<1>6. temp = A \o B
  BY <1>1, <1>4, <1>5, SeqEqual
<1>7. QED
  BY <1>1, <1>2, <1>6 DEF A, B

\* What changes when a session has, or gets, the temporary maildrop.
LEMMA Actor ==
    ASSUME IInv, IInv', NEW s \in Sessions, Session(s), tlock \in {s, NoOne}
    PROVE  /\ MailIs /\ MailIs' /\ Reported' = Reported
           /\ spc[s] \notin {"copy", "append", "return", "close"} => Idle
           /\ spc'[s] \notin {"copy", "append", "return", "close"} => Idle'
           /\ Flagged = IF Asked(s) THEN del[s] ELSE {}
           /\ Flagged' = IF Asked(s)' THEN del'[s] ELSE {}
           /\ mbox' = mbox => Safe' = Safe
           /\ mlock \notin Messages => Safe = Len(mbox) /\ Safe' = Len(mbox')
<1> USE MailAssumption
<1>1. UNCHANGED dpc
  <2>1. CASE LockDrop(s)
    BY <2>1 DEF LockDrop, Locked, Step, Flock
  <2>2. CASE LockDropFails(s)
    BY <2>2 DEF LockDropFails, Locked, Step
  <2>3. CASE CopyMessage(s)
    BY <2>3 DEF CopyMessage, Fetch
  <2>4. CASE CopyDone(s)
    BY <2>4 DEF CopyDone, Locked, Step, Unlocked
  <2>5. CASE CopyFails(s)
    BY <2>5 DEF CopyFails, Locked, Step, Restore, Unlocked
  <2>6. CASE DropInfo(s)
    BY <2>6 DEF DropInfo, Locked, Step
  <2>7. CASE DropInfoFails(s)
    BY <2>7 DEF DropInfoFails, Locked, Step
  <2>8. CASE LockUpdate(s)
    BY <2>8 DEF LockUpdate, Locked, Step, Flock
  <2>9. CASE AppendNew(s)
    BY <2>9 DEF AppendNew, Fetch, Added
  <2>10. CASE AppendDone(s)
    BY <2>10 DEF AppendDone, Locked, Step
  <2>11. CASE AppendFails(s)
    BY <2>11 DEF AppendFails, Restore, Gone, Step
  <2>12. CASE ReturnMessage(s)
    BY <2>12 DEF ReturnMessage
  <2>13. CASE ReturnDone(s)
    BY <2>13 DEF ReturnDone, Locked, Step
  <2>14. CASE CloseDrop(s)
    BY <2>14 DEF CloseDrop, Gone, Step
  <2>15. CASE ReturnFails(s)
    BY <2>15 DEF ReturnFails, Gone, Step
  <2>16. CASE Login(s)
    BY <2>16 DEF Login, Flock, Locked, Step
  <2>17. CASE Rset(s)
    BY <2>17 DEF Rset, Command
  <2>18. CASE QuitAll(s)
    BY <2>18 DEF QuitAll, Command, Step
  <2>19. CASE Quit(s)
    BY <2>19 DEF Quit, Step
  <2>20. CASE Leave(s)
    BY <2>20 DEF Leave, Gone, Step
  <2>21. CASE Kill(s)
    BY <2>21 DEF Kill, Gone, Step
  <2>22. QED
    BY <2>1, <2>2, <2>3, <2>4, <2>5, <2>6, <2>7, <2>8, <2>9, <2>10, <2>11, <2>12, <2>13, <2>14, <2>15, <2>16, <2>17, <2>18, <2>19, <2>20, <2>21 DEF Session, Work, Client, Dele, Command
<1>2. ASSUME NEW t \in Sessions, t # s
      PROVE  spc'[t] = spc[t]
  <2>1. CASE LockDrop(s)
    BY <1>2, <2>1 DEF LockDrop, Locked, Step, Flock, IInv, Typed
  <2>2. CASE LockDropFails(s)
    BY <1>2, <2>2 DEF LockDropFails, Locked, Step, IInv, Typed
  <2>3. CASE CopyMessage(s)
    BY <1>2, <2>3 DEF CopyMessage, Fetch, IInv, Typed
  <2>4. CASE CopyDone(s)
    BY <1>2, <2>4 DEF CopyDone, Locked, Step, Unlocked, IInv, Typed
  <2>5. CASE CopyFails(s)
    BY <1>2, <2>5 DEF CopyFails, Locked, Step, Restore, Unlocked, IInv, Typed
  <2>6. CASE DropInfo(s)
    BY <1>2, <2>6 DEF DropInfo, Locked, Step, IInv, Typed
  <2>7. CASE DropInfoFails(s)
    BY <1>2, <2>7 DEF DropInfoFails, Locked, Step, IInv, Typed
  <2>8. CASE LockUpdate(s)
    BY <1>2, <2>8 DEF LockUpdate, Locked, Step, Flock, IInv, Typed
  <2>9. CASE AppendNew(s)
    BY <1>2, <2>9 DEF AppendNew, Fetch, Added, IInv, Typed
  <2>10. CASE AppendDone(s)
    BY <1>2, <2>10 DEF AppendDone, Locked, Step, IInv, Typed
  <2>11. CASE AppendFails(s)
    BY <1>2, <2>11 DEF AppendFails, Restore, Gone, Step, IInv, Typed
  <2>12. CASE ReturnMessage(s)
    BY <1>2, <2>12 DEF ReturnMessage, IInv, Typed
  <2>13. CASE ReturnDone(s)
    BY <1>2, <2>13 DEF ReturnDone, Locked, Step, IInv, Typed
  <2>14. CASE CloseDrop(s)
    BY <1>2, <2>14 DEF CloseDrop, Gone, Step, IInv, Typed
  <2>15. CASE ReturnFails(s)
    BY <1>2, <2>15 DEF ReturnFails, Gone, Step, IInv, Typed
  <2>16. CASE Login(s)
    BY <1>2, <2>16 DEF Login, Flock, Locked, Step, IInv, Typed
  <2>17. CASE Rset(s)
    BY <1>2, <2>17 DEF Rset, Command, IInv, Typed
  <2>18. CASE QuitAll(s)
    BY <1>2, <2>18 DEF QuitAll, Command, Step, IInv, Typed
  <2>19. CASE Quit(s)
    BY <1>2, <2>19 DEF Quit, Step, IInv, Typed
  <2>20. CASE Leave(s)
    BY <1>2, <2>20 DEF Leave, Gone, Step, IInv, Typed
  <2>21. CASE Kill(s)
    BY <1>2, <2>21 DEF Kill, Gone, Step, IInv, Typed
  <2>22. QED
    BY <1>2, <2>1, <2>2, <2>3, <2>4, <2>5, <2>6, <2>7, <2>8, <2>9, <2>10, <2>11, <2>12, <2>13, <2>14, <2>15, <2>16, <2>17, <2>18, <2>19, <2>20, <2>21 DEF Session, Work, Client, Dele
<1>3. \A t \in Sessions : t # s => /\ spc[t] \in {"auth", "end"}
                                   /\ spc'[t] \in {"auth", "end"}
  BY <1>2, Alone
<1>4. MailIs'
  <2>1. (IInv => MailIs)'
    BY MailForm, PTL
  <2>2. QED
    BY <2>1
<1>5. FlaggedIs'
  <2>1. (IInv => FlaggedIs)'
    BY FlaggedForm, PTL
  <2>2. QED
    BY <2>1
<1>7. /\ spc[s] \notin {"copy", "append", "return", "close"} => Idle
      /\ spc'[s] \notin {"copy", "append", "return", "close"} => Idle'
  BY <1>3 DEF Idle
<1>8. Flagged = IF Asked(s) THEN del[s] ELSE {}
  BY <1>3, FlaggedForm DEF FlaggedIs, Asked
<1>9. Flagged' = IF Asked(s)' THEN del'[s] ELSE {}
  BY <1>3, <1>5 DEF FlaggedIs, Asked
<1>10. /\ mbox' = mbox => Safe' = Safe
       /\ mlock \notin Messages => Safe = Len(mbox) /\ Safe' = Len(mbox')
  BY <1>1, LockedOut DEF Safe
<1>11. MailIs /\ Reported' = Reported
  BY <1>1, MailForm DEF Reported
<1>12. QED
  BY <1>4, <1>7, <1>8, <1>9, <1>10, <1>11

-----------------------------------------------------------------------------
(* The steps of a session.                                                 *)

LEMMA Unseen ==
    ASSUME Mail' = Mail, Flagged' = Flagged, Reported' = Reported,
           UNCHANGED <<linked, crashes>>
    PROVE  UNCHANGED MD!vars
  BY DEF MD!vars

LEMMA Marked ==
    ASSUME Mail' = Mail, Flagged' \subseteq 1..Len(Mail), Reported' = Reported,
           UNCHANGED <<linked, crashes>>
    PROVE  MD!Next
  BY DEF MD!Next, MD!Flag

\* What is added behind the end of a part does not change the part.
LEMMA PartOfAppend ==
    ASSUME NEW f \in Seq(Messages \cup {Cut}), NEW x \in Messages \cup {Cut},
           NEW k \in Nat, k <= Len(f)
    PROVE  SubSeq(Append(f, x), 1, k) = SubSeq(f, 1, k)
<1> DEFINE g == Append(f, x)
<1>1. /\ g \in Seq(Messages \cup {Cut}) /\ Len(g) = Len(f) + 1
      /\ \A i \in 1..k : g[i] = f[i]
  BY AppendProperties
<1> HIDE DEF g
<1>2. SubSeq(g, 0 + 1, k) = SubSeq(f, 0 + 1, k)
  BY <1>1, SubFileEqual
<1>3. QED
  BY <1>2 DEF g

\* Nothing moves: a session logs in, is told what there is, or goes.
LEMMA RefineQuiet ==
    ASSUME IInv, IInv', NEW s \in Sessions, Session(s), tlock \in {s, NoOne},
           spc[s] \notin {"copy", "append", "return", "close"},
           spc'[s] \notin {"copy", "append", "return", "close"},
           UNCHANGED <<mbox, temp>>
    PROVE  Mail' = Mail
<1>1. /\ MailIs /\ MailIs' /\ Idle /\ Idle' /\ Safe' = Safe
  BY Actor
<1>2. Mail = temp \o SubSeq(mbox, 1, Safe)
  BY <1>1 DEF MailIs
<1>3. Mail' = temp' \o SubSeq(mbox', 1, Safe')
  BY <1>1 DEF MailIs
<1>4. QED
  BY <1>1, <1>2, <1>3

\* A session gets the lock of the mailbox.
LEMMA RefineLock ==
    ASSUME IInv, IInv', NEW s \in Sessions, LockDrop(s) \/ LockUpdate(s)
    PROVE  UNCHANGED MD!vars
<1> USE MailAssumption
<1>1. Session(s)
  BY DEF Session, Work
<1>2. /\ spc[s] \in {"flock", "reflock"} /\ mlock = NoOne
      /\ UNCHANGED <<mbox, temp, del, linked, crashes>>
      /\ spc'[s] = IF spc[s] = "flock" THEN "copy" ELSE "append"
  BY DEF LockDrop, LockUpdate, Flock, Locked, Step, IInv, Typed
<1>3. offset'[s] = Len(temp)
  BY DEF LockDrop, LockUpdate, Locked, Step, IInv, Typed, At, Copying
<1>4. tlock = s
  BY <1>2 DEF IInv, Exclusive
<1>5. /\ MailIs /\ MailIs' /\ Idle /\ Safe = Len(mbox) /\ Reported' = Reported
      /\ Flagged = IF Asked(s) THEN del[s] ELSE {}
      /\ Flagged' = IF Asked(s)' THEN del'[s] ELSE {}
  BY <1>1, <1>2, <1>4, Actor
<1>6. Flagged' = Flagged
  BY <1>2, <1>5 DEF Asked
<1>7. Mail = temp \o SubSeq(mbox, 1, Len(mbox))
  BY <1>5 DEF MailIs
<1>8. Mail' = SubSeq(temp, 1, Len(temp)) \o mbox
  BY <1>2, <1>3, <1>5 DEF MailIs
<1>9. SubSeq(mbox, 1, Len(mbox)) = mbox /\ SubSeq(temp, 1, Len(temp)) = temp
  BY SubSeqFull DEF IInv, Typed
<1>10. QED
  BY <1>2, <1>5, <1>6, <1>7, <1>8, <1>9, Unseen

\* A message is copied, or all of them are there, or the copy is given up.
LEMMA RefineMove ==
    ASSUME IInv, IInv', NEW s \in Sessions,
           \/ CopyMessage(s) \/ CopyDone(s) \/ CopyFails(s)
           \/ AppendNew(s) \/ AppendDone(s) \/ AppendFails(s)
    PROVE  Mail' = Mail
<1> USE MailAssumption
<1> DEFINE X == Messages \cup {Cut}
           A == SubSeq(temp, 1, offset[s])
<1>1. Session(s) /\ spc[s] \in {"copy", "append"}
  BY DEF Session, Work, CopyMessage, CopyDone, CopyFails, AppendNew, AppendDone,
         AppendFails
<1>2. tlock = s /\ mlock = s
  BY <1>1 DEF IInv, Exclusive
<1>3. /\ MailIs /\ MailIs' /\ Safe' = Len(mbox')
      /\ spc'[s] \notin {"copy", "append", "return", "close"} => Idle'
  BY <1>1, <1>2, Actor
<1>4. Mail = A \o mbox
  BY <1>1, <1>3 DEF MailIs
<1>5. /\ offset[s] \in Nat /\ pos[s] \in Nat /\ offset[s] <= Len(temp)
      /\ temp = A \o SubSeq(mbox, 1, pos[s]) /\ A \in Seq(X)
      /\ temp \in Seq(X) /\ mbox \in Seq(X)
  BY <1>1, MovingForm DEF IInv, Typed
<1>6. CASE CopyMessage(s) \/ AppendNew(s)
  <2>1. /\ temp' = Append(temp, mbox[pos[s] + 1]) /\ pos[s] < Len(mbox)
        /\ UNCHANGED <<mbox, spc, offset>>
    BY <1>6 DEF CopyMessage, AppendNew, Fetch, Added
  <2>2. mbox[pos[s] + 1] \in X
    BY <1>5, <2>1
  <2>3. SubSeq(temp', 1, offset[s]) = A
    BY <1>5, <2>1, <2>2, PartOfAppend
  <2>4. Mail' = SubSeq(temp', 1, offset'[s]) \o mbox'
    BY <1>1, <1>3, <2>1 DEF MailIs
  <2>5. QED
    BY <1>4, <2>1, <2>3, <2>4
<1>7. CASE CopyDone(s) \/ AppendDone(s)
  <2>1. /\ mbox' = <<>> /\ pos[s] = Len(mbox) /\ UNCHANGED temp
        /\ spc'[s] \in {"info", "return"}
    BY <1>7 DEF CopyDone, AppendDone, Locked, Step, IInv, Typed
  <2>2. temp = A \o mbox
    <3>1. SubSeq(mbox, 1, Len(mbox)) = mbox
      BY <1>5, SubSeqFull
    <3>2. QED
      BY <1>5, <2>1, <3>1
  <2>3. CASE spc'[s] = "return"
    <3>1. Mail' = temp'
      BY <1>3, <2>3 DEF MailIs
    <3>2. QED
      BY <1>4, <2>1, <2>2, <3>1
  <2>4. CASE spc'[s] = "info"
    <3>1. Mail' = temp \o SubSeq(<<>>, 1, 0)
      <4>1. Idle' /\ Safe' = 0
        BY <1>3, <2>1, <2>4
      <4>2. Mail' = temp' \o SubSeq(mbox', 1, Safe')
        BY <1>3, <4>1 DEF MailIs
      <4>3. QED
        BY <2>1, <4>1, <4>2
    <3>2. SubSeq(<<>>, 1, 0) = <<>>
      BY SubSeqEmpty
    <3>3. temp \o <<>> = temp
      BY <1>5, ConcatEmptySeq
    <3>4. QED
      BY <1>4, <2>2, <3>1, <3>2, <3>3
  <2>5. QED
    BY <2>1, <2>3, <2>4
<1>8. CASE CopyFails(s) \/ AppendFails(s)
  <2>1. /\ temp' = A /\ UNCHANGED mbox /\ spc'[s] \in {"info", "end"}
    BY <1>8 DEF CopyFails, AppendFails, Restore, Locked, Gone, Step, IInv, Typed
  <2>2. Mail' = A \o SubSeq(mbox, 1, Len(mbox))
    <3>1. Idle' /\ Safe' = Len(mbox)
      BY <1>3, <2>1
    <3>2. Mail' = temp' \o SubSeq(mbox', 1, Safe')
      BY <1>3, <3>1 DEF MailIs
    <3>3. QED
      BY <2>1, <3>1, <3>2
  <2>3. SubSeq(mbox, 1, Len(mbox)) = mbox
    BY <1>5, SubSeqFull
  <2>4. QED
    BY <1>4, <2>2, <2>3
<1>9. QED
  BY <1>6, <1>7, <1>8

\* A message is put back, or the last has been, or that is given up.
LEMMA RefineReturn ==
    ASSUME IInv, IInv', NEW s \in Sessions,
           ReturnMessage(s) \/ ReturnDone(s) \/ ReturnFails(s)
    PROVE  Mail' = Mail
<1> USE MailAssumption
<1>1. Session(s) /\ spc[s] = "return"
  BY DEF Session, Work, ReturnMessage, ReturnDone, ReturnFails
<1>2. tlock = s /\ mlock = s /\ temp \in Seq(Messages \cup {Cut}) /\ pos[s] = Len(mbox)
  BY <1>1 DEF IInv, Typed, Exclusive, At, Returning
<1>3. /\ MailIs /\ MailIs' /\ Safe' = Len(mbox')
      /\ spc'[s] \notin {"copy", "append", "return", "close"} => Idle'
  BY <1>1, <1>2, Actor
<1>4. Mail = temp /\ temp \o <<>> = temp
  BY <1>1, <1>2, <1>3, ConcatEmptySeq DEF MailIs
<1>5. CASE ReturnMessage(s)
  BY <1>1, <1>3, <1>4, <1>5 DEF ReturnMessage, MailIs
<1>6. CASE ReturnDone(s)
  <2>1. UNCHANGED <<mbox, temp, pos>> /\ spc'[s] = "close"
    BY <1>6 DEF ReturnDone, Locked, Step, IInv, Typed
  <2>2. Mail' = temp' \o SubSeq(mbox', pos'[s] + 1, Safe')
    BY <1>3, <2>1 DEF MailIs
  <2>3. Len(mbox) \in Nat /\ SubSeq(mbox, Len(mbox) + 1, Len(mbox)) = <<>>
    BY SubSeqEmpty DEF IInv, Typed
  <2>4. QED
    BY <1>2, <1>3, <1>4, <2>1, <2>2, <2>3
<1>7. CASE ReturnFails(s)
  <2>1. UNCHANGED temp /\ mbox' = <<>> /\ spc'[s] = "end"
    BY <1>7 DEF ReturnFails, Gone, Step, IInv, Typed
  <2>2. Idle' /\ Safe' = 0
    BY <1>3, <2>1
  <2>3. Mail' = temp' \o SubSeq(mbox', 1, Safe')
    BY <1>3, <2>2 DEF MailIs
  <2>4. SubSeq(<<>>, 1, 0) = <<>>
    BY SubSeqEmpty
  <2>5. QED
    BY <1>4, <2>1, <2>2, <2>3, <2>4
<1>8. QED
  BY <1>5, <1>6, <1>7

LEMMA WithoutIs == \A f, D : MD!Without(f, D) = Select(f, 1..Len(f) \ D)
<1>1. \A S : MD!Positions(S) = Positions(S)
  BY DEF MD!Positions, Positions
<1>2. QED
  BY <1>1 DEF MD!Without, MD!Select, Select

\* All that was listed is flagged: the mailbox is all that is left.
LEMMA RefineQuitAll ==
    ASSUME IInv, IInv', NEW s \in Sessions, QuitAll(s)
    PROVE  MD!Next
<1> USE MailAssumption
<1> DEFINE X == Messages \cup {Cut}
           M == SubSeq(mbox, 1, Safe)
<1>1. /\ Session(s) /\ spc[s] = "trans" /\ spc'[s] = "end" /\ temp' = <<>>
      /\ UNCHANGED <<mbox, del, linked, crashes>>
  BY DEF Session, Client, QuitAll, Command, Step, IInv, Typed
<1>2. /\ tlock = s /\ temp \in Seq(X) /\ mbox \in Seq(X) /\ temp = list[s]
      /\ del[s] \subseteq 1..Len(temp) /\ Len(temp) \in Nat
  <2>1. temp \in Seq(X) /\ mbox \in Seq(X)
    BY DEF IInv, Typed
  <2>2. tlock = s /\ temp = list[s]
    BY <1>1 DEF IInv, Exclusive, At, Listed
  <2>3. del[s] \subseteq 1..Len(list[s])
    BY <1>1 DEF IInv, At, Listed
  <2>4. QED
    BY <2>1, <2>2, <2>3
<1>3. /\ MailIs /\ MailIs' /\ Idle /\ Idle' /\ Safe' = Safe /\ Reported' = Reported
      /\ Flagged = IF Asked(s) THEN del[s] ELSE {}
      /\ Flagged' = IF Asked(s)' THEN del'[s] ELSE {}
  BY <1>1, <1>2, Actor
<1>4. del[s] = 1..Len(temp)
  <2>1. Cardinality(del[s]) = Len(temp)
    BY <1>2 DEF QuitAll, AllDeleted
  <2>2. IsFiniteSet(1..Len(temp)) /\ Cardinality(1..Len(temp)) = Len(temp)
    <3>1. 1 \in Int /\ Len(temp) \in Int
      BY <1>2
    <3>2. /\ IsFiniteSet(1..Len(temp))
          /\ Cardinality(1..Len(temp)) = IF 1 > Len(temp) THEN 0 ELSE Len(temp) - 1 + 1
      BY <3>1, FS_Interval
    <3>3. QED
      BY <1>2, <3>2
  <2>3. QED
    BY <1>2, <2>1, <2>2, FS_Subset
<1>5. Flagged = 1..Len(temp) /\ Flagged' = {}
  BY <1>1, <1>3, <1>4 DEF Asked
<1>6. M \in Seq(X)
  BY <1>2, <1>3, Part DEF MailIs
<1>7. Mail = temp \o M /\ Mail' = <<>> \o M
  <2>1. Mail = temp \o M
    BY <1>3 DEF MailIs
  <2>2. Mail' = temp' \o SubSeq(mbox', 1, Safe')
    BY <1>3 DEF MailIs
  <2>3. QED
    BY <1>1, <1>3, <2>1, <2>2
<1> HIDE DEF X, M
<1>8. Select(temp \o M, 1..Len(temp \o M) \ 1..Len(temp)) = Select(temp, {}) \o M
  <2>1. Len(temp \o M) = Len(temp) + Len(M) /\ Len(M) \in Nat
    BY <1>2, <1>6, ConcatProperties, LenProperties
  <2> DEFINE S == 1..Len(temp \o M) \ 1..Len(temp)
             R == {}
  <2>2. /\ \A i \in 1..Len(temp) : i \in S <=> i \in R
        /\ \A i \in 1..Len(M) : Len(temp) + i \in S
    BY <1>2, <2>1
  <2> HIDE DEF S, R
  <2>3. Select(temp \o M, S) = Select(temp, R) \o M
    <3>1. temp \in Seq(X)
      BY <1>2
    <3>2. QED
      BY ONLY <1>6, <2>2, <3>1, SelectRest, SMTT(60)
  <2>4. QED
    BY <2>3 DEF S, R
<1>9. Select(temp, {}) = <<>>
  <2>1. Len(Positions({})[Len(temp)]) = 0
    BY <1>2, PositionsNone
  <2>2. QED
    BY <2>1 DEF Select
<1>10. MD!Update
  <2>1. Mail' = MD!Without(Mail, Flagged)
    BY <1>5, <1>7, <1>8, <1>9, WithoutIs
  <2>2. QED
    BY <1>1, <1>3, <1>5, <2>1 DEF MD!Update
<1>11. QED
  BY <1>10 DEF MD!Next

\* The messages put back take the place of the temporary maildrop.
LEMMA RefineCloseDrop ==
    ASSUME IInv, IInv', NEW s \in Sessions, CloseDrop(s)
    PROVE  MD!Next
<1> USE MailAssumption
<1> DEFINE X == Messages \cup {Cut}
           B == SubSeq(mbox, 1, pos[s])
           M == SubSeq(mbox, pos[s] + 1, Safe)
           R == {i \in 1..Len(temp) : i > offset[s] \/ i \notin del[s]}
<1>1. /\ Session(s) /\ spc[s] = "close" /\ spc'[s] = "end" /\ temp' = <<>>
      /\ UNCHANGED <<mbox, del, linked, crashes>>
  BY DEF Session, Work, CloseDrop, Gone, Step, IInv, Typed
<1>2. /\ tlock = s /\ temp \in Seq(X) /\ mbox \in Seq(X)
      /\ offset[s] \in Nat /\ pos[s] \in Nat
      /\ offset[s] <= Len(temp) /\ del[s] \subseteq 1..offset[s] /\ Len(temp) \in Nat
      /\ pos[s] = Len(Kept(s)) /\ pos[s] <= Len(mbox)
      /\ \A i \in 1..pos[s] : mbox[i] = temp[Kept(s)[i]]
  <2>1. /\ temp \in Seq(X) /\ mbox \in Seq(X)
        /\ offset[s] \in Nat /\ pos[s] \in Nat
    BY DEF IInv, Typed
  <2>2. /\ tlock = s /\ offset[s] <= Len(temp) /\ offset[s] = Len(list[s])
        /\ del[s] \subseteq 1..Len(list[s])
    BY <1>1 DEF IInv, Exclusive, At, Listed
  <2>3. /\ pos[s] = Len(Kept(s)) /\ pos[s] <= Len(mbox)
        /\ \A i \in 1..pos[s] : mbox[i] = temp[Kept(s)[i]]
    BY <1>1 DEF IInv, At, Returning
  <2>4. QED
    BY <2>1, <2>2, <2>3
<1>3. /\ MailIs /\ MailIs' /\ Idle' /\ Safe' = Safe /\ Reported' = Reported
      /\ Flagged = IF Asked(s) THEN del[s] ELSE {}
      /\ Flagged' = IF Asked(s)' THEN del'[s] ELSE {}
  BY <1>1, <1>2, Actor
<1>4. Flagged = del[s] /\ Flagged' = {}
  BY <1>1, <1>3 DEF Asked
<1>5. Safe \in Nat /\ Safe <= Len(mbox) /\ pos[s] <= Safe /\ Mail = temp \o M
  BY <1>1, <1>3 DEF MailIs
<1>6. M \in Seq(X)
  BY <1>2, <1>5, SubFile
<1>7. Mail' = <<>> \o SubSeq(mbox, 1, Safe)
  <2>1. Mail' = temp' \o SubSeq(mbox', 1, Safe')
    BY <1>3 DEF MailIs
  <2>2. QED
    BY <1>1, <1>3, <2>1
<1>8. SubSeq(mbox, 1, Safe) = B \o M
  <2>1. /\ 1 \in 1..Len(mbox) + 1 /\ pos[s] \in (1 - 1)..Len(mbox)
        /\ Safe \in pos[s]..Len(mbox)
    BY <1>2, <1>5
  <2>2. QED
    BY <1>2, <2>1, ConcatAdjacentSubSeq
<1>9. B = Select(temp, R)
  <2>1. Kept(s) = Positions(R)[Len(temp)]
    BY DEF Kept
  <2>2. Select(temp, R) = [k \in 1..Len(Kept(s)) |-> temp[Kept(s)[k]]]
    BY <2>1 DEF Select
  <2>3. B \in Seq(X) /\ Len(B) = pos[s] /\ \A i \in 1..pos[s] : B[i] = mbox[i]
    BY <1>2, Part
  <2>4. B = [k \in 1..pos[s] |-> B[k]]
    <3> HIDE DEF B
    <3> QED BY <2>3, LenProperties
  <2>5. \A k \in 1..pos[s] : B[k] = temp[Kept(s)[k]]
    BY <1>2, <2>3
  <2> HIDE DEF B
  <2>6. [k \in 1..pos[s] |-> B[k]] = [k \in 1..pos[s] |-> temp[Kept(s)[k]]]
    BY <2>5
  <2>7. QED
    BY <1>2, <2>2, <2>4, <2>6, Zenon
<1> HIDE DEF X, B, M
<1>10. Select(temp \o M, 1..Len(temp \o M) \ del[s]) = Select(temp, R) \o M
  <2>1. Len(temp \o M) = Len(temp) + Len(M) /\ Len(M) \in Nat
    BY <1>2, <1>6, ConcatProperties, LenProperties
  <2> DEFINE S == 1..Len(temp \o M) \ del[s]
  <2>2. \A i \in 1..Len(temp) : i \in S <=> i \in R
    BY <1>2, <2>1
  <2>3. \A i \in 1..Len(M) : Len(temp) + i \in S
    BY <1>2, <2>1
  <2> HIDE DEF S, R
  <2>4. Select(temp \o M, S) = Select(temp, R) \o M
    BY <1>2, <1>6, <2>2, <2>3, SelectRest
  <2>5. QED
    BY <2>4 DEF S
<1> HIDE DEF R
<1>11. <<>> \o (B \o M) = B \o M
  <2>1. B \in Seq(X)
    BY <1>2, Part DEF X, B
  <2>2. \A f, g \in Seq(X) : f \o g \in Seq(X)
    BY ConcatProperties
  <2>3. B \o M \in Seq(X)
    BY <1>6, <2>1, <2>2, Zenon
  <2>4. QED
    BY <2>3, ConcatEmptySeq
<1>12. MD!Update
  <2>1. Mail' = MD!Without(Mail, Flagged)
    <3>1. Mail' = B \o M
      BY <1>7, <1>8, <1>11, Zenon
    <3>2. MD!Without(Mail, Flagged) = Select(temp \o M, 1..Len(temp \o M) \ del[s])
      BY <1>4, <1>5, WithoutIs
    <3>3. QED
      BY <1>9, <1>10, <3>1, <3>2, Zenon
  <2>2. QED
    BY <1>1, <1>3, <1>4, <2>1 DEF MD!Update
<1>13. QED
  BY <1>12 DEF MD!Next

-----------------------------------------------------------------------------
(* A server is killed.                                                     *)

LEMMA InConcat ==
    ASSUME NEW X, NEW f \in Seq(X), NEW g \in Seq(X), NEW m
    PROVE  MD!In(m, f \o g) <=> MD!In(m, f) \/ MD!In(m, g)
<1>1. /\ Len(f) \in Nat /\ Len(g) \in Nat /\ Len(f \o g) = Len(f) + Len(g)
      /\ \A i \in 1..Len(f) : (f \o g)[i] = f[i]
      /\ \A i \in 1..Len(g) : (f \o g)[Len(f) + i] = g[i]
  BY ConcatProperties
<1>2. ASSUME MD!In(m, f \o g)
      PROVE  MD!In(m, f) \/ MD!In(m, g)
  <2>1. PICK i \in 1..Len(f \o g) : (f \o g)[i] = m
    BY <1>2 DEF MD!In
  <2>2. CASE i <= Len(f)
    BY <1>1, <2>1, <2>2 DEF MD!In
  <2>3. CASE ~(i <= Len(f))
    <3>1. i - Len(f) \in 1..Len(g) /\ i = Len(f) + (i - Len(f))
      BY <1>1, <2>3
    <3>2. g[i - Len(f)] = m
      BY <1>1, <2>1, <3>1
    <3>3. QED
      BY <3>1, <3>2 DEF MD!In
  <2>4. QED
    BY <2>2, <2>3
<1>3. ASSUME MD!In(m, f)
      PROVE  MD!In(m, f \o g)
  <2>1. PICK i \in 1..Len(f) : f[i] = m
    BY <1>3 DEF MD!In
  <2>2. i \in 1..Len(f \o g) /\ (f \o g)[i] = m
    BY <1>1, <2>1
  <2>3. QED
    BY <2>2 DEF MD!In
<1>4. ASSUME MD!In(m, g)
      PROVE  MD!In(m, f \o g)
  <2>1. PICK i \in 1..Len(g) : g[i] = m
    BY <1>4 DEF MD!In
  <2>2. Len(f) + i \in 1..Len(f \o g) /\ (f \o g)[Len(f) + i] = m
    BY <1>1, <2>1
  <2>3. QED
    BY <2>2 DEF MD!In
<1>5. QED
  BY <1>2, <1>3, <1>4

\* Mail that is repeated is not new.
LEMMA Repeated ==
    ASSUME NEW X, NEW f \in Seq(X), NEW g \in Seq(X), NEW h \in Seq(X),
           \A i \in 1..Len(g) : MD!In(g[i], f) \/ MD!In(g[i], h)
    PROVE  /\ Len(f \o (g \o h)) >= Len(f \o h)
           /\ \A m : MD!In(m, f \o (g \o h)) <=> MD!In(m, f \o h)
<1>1. /\ g \o h \in Seq(X) /\ Len(g \o h) = Len(g) + Len(h)
      /\ Len(f \o h) = Len(f) + Len(h)
      /\ Len(f) \in Nat /\ Len(g) \in Nat /\ Len(h) \in Nat
  BY ConcatProperties, LenProperties
<1> DEFINE k == g \o h
<1> HIDE DEF k
<1>2. Len(f \o k) = Len(f) + Len(k)
  BY <1>1, ConcatProperties DEF k
<1>3. \A m : MD!In(m, f \o k) <=> MD!In(m, f) \/ MD!In(m, k)
  BY <1>1, InConcat DEF k
<1>4. \A m : MD!In(m, k) <=> MD!In(m, g) \/ MD!In(m, h)
  BY InConcat DEF k
<1>5. \A m : MD!In(m, f \o h) <=> MD!In(m, f) \/ MD!In(m, h)
  BY InConcat
<1>6. \A m : MD!In(m, g) => MD!In(m, f) \/ MD!In(m, h)
  BY DEF MD!In
<1>7. Len(f \o k) >= Len(f \o h)
  BY <1>1, <1>2 DEF k
<1>8. \A m : MD!In(m, f \o k) <=> MD!In(m, f \o h)
  BY <1>3, <1>4, <1>5, <1>6, Zenon
<1>9. QED
  BY <1>7, <1>8 DEF k

\* Whatever is killed, the two files together have every message.
LEMMA RefineKill ==
    ASSUME IInv, IInv', NEW s \in Sessions, Kill(s)
    PROVE  MD!Next
<1> USE MailAssumption
<1> DEFINE X == Messages \cup {Cut}
           M == SubSeq(mbox, 1, Safe)
           All == /\ Len(Mail') >= Len(Mail)
                  /\ \A m : MD!In(m, Mail') <=> MD!In(m, Mail)
<1>1. /\ Session(s) /\ spc'[s] = "end" /\ UNCHANGED <<mbox, temp, linked>>
      /\ spc[s] \in {"flock", "copy", "info", "append", "return", "close"}
      /\ crashes' = crashes + 1
  BY DEF Session, Kill, Gone, Step, IInv, Typed
<1>2. /\ tlock = s /\ temp \in Seq(X) /\ mbox \in Seq(X)
      /\ spc[s] \in {"copy", "append", "return"} => mlock = s
  BY <1>1 DEF IInv, Typed, Exclusive
<1>3. /\ MailIs /\ MailIs' /\ Idle' /\ Safe' = Safe /\ Reported' = Reported
      /\ spc[s] \in {"flock", "info"} => Idle
      /\ Flagged' = IF Asked(s)' THEN del'[s] ELSE {}
      /\ mlock \notin Messages => Safe = Len(mbox)
  BY <1>1, <1>2, Actor
<1>4. Flagged' = {}
  BY <1>1, <1>3 DEF Asked
<1>5. Mail' = temp \o M /\ M \in Seq(X)
  <2>1. Mail' = temp' \o SubSeq(mbox', 1, Safe')
    BY <1>3 DEF MailIs
  <2>2. M \in Seq(X)
    BY <1>2, <1>3, Part DEF MailIs
  <2>3. QED
    BY <1>1, <1>3, <2>1, <2>2
<1>6. spc[s] \in {"copy", "append", "return"} => M = mbox
  <2>1. SubSeq(mbox, 1, Len(mbox)) = mbox
    BY <1>2, SubSeqFull
  <2>2. QED
    BY <1>2, <1>3, <2>1
<1>7. ASSUME spc[s] \in {"flock", "info"}
      PROVE  All
  <2>1. Mail = temp \o M
    BY <1>3, <1>7 DEF MailIs
  <2>2. Mail' = Mail
    BY <1>5, <2>1
  <2>3. Len(Mail) \in Nat
    BY <1>3 DEF MailIs
  <2>4. All
    BY <2>2, <2>3
  <2>5. QED
    BY <2>4
<1>8. ASSUME spc[s] \in {"copy", "append"}
      PROVE  All
  <2> DEFINE A == SubSeq(temp, 1, offset[s])
             B == SubSeq(mbox, 1, pos[s])
  <2>1. /\ temp = A \o B /\ A \in Seq(X) /\ pos[s] \in Nat /\ pos[s] <= Len(mbox)
    BY <1>8, MovingForm
  <2>2. B \in Seq(X) /\ Len(B) = pos[s] /\ \A i \in 1..pos[s] : B[i] = mbox[i]
    BY <1>2, <2>1, Part
  <2>3. Mail = A \o mbox
    BY <1>3, <1>8 DEF MailIs
  <2> HIDE DEF A, B, X, M
  <2>4. \A i \in 1..Len(B) : MD!In(B[i], mbox)
    <3> SUFFICES ASSUME NEW i \in 1..Len(B)
                 PROVE  MD!In(B[i], mbox)
      OBVIOUS
    <3>1. i \in 1..Len(mbox) /\ B[i] = mbox[i]
      BY <1>2, <2>1, <2>2
    <3>2. QED
      BY <3>1 DEF MD!In
  <2>5. (A \o B) \o mbox = A \o (B \o mbox)
    BY <1>2, <2>1, <2>2, ConcatAssociative, SMTT(30)
  <2>6. Mail' = A \o (B \o mbox)
    BY <1>5, <1>6, <1>8, <2>1, <2>5
  <2>7. /\ Len(A \o (B \o mbox)) >= Len(A \o mbox)
        /\ \A m : MD!In(m, A \o (B \o mbox)) <=> MD!In(m, A \o mbox)
    BY <1>2, <2>1, <2>2, <2>4, Repeated
  <2>8. QED
    BY <2>3, <2>6, <2>7, Zenon
<1>9. ASSUME spc[s] = "return"
      PROVE  All
  <2>1. Mail = temp
    BY <1>3, <1>9 DEF MailIs
  <2>2. \A i \in 1..Len(mbox) : MD!In(mbox[i], temp)
    <3> SUFFICES ASSUME NEW i \in 1..Len(mbox)
                 PROVE  MD!In(mbox[i], temp)
      OBVIOUS
    <3>1. /\ Kept(s) \in Seq(1..Len(temp)) /\ i \in 1..Len(Kept(s))
          /\ mbox[i] = temp[Kept(s)[i]]
      <4>1. /\ Kept(s) \in Seq(1..Len(temp)) /\ Len(Kept(s)) \in Nat
        BY <1>2, KeptType
      <4>2. /\ pos[s] = Len(mbox) /\ pos[s] <= Len(Kept(s))
            /\ \A k \in 1..pos[s] : mbox[k] = temp[Kept(s)[k]]
        BY <1>9 DEF IInv, At, Returning
      <4>3. QED
        BY <1>2, <4>1, <4>2
    <3>2. Kept(s)[i] \in 1..Len(temp)
      BY <3>1, ElementOfSeq
    <3>3. QED
      BY <3>1, <3>2 DEF MD!In
  <2> HIDE DEF X, M
  <2>3. temp \o <<>> = temp /\ mbox \o <<>> = mbox /\ <<>> \in Seq(X)
    BY <1>2, ConcatEmptySeq, EmptySeq
  <2>4. Mail' = temp \o mbox
    BY <1>5, <1>6, <1>9
  <2>5. /\ Len(temp \o (mbox \o <<>>)) >= Len(temp \o <<>>)
        /\ \A m : MD!In(m, temp \o (mbox \o <<>>)) <=> MD!In(m, temp \o <<>>)
    BY <1>2, <2>2, <2>3, Repeated
  <2>6. QED
    BY <2>1, <2>3, <2>4, <2>5
<1>10. ASSUME spc[s] = "close"
      PROVE  All
  <2> DEFINE B == SubSeq(mbox, 1, pos[s])
             N == SubSeq(mbox, pos[s] + 1, Safe)
  <2>1. /\ Safe \in Nat /\ Safe <= Len(mbox) /\ pos[s] <= Safe /\ Mail = temp \o N
    BY <1>3, <1>10 DEF MailIs
  <2>2. /\ pos[s] \in Nat /\ pos[s] <= Len(mbox) /\ pos[s] = Len(Kept(s))
        /\ \A k \in 1..pos[s] : mbox[k] = temp[Kept(s)[k]]
        /\ Kept(s) \in Seq(1..Len(temp))
    BY <1>2, <1>10, KeptType DEF IInv, Typed, At, Returning
  <2>3. /\ B \in Seq(X) /\ Len(B) = pos[s] /\ N \in Seq(X)
        /\ \A i \in 1..pos[s] : B[i] = mbox[i]
    BY <1>2, <2>1, <2>2, Part, SubFile
  <2>4. M = B \o N
    <3>1. /\ 1 \in 1..Len(mbox) + 1 /\ pos[s] \in (1 - 1)..Len(mbox)
          /\ Safe \in pos[s]..Len(mbox)
      BY <1>2, <2>1, <2>2
    <3>2. QED
      BY <1>2, <3>1, ConcatAdjacentSubSeq
  <2> HIDE DEF B, N, X, M
  <2>5. \A i \in 1..Len(B) : MD!In(B[i], temp)
    <3> SUFFICES ASSUME NEW i \in 1..Len(B)
                 PROVE  MD!In(B[i], temp)
      OBVIOUS
    <3>1. i \in 1..Len(Kept(s)) /\ B[i] = temp[Kept(s)[i]]
      BY <2>2, <2>3
    <3>2. Kept(s)[i] \in 1..Len(temp)
      BY <2>2, <3>1, ElementOfSeq
    <3>3. QED
      BY <3>1, <3>2 DEF MD!In
  <2>6. /\ Len(temp \o (B \o N)) >= Len(temp \o N)
        /\ \A m : MD!In(m, temp \o (B \o N)) <=> MD!In(m, temp \o N)
    BY <1>2, <2>3, <2>5, Repeated
  <2>7. QED
    BY <1>5, <2>1, <2>4, <2>6, Zenon
<1>11. All
  BY <1>1, <1>7, <1>8, <1>9, <1>10, Zenon
<1>12. MD!Die
  BY <1>1, <1>3, <1>4, <1>11 DEF MD!Die
<1>13. QED
  BY <1>12 DEF MD!Next

-----------------------------------------------------------------------------
LEMMA RefineSession ==
    ASSUME IInv, IInv', NEW s \in Sessions, Session(s)
    PROVE  MD!Next \/ UNCHANGED MD!vars
<1> USE MailAssumption
<1>1. CASE tlock \notin {s, NoOne}
  <2>1. spc[s] \in {"auth", "end"}
    BY <1>1 DEF IInv, Exclusive, Typed
  <2>2. Leave(s)
    BY <1>1, <2>1 DEF Session, Work, Client, Kill, Login, LockDrop, LockDropFails,
       CopyMessage, CopyDone, CopyFails, DropInfo, DropInfoFails, Dele, Rset,
       QuitAll, Quit, Command, LockUpdate, AppendNew, AppendDone, AppendFails,
       ReturnMessage, ReturnDone, CloseDrop, ReturnFails, Flock
  <2>3. /\ UNCHANGED <<mbox, temp, dpc, offset, pos, del, linked, crashes>>
        /\ \A t \in Sessions : t # s => spc'[t] = spc[t]
        /\ spc[s] = "auth" /\ spc'[s] = "end"
    BY <2>1, <2>2 DEF Leave, Gone, Step, IInv, Typed
  <2>4. Moving' = Moving /\ Writing' = Writing /\ Safe' = Safe /\ Reported' = Reported
    BY <2>3 DEF Moving, Writing, Safe, Reported
  <2>5. Mail' = Mail
    BY <2>3, <2>4 DEF Mail, Old, From
  <2>6. Flagged' = Flagged
    <3>1. \A t \in Sessions : Asked(t)' <=> Asked(t)
      BY <2>3 DEF Asked
    <3>2. QED
      BY <2>3, <3>1 DEF Flagged, Asked
  <2>7. QED
    BY <2>3, <2>4, <2>5, <2>6, Unseen
<1>2. ASSUME tlock \in {s, NoOne}
      PROVE  /\ Flagged = IF Asked(s) THEN del[s] ELSE {}
             /\ Flagged' = IF Asked(s)' THEN del'[s] ELSE {}
             /\ Reported' = Reported
  BY <1>2, Actor
<1>3. ASSUME tlock \in {s, NoOne}, UNCHANGED <<mbox, temp>>,
             spc[s] \notin {"copy", "append", "return", "close"},
             spc'[s] \notin {"copy", "append", "return", "close"}
      PROVE  /\ Mail' = Mail /\ Mail = temp \o SubSeq(mbox, 1, Safe)
             /\ 1..Len(temp) \subseteq 1..Len(Mail)
  <2>1. Mail' = Mail
    BY <1>3, RefineQuiet
  <2>2. Mail = temp \o SubSeq(mbox, 1, Safe)
    BY <1>3, Actor DEF MailIs
  <2>3. /\ SubSeq(mbox, 1, Safe) \in Seq(Messages \cup {Cut})
        /\ temp \in Seq(Messages \cup {Cut})
    BY MailForm, Part DEF MailIs, IInv, Typed
  <2>4. Len(Mail) = Len(temp) + Len(SubSeq(mbox, 1, Safe))
    BY <2>2, <2>3, ConcatProperties
  <2>5. QED
    BY <2>1, <2>2, <2>3, <2>4
<1>4. CASE tlock \in {s, NoOne} /\ (Login(s) \/ LockDropFails(s) \/ DropInfo(s)
                                    \/ DropInfoFails(s) \/ Quit(s))
  <2>1. /\ UNCHANGED <<mbox, temp, linked, crashes>>
        /\ spc[s] \in {"auth", "flock", "info", "trans"}
        /\ spc'[s] \in {"auth", "flock", "info", "trans", "reflock"}
        /\ IF spc[s] = "trans" THEN spc'[s] = "reflock" /\ UNCHANGED del
           ELSE spc'[s] = "trans" => del'[s] = {}
        /\ spc'[s] = "reflock" => spc[s] = "trans"
    BY <1>4 DEF Login, LockDropFails, DropInfo, DropInfoFails, Quit, Locked, Step,
       IInv, Typed
  <2>2. Flagged' = Flagged /\ Reported' = Reported
    BY <1>2, <1>4, <2>1 DEF Asked
  <2>3. Mail' = Mail
    BY <1>3, <1>4, <2>1
  <2>4. QED
    BY <2>1, <2>2, <2>3, Unseen
<1>5. CASE tlock \in {s, NoOne} /\ (\/ \E i \in 1..Len(list[s]) : Dele(s, i)
                                    \/ Rset(s) \/ Leave(s))
  <2>1. /\ UNCHANGED <<mbox, temp, list, linked, crashes>>
        /\ spc[s] \in {"auth", "trans", "reflock"}
        /\ spc'[s] \in {"trans", "end"}
        /\ spc'[s] = "trans" => spc[s] = "trans"
    BY <1>5 DEF Dele, Rset, Leave, Command, Gone, Step, IInv, Typed
  <2>2. Flagged' \subseteq 1..Len(temp) /\ Reported' = Reported
    <3>1. spc'[s] = "trans" => temp' = list'[s] /\ del'[s] \subseteq 1..Len(list'[s])
      BY DEF IInv, At, Listed
    <3>2. QED
      BY <1>2, <1>5, <2>1, <3>1 DEF Asked
  <2>3. Mail' = Mail /\ 1..Len(temp) \subseteq 1..Len(Mail)
    BY <1>3, <1>5, <2>1
  <2>4. QED
    BY <2>1, <2>2, <2>3, Marked
<1>6. CASE CopyMessage(s) \/ CopyDone(s) \/ CopyFails(s) \/ AppendNew(s) \/ AppendDone(s)
  <2>1. /\ UNCHANGED <<del, linked, crashes>> /\ spc[s] \in {"copy", "append"}
        /\ spc[s] = "copy" => spc'[s] \in {"copy", "info"}
        /\ spc[s] = "append" => spc'[s] \in {"append", "return"}
    BY <1>6 DEF CopyMessage, CopyDone, CopyFails, AppendNew, AppendDone, Fetch,
       Locked, Step, IInv, Typed
  <2>2. tlock = s
    BY <2>1 DEF IInv, Exclusive
  <2>3. Flagged' = Flagged /\ Reported' = Reported
    BY <1>2, <2>1, <2>2 DEF Asked
  <2>4. Mail' = Mail
    BY <1>6, RefineMove
  <2>5. QED
    BY <2>1, <2>3, <2>4, Unseen
<1>7. CASE ReturnMessage(s) \/ ReturnDone(s)
  <2>1. /\ UNCHANGED <<del, linked, crashes>> /\ spc[s] = "return"
        /\ spc'[s] \in {"return", "close"}
    BY <1>7 DEF ReturnMessage, ReturnDone, Locked, Step, IInv, Typed
  <2>2. tlock = s
    BY <2>1 DEF IInv, Exclusive
  <2>3. Flagged' = Flagged /\ Reported' = Reported
    BY <1>2, <2>1, <2>2 DEF Asked
  <2>4. Mail' = Mail
    BY <1>7, RefineReturn
  <2>5. QED
    BY <2>1, <2>3, <2>4, Unseen
<1>8. CASE AppendFails(s) \/ ReturnFails(s)
  <2>1. UNCHANGED <<linked, crashes>> /\ spc[s] \in {"append", "return"} /\ spc'[s] = "end"
    BY <1>8 DEF AppendFails, ReturnFails, Gone, Step, IInv, Typed
  <2>2. tlock = s
    BY <2>1 DEF IInv, Exclusive
  <2>3. Flagged' = {} /\ Reported' = Reported
    BY <1>2, <2>1, <2>2 DEF Asked
  <2>4. Mail' = Mail
    BY <1>8, RefineMove, RefineReturn
  <2>5. QED
    BY <2>1, <2>3, <2>4, Marked
<1>9. QED
  BY <1>1, <1>4, <1>5, <1>6, <1>7, <1>8, RefineLock, RefineQuitAll,
     RefineCloseDrop, RefineKill DEF Session, Work, Client

\* KeepsMail of the PopMail run, for any number of deliveries and sessions,
\* any popper of which may be killed: mail.local's deliver() with popper's
\* pop_dropcopy(), pop_dele() and pop_updt() implement MailDrop, as long as
\* write(2) writes all that it is asked to and no mail.local is killed.  That
\* a delivery reported as made has been made is part of it unless somebody
\* makes a second name for the mailbox (mail.local.c's "file changed after
\* open", which MailDrop calls Mislay).
THEOREM Keeps ==
    ASSUME ~ShortWrites
    PROVE  Spec => KeepsMail
<1>1. Init => MD!Init
  <2> SUFFICES ASSUME Init
               PROVE  MD!Init
    OBVIOUS
  <2>1. /\ \A s \in Sessions : spc[s] = "auth"
        /\ \A m \in Messages : dpc[m] = "stat"
        /\ mbox = <<>> /\ temp = <<>> /\ linked = FALSE /\ crashes = 0
    BY DEF Init
  <2>2. Moving = {} /\ Writing = {} /\ Safe = 0 /\ Reported = {} /\ Flagged = {}
    BY <2>1 DEF Moving, Writing, Safe, Reported, Flagged
  <2>3. Mail = <<>> \o SubSeq(<<>>, 1, 0)
    BY <2>1, <2>2 DEF Mail, Old, From
  <2>4. SubSeq(<<>>, 1, 0) = <<>>
    BY SubSeqEmpty
  <2>5. <<>> \o <<>> = <<>>
    OBVIOUS
  <2>6. QED
    BY <2>1, <2>2, <2>3, <2>4, <2>5 DEF MD!Init
<1>2. IInv /\ IInv' /\ [Next]_vars => [MD!Next]_MD!vars
  <2> SUFFICES ASSUME IInv, IInv', [Next]_vars
               PROVE  MD!Next \/ UNCHANGED MD!vars
    OBVIOUS
  <2>1. CASE UNCHANGED vars
    BY <2>1 DEF vars, MD!vars, Mail, Old, From, Safe, Flagged, Reported, Moving,
       Writing
  <2>2. CASE \E m \in Messages : Deliver(m)
    BY <2>2, RefineDeliver
  <2>3. CASE \E s \in Sessions : Work(s) \/ Client(s) \/ Kill(s)
    BY <2>3, RefineSession DEF Session
  <2>4. CASE Link
    <3>1. UNCHANGED <<Mail, Flagged, Reported>>
      BY <2>4 DEF Link, svars, Mail, Old, From, Safe, Flagged, Reported, Moving,
         Writing
    <3>2. MD!Link
      BY <2>4, <3>1 DEF Link, svars, MD!Link
    <3>3. QED
      BY <3>2 DEF MD!Next
  <2>5. QED
    BY <2>1, <2>2, <2>3, <2>4 DEF Next
<1>3. QED
  BY <1>1, <1>2, Invariance, PTL DEF Spec, KeepsMail, MD!Spec
=============================================================================
