------------------------------ MODULE PopMail -------------------------------
(***************************************************************************)
(* The mailbox of one user: libexec/mail.local/mail.local.c delivers into  *)
(* it, libexec/popper moves its contents to a temporary maildrop when a    *)
(* POP session starts and back when it ends.  Both lock with flock(2).     *)
(*                                                                         *)
(* A file is the sequence of its messages.  A process that reads and       *)
(* writes in a loop moves one message at a time, and may fail or be killed *)
(* between two of them.  The templates and the change of user id, which    *)
(* only decide who owns the temporary maildrop, are left out, and so is    *)
(* the Status: line that popper adds to the messages it moves back.        *)
(***************************************************************************)
EXTENDS Naturals, Sequences, FiniteSets, Positions

CONSTANTS
    Messages,           \* one mail.local process for each
    Sessions,           \* popper processes
    NoOne,
    Cut,                \* a message that lost its end
    ShortWrites,        \* whether write(2) may write less than it was asked to
    Links,              \* whether anybody gives the mailbox a second name
    MaxCrash            \* bound: popper processes that are killed

ASSUME MailAssumption ==
    /\ NoOne \notin Messages \cup Sessions /\ Cut \notin Messages
    /\ Messages \cap Sessions = {}
    /\ ShortWrites \in BOOLEAN /\ Links \in BOOLEAN /\ MaxCrash \in Nat

VARIABLES
    exists,             \* the mailbox has been created
    linked,             \* the mailbox has a second name: st_nlink is not 1
    mbox, temp,         \* the mailbox and the temporary maildrop
    mlock, tlock,       \* who holds the lock of which
    dpc,                \* mail.local: where it is
    curoff,             \* mail.local: the size of mbox before the message
    spc,                \* popper: where it is
    offset,             \* popper: the size of temp before mail was added
    pos,                \* popper: messages moved by the present loop
    list, del,          \* popper: the messages found, those flagged
    crashes

svars == <<spc, offset, pos, list, del, crashes>>
vars  == <<exists, linked, mbox, temp, mlock, tlock, dpc, curoff, spc, offset,
           pos, list, del, crashes>>

Typed ==
    /\ exists \in BOOLEAN /\ linked \in BOOLEAN
    /\ mbox \in Seq(Messages \cup {Cut}) /\ temp \in Seq(Messages \cup {Cut})
    /\ mlock \in Messages \cup Sessions \cup {NoOne}
    /\ tlock \in Sessions \cup {NoOne}
    /\ dpc \in [Messages -> {"stat", "create", "open", "flock", "write",
                             "fsync", "ok", "changed", "failed"}]
    /\ curoff \in [Messages -> Nat]
    /\ spc \in [Sessions -> {"auth", "flock", "copy", "info", "trans",
                             "reflock", "append", "return", "close", "end"}]
    /\ offset \in [Sessions -> Nat] /\ pos \in [Sessions -> Nat]
    /\ list \in [Sessions -> Seq(Messages \cup {Cut})]
    /\ del \in [Sessions -> SUBSET Nat]
    /\ crashes \in 0..MaxCrash

\* Whoever is inside a locked part of its code is the one who holds the lock.
Exclusive ==
    /\ \A m \in Messages : dpc[m] \in {"write", "fsync"} => mlock = m
    /\ \A s \in Sessions :
        /\ spc[s] \in {"copy", "append", "return"} => mlock = s
        /\ spc[s] \notin {"auth", "end"} => tlock = s

\* Every variable has its type, and the locks exclude.
TypeOK == Typed /\ Exclusive

Init ==
    /\ exists = FALSE /\ linked = FALSE /\ mbox = <<>> /\ temp = <<>>
    /\ mlock = NoOne /\ tlock = NoOne
    /\ dpc = [m \in Messages |-> "stat"] /\ curoff = [m \in Messages |-> 0]
    /\ spc = [s \in Sessions |-> "auth"]
    /\ offset = [s \in Sessions |-> 0] /\ pos = [s \in Sessions |-> 0]
    /\ list = [s \in Sessions |-> <<>>] /\ del = [s \in Sessions |-> {}]
    /\ crashes = 0

Goto(m, l) == dpc' = [dpc EXCEPT ![m] = l]
Step(s, l) == spc' = [spc EXCEPT ![s] = l]

\* flock(LOCK_EX) returns when nobody holds the lock.
\* Mutant: flock() is called with LOCK_SH by everyone.
MutFlock(lock) == TRUE
Flock(lock) == lock = NoOne

-----------------------------------------------------------------------------
(* mail.local: deliver().                                                  *)

\* A mailbox with a second name is refused, with a status that says so.
Lstat(m) ==
    /\ dpc[m] = "stat"
    /\ Goto(m, IF ~exists THEN "create"
               ELSE IF linked THEN "failed" ELSE "open")
    /\ UNCHANGED <<exists, mbox, temp, mlock, tlock, curoff, linked, svars>>

\* open(O_CREAT|O_EXCL): someone else may have been faster.
Create(m) ==
    /\ dpc[m] = "create"
    /\ exists' = TRUE
    /\ Goto(m, IF exists THEN "stat" ELSE "flock")
    /\ UNCHANGED <<mbox, temp, mlock, tlock, curoff, linked, svars>>

\* open() and fstat(): the file must still be as lstat() has found it.  If it
\* is not, "file changed after open" is all that is said: deliver() returns
\* without e_to_sys(), and mail.local exits with status 0.
OpenMailbox(m) ==
    /\ dpc[m] = "open"
    /\ Goto(m, IF linked THEN "changed" ELSE "flock")
    /\ UNCHANGED <<exists, mbox, temp, mlock, tlock, curoff, linked, svars>>

\* open(), fchown() or flock() fails.
DeliverFails(m) ==
    /\ dpc[m] \in {"create", "open", "flock"}
    /\ Goto(m, "failed")
    /\ exists' \in IF dpc[m] = "create" THEN {exists, TRUE} ELSE {exists}
    /\ UNCHANGED <<mbox, temp, mlock, tlock, curoff, linked, svars>>

LockMailbox(m) ==
    /\ dpc[m] = "flock"
    /\ Flock(mlock)
    /\ mlock' = m
    /\ curoff' = [curoff EXCEPT ![m] = Len(mbox)]
    /\ Goto(m, "write")
    /\ UNCHANGED <<exists, mbox, temp, tlock, linked, svars>>

\* The loop over write(): nr -= nw and off += nw both move, so a write of
\* more than half of the buffer, but not all of it, ends the loop.
WriteMessage(m) ==
    /\ dpc[m] = "write"
    /\ mbox' \in {Append(mbox, x) : x \in {m} \cup (IF ShortWrites THEN {Cut} ELSE {})}
    /\ Goto(m, "fsync")
    /\ UNCHANGED <<exists, temp, mlock, tlock, curoff, linked, svars>>

\* ftruncate(mbfd, curoff).
CutOff(m) == mbox' = SubSeq(mbox, 1, curoff[m])

\* A write() or read() fails: what was written is cut off again.
WriteFails(m) ==
    /\ dpc[m] = "write"
    /\ CutOff(m)
    /\ mlock' = NoOne
    /\ Goto(m, "failed")
    /\ UNCHANGED <<exists, temp, tlock, curoff, linked, svars>>

\* fsync() and close(), which gives up the lock ...
CloseMailbox(m) ==
    /\ dpc[m] = "fsync"
    /\ mlock' = NoOne
    /\ Goto(m, "ok")
    /\ UNCHANGED <<exists, mbox, temp, tlock, curoff, linked, svars>>

\* ... or fsync() fails and the message is cut off ...
FsyncFails(m) ==
    /\ dpc[m] = "fsync"
    /\ CutOff(m)
    /\ mlock' = NoOne
    /\ Goto(m, "failed")
    /\ UNCHANGED <<exists, temp, tlock, curoff, linked, svars>>

\* ... or only close() reports a failure: the message is there all the same.
CloseFails(m) ==
    /\ dpc[m] = "fsync"
    /\ mlock' = NoOne
    /\ Goto(m, "failed")
    /\ UNCHANGED <<exists, mbox, temp, tlock, curoff, linked, svars>>

\* What mail.local does, whatever becomes of it, when it need not wait.
Proceed(m) ==
    \/ Lstat(m) \/ Create(m) \/ OpenMailbox(m) \/ WriteMessage(m) \/ WriteFails(m)
    \/ CloseMailbox(m) \/ FsyncFails(m) \/ CloseFails(m)

Deliver(m) == Proceed(m) \/ DeliverFails(m) \/ LockMailbox(m)

-----------------------------------------------------------------------------
(* popper: pop_dropcopy() and pop_dropinfo(), called for a good password.  *)

Locked(s, l) == Step(s, l) /\ UNCHANGED <<exists, dpc, curoff, linked, crashes>>

\* The temporary maildrop is locked with LOCK_NB: a session that finds it
\* busy stays where it is.  A mailbox that cannot be opened, perhaps because
\* there is none yet, is taken for empty.
Login(s) ==
    /\ spc[s] = "auth"
    /\ Flock(tlock)
    /\ tlock' = s
    /\ offset' = [offset EXCEPT ![s] = Len(temp)]
    /\ \E l \in {"flock", "info"} : (l = "flock" => exists) /\ Locked(s, l)
    /\ UNCHANGED <<mbox, temp, mlock, pos, list, del>>

LockDrop(s) ==
    /\ spc[s] = "flock"
    /\ Flock(mlock)
    /\ mlock' = s
    /\ pos' = [pos EXCEPT ![s] = 0]
    /\ Locked(s, "copy")
    /\ UNCHANGED <<mbox, temp, tlock, offset, list, del>>

\* flock() fails: back to the state before the user name, with the temporary
\* maildrop open and locked, so that only the end of this process frees it.
LockDropFails(s) ==
    /\ spc[s] = "flock"
    /\ Locked(s, "auth")
    /\ UNCHANGED <<mbox, temp, mlock, tlock, offset, pos, list, del>>

\* One message goes from the mailbox to the temporary maildrop, now t.
Fetch(s, t) ==
    /\ pos[s] < Len(mbox)
    /\ temp' = t
    /\ pos' = [pos EXCEPT ![s] = @ + 1]
    /\ UNCHANGED <<exists, mbox, mlock, tlock, dpc, curoff, linked, spc,
                   offset, list, del, crashes>>

CopyMessage(s) == spc[s] = "copy" /\ Fetch(s, Append(temp, mbox[pos[s] + 1]))

\* close(mfd).  Mutant: the mailbox stays open, and locked.
MutUnlocked == mlock
Unlocked == NoOne

\* Everything was read: the mailbox is emptied.
CopyDone(s) ==
    /\ spc[s] = "copy" /\ pos[s] = Len(mbox)
    /\ mbox' = <<>>
    /\ mlock' = Unlocked
    /\ Locked(s, "info")
    /\ UNCHANGED <<temp, tlock, offset, pos, list, del>>

\* ftruncate(dfd, offset).
Restore(s) == temp' = SubSeq(temp, 1, offset[s])

\* A read() or write() fails: the new mail stays where it is.
CopyFails(s) ==
    /\ spc[s] = "copy"
    /\ Restore(s)
    /\ mlock' = Unlocked
    /\ Locked(s, "info")
    /\ UNCHANGED <<mbox, tlock, offset, pos, list, del>>

\* pop_dropinfo() finds the messages ...
DropInfo(s) ==
    /\ spc[s] = "info"
    /\ list' = [list EXCEPT ![s] = temp]
    /\ del' = [del EXCEPT ![s] = {}]
    /\ Locked(s, "trans")
    /\ UNCHANGED <<mbox, temp, mlock, tlock, offset, pos>>

\* ... or runs out of memory, or fdopen() did.
DropInfoFails(s) ==
    /\ spc[s] = "info"
    /\ tlock' = NoOne
    /\ Locked(s, "auth")
    /\ UNCHANGED <<mbox, temp, mlock, offset, pos, list, del>>

-----------------------------------------------------------------------------
(* popper: the client's commands.                                          *)

Command(s) ==
    spc[s] = "trans" /\ UNCHANGED <<exists, mlock, dpc, curoff, linked, crashes>>

Dele(s, i) ==
    /\ Command(s)
    /\ i \in 1..Len(list[s]) \ del[s]
    /\ del' = [del EXCEPT ![s] = @ \cup {i}]
    /\ UNCHANGED <<mbox, temp, tlock, spc, offset, pos, list>>

Rset(s) ==
    /\ Command(s)
    /\ del' = [del EXCEPT ![s] = {}]
    /\ UNCHANGED <<mbox, temp, tlock, spc, offset, pos, list>>

\* msgs_deleted == msg_count: the temporary maildrop is emptied, the mailbox
\* is not looked at.
AllDeleted(s) == Cardinality(del[s]) = Len(list[s])

QuitAll(s) ==
    /\ Command(s)
    /\ AllDeleted(s)
    /\ temp' = <<>>
    /\ tlock' = NoOne
    /\ Step(s, "end")
    /\ UNCHANGED <<mbox, offset, pos, list, del>>

\* pop_updt() opens the mailbox, which creates it, and waits for its lock.
Quit(s) ==
    /\ spc[s] = "trans"
    /\ ~AllDeleted(s)
    /\ exists' = TRUE
    /\ Step(s, "reflock")
    /\ UNCHANGED <<mbox, temp, mlock, tlock, dpc, curoff, linked, offset, pos,
                   list, del, crashes>>

-----------------------------------------------------------------------------
(* popper: pop_updt().                                                     *)

LockUpdate(s) ==
    /\ spc[s] = "reflock"
    /\ Flock(mlock)
    /\ mlock' = s
    /\ offset' = [offset EXCEPT ![s] = Len(temp)]
    /\ pos' = [pos EXCEPT ![s] = 0]
    /\ Locked(s, "append")
    /\ UNCHANGED <<mbox, temp, tlock, list, del>>

\* The temporary maildrop, which is open for append, with one more message.
\* Mutant: new mail goes before the old.
MutAdded(m) == <<m>> \o temp
Added(m) == Append(temp, m)

\* The mail that came in meanwhile is added to the temporary maildrop ...
AppendNew(s) == spc[s] = "append" /\ Fetch(s, Added(mbox[pos[s] + 1]))

\* ... and the mailbox is emptied to be written anew.
AppendDone(s) ==
    /\ spc[s] = "append" /\ pos[s] = Len(mbox)
    /\ mbox' = <<>>
    /\ pos' = [pos EXCEPT ![s] = 0]
    /\ Locked(s, "return")
    /\ UNCHANGED <<temp, mlock, tlock, offset, list, del>>

\* The process ends, and its locks with it.
Gone(s) ==
    /\ Step(s, "end")
    /\ mlock' = IF mlock = s THEN NoOne ELSE mlock
    /\ tlock' = IF tlock = s THEN NoOne ELSE tlock

AppendFails(s) ==
    /\ spc[s] = "append"
    /\ Restore(s)
    /\ Gone(s)
    /\ UNCHANGED <<exists, mbox, dpc, curoff, linked, offset, pos, list, del,
                   crashes>>

\* The positions of temp that go back: the messages not flagged, then the
\* mail from offset on.  Mutant: the new mail is forgotten.
MutKept(s) == Positions(1..Len(list[s]) \ del[s])[Len(temp)]
Kept(s) == Positions({i \in 1..Len(temp) : i > offset[s] \/ i \notin del[s]})[Len(temp)]

ReturnMessage(s) ==
    /\ spc[s] = "return" /\ pos[s] < Len(Kept(s))
    /\ mbox' = Append(mbox, temp[Kept(s)[pos[s] + 1]])
    /\ pos' = [pos EXCEPT ![s] = @ + 1]
    /\ UNCHANGED <<exists, temp, mlock, tlock, dpc, curoff, linked, spc,
                   offset, list, del, crashes>>

\* The mailbox is closed first, then the temporary maildrop emptied.
ReturnDone(s) ==
    /\ spc[s] = "return" /\ pos[s] = Len(Kept(s))
    /\ mlock' = NoOne
    /\ Locked(s, "close")
    /\ UNCHANGED <<mbox, temp, tlock, offset, pos, list, del>>

CloseDrop(s) ==
    /\ spc[s] = "close"
    /\ temp' = <<>>
    /\ Gone(s)
    /\ UNCHANGED <<exists, mbox, dpc, curoff, linked, offset, pos, list, del,
                   crashes>>

\* A write fails: everything stays in the temporary maildrop.
ReturnFails(s) ==
    /\ spc[s] = "return"
    /\ mbox' = <<>>
    /\ Gone(s)
    /\ UNCHANGED <<exists, temp, dpc, curoff, linked, offset, pos, list, del,
                   crashes>>

\* The client closes the connection, or gives up before it has logged in, or
\* the mailbox cannot be opened or locked.
Leave(s) ==
    /\ spc[s] \in {"auth", "trans", "reflock"}
    /\ Gone(s)
    /\ UNCHANGED <<exists, mbox, temp, dpc, curoff, linked, offset, pos, list,
                   del, crashes>>

\* The process is killed.
Kill(s) ==
    /\ spc[s] \in {"flock", "copy", "info", "append", "return", "close"}
    /\ crashes < MaxCrash
    /\ crashes' = crashes + 1
    /\ Gone(s)
    /\ UNCHANGED <<exists, mbox, temp, dpc, curoff, linked, offset, pos, list,
                   del>>

\* The steps popper takes by itself, and those a client asks for.
Work(s) ==
    \/ LockDrop(s) \/ LockDropFails(s) \/ CopyMessage(s) \/ CopyDone(s)
    \/ CopyFails(s) \/ DropInfo(s) \/ DropInfoFails(s)
    \/ LockUpdate(s) \/ AppendNew(s) \/ AppendDone(s) \/ AppendFails(s)
    \/ ReturnMessage(s) \/ ReturnDone(s) \/ CloseDrop(s) \/ ReturnFails(s)

Client(s) ==
    \/ Login(s) \/ (\E i \in 1..Len(list[s]) : Dele(s, i)) \/ Rset(s)
    \/ QuitAll(s) \/ Quit(s) \/ Leave(s)

\* Somebody, not one of the two programs, makes a second name for the file of
\* the mailbox, or removes it.
Link ==
    /\ Links /\ exists
    /\ linked' = ~linked
    /\ UNCHANGED <<exists, mbox, temp, mlock, tlock, dpc, curoff, svars>>

Next ==
    \/ \E m \in Messages : Deliver(m)
    \/ \E s \in Sessions : Work(s) \/ Client(s) \/ Kill(s)
    \/ Link

Spec == Init /\ [][Next]_vars

\* Every process runs, and flock() does not pass over a process for ever
\* while others get the lock again and again.  No client needs to say
\* anything, and no call needs to fail.
FairSpec ==
    /\ Spec
    /\ \A m \in Messages : WF_vars(Proceed(m)) /\ SF_vars(LockMailbox(m))
    /\ \A s \in Sessions : WF_vars(Work(s))

-----------------------------------------------------------------------------
(* Properties.                                                             *)

Moving == {s \in Sessions : spc[s] \in {"copy", "append"}}
Writing == {s \in Sessions : spc[s] \in {"return", "close"}}

\* The mail of the user: what is in the temporary maildrop, without a copy
\* that is not complete, then what is in the mailbox, without what has been
\* put back of the temporary maildrop and without a message not yet safe.
Old  == IF Moving = {} THEN temp
        ELSE SubSeq(temp, 1, offset[CHOOSE s \in Moving : TRUE])
From == IF Writing = {} THEN 0 ELSE pos[CHOOSE s \in Writing : TRUE]
Safe == IF \E m \in Messages : dpc[m] = "fsync" THEN Len(mbox) - 1 ELSE Len(mbox)
Mail == Old \o SubSeq(mbox, From + 1, Safe)

Flagged == UNION {del[s] : s \in {t \in Sessions :
               spc[t] \in {"trans", "reflock", "append", "return", "close"}}}

\* The messages whose mail.local has exited with status 0.
Reported == {m \in Messages : dpc[m] \in {"ok", "changed"}}

\* mail.local and popper together keep a mailbox as MailDrop describes it:
\* nothing is lost, reordered or, unless a popper was killed, repeated, and
\* only flagged messages leave, whatever fails in between.  A delivery that is
\* reported has been made, except where the mailbox is found with a second
\* name only after it was opened.
MD == INSTANCE MailDrop WITH
        mail <- Mail, flagged <- Flagged, reported <- Reported
KeepsMail == MD!Spec

\* What a session has told its client stays true: the messages it has listed
\* are at the same place of the temporary maildrop until it ends.
ListStable ==
    \A s \in Sessions :
        spc[s] \in {"trans", "reflock", "append", "return", "close"}
            => SubSeq(temp, 1, Len(list[s])) = list[s]

\* No delivery waits for a POP client: every mail.local comes to its end
\* although a client may keep its session for ever.
DeliveryEnds == \A m \in Messages : <>(dpc[m] \in {"ok", "changed", "failed"})

-----------------------------------------------------------------------------
(* What the documents say and the code does not do.                        *)

\* mail.local(8): "exits 0 on success, and >0 if an error occurs".  A
\* mail.local that exits with status 0 leaves its message in the mailbox.
SuccessMeansDelivered ==
    [][\A m \in Reported' \ Reported :
           mbox' # <<>> /\ mbox'[Len(mbox')] = m]_vars

\* "Error updating primary drop. Mailbox unchanged": the mailbox has been
\* emptied by then and its mail is in the temporary maildrop.
MailboxUnchanged ==
    [][\A s \in Sessions : spc[s] = "append" /\ spc'[s] = "return"
           => mbox' = mbox]_vars
=============================================================================
