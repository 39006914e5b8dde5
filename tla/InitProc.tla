------------------------------ MODULE InitProc ------------------------------
(***************************************************************************)
(* init(8), process 1: sbin/init/init.c.                                   *)
(*                                                                         *)
(* init is a finite state machine whose states are C functions.  Each      *)
(* function returns the next one; three signal handlers ask for a change   *)
(* of state by storing a function in requested_transition, which the       *)
(* functions look at between two calls of waitpid().  One session is kept  *)
(* for each terminal line that is on in /etc/ttys, and a database maps the *)
(* process id of a session's getty back to the session.                    *)
(*                                                                         *)
(* A signal handler can run between any two steps of init, so a function   *)
(* is cut into steps wherever a handler could make a difference: around    *)
(* every read and write of requested_transition, clang and errno, and      *)
(* around every blocking waitpid().  The kernel (process table, fork,      *)
(* wait, kill, alarm), the children and the administrator who edits        *)
(* /etc/ttys are the environment.                                          *)
(***************************************************************************)
EXTENDS Naturals

CONSTANTS
    Dev,      \* the terminal lines that /etc/ttys may name
    NoDev,    \* "find_session() found nothing"
    Pid,      \* process ids the kernel may give to children of init
    NoPid,    \* the value 0 of a pid_t
    Entries   \* the line entries an administrator writes into /etc/ttys

\* A line is on, off, on with a command that setupargv() cannot parse,
\* or has no entry at all.
TtyEntry == {"on", "off", "bad", "absent"}

ASSUME DevAssumption == NoDev \notin Dev
ASSUME PidAssumption == NoPid \notin Pid
ASSUME EntriesAssumption == Entries \subseteq TtyEntry

VARIABLES
    state,                 \* the state function transition() is running
    pc,                    \* where in that function
    requested_transition,  \* global of the same name, "none" for 0
    runcom_mode,           \* AUTOBOOT or FASTBOOT
    sessions,              \* lines with an element in the session list
    se_process,            \* their se_process
    se_shutdown,           \* their SE_SHUTDOWN flag
    session_db,            \* session_db: pid -> session
    db_open,               \* session_db is not a null pointer
    shell,                 \* local pid of single_user() and runcom()
    status,                \* wait status of that process, "none" before
    death_i,               \* loop counter of death()
    clang,                 \* set by alrm_handler()
    errno,                 \* errno: ECHILD, or anything else
    child,                 \* kernel: init's children
    alarm,                 \* kernel: an alarm() is running
    ttys                   \* /etc/ttys

control  == <<state, pc, shell, status, death_i>>
sessvars == <<sessions, se_process, se_shutdown, session_db, db_open>>
vars == <<state, pc, requested_transition, runcom_mode, sessions, se_process,
          se_shutdown, session_db, db_open, shell, status, death_i, clang,
          errno, child, alarm, ttys>>

States == {"single_user", "runcom", "read_ttys", "multi_user", "clean_ttys",
           "catatonia", "death"}

\* Positions.  "loop" is the condition of a wait loop, "wait" the point just
\* before waitpid(), "asleep" inside a waitpid() that blocks.  In "exited"
\* init has called _exit() (the kernel reboots), in "quiet" it sleeps in
\* sigsuspend() with every signal blocked.
Labels == {"enter", "clear", "start", "loop", "wait", "asleep", "kill",
           "clang", "alarm", "quiet", "exited"}

Statuses == {"none", "exit0", "exitN", "sigkill", "sigterm", "sigother"}

TypeOK ==
    /\ state \in States
    /\ pc \in Labels
    /\ requested_transition \in States \cup {"none"}
    /\ runcom_mode \in {"AUTOBOOT", "FASTBOOT"}
    /\ sessions \subseteq Dev
    /\ se_process \in [Dev -> Pid \cup {NoPid}]
    /\ se_shutdown \in [Dev -> BOOLEAN]
    /\ session_db \in [Pid -> Dev \cup {NoDev}]
    /\ db_open \in BOOLEAN
    /\ shell \in Pid \cup {NoPid}
    /\ status \in Statuses
    /\ death_i \in 0..2
    /\ clang \in BOOLEAN
    /\ errno \in {"ECHILD", "other"}
    /\ child \in [Pid -> {"free", "alive", "zombie"}]
    /\ alarm \in BOOLEAN
    /\ ttys \in [Dev -> TtyEntry]

-----------------------------------------------------------------------------
(* Kernel.                                                                 *)

Alive(p)  == child[p] = "alive"
Zombie(p) == child[p] = "zombie"
NoChild   == \A p \in Pid : child[p] = "free"

\* The process table once waitpid() has returned the exit status of p.
Reaped(p) == [child EXCEPT ![p] = "free"]

\* The loop "while (waitpid(-1, 0, WNOHANG) > 0)": every zombie is reaped and
\* nobody is told.
AllReaped == [p \in Pid |-> IF Zombie(p) THEN "free" ELSE child[p]]

\* A library call on the way may fail, which init ignores, and leave its own
\* error in errno.  A call that succeeds leaves errno as it was.
LibErrno == errno' \in {errno, "other"}

At(s, l) == state = s /\ pc = l

\* The current function goes on at l.
Stay(l) == pc' = l /\ UNCHANGED <<state, shell, status, death_i>>

\* transition(): the current function returns s.  Its locals die with it.
Goto(s) == /\ state' = s
           /\ pc' = "enter"
           /\ shell' = NoPid
           /\ status' = "none"
           /\ death_i' = 0

\* main() starts the machine in runcom, or in single_user with -s, or where a
\* signal that came as soon as the handlers were installed has asked; -f asks
\* for a fast boot.
Init ==
    /\ state \in {"runcom", "single_user", "clean_ttys", "death", "catatonia"}
    /\ pc = "enter"
    /\ requested_transition = state
    /\ runcom_mode \in {"AUTOBOOT", "FASTBOOT"}
    /\ sessions = {}
    /\ se_process = [d \in Dev |-> NoPid]
    /\ se_shutdown = [d \in Dev |-> FALSE]
    /\ session_db = [p \in Pid |-> NoDev]
    /\ db_open = FALSE
    /\ shell = NoPid
    /\ status = "none"
    /\ death_i = 0
    /\ clang = FALSE
    /\ errno = "other"
    /\ child = [p \in Pid |-> "free"]
    /\ alarm = FALSE
    /\ ttys \in [Dev -> Entries]

-----------------------------------------------------------------------------
(* Sessions.                                                               *)

\* The session database.  Mutant: del_session() leaves the entry in place.
add_session(db, d, p) == [db EXCEPT ![p] = d]
MutDelSession(p)      == session_db
del_session(p)        == [session_db EXCEPT ![p] = NoDev]
find_session(p)       == session_db[p]

\* A line of /etc/ttys gets a session if it is on, has a getty, and
\* setupargv() can parse what it says.
new_session(d) == ttys[d] = "on"

\* start_getty(): fork() either gives a child q or fails.  kids is the
\* process table at the time of the call.
ForkGetty(d, db, kids) ==
    \E q \in Pid :
        /\ kids[q] = "free"
        /\ child' = [kids EXCEPT ![q] = "alive"]
        /\ se_process' = [se_process EXCEPT ![d] = q]
        /\ session_db' = add_session(db, d, q)
        /\ LibErrno
        /\ UNCHANGED requested_transition

\* "serious trouble": the tty file is gone through again.  Mutant: it is not.
MutSeriousTrouble == UNCHANGED requested_transition
SeriousTrouble == requested_transition' = "clean_ttys"

ForkGettyFails(d, db, kids) ==
    /\ child' = kids
    /\ se_process' = [se_process EXCEPT ![d] = NoPid]
    /\ session_db' = db
    /\ SeriousTrouble
    /\ errno' = "other"

\* collect_child(): waitpid() has returned p, a session's process or not.
\* The logout records are closed and the session leaves the database.  A
\* session that is shut down is unlinked and freed, any other one gets a new
\* getty.
CollectStranger(p, kids) ==
    /\ sessions = {} \/ find_session(p) = NoDev
    /\ child' = kids
    /\ UNCHANGED <<sessvars, requested_transition, errno>>

CollectShutdown(p, kids) ==
    /\ sessions # {} /\ find_session(p) # NoDev
    /\ se_shutdown[find_session(p)]
    /\ sessions' = sessions \ {find_session(p)}
    /\ se_process' = [se_process EXCEPT ![find_session(p)] = NoPid]
    /\ se_shutdown' = [se_shutdown EXCEPT ![find_session(p)] = FALSE]
    /\ session_db' = del_session(p)
    /\ child' = kids
    /\ LibErrno
    /\ UNCHANGED <<db_open, requested_transition>>

CollectRestart(p, kids) ==
    LET d  == find_session(p)
        db == del_session(p)
    IN  /\ sessions # {} /\ d # NoDev
        /\ ~se_shutdown[d]
        /\ ForkGetty(d, db, kids) \/ ForkGettyFails(d, db, kids)
        /\ UNCHANGED <<sessions, se_shutdown, db_open>>

collect_child(p, kids) ==
    \/ CollectStranger(p, kids)
    \/ CollectShutdown(p, kids)
    \/ CollectRestart(p, kids)

-----------------------------------------------------------------------------
(* Waiting for children: the calls of waitpid() that block.                *)

Waiting == pc \in {"wait", "asleep"}

\* multi_user(), catatonia() and death() wait for exits only.
WaitExit ==
    /\ Waiting /\ state \in {"multi_user", "catatonia", "death"}
    /\ \E p \in Pid : Zombie(p) /\ collect_child(p, Reaped(p))
    /\ Stay("loop")
    /\ UNCHANGED <<runcom_mode, clang, alarm, ttys>>

\* single_user() and runcom() run one process each and look at its status.
WaitShell ==
    /\ Waiting /\ state \in {"single_user", "runcom"}
    /\ \E p \in Pid :
          /\ Zombie(p) /\ collect_child(p, Reaped(p))
          /\ status' \in IF p = shell THEN Statuses \ {"none"} ELSE {status}
    /\ pc' = "loop"
    /\ UNCHANGED <<state, shell, death_i, runcom_mode, clang, alarm, ttys>>

\* They wait with WUNTRACED: a child that has only stopped is passed to
\* collect_child() too.  If it is the shell it is continued.
WaitStopped ==
    /\ Waiting /\ state \in {"single_user", "runcom"}
    /\ \E p \in Pid : Alive(p) /\ collect_child(p, child)
    /\ Stay("loop")
    /\ UNCHANGED <<runcom_mode, clang, alarm, ttys>>

WaitBlocks ==
    /\ pc = "wait"
    /\ ~NoChild
    /\ \A p \in Pid : ~Zombie(p)
    /\ Stay("asleep")
    /\ UNCHANGED <<requested_transition, runcom_mode, sessvars, clang, errno,
                   child, alarm, ttys>>

\* waitpid() fails with ECHILD.  single_user() and runcom() give up.
WaitNoChild ==
    /\ Waiting
    /\ NoChild
    /\ errno' = "ECHILD"
    /\ IF state \in {"single_user", "runcom"} THEN Goto("single_user")
                                              ELSE Stay("loop")
    /\ UNCHANGED <<requested_transition, runcom_mode, sessvars, clang, child,
                   alarm, ttys>>

-----------------------------------------------------------------------------
(* single_user(): a shell on the console.                                  *)

ForkShell(s, next) ==
    /\ At(s, "enter")
    /\ \E p \in Pid : /\ child[p] = "free"
                      /\ shell' = p
                      /\ child' = [child EXCEPT ![p] = "alive"]
    /\ pc' = next
    /\ LibErrno
    /\ UNCHANGED <<state, status, death_i, requested_transition, runcom_mode,
                   sessvars, clang, alarm, ttys>>

\* fork() fails in single_user() or runcom(): all zombies are reaped, without
\* collect_child(), and single_user() is tried (again).
ForkShellFails(s) ==
    /\ At(s, "enter")
    /\ child' = AllReaped
    /\ errno' = IF \A p \in Pid : ~Alive(p) THEN "ECHILD" ELSE "other"
    /\ Goto("single_user")
    /\ UNCHANGED <<requested_transition, runcom_mode, sessvars, clang, alarm,
                   ttys>>

SingleUserClear ==
    /\ At("single_user", "clear")
    /\ requested_transition' = "none"
    /\ Stay("wait")
    /\ UNCHANGED <<runcom_mode, sessvars, clang, errno, child, alarm, ttys>>

\* After the wait loop a request wins over the fate of the shell.
SingleUserLoop ==
    /\ At("single_user", "loop")
    /\ \/ /\ requested_transition # "none"
          /\ Goto(requested_transition)
          /\ UNCHANGED runcom_mode
       \/ /\ requested_transition = "none" /\ status = "none"
          /\ Stay("wait")
          /\ UNCHANGED runcom_mode
       \/ /\ requested_transition = "none" /\ status \in {"exit0", "exitN"}
          /\ runcom_mode' = "FASTBOOT"
          /\ Goto("runcom")
       \/ /\ requested_transition = "none" /\ status = "sigkill"
          /\ Stay("exited")
          /\ UNCHANGED runcom_mode
       \/ /\ requested_transition = "none" /\ status \in {"sigterm", "sigother"}
          /\ Goto("single_user")
          /\ UNCHANGED runcom_mode
    /\ LibErrno
    /\ UNCHANGED <<requested_transition, sessvars, clang, child, alarm, ttys>>

(* runcom(): /etc/rc.  A request is not looked at until the script has     *)
(* ended, and then only in one case: rc was killed by reboot(8).           *)
Rebooting == status = "sigterm" /\ requested_transition = "catatonia"

RuncomLoop ==
    /\ At("runcom", "loop")
    /\ \/ /\ status = "none"
          /\ Stay("wait")
          /\ UNCHANGED runcom_mode
       \/ /\ Rebooting
          /\ Stay("quiet")
          /\ UNCHANGED runcom_mode
       \/ /\ status \notin {"none", "exit0"} /\ ~Rebooting
          /\ Goto("single_user")
          /\ UNCHANGED runcom_mode
       \/ /\ status = "exit0"
          /\ runcom_mode' = "AUTOBOOT"
          /\ Goto("read_ttys")
    /\ LibErrno
    /\ UNCHANGED <<requested_transition, sessvars, clang, child, alarm, ttys>>

-----------------------------------------------------------------------------
(* read_ttys(): old sessions are freed, the database is opened afresh and  *)
(* every line that is on gets a session.                                   *)

\* start_session_db(): the old database is closed and a new one is opened, ok
\* or not.  Mutant: only a database that does not exist is opened, and the
\* old one has just been closed.
MutStartSessionDb(ok) == /\ session_db' = [p \in Pid |-> NoDev]
                         /\ db_open' = (ok /\ ~db_open)
start_session_db(ok) == /\ session_db' = [p \in Pid |-> NoDev]
                        /\ db_open' = ok

read_ttys ==
    /\ At("read_ttys", "enter")
    /\ sessions' = {d \in Dev : new_session(d)}
    /\ se_process' = [d \in Dev |-> NoPid]
    /\ se_shutdown' = [d \in Dev |-> FALSE]
    /\ start_session_db(TRUE)
    /\ LibErrno
    /\ Goto("multi_user")
    /\ UNCHANGED <<requested_transition, runcom_mode, clang, child, alarm, ttys>>

\* The database cannot be opened: the old sessions are gone, there are no new
\* ones.
read_ttys_fails ==
    /\ At("read_ttys", "enter")
    /\ sessions' = {}
    /\ se_process' = [d \in Dev |-> NoPid]
    /\ se_shutdown' = [d \in Dev |-> FALSE]
    /\ start_session_db(FALSE)
    /\ errno' = "other"
    /\ Goto("single_user")
    /\ UNCHANGED <<requested_transition, runcom_mode, clang, child, alarm, ttys>>

-----------------------------------------------------------------------------
(* multi_user(): a getty for every session that has no process, then wait. *)

MultiUserEnter ==
    /\ At("multi_user", "enter")
    /\ requested_transition' = "none"
    /\ Stay("start")
    /\ UNCHANGED <<runcom_mode, sessvars, clang, errno, child, alarm, ttys>>

\* The next session of the list that has no process gets one.  The order of
\* the list is left open.
MultiUserStart(d) ==
    /\ At("multi_user", "start")
    /\ d \in sessions /\ se_process[d] = NoPid
    /\ \/ ForkGetty(d, session_db, child) /\ Stay("start")
       \/ ForkGettyFails(d, session_db, child) /\ Stay("loop")
    /\ UNCHANGED <<runcom_mode, sessions, se_shutdown, db_open, clang, alarm,
                   ttys>>

MultiUserStarted ==
    /\ At("multi_user", "start")
    /\ \A d \in sessions : se_process[d] # NoPid
    /\ Stay("loop")
    /\ UNCHANGED <<requested_transition, runcom_mode, sessvars, clang, errno,
                   child, alarm, ttys>>

\* "while (!requested_transition)" of multi_user() and catatonia().
RequestLoop ==
    /\ state \in {"multi_user", "catatonia"} /\ pc = "loop"
    /\ IF requested_transition = "none" THEN Stay("wait")
                                        ELSE Goto(requested_transition)
    /\ UNCHANGED <<requested_transition, runcom_mode, sessvars, clang, errno,
                   child, alarm, ttys>>

-----------------------------------------------------------------------------
(* clean_ttys(): compare the sessions with /etc/ttys.                      *)

\* A line that may not go on: SE_SHUTDOWN is set and its process is sent a
\* hangup.  kill(0, SIGHUP), for a session without a process, reaches init
\* itself.
Retire(d) == d \in sessions /\ ttys[d] \in {"off", "bad"}
HangupSelf == \E d \in Dev : Retire(d) /\ se_process[d] = NoPid

clean_ttys ==
    /\ At("clean_ttys", "enter")
    /\ sessions # {}
    /\ sessions' = sessions \cup {d \in Dev : new_session(d)}
    /\ se_shutdown' = [d \in Dev |-> IF ttys[d] = "on" THEN FALSE
                                     ELSE se_shutdown[d] \/ Retire(d)]
    /\ requested_transition' = IF HangupSelf THEN "clean_ttys"
                                             ELSE requested_transition
    /\ LibErrno
    /\ Goto("multi_user")
    /\ UNCHANGED <<runcom_mode, se_process, session_db, db_open, clang, child,
                   alarm, ttys>>

clean_ttys_none ==
    /\ At("clean_ttys", "enter")
    /\ sessions = {}
    /\ Goto("multi_user")
    /\ UNCHANGED <<requested_transition, runcom_mode, sessvars, clang, errno,
                   child, alarm, ttys>>

-----------------------------------------------------------------------------
(* catatonia(): no new logins.                                             *)

\* Mutants: only sessions that have a process are marked; none is.
MutShutdownBusy == se_shutdown' =
    [d \in Dev |-> se_shutdown[d] \/ (d \in sessions /\ se_process[d] # NoPid)]
MutShutdownNone == UNCHANGED se_shutdown

ShutdownAll == se_shutdown' = [d \in Dev |-> se_shutdown[d] \/ d \in sessions]

CatatoniaEnter ==
    /\ At("catatonia", "enter")
    /\ ShutdownAll
    /\ Stay("clear")
    /\ UNCHANGED <<requested_transition, runcom_mode, sessions, se_process,
                   session_db, db_open, clang, errno, child, alarm, ttys>>

CatatoniaClear ==
    /\ At("catatonia", "clear")
    /\ requested_transition' = "none"
    /\ Stay("loop")
    /\ UNCHANGED <<runcom_mode, sessvars, clang, errno, child, alarm, ttys>>

-----------------------------------------------------------------------------
(* death(): SIGHUP, SIGTERM, SIGKILL to everybody, ten seconds after each  *)
(* to let the processes die.                                               *)

DeathEnter ==
    /\ At("death", "enter")
    /\ ShutdownAll
    /\ LibErrno
    /\ Stay("kill")
    /\ UNCHANGED <<requested_transition, runcom_mode, sessions, se_process,
                   session_db, db_open, clang, child, alarm, ttys>>

\* kill(-1, ...) finds a process if a child is alive: every process descends
\* from init.
DeathKill ==
    /\ At("death", "kill")
    /\ IF \E p \in Pid : Alive(p) THEN Stay("clang") /\ UNCHANGED errno
                                  ELSE Goto("single_user") /\ errno' = "other"
    /\ UNCHANGED <<requested_transition, runcom_mode, sessvars, clang, child,
                   alarm, ttys>>

DeathClang ==
    /\ At("death", "clang")
    /\ clang' = FALSE
    /\ Stay("alarm")
    /\ UNCHANGED <<requested_transition, runcom_mode, sessvars, errno, child,
                   alarm, ttys>>

\* alarm(DEATH_WATCH).  Mutant: one alarm for the three signals.
MutArm == alarm' = (alarm \/ death_i = 0)
Arm == alarm' = TRUE

DeathAlarm ==
    /\ At("death", "alarm")
    /\ Arm
    /\ Stay("wait")
    /\ UNCHANGED <<requested_transition, runcom_mode, sessvars, clang, errno,
                   child, ttys>>

\* Index of the last entry of death_sigs: SIGHUP, SIGTERM, SIGKILL.
MutLastSig == 3
LastSig == 2

\* "while (clang == 0 && errno != ECHILD)", then the next of three signals.
DeathLoop ==
    /\ At("death", "loop")
    /\ \/ /\ errno = "ECHILD" \/ (clang /\ death_i = LastSig)
          /\ Goto("single_user")
       \/ /\ errno # "ECHILD" /\ clang /\ death_i < LastSig
          /\ death_i' = death_i + 1
          /\ pc' = "kill"
          /\ UNCHANGED <<state, shell, status>>
       \/ /\ errno # "ECHILD" /\ ~clang
          /\ Stay("wait")
    /\ UNCHANGED <<requested_transition, runcom_mode, sessvars, clang, errno,
                   child, alarm, ttys>>

-----------------------------------------------------------------------------
(* Signals.  A handler runs between two steps; a blocked waitpid() returns *)
(* with EINTR, to the loop condition of each function.                     *)

\* Mutant: the handlers are installed with SA_RESTART.
MutInterrupt == pc \notin {"quiet", "exited"} /\ UNCHANGED <<pc, errno>>

Interrupt == IF pc = "asleep"
               THEN pc' = "loop" /\ errno' = "other"
               ELSE pc \notin {"quiet", "exited"} /\ UNCHANGED <<pc, errno>>

\* SIGHUP, SIGTERM and SIGTSTP.
transition_handler(s) ==
    /\ requested_transition' = s
    /\ Interrupt
    /\ UNCHANGED <<state, shell, status, death_i, runcom_mode, sessvars, clang,
                   child, alarm, ttys>>

alrm_handler ==
    /\ alarm
    /\ alarm' = FALSE
    /\ clang' = TRUE
    /\ Interrupt
    /\ UNCHANGED <<state, shell, status, death_i, requested_transition,
                   runcom_mode, sessvars, child, ttys>>

-----------------------------------------------------------------------------
(* The rest of the world.                                                  *)

ChildExits(p) ==
    /\ Alive(p)
    /\ child' = [child EXCEPT ![p] = "zombie"]
    /\ UNCHANGED <<control, requested_transition, runcom_mode, sessvars, clang,
                   errno, alarm, ttys>>

\* A grandchild loses its parent and becomes a child of init.
Adopt(p) ==
    /\ child[p] = "free"
    /\ \E q \in Pid : Alive(q)
    /\ child' = [child EXCEPT ![p] = "alive"]
    /\ UNCHANGED <<control, requested_transition, runcom_mode, sessvars, clang,
                   errno, alarm, ttys>>

EditTtys(d, e) ==
    /\ ttys' = [ttys EXCEPT ![d] = e]
    /\ UNCHANGED <<control, requested_transition, runcom_mode, sessvars, clang,
                   errno, child, alarm>>

-----------------------------------------------------------------------------
InitStep ==
    \/ WaitExit \/ WaitShell \/ WaitStopped \/ WaitBlocks \/ WaitNoChild
    \/ ForkShell("single_user", "clear") \/ ForkShell("runcom", "wait")
    \/ ForkShellFails("single_user") \/ ForkShellFails("runcom")
    \/ SingleUserClear \/ SingleUserLoop \/ RuncomLoop
    \/ read_ttys \/ read_ttys_fails
    \/ MultiUserEnter \/ MultiUserStarted \/ RequestLoop
    \/ \E d \in Dev : MultiUserStart(d)
    \/ clean_ttys \/ clean_ttys_none
    \/ CatatoniaEnter \/ CatatoniaClear
    \/ DeathEnter \/ DeathKill \/ DeathClang \/ DeathAlarm \/ DeathLoop

Environment ==
    \/ \E s \in {"clean_ttys", "death", "catatonia"} : transition_handler(s)
    \/ alrm_handler
    \/ \E p \in Pid : ChildExits(p) \/ Adopt(p)
    \/ \E d \in Dev, e \in Entries : EditTtys(d, e)

Next == InitStep \/ Environment

Spec == Init /\ [][Next]_vars

\* init runs whenever it can and a running alarm() expires.  Nothing is
\* assumed of the children: they may run for ever.
FairSpec == Spec /\ WF_vars(InitStep) /\ WF_vars(alrm_handler)

-----------------------------------------------------------------------------
(* Properties.                                                             *)

\* The session database never leads to a freed session: the session found
\* for a process id is in the list and has that process id.  collect_child()
\* follows the pointer it finds without any further test.
NoDangling ==
    \A p \in Pid : session_db[p] # NoDev =>
        /\ db_open
        /\ session_db[p] \in sessions
        /\ se_process[session_db[p]] = p

\* The database is open as long as there are sessions: find_session() and
\* add_session() call through session_db.
DbOpen == sessions # {} => db_open

\* When the machine is, or is on its way, in single-user mode no session is
\* left that collect_child() would start again.
SingleUserQuiesced ==
    \/ state \in {"single_user", "runcom"}
    \/ state \in {"catatonia", "death"} /\ pc # "enter"
    => \A d \in sessions : se_shutdown[d]

\* While init waits in multi_user() with nothing requested, every session has
\* a process: a fork() that failed is never forgotten, whatever signals came.
LinesServed ==
    /\ state = "multi_user" /\ pc \in {"loop", "wait", "asleep"}
    /\ requested_transition = "none"
    => \A d \in sessions : se_process[d] # NoPid

\* death() never waits for children without a clock: until clang is set an
\* alarm is running.
DeathWatched ==
    /\ state = "death" /\ pc \in {"wait", "asleep", "loop"}
    /\ ~clang
    => alarm

\* A getty is started in multi_user() only, never by the reaping of children
\* while the system goes down or is in single-user mode.
GettyOnlyMultiUser ==
    [][\A d \in Dev : se_process'[d] \notin {se_process[d], NoPid}
                         => state = "multi_user"]_vars

\* A request made while init waits in multi_user() or catatonia() is acted
\* upon, provided that no signal falls between the test of
\* requested_transition and waitpid() in these two.
RequestHonoured ==
    [](state \in {"multi_user", "catatonia"} /\ pc = "wait"
          => requested_transition = "none")
    => ((/\ state \in {"multi_user", "catatonia"}
         /\ pc \in {"loop", "wait", "asleep"}
         /\ requested_transition # "none") ~> pc = "enter")

\* death() ends even if no process dies, provided that SIGALRM does not fall
\* between the test of clang and waitpid().
DeathEnds ==
    [](At("death", "wait") => ~clang) => (state = "death" ~> state # "death")

-----------------------------------------------------------------------------
(* What the documentation says and the code does not keep.                 *)

\* "session won't be restarted" (init.c, SE_SHUTDOWN).
ShutdownNotRestarted ==
    [][\A d \in sessions : se_shutdown[d] /\ se_shutdown'[d]
           => se_process'[d] \in {se_process[d], NoPid}]_vars

\* "For any lines that were previously turned off in the ttys file and are
\* now on, init executes a new getty" (init.8, on SIGHUP).
HangupRestoresLines ==
    [][state = "clean_ttys" /\ state' = "multi_user"
           => {d \in Dev : ttys[d] = "on"} \subseteq sessions']_vars

\* "Init will terminate multi-user operations and resume single-user mode if
\* sent a terminate (TERM) signal" (init.8): the request is not thrown away.
TermNotDropped ==
    [][state = "multi_user" /\ requested_transition = "death"
           => requested_transition' # "none"]_vars

\* "will time out after 30 seconds" (init.8).
DeathTimesOut == state = "death" ~> state # "death"

\* "reap for 30 seconds, then go to 1" (NOTES, state 7): while processes are
\* alive death() goes on to its last signal.
DeathThorough ==
    [][state = "death" /\ state' = "single_user" /\ (\E p \in Pid : Alive(p))
           => death_i = LastSig]_vars

\* "init maintains processes for the terminal ports" (init.8): the process a
\* session stands for has not been reaped behind its back.
TrackedUnreaped ==
    \A d \in sessions : se_process[d] # NoPid => child[se_process[d]] # "free"

\* "don't wait for stopped children" (NOTES): a session in which a process is
\* only stopped is not closed.
StoppedNotCollected ==
    [][\A d \in sessions :
          (/\ state \in {"single_user", "runcom"}
           /\ se_process[d] # NoPid /\ child[se_process[d]] = "alive")
          => d \in sessions']_vars
=============================================================================
