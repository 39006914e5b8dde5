--------------------------- MODULE InitProcProofs ---------------------------
(***************************************************************************)
(* The safety properties of InitProc, proved for any set of lines and      *)
(* process ids.                                                            *)
(***************************************************************************)
EXTENDS InitProc, TLAPS

\* The only requests that init can act upon are those of the signal handler
\* and of a failed fork().  The value main() starts with is still there until
\* single_user() or multi_user() clears it, and nobody looks before.
Requests == {"none", "clean_ttys", "death", "catatonia"}

BootRequest ==
    \/ requested_transition \in Requests
    \/ state \in {"runcom", "read_ttys"}
    \/ state \in {"single_user", "multi_user"} /\ pc \in {"enter", "clear"}

USE DEF add_session, del_session, find_session, start_session_db,
        SeriousTrouble, Arm

IInv == TypeOK /\ NoDangling /\ DbOpen /\ BootRequest /\ SingleUserQuiesced
        /\ LinesServed /\ DeathWatched

-----------------------------------------------------------------------------
\* Type correctness of every step.  collect_child() is treated once.

LEMMA CollectType ==
    ASSUME TypeOK, NEW p \in Pid,
           NEW kids \in [Pid -> {"free", "alive", "zombie"}],
           collect_child(p, kids)
    PROVE  /\ sessions' \subseteq Dev
           /\ se_process' \in [Dev -> Pid \cup {NoPid}]
           /\ se_shutdown' \in [Dev -> BOOLEAN]
           /\ session_db' \in [Pid -> Dev \cup {NoDev}]
           /\ db_open' \in BOOLEAN
           /\ child' \in [Pid -> {"free", "alive", "zombie"}]
           /\ requested_transition' \in States \cup {"none"}
           /\ errno' \in {"ECHILD", "other"}
<1>1. CASE CollectStranger(p, kids)
  BY <1>1 DEF CollectStranger, TypeOK, sessvars
<1>2. CASE CollectShutdown(p, kids)
  <2>1. session_db[p] \in Dev
    BY <1>2 DEF CollectShutdown, TypeOK
  <2> QED
    BY <1>2, <2>1 DEF CollectShutdown, TypeOK, LibErrno
<1>3. CASE CollectRestart(p, kids)
  <2> DEFINE d == session_db[p]
             db == [session_db EXCEPT ![p] = NoDev]
  <2>1. d \in Dev /\ db \in [Pid -> Dev \cup {NoDev}]
    BY <1>3 DEF CollectRestart, TypeOK
  <2>2. ForkGetty(d, db, kids) \/ ForkGettyFails(d, db, kids)
    BY <1>3 DEF CollectRestart
  <2>3. UNCHANGED <<sessions, se_shutdown, db_open>>
    BY <1>3 DEF CollectRestart
  <2> HIDE DEF d, db
  <2>4. CASE ForkGetty(d, db, kids)
    BY <2>1, <2>3, <2>4 DEF ForkGetty, TypeOK, LibErrno
  <2>5. CASE ForkGettyFails(d, db, kids)
    BY <2>1, <2>3, <2>5 DEF ForkGettyFails, TypeOK, States
  <2> QED
    BY <2>2, <2>4, <2>5
<1> QED
  BY <1>1, <1>2, <1>3 DEF collect_child

LEMMA StayType ==
    ASSUME TypeOK, NEW l \in Labels, Stay(l)
    PROVE  /\ state' \in States /\ pc' \in Labels
           /\ shell' \in Pid \cup {NoPid} /\ status' \in Statuses
           /\ death_i' \in 0..2
  BY DEF TypeOK, Stay

LEMMA GotoType ==
    ASSUME NEW s \in States, Goto(s)
    PROVE  /\ state' \in States /\ pc' \in Labels
           /\ shell' \in Pid \cup {NoPid} /\ status' \in Statuses
           /\ death_i' \in 0..2
  BY DEF Goto, Labels, Statuses

LEMMA TypeStep == IInv /\ [Next]_vars => TypeOK'
<1> SUFFICES ASSUME IInv, [Next]_vars PROVE TypeOK'
  OBVIOUS
<1> USE DEF IInv
<1>1. CASE WaitExit
  <2>1. PICK p \in Pid : Zombie(p) /\ collect_child(p, Reaped(p))
    BY <1>1 DEF WaitExit
  <2>2. Reaped(p) \in [Pid -> {"free", "alive", "zombie"}]
    BY DEF Reaped, TypeOK
  <2>3. Stay("loop") /\ "loop" \in Labels
    BY <1>1 DEF WaitExit, Labels
  <2> QED
    BY <1>1, <2>1, <2>2, <2>3, CollectType, StayType DEF WaitExit, TypeOK
<1>2. CASE WaitShell
  <2>1. PICK p \in Pid : /\ Zombie(p) /\ collect_child(p, Reaped(p))
                         /\ status' \in IF p = shell THEN Statuses \ {"none"}
                                                      ELSE {status}
    BY <1>2 DEF WaitShell
  <2>2. Reaped(p) \in [Pid -> {"free", "alive", "zombie"}]
    BY DEF Reaped, TypeOK
  <2>3. status' \in Statuses
    BY <2>1 DEF TypeOK
  <2> QED
    BY <1>2, <2>1, <2>2, <2>3, CollectType DEF WaitShell, TypeOK, Labels
<1>3. CASE WaitStopped
  <2>1. PICK p \in Pid : collect_child(p, child)
    BY <1>3 DEF WaitStopped
  <2>2. child \in [Pid -> {"free", "alive", "zombie"}]
    BY DEF TypeOK
  <2>3. Stay("loop") /\ "loop" \in Labels
    BY <1>3 DEF WaitStopped, Labels
  <2> QED
    BY <1>3, <2>1, <2>2, <2>3, CollectType, StayType DEF WaitStopped, TypeOK
<1>4. CASE WaitBlocks
  BY <1>4, StayType DEF WaitBlocks, TypeOK, Labels, sessvars
<1>5. CASE WaitNoChild
  BY <1>5, StayType, GotoType DEF WaitNoChild, TypeOK, Labels, States, sessvars
<1>6. ASSUME NEW s \in {"single_user", "runcom"}, NEW l \in {"clear", "wait"},
             ForkShell(s, l)
      PROVE  TypeOK'
  BY <1>6 DEF ForkShell, TypeOK, Labels, LibErrno, sessvars
<1>7. ASSUME NEW s \in {"single_user", "runcom"}, ForkShellFails(s)
      PROVE  TypeOK'
  <2>1. AllReaped \in [Pid -> {"free", "alive", "zombie"}]
    BY DEF AllReaped, TypeOK
  <2> QED
    BY <1>7, <2>1, GotoType DEF ForkShellFails, TypeOK, States, sessvars
<1>8. CASE SingleUserClear
  BY <1>8, StayType DEF SingleUserClear, TypeOK, Labels, sessvars
<1>9. CASE SingleUserLoop
  <2>1. requested_transition # "none" => requested_transition \in States
    BY DEF TypeOK
  <2> QED
    BY <1>9, <2>1, StayType, GotoType
    DEF SingleUserLoop, TypeOK, Labels, States, LibErrno, sessvars
<1>10. CASE RuncomLoop
  BY <1>10, StayType, GotoType
  DEF RuncomLoop, TypeOK, Labels, States, LibErrno, sessvars
<1>11. CASE read_ttys
  BY <1>11, GotoType DEF read_ttys, TypeOK, States, LibErrno
<1>12. CASE read_ttys_fails
  BY <1>12, GotoType DEF read_ttys_fails, TypeOK, States
<1>13. CASE MultiUserEnter
  BY <1>13, StayType DEF MultiUserEnter, TypeOK, Labels, sessvars
<1>14. ASSUME NEW d \in Dev, MultiUserStart(d) PROVE TypeOK'
  <2>1. CASE ForkGetty(d, session_db, child) /\ Stay("start")
    BY <1>14, <2>1, StayType
    DEF MultiUserStart, ForkGetty, TypeOK, Labels, LibErrno
  <2>2. CASE ForkGettyFails(d, session_db, child) /\ Stay("loop")
    BY <1>14, <2>2, StayType
    DEF MultiUserStart, ForkGettyFails, TypeOK, Labels, States
  <2> QED
    BY <1>14, <2>1, <2>2 DEF MultiUserStart
<1>15. CASE MultiUserStarted
  BY <1>15, StayType DEF MultiUserStarted, TypeOK, Labels, sessvars
<1>16. CASE RequestLoop
  <2>1. requested_transition # "none" => requested_transition \in States
    BY DEF TypeOK
  <2> QED
    BY <1>16, <2>1, StayType, GotoType DEF RequestLoop, TypeOK, Labels, sessvars
<1>17. CASE clean_ttys
  BY <1>17, GotoType DEF clean_ttys, TypeOK, States, LibErrno
<1>18. CASE clean_ttys_none
  BY <1>18, GotoType DEF clean_ttys_none, TypeOK, States, sessvars
<1>19. CASE CatatoniaEnter
  BY <1>19, StayType DEF CatatoniaEnter, ShutdownAll, TypeOK, Labels
<1>20. CASE CatatoniaClear
  BY <1>20, StayType DEF CatatoniaClear, TypeOK, Labels, sessvars
<1>21. CASE DeathEnter
  BY <1>21, StayType DEF DeathEnter, ShutdownAll, TypeOK, Labels, LibErrno
<1>22. CASE DeathKill
  BY <1>22, StayType, GotoType DEF DeathKill, TypeOK, Labels, States, sessvars
<1>23. CASE DeathClang
  BY <1>23, StayType DEF DeathClang, TypeOK, Labels, sessvars
<1>24. CASE DeathAlarm
  BY <1>24, StayType DEF DeathAlarm, TypeOK, Labels, sessvars
<1>25. CASE DeathLoop
  BY <1>25, StayType, GotoType
  DEF DeathLoop, LastSig, TypeOK, Labels, States, sessvars
<1>26. ASSUME NEW s \in {"clean_ttys", "death", "catatonia"},
              transition_handler(s)
       PROVE  TypeOK'
  BY <1>26
  DEF transition_handler, Interrupt, TypeOK, Labels, States, sessvars
<1>27. CASE alrm_handler
  BY <1>27 DEF alrm_handler, Interrupt, TypeOK, Labels, sessvars
<1>28. ASSUME NEW p \in Pid, ChildExits(p) PROVE TypeOK'
  BY <1>28 DEF ChildExits, TypeOK, control, sessvars
<1>29. ASSUME NEW p \in Pid, Adopt(p) PROVE TypeOK'
  BY <1>29 DEF Adopt, TypeOK, control, sessvars
<1>30. ASSUME NEW d \in Dev, NEW e \in Entries, EditTtys(d, e) PROVE TypeOK'
  BY <1>30, EntriesAssumption DEF EditTtys, TypeOK, control, sessvars
<1>31. CASE UNCHANGED vars
  BY <1>31 DEF vars, TypeOK
<1> QED
  BY <1>1, <1>2, <1>3, <1>4, <1>5, <1>6, <1>7, <1>8, <1>9, <1>10, <1>11, <1>12,
     <1>13, <1>14, <1>15, <1>16, <1>17, <1>18, <1>19, <1>20, <1>21, <1>22,
     <1>23, <1>24, <1>25, <1>26, <1>27, <1>28, <1>29, <1>30, <1>31
  DEF Next, InitStep, Environment

-----------------------------------------------------------------------------
\* The session list and its database.

\* collect_child() keeps list and database consistent, whichever process
\* waitpid() returned.
LEMMA CollectSessions ==
    ASSUME TypeOK, NoDangling, DbOpen, NEW p \in Pid,
           NEW kids \in [Pid -> {"free", "alive", "zombie"}],
           collect_child(p, kids)
    PROVE  NoDangling' /\ DbOpen'
<1>1. CASE CollectStranger(p, kids)
  BY <1>1 DEF CollectStranger, NoDangling, DbOpen, sessvars
<1>2. CASE CollectShutdown(p, kids)
  <2>1. session_db[p] \in Dev
    BY <1>2 DEF CollectShutdown, TypeOK
  <2> QED
    BY <1>2, <2>1 DEF CollectShutdown, NoDangling, DbOpen, TypeOK
<1>3. CASE CollectRestart(p, kids)
  <2> DEFINE d == session_db[p]
             db == [session_db EXCEPT ![p] = NoDev]
  <2>1. d \in Dev /\ d \in sessions /\ db_open /\ se_process[d] = p
    BY <1>3 DEF CollectRestart, TypeOK, NoDangling
  <2>2. /\ db \in [Pid -> Dev \cup {NoDev}]
        /\ \A q \in Pid : db[q] # NoDev =>
              /\ db[q] \in sessions /\ db[q] # d /\ se_process[db[q]] = q
    BY <2>1 DEF TypeOK, NoDangling
  <2>3. ForkGetty(d, db, kids) \/ ForkGettyFails(d, db, kids)
    BY <1>3 DEF CollectRestart
  <2>4. UNCHANGED <<sessions, se_shutdown, db_open>>
    BY <1>3 DEF CollectRestart
  <2> HIDE DEF d, db
  <2>5. CASE ForkGetty(d, db, kids)
    BY <2>1, <2>2, <2>4, <2>5 DEF ForkGetty, TypeOK, NoDangling, DbOpen
  <2>6. CASE ForkGettyFails(d, db, kids)
    BY <2>1, <2>2, <2>4, <2>6 DEF ForkGettyFails, TypeOK, NoDangling, DbOpen
  <2> QED
    BY <2>3, <2>5, <2>6
<1> QED
  BY <1>1, <1>2, <1>3 DEF collect_child

\* The steps that touch the session list or the database.
LEMMA SessionFrame ==
    ASSUME [Next]_vars
    PROVE  \/ UNCHANGED <<sessions, se_process, session_db, db_open>>
           \/ WaitExit \/ WaitShell \/ WaitStopped
           \/ read_ttys \/ read_ttys_fails \/ clean_ttys
           \/ \E d \in Dev : MultiUserStart(d)
<1>1. CASE InitStep
  BY <1>1
  DEF InitStep, WaitBlocks, WaitNoChild, ForkShell, ForkShellFails,
      SingleUserClear, SingleUserLoop, RuncomLoop, MultiUserEnter,
      MultiUserStarted, RequestLoop, clean_ttys_none, CatatoniaEnter,
      CatatoniaClear, DeathEnter, DeathKill, DeathClang, DeathAlarm, DeathLoop,
      sessvars
<1>2. CASE Environment
  BY <1>2 DEF Environment, transition_handler, alrm_handler, ChildExits, Adopt,
              EditTtys, sessvars
<1>3. CASE UNCHANGED vars
  BY <1>3 DEF vars
<1> QED
  BY <1>1, <1>2, <1>3 DEF Next

LEMMA SessionStep == IInv /\ [Next]_vars => NoDangling' /\ DbOpen'
<1> SUFFICES ASSUME TypeOK, NoDangling, DbOpen, [Next]_vars
             PROVE  NoDangling' /\ DbOpen'
  BY DEF IInv
<1>1. CASE UNCHANGED <<sessions, se_process, session_db, db_open>>
  BY <1>1 DEF NoDangling, DbOpen
<1>2. CASE WaitExit \/ WaitShell \/ WaitStopped
  <2>1. child \in [Pid -> {"free", "alive", "zombie"}]
    BY DEF TypeOK
  <2>2. \A p \in Pid : Reaped(p) \in [Pid -> {"free", "alive", "zombie"}]
    BY DEF Reaped, TypeOK
  <2>3. PICK p \in Pid, kids \in [Pid -> {"free", "alive", "zombie"}] :
              collect_child(p, kids)
    BY <1>2, <2>1, <2>2 DEF WaitExit, WaitShell, WaitStopped
  <2> QED
    BY <2>3, CollectSessions
<1>3. CASE read_ttys
  BY <1>3 DEF read_ttys, NoDangling, DbOpen
<1>4. CASE read_ttys_fails
  BY <1>4 DEF read_ttys_fails, NoDangling, DbOpen
<1>5. CASE clean_ttys
  BY <1>5 DEF clean_ttys, NoDangling, DbOpen
<1>6. ASSUME NEW d \in Dev, MultiUserStart(d)
      PROVE  NoDangling' /\ DbOpen'
  <2>1. d \in sessions /\ se_process[d] = NoPid /\ db_open
    BY <1>6 DEF MultiUserStart, DbOpen
  <2>2. \A q \in Pid : session_db[q] # d
    BY <2>1, PidAssumption, DevAssumption DEF NoDangling, TypeOK
  <2>3. CASE ForkGetty(d, session_db, child)
    BY <1>6, <2>1, <2>2, <2>3
    DEF MultiUserStart, ForkGetty, TypeOK, NoDangling, DbOpen
  <2>4. CASE ForkGettyFails(d, session_db, child)
    BY <1>6, <2>1, <2>2, <2>4
    DEF MultiUserStart, ForkGettyFails, TypeOK, NoDangling, DbOpen
  <2> QED
    BY <1>6, <2>3, <2>4 DEF MultiUserStart
<1> QED
  BY <1>1, <1>2, <1>3, <1>4, <1>5, <1>6, SessionFrame

-----------------------------------------------------------------------------
\* No login is started on the way down.

\* If every session is shut down collect_child() starts nothing, and the ones
\* that remain stay shut down.
LEMMA CollectQuiesced ==
    ASSUME TypeOK, NoDangling, \A d \in sessions : se_shutdown[d],
           NEW p \in Pid, NEW kids, collect_child(p, kids)
    PROVE  /\ \A d \in sessions' : se_shutdown'[d]
           /\ \A d \in Dev : se_process'[d] \in {se_process[d], NoPid}
           /\ UNCHANGED requested_transition
<1>1. CASE CollectStranger(p, kids)
  BY <1>1 DEF CollectStranger, sessvars
<1>2. CASE CollectShutdown(p, kids)
  BY <1>2 DEF CollectShutdown, TypeOK
<1>3. CASE CollectRestart(p, kids)
  BY <1>3 DEF CollectRestart, NoDangling
<1> QED
  BY <1>1, <1>2, <1>3 DEF collect_child

\* What a request can be after collect_child().
LEMMA CollectRequest ==
    ASSUME NEW p, NEW kids, collect_child(p, kids)
    PROVE  requested_transition' \in {requested_transition, "clean_ttys"}
  BY DEF collect_child, CollectStranger, CollectShutdown, CollectRestart,
         ForkGetty, ForkGettyFails

LEMMA BootStep == IInv /\ [Next]_vars => BootRequest'
<1> SUFFICES ASSUME TypeOK, BootRequest, [Next]_vars PROVE BootRequest'
  BY DEF IInv
<1> USE DEF BootRequest, Requests
<1>1. CASE WaitExit
  BY <1>1, CollectRequest DEF WaitExit, Waiting, Stay
<1>2. CASE WaitShell
  BY <1>2, CollectRequest DEF WaitShell, Waiting
<1>3. CASE WaitStopped
  BY <1>3, CollectRequest DEF WaitStopped, Waiting, Stay
<1>4. CASE WaitBlocks \/ WaitNoChild
  BY <1>4 DEF WaitBlocks, WaitNoChild, Waiting, Stay, Goto
<1>5. CASE \/ ForkShell("single_user", "clear") \/ ForkShell("runcom", "wait")
           \/ ForkShellFails("single_user") \/ ForkShellFails("runcom")
  BY <1>5 DEF ForkShell, ForkShellFails, At, Goto
<1>6. CASE SingleUserClear \/ SingleUserLoop \/ RuncomLoop
  BY <1>6 DEF SingleUserClear, SingleUserLoop, RuncomLoop, At, Stay, Goto
<1>7. CASE read_ttys \/ read_ttys_fails
  BY <1>7 DEF read_ttys, read_ttys_fails, Goto
<1>8. CASE MultiUserEnter \/ MultiUserStarted \/ RequestLoop
  BY <1>8 DEF MultiUserEnter, MultiUserStarted, RequestLoop, At, Stay, Goto
<1>9. ASSUME NEW d \in Dev, MultiUserStart(d) PROVE BootRequest'
  BY <1>9 DEF MultiUserStart, ForkGetty, ForkGettyFails, At, Stay
<1>10. CASE clean_ttys \/ clean_ttys_none
  BY <1>10 DEF clean_ttys, clean_ttys_none, At, Goto
<1>11. CASE CatatoniaEnter \/ CatatoniaClear
  BY <1>11 DEF CatatoniaEnter, CatatoniaClear, At, Stay
<1>12. CASE DeathEnter \/ DeathKill \/ DeathClang \/ DeathAlarm \/ DeathLoop
  BY <1>12 DEF DeathEnter, DeathKill, DeathClang, DeathAlarm, DeathLoop, At,
               Stay, Goto
<1>13. CASE Environment
  BY <1>13 DEF Environment, transition_handler, alrm_handler, Interrupt,
               ChildExits, Adopt, EditTtys, control
<1>14. CASE UNCHANGED vars
  BY <1>14 DEF vars
<1> QED
  BY <1>1, <1>2, <1>3, <1>4, <1>5, <1>6, <1>7, <1>8, <1>9, <1>10, <1>11, <1>12,
     <1>13, <1>14 DEF Next, InitStep

\* The sessions that must be shut down, and where.
GoingDown ==
    \/ state \in {"single_user", "runcom"}
    \/ state \in {"catatonia", "death"} /\ pc # "enter"

LEMMA QuiescedStep == IInv /\ [Next]_vars => SingleUserQuiesced'
<1> SUFFICES ASSUME TypeOK, NoDangling, BootRequest, SingleUserQuiesced,
                    [Next]_vars, GoingDown'
             PROVE  \A d \in sessions' : se_shutdown'[d]
  BY DEF IInv, SingleUserQuiesced, GoingDown
<1> DEFINE Down == \A d \in sessions : se_shutdown[d]
<1>0. GoingDown => Down
  BY DEF SingleUserQuiesced, GoingDown
<1> HIDE DEF Down
<1>1. CASE WaitExit \/ WaitShell \/ WaitStopped
  <2>1. GoingDown
    BY <1>1 DEF WaitExit, WaitShell, WaitStopped, Waiting, Stay, GoingDown
  <2>2. PICK p \in Pid : \E kids : collect_child(p, kids)
    BY <1>1 DEF WaitExit, WaitShell, WaitStopped
  <2> QED
    BY <1>0, <2>1, <2>2, CollectQuiesced DEF Down
<1>2. CASE WaitBlocks \/ WaitNoChild
  BY <1>0, <1>2
  DEF WaitBlocks, WaitNoChild, Waiting, Stay, Goto, GoingDown, Down, sessvars
<1>3. CASE \/ ForkShell("single_user", "clear") \/ ForkShell("runcom", "wait")
           \/ ForkShellFails("single_user") \/ ForkShellFails("runcom")
  BY <1>0, <1>3
  DEF ForkShell, ForkShellFails, At, Goto, GoingDown, Down, sessvars
<1>4. CASE SingleUserClear \/ SingleUserLoop \/ RuncomLoop
  BY <1>0, <1>4 DEF SingleUserClear, SingleUserLoop, RuncomLoop, At, GoingDown,
                    Down, sessvars
<1>5. CASE read_ttys \/ read_ttys_fails
  BY <1>5 DEF read_ttys, read_ttys_fails, Goto, GoingDown
<1>6. CASE MultiUserEnter \/ MultiUserStarted
  BY <1>6 DEF MultiUserEnter, MultiUserStarted, At, Stay, GoingDown
<1>7. CASE RequestLoop
  <2>1. requested_transition \in Requests
    BY <1>7 DEF RequestLoop, BootRequest
  <2> QED
    BY <1>0, <1>7, <2>1
    DEF RequestLoop, Requests, Stay, Goto, GoingDown, Down, sessvars
<1>8. ASSUME NEW d \in Dev, MultiUserStart(d) PROVE FALSE
  BY <1>8 DEF MultiUserStart, At, Stay, GoingDown
<1>9. CASE clean_ttys \/ clean_ttys_none
  BY <1>9 DEF clean_ttys, clean_ttys_none, Goto, GoingDown
<1>10. CASE CatatoniaEnter \/ DeathEnter
  BY <1>10 DEF CatatoniaEnter, DeathEnter, ShutdownAll, TypeOK
<1>11. CASE CatatoniaClear \/ DeathKill \/ DeathClang \/ DeathAlarm \/ DeathLoop
  BY <1>0, <1>11 DEF CatatoniaClear, DeathKill, DeathClang, DeathAlarm,
                     DeathLoop, At, GoingDown, Down, sessvars
<1>12. CASE Environment
  BY <1>0, <1>12
  DEF Environment, transition_handler, alrm_handler, Interrupt, ChildExits,
      Adopt, EditTtys, control, GoingDown, Down, sessvars
<1>13. CASE UNCHANGED vars
  BY <1>0, <1>13 DEF vars, GoingDown, Down
<1> QED
  BY <1>1, <1>2, <1>3, <1>4, <1>5, <1>6, <1>7, <1>8, <1>9, <1>10, <1>11, <1>12,
     <1>13 DEF Next, InitStep

-----------------------------------------------------------------------------
\* Every line has its process.

LEMMA CollectServed ==
    ASSUME TypeOK, NoDangling, \A d \in sessions : se_process[d] # NoPid,
           NEW p \in Pid, NEW kids, collect_child(p, kids),
           requested_transition' = "none"
    PROVE  \A d \in sessions' : se_process'[d] # NoPid
<1>1. CASE CollectStranger(p, kids)
  BY <1>1 DEF CollectStranger, sessvars
<1>2. CASE CollectShutdown(p, kids)
  BY <1>2 DEF CollectShutdown, TypeOK
<1>3. CASE CollectRestart(p, kids)
  BY <1>3, PidAssumption DEF CollectRestart, ForkGetty, ForkGettyFails, TypeOK
<1> QED
  BY <1>1, <1>2, <1>3 DEF collect_child

LEMMA ServedStep == IInv /\ [Next]_vars => LinesServed'
<1> DEFINE InLoop == state = "multi_user" /\ pc \in {"loop", "wait", "asleep"}
           Served == \A d \in sessions : se_process[d] # NoPid
<1> SUFFICES ASSUME TypeOK, NoDangling, LinesServed, [Next]_vars,
                    InLoop', requested_transition' = "none"
             PROVE  Served'
  BY DEF IInv, LinesServed
<1>0. InLoop /\ requested_transition = "none" => Served
  BY DEF LinesServed
<1> HIDE DEF Served
<1>1. CASE WaitExit \/ WaitShell \/ WaitStopped
  <2>1. PICK p \in Pid : \E kids : collect_child(p, kids)
    BY <1>1 DEF WaitExit, WaitShell, WaitStopped
  <2>2. requested_transition = "none"
    BY <2>1, CollectRequest
  <2>3. InLoop
    BY <1>1 DEF WaitExit, WaitShell, WaitStopped, Waiting, Stay
  <2> QED
    BY <1>0, <2>1, <2>2, <2>3, CollectServed DEF Served
<1>2. CASE WaitBlocks \/ WaitNoChild
  BY <1>0, <1>2 DEF WaitBlocks, WaitNoChild, Waiting, Stay, Goto, Served,
                    sessvars
<1>3. CASE \/ ForkShell("single_user", "clear") \/ ForkShell("runcom", "wait")
           \/ ForkShellFails("single_user") \/ ForkShellFails("runcom")
  BY <1>3 DEF ForkShell, ForkShellFails, At, Goto
<1>4. CASE SingleUserClear \/ SingleUserLoop \/ RuncomLoop
  BY <1>4 DEF SingleUserClear, SingleUserLoop, RuncomLoop, At, Stay, Goto
<1>5. CASE read_ttys \/ read_ttys_fails \/ MultiUserEnter
  BY <1>5 DEF read_ttys, read_ttys_fails, MultiUserEnter, Stay, Goto
<1>6. CASE MultiUserStarted
  BY <1>6 DEF MultiUserStarted, Served, sessvars
<1>7. CASE RequestLoop
  BY <1>0, <1>7 DEF RequestLoop, Stay, Goto, Served, sessvars
<1>8. ASSUME NEW d \in Dev, MultiUserStart(d) PROVE FALSE
  BY <1>8 DEF MultiUserStart, ForkGettyFails, Stay
<1>9. CASE clean_ttys \/ clean_ttys_none
  BY <1>9 DEF clean_ttys, clean_ttys_none, Goto
<1>10. CASE CatatoniaEnter \/ CatatoniaClear \/ DeathEnter \/ DeathKill
            \/ DeathClang \/ DeathAlarm \/ DeathLoop
  BY <1>10 DEF CatatoniaEnter, CatatoniaClear, DeathEnter, DeathKill,
               DeathClang, DeathAlarm, DeathLoop, At, Stay, Goto
<1>11. CASE Environment
  BY <1>0, <1>11
  DEF Environment, transition_handler, alrm_handler, Interrupt, ChildExits,
      Adopt, EditTtys, control, Served, sessvars
<1>12. CASE UNCHANGED vars
  BY <1>0, <1>12 DEF vars, Served
<1> QED
  BY <1>1, <1>2, <1>3, <1>4, <1>5, <1>6, <1>7, <1>8, <1>9, <1>10, <1>11, <1>12
  DEF Next, InitStep

-----------------------------------------------------------------------------
\* The clock of death().

LEMMA WatchedStep == IInv /\ [Next]_vars => DeathWatched'
<1> DEFINE InWait == state = "death" /\ pc \in {"wait", "asleep", "loop"}
<1> SUFFICES ASSUME DeathWatched, [Next]_vars, InWait', ~clang'
             PROVE  alarm'
  BY DEF IInv, DeathWatched
<1>0. InWait /\ ~clang => alarm
  BY DEF DeathWatched
<1>1. CASE WaitExit \/ WaitShell \/ WaitStopped \/ WaitBlocks \/ WaitNoChild
  BY <1>0, <1>1 DEF WaitExit, WaitShell, WaitStopped, WaitBlocks, WaitNoChild,
                    Waiting, Stay, Goto
<1>2. CASE DeathLoop
  BY <1>0, <1>2 DEF DeathLoop, At, Stay, Goto
<1>3. CASE DeathAlarm
  BY <1>3 DEF DeathAlarm
<1>4. CASE DeathEnter \/ DeathKill \/ DeathClang
  BY <1>4 DEF DeathEnter, DeathKill, DeathClang, Stay, Goto
<1>5. CASE \/ ForkShell("single_user", "clear") \/ ForkShell("runcom", "wait")
           \/ ForkShellFails("single_user") \/ ForkShellFails("runcom")
  BY <1>5 DEF ForkShell, ForkShellFails, At, Goto
<1>6. CASE SingleUserClear \/ SingleUserLoop \/ RuncomLoop \/ RequestLoop
  BY <1>6 DEF SingleUserClear, SingleUserLoop, RuncomLoop, RequestLoop, At,
              Stay, Goto
<1>7. CASE \/ read_ttys \/ read_ttys_fails \/ MultiUserEnter
           \/ MultiUserStarted \/ clean_ttys \/ clean_ttys_none
           \/ CatatoniaEnter \/ CatatoniaClear
           \/ \E d \in Dev : MultiUserStart(d)
  BY <1>7 DEF read_ttys, read_ttys_fails, MultiUserEnter, MultiUserStarted,
              clean_ttys, clean_ttys_none, CatatoniaEnter, CatatoniaClear,
              MultiUserStart, At, Stay, Goto
<1>8. CASE Environment
  BY <1>0, <1>8 DEF Environment, transition_handler, alrm_handler, Interrupt,
                    ChildExits, Adopt, EditTtys, control
<1>9. CASE UNCHANGED vars
  BY <1>0, <1>9 DEF vars
<1> QED
  BY <1>1, <1>2, <1>3, <1>4, <1>5, <1>6, <1>7, <1>8, <1>9 DEF Next, InitStep

-----------------------------------------------------------------------------
LEMMA InitIInv == Init => IInv
<1> SUFFICES ASSUME Init PROVE IInv
  OBVIOUS
<1>1. TypeOK
  <2>1. ttys \in [Dev -> TtyEntry]
    BY EntriesAssumption DEF Init
  <2>2. /\ se_process \in [Dev -> Pid \cup {NoPid}]
        /\ session_db \in [Pid -> Dev \cup {NoDev}]
        /\ child \in [Pid -> {"free", "alive", "zombie"}]
    BY DEF Init
  <2>3. se_shutdown \in [Dev -> BOOLEAN]
    BY DEF Init
  <2>4. clang \in BOOLEAN /\ db_open \in BOOLEAN /\ alarm \in BOOLEAN
    BY DEF Init
  <2>5. /\ state \in States /\ pc \in Labels /\ status \in Statuses
        /\ requested_transition \in States \cup {"none"}
        /\ errno \in {"ECHILD", "other"} /\ death_i \in 0..2
    BY DEF Init, States, Labels, Statuses
  <2>6. /\ sessions \subseteq Dev /\ shell \in Pid \cup {NoPid}
        /\ runcom_mode \in {"AUTOBOOT", "FASTBOOT"}
    BY DEF Init
  <2> QED
    BY <2>1, <2>2, <2>3, <2>4, <2>5, <2>6 DEF TypeOK
<1>2. NoDangling /\ DbOpen /\ SingleUserQuiesced /\ LinesServed /\ DeathWatched
  BY DEF Init, NoDangling, DbOpen, SingleUserQuiesced, LinesServed, DeathWatched
<1>3. BootRequest
  BY DEF Init, BootRequest, Requests
<1> QED
  BY <1>1, <1>2, <1>3 DEF IInv

\* The inductive invariant of init.
THEOREM Inductive == Spec => []IInv
<1>1. IInv /\ [Next]_vars => IInv'
  BY TypeStep, SessionStep, BootStep, QuiescedStep, ServedStep, WatchedStep
  DEF IInv
<1> QED
  BY InitIInv, <1>1, PTL DEF Spec

\* Every variable keeps its type.
THEOREM TypeCorrect == Spec => []TypeOK
<1>1. IInv => TypeOK
  BY DEF IInv
<1> QED
  BY Inductive, <1>1, PTL

\* collect_child() never follows a pointer to a freed session: what the
\* database finds for a process id is a session of the list, or nothing.
THEOREM DatabaseSound == Spec => []NoDangling
<1>1. IInv => NoDangling
  BY DEF IInv
<1> QED
  BY Inductive, <1>1, PTL

\* find_session() and add_session() call through session_db, which is open
\* as long as there are sessions.
THEOREM DatabaseOpen == Spec => []DbOpen
<1>1. IInv => DbOpen
  BY DEF IInv
<1> QED
  BY Inductive, <1>1, PTL

\* In single-user mode, and on the way to it, every session is shut down.
THEOREM Quiesced == Spec => []SingleUserQuiesced
<1>1. IInv => SingleUserQuiesced
  BY DEF IInv
<1> QED
  BY Inductive, <1>1, PTL

\* multi_user() never settles down to wait while a line has no process.
THEOREM Served == Spec => []LinesServed
<1>1. IInv => LinesServed
  BY DEF IInv
<1> QED
  BY Inductive, <1>1, PTL

\* death() never waits without a running alarm or clang.
THEOREM Watched == Spec => []DeathWatched
<1>1. IInv => DeathWatched
  BY DEF IInv
<1> QED
  BY Inductive, <1>1, PTL

\* A getty is started in multi_user() only: collect_child() can be reached
\* from the wait loops of five states, and in four of them all sessions are
\* shut down.
THEOREM NoLateGetty == Spec => GettyOnlyMultiUser
<1> DEFINE A == \A d \in Dev : se_process'[d] \notin {se_process[d], NoPid}
                                 => state = "multi_user"
<1>1. IInv /\ [Next]_vars => [A]_vars
  <2> SUFFICES ASSUME IInv, [Next]_vars PROVE A
    OBVIOUS
  <2>1. CASE UNCHANGED <<sessions, se_process, session_db, db_open>>
    BY <2>1
  <2>2. CASE WaitExit \/ WaitShell \/ WaitStopped
    <3> SUFFICES ASSUME state # "multi_user" PROVE A
      OBVIOUS
    <3>1. \A d \in sessions : se_shutdown[d]
      BY <2>2 DEF IInv, SingleUserQuiesced, WaitExit, WaitShell, WaitStopped,
                  Waiting
    <3>2. PICK p \in Pid : \E kids : collect_child(p, kids)
      BY <2>2 DEF WaitExit, WaitShell, WaitStopped
    <3> QED
      BY <3>1, <3>2, CollectQuiesced DEF IInv
  <2>3. CASE read_ttys \/ read_ttys_fails \/ clean_ttys
    BY <2>3 DEF read_ttys, read_ttys_fails, clean_ttys
  <2>4. ASSUME NEW d \in Dev, MultiUserStart(d) PROVE A
    BY <2>4 DEF MultiUserStart, At
  <2> QED
    BY <2>1, <2>2, <2>3, <2>4, SessionFrame
<1> QED
  BY Inductive, <1>1, PTL DEF Spec, GettyOnlyMultiUser
=============================================================================
