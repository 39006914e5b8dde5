# TLA+ models of BSD/OS 2.0 system programs

The repository is the source of BSD/OS 2.0.  The kernel (`sys`), `usr.bin`,
`usr.sbin` and part of `sbin` are only there as compressed files; what can be
read and modelled line by line are the daemons and programs of `bin`, `sbin`,
`libexec` and the libraries.  Among those, this project takes the programs whose
correctness depends on the order of events: signals against system calls,
processes against each other, packets against timers.

## Inventory

| component | state | operations | interacts through | what is hard |
|---|---|---|---|---|
| init (`sbin/init/init.c`) | state function, `requested_transition`, session list and database, `clang`, `errno` | seven state functions, `collect_child`, `start_getty`, three transition signals, `SIGALRM` | `fork`, `waitpid`, `kill`, `alarm`, `/etc/ttys` | a handler may run between any two statements; fork may fail; children die at any time |
| tftpd transfer (`libexec/tftpd/tftpd.c`) | block number, time waited, two buffers | `sendfile`, `recvfile`, `timer`, `nak` | datagrams | loss, duplication, reordering; retransmission; 16-bit block numbers |
| dump tape side (`sbin/dump/tape.c`) | blocks of each slave, `slp`, `firstrec`, `ready`/`caught`, the volume, the checkpoint | `writerec`, `flushtape`, `trewind`, `rollforward`, `startnewtape`, `enslave`, `doslave`, `proceed`, `sig` | socket pairs, `SIGUSR2`, the shared tape, `fork` | a token ring of signals; end of tape noticed late; restart from a checkpoint |
| tftpd request acceptance | request, fork counter | `main`, `tftp`, `validate_access` | inetd's socket | retry loop that overwrites its own counter |
| mailbox (`libexec/mail.local`, `libexec/popper`) | mailbox, temporary maildrop, two `flock` locks, message list and delete flags | `deliver`; `pop_dropcopy`, `pop_dropinfo`, DELE, RSET, `pop_updt` | the two files and their locks | two programs move the same mail; each call may fail, a server may be killed between two of them |
| RPC over UDP (`lib/librpc/rpc/clnt_udp.c`, `svc_udp.c`, `svc.c`) | transaction id, time waited, refreshes; reply cache with chains, fifo and traded buffers | `clntudp_call`; `svcudp_recv`, `svcudp_reply`, `cache_get`, `cache_set`, `svcudp_enablecache` | datagrams | late and repeated replies, retransmission, aliased buffers, a cache that compares with saved fields |
| telnetd options (`libexec/telnetd/state.c`, `telnetd.c`) | per option: state, wanted state, answers outstanding, for both directions | `send_do` ... `send_wont`, `willoption`, `wontoption`, `dooption`, `dontoption`, the DO ECHO of the start | the peer's negotiation | requests that cross, counters, negotiation without end |
| libc db buffer pool (`lib/libc/db/mpool/mpool.c`) | lru chain, pins, dirty flags, `curcache`, `npages`, the file | `mpool_new`, `mpool_get`, `mpool_put`, `mpool_sync`, `mpool_close` | the btree and recno layers, which hold pages | eviction of pinned or dirty pages, writes that fail half way, filters that convert in place |
| XNS routing (`sbin/XNSrouted`) | table of routes with metric, timer and gateway; interfaces; the kernel's routes | `timer`, `process`, `rip_input`, `supply`, `hup`, `ifinit`, `addrouteforif` | broadcasts to other hosts and to itself; the kernel | routes learned in a circle, unsynchronized timers, interfaces that fail and recover, a signal between two system calls |
| talkd (`libexec/talkd`) | invitation table | insert, find, delete, age | requests of two talkers | expiry, retried requests |
| sh jobs (`bin/sh/jobs.c`) | job table | fork, wait, job control | `SIGCHLD` | stale job entries |
| libc malloc, sorts | free lists; none | `malloc`, `free`, `realloc`; `qsort`, `radixsort` | - | boundary sizes |

The correctness properties aimed at are: init serves every line that is on, never
follows a freed session, and finishes every transition; a tftp transfer is a
copy of the file or a failure, and ends; dump loses no record whatever the tape
does, its slaves never write at the same time, and never wait for each other for
ever; mail is neither lost nor reordered, whoever has it at the moment, and only what
the client has deleted leaves; a remote call that succeeds has the result of that very
call; two telnet ends stop negotiating and agree; a buffer pool is an array of pages
that survives once it was synced; routing tables become exact when failures end, and
never promise a shorter way than there is.  The list of hazards, each with its line and the properties about it, is in
`PROJECT.json`.

## Modules

    InitProc        sbin/init/init.c           MCInitProc      instances for TLC
                                               InitProcProofs  theorems
    FileCopy        what a transfer promises
    Tftp            libexec/tftpd/tftpd.c      LibexecProofs   theorems
    DumpTape        sbin/dump/tape.c           DumpTapeProofs  theorems
    MailDrop        what a user's mail promises
    PopMail         libexec/mail.local, libexec/popper
                                               PopMailProofs   theorems
    RemoteCall      what a call promises
    RpcUdp          lib/librpc/rpc             MCRpcUdp        instances for TLC
                                               RpcUdpProofs    theorems
    TelnetOpt       libexec/telnetd            LibexecProofs   theorems
    PageStore       what a pool of pages promises
    Mpool           lib/libc/db/mpool/mpool.c  MpoolProofs     theorems
    XnsRouted       sbin/XNSrouted             MCXnsRouted     instance for TLC
                                               XnsRoutedProofs theorems
    Positions       members of a set in order  PositionsProofs induction, recursion

`PopMail` composes two programs that share files and implements `MailDrop`; `RpcUdp`
composes clients, network and server and implements `RemoteCall`, its liveness
included; `Mpool` implements `PageStore`.  `Positions` is a helper of
`MailDrop`, `PopMail` and `XnsRouted`.
`Tftp` composes the two loops and the network and implements `FileCopy`
(`FC == INSTANCE FileCopy WITH ...`).  `Tftp`, `DumpTape`,
`PopMail`, `TelnetOpt` and `Mpool` are checked directly: their constants are numbers,
truth values or sets of model values.

### InitProc

`state` and `pc` say which state function `transition()` runs and where in it.  A
function is cut into steps wherever a handler could make a difference: around the
reads and writes of `requested_transition`, `clang` and `errno` and around
`waitpid()`.  `sessions`, `se_process`, `se_shutdown` are the session list,
`session_db` and `db_open` the database.  `transition_handler` and `alrm_handler` are
the signal handlers; a `waitpid()` that blocks is the position `asleep`, from which
`Interrupt` returns it with EINTR.  `collect_child` and the two outcomes of
`start_getty`'s fork (`ForkGetty`, `ForkGettyFails`) are operators used by the wait
loops and by `multi_user`.  Children, the kernel's process table and the edits of
`/etc/ttys` are the environment.  Process ids are reused.  `Init` is the first call of
`transition()`: the state `main()` has chosen, or the one a signal has asked for that was
handled after `main()` had installed the handlers.

`RequestHonoured` is about the two state functions that wait for nothing but a request.
Its premise leaves out the window of `init.c:1190` (a handler that runs after the test and
before `waitpid()`) in `multi_user()` and `catatonia()` only; the other wait loops are free to
wait with a request stored, as they do at every boot, where `requested_transition` still
has its initial value.  A request cleared at the entry of `multi_user()` (`init.c:1174`) is
not covered by it: it is lost, as `TermNotDropped` among the claims refuted shows.

Left out: the spacing of gettys in time, utmp/wtmp records (their calls only may
disturb `errno`, see `LibErrno`), the security level, and the handlers for fatal
signals, which sleep and exit.

### Tftp

`s_*` is `sendfile()`, `r_*` is `recvfile()`; the two sides of a transfer run the same
loops, one in the daemon, one in the client.  `toRecv` and `toSend` are sets of
packets; a packet may be lost (`LosePacket`), stay after it was read (`Left`, at most
`MaxDup` times) or be thrown away by `synchnet()`.  A block number is an `int` in the
programs and goes over the wire as 16 bits that are read back as a signed `short`
(`Wire`, `Short`); `Half` is 2^15 there.  `size` is the number of chunks of the file, any of `Sizes`.  `accepted`, `pending` and `disk` follow a chunk
from `writeit()` through the write-behind buffer to the file.  The buffer layer
`tftpsubs.c` is not part of the readable source and is modelled from its use.
`ClientError` is the one step no code here takes: another client of the protocol may
send an ERROR packet, which `sendfile()` handles (`SenderError`).

### DumpTape

The master is `mpc` (`gen`: the traversal hands over records; `flush`, `collect`,
`drain`: inside `flushtape()`; `trewind`, `closing`: inside `trewind()`; `newtape`:
`startnewtape()`; `roll`, `clear`: `rollforward()`).  A slave is `spc`, cut into steps
between `setjmp()` and the end of its turn since SIGUSR2 may come anywhere there.
Records are numbers, a volume header is 0; `block[s]` is the master's copy of the
requests of slave s, `buffer[s]` what the slave has read, `vols` the volumes.  A write
puts m records on the tape and is reported as full or short; a drive that has left a
block incomplete takes nothing more unless `SoftEot`.  `checkpoint` is the context of
the parent process; `sig` is a SIGHUP to the master, after which the volume is
written again from that context.  Tape write and reply are one step (only the slave
that has the turn looks at either); the replies collected by `trewind()` are taken
together, as are the blocks sent by `rollforward()` (reading or sending one does not
affect another slave's).

`MinBlocks >= SLAVES` is a real precondition: `rollforward()` sends shifted copies but
leaves the old blocks in the buffers, so an end of tape among the first SLAVES blocks
of a volume would replay the wrong ones (with `MinBlocks = 1`, TLC finds `Seamless`
violated).  The code checks only the first of them.  `Complete` is stated of some volume, since
the last one may be empty when the dump ends with the block that filled the one before.

### PopMail

A file is the sequence of its messages; `mbox` is the mailbox, `temp` the temporary
maildrop that popper keeps beside it, `mlock` and `tlock` are their `flock(2)` locks.
`dpc[m]` is the mail.local process that delivers m, from `lstat()` to `close()`, `spc[s]` a
popper process: `auth` (up to the password), `flock`, `copy`, `info` (`pop_dropcopy()` and
`pop_dropinfo()`), `trans` (commands), `reflock`, `append`, `return`, `close` (`pop_updt()`).
A loop over `read()` and `write()` moves one message per step, so a failure or `Kill` may
come after any of them.  The lock of the mailbox is waited for, that of the temporary
maildrop is not.  A failed `flock()` on the mailbox leaves the temporary maildrop locked
until the process ends (`LockDropFails`), as in the code.  Failures that leave no trace
(a busy maildrop, an unknown message number) are no steps.

`linked` says whether the file of the mailbox has a second name, which somebody else may
make or remove at any time (`Link`).  A mailbox that `lstat()` finds linked is refused with an
error status.  One that is found linked only after `open()` (`OpenMailbox`) is refused too, but
that branch of `deliver()` does not call `e_to_sys()`, so mail.local ends in `changed`: status 0
and nothing delivered.  `MailDrop` has a step of its own for it (`Mislay`), possible only while
the file has a second name, and the run `mail_exit` shows that it happens.  A mailbox that is
replaced by another file or a symbolic link between the two calls takes the same branch; it
is not modelled, since it would be another mailbox.  `fstat()` of the descriptor just opened is taken to
succeed.  So is `ftruncate()`, whose result neither program looks at (`mail.local.c:303`,
`pop_dropcopy.c:141` and `146`, `pop_updt.c`): if it failed, a message that was reported as not
delivered would stay, or mail would be in both places although nobody was killed.

The refinement mapping (`Mail`) is the temporary maildrop, without a copy that is not
complete, followed by the mailbox, without what has been put back already and without a
message that is not yet on disk.  A popper that dies may leave mail in both places:
`MailDrop` allows the death of a POP server to repeat messages, and nothing else.  A
mail.local is never killed in the model.

### RpcUdp

A call is a client and a number; `status` and `result` say what became of it and whose
result it got.  `requests` and `replies` are the datagrams sent; any of them may arrive at
any later time, again and again, or never.  A transaction id is `n * Half + Base[c]`: the
16 bits that `clntudp_call()` increments and the 16 that stay as `clntudp_bufcreate()` made
them.  `uc` is the cache: `fifo` (nodes by slot), `entries` (chains of slots), `nextvictim` and
`addr`, the fields that the last miss has saved.  `mem` is what the buffers hold and
`rbuf` which of them the transport uses, so that the exchange of buffers in `cache_set()`
is in the model.  `Serve` is one round of `svc_getreqset()`: the server has one thread.
A server that dies (`Restart`) has no cache until `svcudp_enablecache()`.

### TelnetOpt

The half of one end that asks (`his_state`, `his_want_state`, `do_dont_resp`) and the half of
the other that performs (`my_state`, `my_want_state`, `will_wont_resp`) talk over two channels
that lose nothing (TCP).  `RespLeft`, `Ask`, `Unasked` and `TurnOff` are what the four
routines have in common; `WillOption` ... `DontOption` are the routines with the special
cases of ECHO, SGA and TM.  The option and whether the two ends accept it (`changeok`)
are chosen at the start.  For ECHO the start of telnetd is included: DO ECHO, then DO
NAWS, whose answer tells that DO ECHO has been seen, then the simulated WILL ECHO.
Both ends ask only for what they would accept when asked, as telnetd does: an end that
refuses an option and later offers it itself can end in disagreement for good, since
its refusal is counted and never acknowledged.

### Mpool

`lru` is the chain of buffers with their page number, pin, dirty flag and contents;
`curcache - Len(lru)` buffers are lost.  `Bkt` is the set of outcomes of `mpool_bkt()`: a
new buffer, no memory, the least recently used buffer that is not pinned, or a write
that failed and may have torn the page of the file or left a hole.  `held` and `touched`
are the obligations of the user, who changes a page only while he holds it and returns
it with MPOOL_DIRTY.  `Place` is the 32-bit product `pagesize * pgno`, `Swap` the filters.

### XnsRouted

`routes[h][n]` is what host h has on network n: the entry of the daemon (`rt`: gateway,
metric, timer, RTS_INTERFACE) and the gateway of the kernel's route (`kern`).  `rtadd`,
`rtchange`, `rtdelete` and `addrouteforif` work on one of these; `Aged` is the body of the
loop of `timer()`, `Learn` that of `rip_input()`.  A gateway is an address: a host on a network.
A broadcast goes into the socket queue of every host whose interface on the network
works, the sender's included.  `ticked` cuts time into rounds of TIMER_RATE: the timers of
different hosts go off in any order, which may change from round to round, but none
twice before another once, and packets are read before the next round.  The buffer
`packet` is shared by `recvfrom()` and `supply()`: `Interrupted` is `process()` with
`timer()` between its `recvfrom()` and `sigblock()`; it takes the host's own table for that of
the sender, as many entries as the packet had.  Since SUPPLY_INTERVAL equals TIMER_RATE a
supplier broadcasts its whole table at every `timer()` and the code for single changes is
never reached.  The kernel refuses a route for a network that has one.

## Runs

Passing:

| run | instance | shows |
|---|---|---|
| `init_safety` | 2 lines, 2 pids, entries on/off/bad | `NoDangling`, `DbOpen`: the database never leads to a freed session; `LinesServed`: a failed fork is never forgotten; `GettyOnlyMultiUser`; `SingleUserQuiesced`; `DeathWatched` |
| `init_live` | 1 line, 2 pids, entries on/absent, `FairSpec` | `RequestHonoured` (a request made in `multi_user()` or `catatonia()` is acted upon), `DeathEnds`, each outside its window before `waitpid()` |
| `tftp_transfer` | files of 1 to 3 chunks, `Half` 3, 2 tries, 2 duplicates, `FairSpec` | `Copies` (refinement of `FileCopy`), `DiskOrdered`, `Terminates`; `ShortLimit`: a file that needs block number 2^15 stops there |
| `dump_volumes` | 3 slaves, blocks of 2, 14 records, up to 3 volumes, 1 SIGHUP, `FairSpec` | `OneTurn`, `NotMissed`, `Seamless`, `Complete`, `Terminates` |
| `mail` | 2 deliveries, 2 POP sessions, 1 popper killed, a second name of the mailbox that comes and goes, `FairSpec` | `KeepsMail` (refinement of `MailDrop`); `ListStable`: the numbers a client was told keep their meaning; `DeliveryEnds`: no delivery waits for a client; exclusion by the locks (in `TypeOK`) |
| `rpc` | 1 client, 2 calls, 1 retransmission and 1 refresh each, cache of 2 entries, restarts | `CallsAnswered` (refinement of `RemoteCall` with its liveness), `CacheSound`, `NodesAnswer` |
| `telnet` | ECHO, SGA, TM or another option, accepted or not, 5 requests of each end, `FairSpec` | `Agreement`, `Consent`, `Counted`, `Quiesces` |
| `mpool` | 3 pages, 2 values, cache of 2, 1 lost buffer | `KeepsPages` (refinement of `PageStore`), `HeldPinned`, `CleanIsStored`, no deadlock |
| `xns_routing` | 2 hosts join 3 networks in a row, `Infinity` 4, the code's EXPIRE_TIME and GARBAGE_TIME, interfaces looked at in every round (CHECK_INTERVAL is ten), 1 fault, `FairSpec` | `NeverShorter`, `InterfaceOwn`, `NoFalseExpiry`, `KernelFollows`, `Converges` |

The types of the variables are part of `Counted`, `HeldPinned` and `InterfaceOwn` in the last
three.

Disagreements between the code and its documentation or comments, each shown by a
run that ends in a counterexample:

| run | property | the code |
|---|---|---|
| `dump_error` | `FailedRewritten` | takes a write error for the end of the tape |
| `mail_exit` | `SuccessMeansDelivered` | finds the mailbox changed after `open()`, says so and exits with status 0; the message is not delivered (mail.local.8: "exits 0 on success, and >0 if an error occurs") |
| `rpc_key` | `KeyedByAddress` | compares cached replies with the caller of an earlier call; two clients with one id get each other's reply |

### Claims refuted without a run of their own

The modules state more claims that the code does not keep.  They are not part of any
run: that TLC refutes them has been seen by hand, with the given instance and the claim
as its only property, and no passing or violated run of `PROJECT.json` depends on it.

| module | property | instance | the code |
|---|---|---|---|
| `InitProc` | `HangupRestoresLines` | 1 line, 2 pids, entries on/off, `Spec` | ignores a hangup once the session list is empty (init.8: "init executes a new getty") |
| `InitProc` | `DeathTimesOut` | the same, `FairSpec` | loses a SIGALRM between the test of `clang` and `waitpid()` (init.8: "will time out after 30 seconds") |
| `InitProc` | `TrackedUnreaped` | the same, `Spec` | reaps session processes without telling the session |
| `InitProc` | `ShutdownNotRestarted` | `InitSafety.cfg` | restarts a session marked SE_SHUTDOWN whose fork had failed |
| `InitProc` | `TermNotDropped` | `InitSafety.cfg` | clears a SIGTERM that comes while `multi_user` is entered |
| `InitProc` | `DeathThorough` | `InitSafety.cfg` | ends `death` early because of a stale ECHILD |
| `InitProc` | `StoppedNotCollected` | `InitSafety.cfg` | treats a stopped process as an exited one |
| `Tftp` | `SuccessOnDisk` | `Sizes = {2}`, `Half = 3`, `MaxTries = 2`, `MaxDup = 1`, `Spec` | never reports a failed write (tftpd.c:548 sends ENOSPACE, "Disk full or allocation exceeded") |
| `Tftp` | `FinalAckResent` | the same | looks at the wrong buffer and never resends the final ack |
| `DumpTape` | `FirstRecord` | `DumpError.cfg` with `Data = 12`, `MaxVols = 3`, `Causes = {"eot"}` | labels the volume after the second end of tape with a stale record number |
| `DumpTape` | `PartialStops` | `DumpSafety.cfg` | hands on the turn after a partial write |
| `DumpTape` | `RecordedIfSuccessful` | `DumpSafety.cfg` | records the dump before its last blocks are known to be written |
| `PopMail` | `SuccessMeansDelivered` | `Links = FALSE`, `ShortWrites = TRUE` | ends the write loop after a short write of more than half a buffer and reports success |
| `PopMail` | `MailboxUnchanged` | `PopMail.cfg` | has emptied the mailbox when it reports "Mailbox unchanged" |
| `TelnetOpt` | `StateReverts` | `Telnet.cfg` | keeps `my_state` positive after a refusal: a peer whose state is negative does not acknowledge it |
| `TelnetOpt` | `EchoTurnedOff` | `AlreadyOn = TRUE` | does not turn off the echo of a peer that believes it is on: `his_state` is negative, so `send_dont()` sees nothing new and sends nothing |
| `Mpool` | `CleanIsStored`, `KeepsPages` | `Filter = TRUE` | `mpool_sync()` leaves the converted page in the cache (mpool.3: "transparent input and output processing") |
| `Mpool` | `KeepsPages` | `Wrap = 2` | computes file offsets in 32 bits |
| `XnsRouted` | `GoodbyeHeard` | `XnsRouted.cfg` | skips every network with an infinite metric, also one from the gateway in use (timer.c:114: "let everyone know we're going away"; protocol.h: "so that others may see it \"be deleted\"") |
| `XnsRouted` | `InterfaceRecovers` | `XnsRouted.cfg` | resets the timer and not the metric of an interface that is heard again after EXPIRE_TIME and before GARBAGE_TIME: its network stays unreachable for everybody else |
| `XnsRouted` | `RoutersSupply` | `XnsRouted.cfg` | decides once, at the start, whether it supplies: a host whose second interface comes up later never does |
| `XnsRouted` | `KernelCurrent` | two hosts on the same two networks | keeps an entry that the kernel has refused because it has another route to the network (XNSrouted.8:49: "maintaining up to date kernel routing table entries") |

### Bounds

init has no counters: its instances are finite by themselves.  Two lines and two
process ids are enough for a reused process id, for two sessions that compete for
one, and for a line whose fork fails while another one is served.  Symmetry over lines
and process ids is used in `init_safety`, which checks invariants and a box-action only.
The size of a tftp file is chosen in `Init`: files of one and two chunks arrive, one of
three, with `Half = 3`, has a first and a middle block that can be confused with their
neighbours and stops at the edge of the block number space.
`MaxDup` bounds the duplicates, `MaxTries` is the code's own limit.  Fourteen records
in blocks of two are enough for two ends of tape with all slaves' blocks in flight and
for a volume ended by its size; `MaxVols` and `MaxHups` bound the volumes and signals.

Two messages and two POP sessions are enough for mail that arrives during a session
and for a session that finds what a killed one has left; `MaxCrash` bounds the kills.
`Links = TRUE` lets the second name come and go at any time once there is a mailbox.
Two calls with one refresh and one retransmission each have replies to earlier tries
and to earlier calls under way; a cache of two entries whose chains collide is full at
the third id, so that victims are taken from the chain of the new node.  An instance
with two clients, different `Base` and a cache of one entry passes as well.  `Mod` is larger
than the number of ids used: when the 16 bits wrap around within one client's late
replies, `CallsAnswered` fails.  Five requests of each telnet end are more than can be
under way at once, so that crossing requests of any depth the counters tell apart
occur.  Three pages are more than two buffers; `MaxLost` bounds the buffers lost by a
failed read; `Wrap >= MaxPages` and `Filter = FALSE` keep the run below 2^32 bytes and
without a filter.  `Infinity = 4` is above every distance of three networks in a row and lets
two hosts count a dead route up through several steps; a run with it reaches states
where they are each other's gateway.  `MaxFaults = 1` allows one failed interface, which may
recover at any time or never, one daemon that ends and may start again, one lost packet
or one overwritten one.  Two hosts on the same two networks pass as well.

Deadlock checking is off for `Tftp`, `PopMail`, `RpcUdp` and `TelnetOpt`, whose processes end,
and for `XnsRouted`, where no daemon need run; in `DumpTape` an abort is always possible, so
that absence of deadlock is what `Terminates` shows.

### Fairness

init: weak fairness of init's own steps and of a running alarm, that is, the kernel
schedules process 1 and timers expire.  Children may run for ever.
tftp: weak fairness of the two processes, whose `alarm()` is one of their steps; the
network may lose everything.  dump: weak fairness of the master, of every slave, and
of the delivery of signals; nothing is assumed of operator or tape, except that the
operator answers.
mail: every mail.local and popper process runs, and `flock()` does not pass over one
that waits for ever (strong fairness of taking the lock); no client need ever send a
command, and no call need fail.  rpc: the clock of a waiting client runs
(`Timeout`): neither replies to earlier calls nor signals come for ever, each of which
starts the wait of `clntudp_call()` anew without adding to `time_waited` ("buggy" in its own
comment, `clnt_udp.c:305`); a client that is interrupted more often than once per `cu_wait`
would wait without end, and nothing here shows the contrary.  telnet: both ends read
what arrives and telnetd goes on with its start; nobody need ask for anything.
XNSrouted: alarms come and packets are read within a round; nobody need start a daemon,
and faults are finitely many.

## Proofs

All theorems hold for every value of the constants that satisfies the named
assumptions.

`PositionsProofs` holds what the others share.  The induction theorems of the library
take a property as a parameter, which the provers cannot instantiate; here a property
is a *set* of numbers: `Least` (a set of numbers has a least member, from the library's
well-foundedness of `<`), `SetInduction`, and `Recursion` (a recursive function exists and is
what its equation says).  The facts about `Positions` (ascending, complete, nothing
twice) follow; `MailDrop` and `PopMail` select
messages with it, `XnsRouted` the entries of a packet.

`InitProcProofs`: `Inductive` proves `IInv`, the conjunction of `TypeOK`, the two database
invariants, `SingleUserQuiesced`, `LinesServed`, `DeathWatched` and `BootRequest`.  The last is
the strengthening: the initial value of `requested_transition` is not one that a
handler stores, and it is gone before anybody looks at it.  `collect_child`
is treated once (`CollectType`, `CollectSessions`, ...) and cited by every wait loop.
`TypeCorrect`, `DatabaseSound`, `DatabaseOpen`, `Quiesced`, `Served`, `Watched` follow;
`NoLateGetty` proves the action property, using that `collect_child` starts a getty only for
a session that is not shut down, which `SingleUserQuiesced` excludes elsewhere.

`LibexecProofs` holds the theorems of two daemons that share nothing.  tftpd: the
invariant says that the loops are never more than one block apart,
that no packet is from the future, and that a block number below `Half` is read back
as itself while `Half` is read as a negative number (`ShortWire`, `AckMeaning`,
`DataMeaning`); `SizeSame` is that the size of the file stays.  `Implements` proves `Spec => Copies`; `Limited` proves `ShortLimit`.  `Ordered`
proves `DiskOrdered` from what the write-behind buffer may hold (`BufferHolds`: at most the
chunk accepted last) and `FileBehind` (nothing in the file is later than it).

telnetd: `TelnetInvariant` proves `TelnetInv`, which says for each kind of option, each
pair of `changeok` and each phase of the start what the two channels can hold together
with the counters.  Where both ends accept (`BothAccept`) the messages under way from an
end alternate, from what the other has heard last to what the end wants now (`Chain`), a
half has what it wants exactly when it waits for an even number of answers (`Balanced`),
and the two counters add up to the number of messages under way.  Where one refuses
(`PeerRefuses`, `WeRefuse`) a single refusal answers a request and its withdrawal, and a
refusal is never acknowledged: what the other end is due is bounded by twice the
requests and refusals under way (`Due`).  ECHO runs through `EchoStart` (every request of the
peer before DO ECHO is refused), `EchoAsked` (DO ECHO and DO NAWS behind these refusals),
`EchoAgreed` (DO ECHO was taken, its answer stands before that of DO NAWS or has been heard,
`Answered`) to `WeRefuse`, because the simulated WILL ECHO sends DONT ECHO; or it is refused at
once (`EchoRefused`).  `TelnetAgreement`, `TelnetConsent` and `TelnetCounted` follow for any number
of requests of both ends.  Their hypothesis is `~AlreadyOn`: to a peer that believes that it
echoes already, DO ECHO says nothing new, and the two ends are then left in disagreement
(`EchoTurnedOff` among the claims refuted).

`DumpTapeProofs`: `RingInv` adds to `OneTurn` what a slave knows at each point of its turn
(`Alert`): it is `ready` from the test of `caught` to the pause, and has no caught signal
left when it pauses or writes.  `ContextInv` ties the checkpoint to the list of volumes.
`Turn`, `Awake` and `TypeCorrect` follow for rings of any size.  `NoRecordLost` (`Seamless`) and
`AllOnTape` (`Complete`) rest on a second invariant, `TapeInv`.  Places on a volume are numbered
like the records, the header standing before the volume's first record.  There are n and k such
that the blocks sent so far end at place n and the last k of them are still to be written
(`SlavesOK`): slave s, which got its block `Age(s)` turns ago in the order of the ring, has the run of
records at `Place(n, s)`; the slaves that owe an answer are the k youngest, the turn is at the
oldest of these, and a tape that is not full ends at n - k ntrec.  After an end of tape there is
a short answer the master has not seen (`Unseen`), the oldest of them at a block that starts no
later than where the tape stops; when it is seen, all slaves hold blocks of theirs in the
master's buffers (`ShortSeen`, `Rollable`), and what `rollforward()` sends is again a run, one place
later (`RolledIs`).  `Past` says the same of closed volumes and of the checkpoint, so a rewritten
volume starts where its first attempt did.  The hypothesis `Tapes` is that the drive writes
nothing after an incomplete block (`~SoftEot`) and `MinBlocks >= SLAVES`; both are needed (see
DumpTape above), and the causes of the ends, the number of volumes and of SIGHUPs are arbitrary.

`PopMailProofs`: the invariant says who may have the two locks at each point of the two
programs (`Exclusive`), that what mail.local would cut off is its own message
(`Truncating`), and for the session that has the maildrop how far temporary maildrop and
mailbox agree (`Listed`, `Copying`, `Returning`).  `TypeCorrect` and `ListStays` follow, the
latter for any number of sessions, deliveries and poppers that are killed.  `Keeps` proves `Spec => KeepsMail`
step by step: copying and putting back map to stuttering, because `Mail` counts each
message in one of the two places only.  Its hypothesis is `~ShortWrites`: after a short
write mail.local writes the rest of its buffer from the wrong place, so the message on
disk is not the one sent.  What it does not promise is what `MailDrop` excepts (a
delivery reported while the mailbox had a second name) and what the model leaves out (a
mail.local that is killed, an `ftruncate()` that fails).

`MpoolProofs`: `Sound` (one buffer for a page, every held page in a pinned one) gives
`Pinned`.  `Faithful` (a clean buffer is what the file holds; a page that was written and is
not in the file is in a dirty one) gives `CleanStored` and, through the mapping
`Content`, `Keeps`: `Spec => KeepsPages`.  Both assume `Plain`, that no filter converts pages and
the file has at most 2^32 bytes: the two hazards at `mpool.c:205` and `mpool.c:378` are
exactly what happens otherwise.

`XnsRoutedProofs`: a metric is never shorter than the way there is.  The invariant
is about tables *and* packets under way (`Tables`, `Sockets`): an entry for a network is
at least `Nearest` of its host, and so is each entry of a queued packet for its sender.
A step of `rip_input()` is the triangle inequality of `Nearest`, which is proved from its
recursive definition with `SetInduction`; the loops over a table are recursions bounded by
the number of networks (`Bounded`).  `Truthful`, `OwnInterfaces` and `KernelInStep` (the
action property) follow for any hosts and networks, joined in any way.

`NoneExpires` proves `NoFalseExpiry` from a second invariant, `faults = 0 => Calm`.  While nothing
fails metrics only decrease.  The sender of a packet is still as near as the packet says (`Honest`),
his later packets say nothing worse than earlier ones (`NoWorse`), so the gateway of a learnt entry
is nearer and none of its packets takes that back (`Routed`).  Every learnt entry has a supplier nearby that is nearer (`Backed`; not always its
gateway, since a host that supplies nobody answers requests and is then silent): an entry older
than `Expire \div 2` is refreshed by his next packet, so its timer is at most that half, plus one if
its own host's timer has gone off in this round, plus one if the packet has still to be sent or read
(`Backs`).  The entry of an interface is older than 0 only until its own broadcast is heard (`Own`).
What `rip_input()` does to the entries is `ResponseIs`, from `LearntIs`: each network of a packet is
learnt once.  The hypothesis is `Expire >= 5`, EXPIRE_TIME in rounds of TIMER_RATE, which is 6 in
the code.  It cannot be weakened: with 4 TLC finds a route that expires in the network of the run,
without any fault.

`RpcUdpProofs`: the invariant is that every buffer has one owner (`Owned`), and that the
chains hold the used slots, each once and in the chain of its id (`Chained`).  The work is
in `cache_set()`: taking a victim out of its chain, possibly the new node's own, and trading
buffers.  `Sound` and `NodesHold` follow for a cache of any size.  `RightResults` proves that
without its liveness `RpcUdp` implements `RemoteCall`: a reply is `Caused` by a request with
its id, requests with an id that a client is waiting for are for its present call
(`Fresh`), and ids are `Counted`.  Its hypothesis `Distinct` has two halves, and the code
gives neither: that two clients have different `Base` (run `rpc_key` shows what happens
otherwise) and that a client makes no more calls and refreshes than there are ids (16
bits: a reply could be as late as that).

Only model-checked: everything about liveness (fairness and ENABLED are outside the
prover), with it the liveness half of `CallsAnswered`.  Every other property of a passing run is
stated by a theorem.

## Not modelled

The kernel and the programs present only in compressed form; tftpd's request parsing
and access checks; dump's traversal of the file system, its estimates of tape length
(a volume ends after `blocksperfile` blocks), its dialogue with the operator and remote
tapes; the position fields `c_tapea`, `c_count` and `c_inumber` of volume headers; and
`tperror()`, which no process signals.  `fsck`, `newfs` and the like are sequential walks
over structures too large for a model checker.

Of the modelled components: the text of mail (headers, the Status line), ownership and
modes of the temporary maildrop, a mailbox replaced by another file, an `ftruncate()` that
fails, and a mail.local killed in the middle of a write; the
encoding, authentication and port mapping of RPC; telnet suboptions, LOGOUT, what an
option does to the terminal, and peers that break the protocol; the hash chains of the
buffer pool, whose lookup is modelled as a search; of XNSrouted point-to-point links, requests for
single networks, lack of memory, and a kernel that refuses a route for another reason
than having one.  Two hazards are known and not in the list of `PROJECT.json`: a 16-bit
transaction id that wraps around (`clnt_udp.c:252`) and the short-write loop of
mail.local (`mail.local.c:287`); both are in the modules (`Mod`, `ShortWrites`).

## Plan

Further components: point-to-point links of XNSrouted; the invitation table of talkd;
the fork retry of tftpd's `main()`; the job table of `bin/sh/jobs.c`; `malloc` and the sorts
of libc against reference definitions.
