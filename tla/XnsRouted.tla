----------------------------- MODULE XnsRouted ------------------------------
(***************************************************************************)
(* The routing daemon sbin/XNSrouted on hosts that share broadcast         *)
(* networks.  Each host keeps a table of routes with metrics and timers,   *)
(* broadcasts it every 30 seconds, and learns from what it hears, its own  *)
(* broadcasts included: they are its only sign that an interface works.    *)
(*                                                                         *)
(* Time passes in rounds of TIMER_RATE.  In a round the daemons' timers go *)
(* off once each, in any order, and all packets are read.                  *)
(* SUPPLY_INTERVAL is TIMER_RATE, so every timer() of a supplier sends the *)
(* whole table and RTS_CHANGED decides nothing; it is left out.  So are    *)
(* point-to-point links and requests for single networks.                  *)
(***************************************************************************)
EXTENDS Naturals, Sequences, FiniteSets, Positions

CONSTANTS
    Hosts,
    NumNets,
    Links,              \* which host has an interface on which network
    Infinity,           \* HOPCNT_INFINITY
    Expire, Garbage,    \* EXPIRE_TIME and GARBAGE_TIME, in TIMER_RATE
    Check,              \* CHECK_INTERVAL, in TIMER_RATE
    MaxFaults,          \* bound: failures, losses and interruptions
    NoRoute

Nets == 1..NumNets

ASSUME XnsAssumption ==
    /\ NumNets \in Nat /\ Links \subseteq Hosts \X Nets
    /\ Infinity \in Nat \ {0, 1}
    /\ Expire \in Nat \ {0} /\ Garbage \in Nat /\ Expire < Garbage
    /\ Check \in Nat \ {0} /\ MaxFaults \in Nat

ASSUME NoRouteAssumption == NoRoute \notin [router : Links, metric : Nat,
                                timer : Nat, iface : BOOLEAN] \cup Links

VARIABLES
    alive,              \* hosts whose daemon runs
    up,                 \* interfaces that work
    supplier,           \* hosts that supply updates
    ifnet,              \* interfaces a daemon knows
    timeval,            \* modulo CHECK_INTERVAL
    routes,             \* per host and network, the table and the kernel's
    queue,              \* packets in the socket of a host
    ticked,             \* hosts whose timer has gone off in this round
    faults

vars == <<alive, up, supplier, ifnet, timeval, routes, queue, ticked, faults>>

-----------------------------------------------------------------------------
(* tables.c: what a host knows of one network.  rt is the daemon's entry,  *)
(* kern the gateway of the kernel's route.                                 *)

Entry == [router : Links, metric : 0..Infinity, timer : 0..(Garbage - 1),
          iface : BOOLEAN]
Slot == [rt : Entry \cup {NoRoute}, kern : Links \cup {NoRoute}]

\* The kernel refuses a second route (EEXIST), and the entry is kept.
rtadd(slot, gate, metric, iface) ==
    [rt |-> [router |-> gate, metric |-> metric, timer |-> 0, iface |-> iface],
     kern |-> IF slot.kern = NoRoute THEN gate ELSE slot.kern]

\* Mutant: rt_router is compared after it has been set.
MutDoIoctl(slot, gate) == FALSE
DoIoctl(slot, gate) == slot.rt.router # gate
\* Mutant: an interface that timed out keeps its mark.
MutStaysIface(slot, metric) == slot.rt.iface
StaysIface(slot, metric) == slot.rt.iface /\ metric = 0
rtchange(slot, gate, metric) ==
    [rt |-> [slot.rt EXCEPT !.router = gate, !.metric = metric, !.timer = 0,
                            !.iface = StaysIface(slot, metric)],
     kern |-> IF DoIoctl(slot, gate) /\ slot.kern # NoRoute
              THEN gate ELSE slot.kern]

rtdelete(slot) == [rt |-> NoRoute, kern |-> NoRoute]

addrouteforif(h, n, slot) ==
    rtadd(IF slot.rt = NoRoute THEN slot ELSE rtdelete(slot), <<h, n>>, 0, TRUE)

\* The interfaces that are up and not yet known, and the table with them.
Found(h) == {n \in Nets \ ifnet[h] : <<h, n>> \in up}
ifinit(h, slots) ==
    [n \in Nets |-> IF n \in Found(h) THEN addrouteforif(h, n, slots[n])
                    ELSE slots[n]]

-----------------------------------------------------------------------------
(* timer.c and output.c.                                                   *)

\* An interface of a host that supplies nobody does not grow old.
\* Mutant: no interface does.
MutGrowsOld(rt, supplies) == ~rt.iface
GrowsOld(rt, supplies) == supplies \/ ~rt.iface

\* One entry in timer().
Aged(slot, supplies) ==
    LET t == slot.rt.timer + (IF GrowsOld(slot.rt, supplies) THEN 1 ELSE 0)
    IN  IF slot.rt = NoRoute THEN slot
        ELSE IF t >= Garbage THEN rtdelete(slot)
        ELSE [slot EXCEPT !.rt.timer = t,
                          !.rt.metric = IF t >= Expire THEN Infinity ELSE @]

\* The table after timer(): ifinit() every CHECK_INTERVAL, then the timers.
Due(h) == (timeval[h] + 1) % Check = 0
Known(h) == IF Due(h) THEN ifnet[h] \cup Found(h) ELSE ifnet[h]
AfterTimer(h) ==
    LET slots == IF Due(h) THEN ifinit(h, routes[h]) ELSE routes[h]
    IN  [n \in Nets |-> Aged(slots[n], h \in supplier)]

\* Mutant: the distance to the supplier is not added.
MutFurther(metric) == metric
Further(metric) == IF metric + 1 > Infinity THEN Infinity ELSE metric + 1

\* The networks of a table with their metrics, in the order of the hash table.
Supplied(slots) ==
    LET ns == Positions({n \in Nets : slots[n].rt # NoRoute})[NumNets]
    IN  [i \in DOMAIN ns |-> [net |-> ns[i],
                              metric |-> Further(slots[ns[i]].rt.metric)]]

Packet(cmd, from, nets) == [cmd |-> cmd, from |-> from, nets |-> nets]

\* toall(): a packet of host h on each of its interfaces.  A broadcast also
\* reaches its sender; an interface that is down carries nothing.
Between(h, g, known) == {n \in known : {<<h, n>>, <<g, n>>} \subseteq up}
Toall(h, q, known, cmd, nets) ==
    [g \in Hosts |->
        IF g \notin alive \cup {h} THEN q[g]
        ELSE LET ns == Positions(Between(h, g, known))[NumNets]
             IN  q[g] \o [i \in DOMAIN ns |-> Packet(cmd, <<h, ns[i]>>, nets)]]

SupplyAll(h, q, known, slots, supplies) ==
    IF supplies /\ Supplied(slots) # <<>>
    THEN Toall(h, q, known, "response", Supplied(slots)) ELSE q

-----------------------------------------------------------------------------
(* input.c.                                                                *)

\* Update if from gateway and different, from anywhere and shorter, or getting
\* stale and equivalent.  Mutant: without the last of them.
MutUpdates(rt, from, metric) ==
    (rt.router = from /\ metric # rt.metric) \/ metric < rt.metric
Updates(rt, from, metric) ==
    \/ rt.router = from /\ metric # rt.metric
    \/ metric < rt.metric
    \/ rt.timer > Expire \div 2 /\ rt.metric = metric

\* One network of a response.
Learn(slots, from, e) ==
    LET slot == slots[e.net]
    IN  IF e.metric >= Infinity THEN slots
        ELSE IF slot.rt = NoRoute
             THEN [slots EXCEPT ![e.net] = rtadd(slot, from, e.metric, FALSE)]
        ELSE IF Updates(slot.rt, from, e.metric)
             THEN [slots EXCEPT ![e.net] = rtchange(slot, from, e.metric)]
        ELSE slots

\* All the networks of a response, one after the other.
Learnt(slots, from, nets) ==
    LET l[i \in 0..Len(nets)] ==
          IF i = 0 THEN slots ELSE Learn(l[i - 1], from, nets[i])
    IN  l[Len(nets)]

\* The interface on which a packet came is alive.
Heard(slots, n) ==
    IF slots[n].rt # NoRoute /\ slots[n].rt.iface
    THEN [slots EXCEPT ![n].rt.timer = 0] ELSE slots

\* A broadcast of our own: the interface works.
HeardSelf(h, slots, n) ==
    IF slots[n].rt = NoRoute \/ ~slots[n].rt.iface
    THEN [slots EXCEPT ![n] = addrouteforif(h, n, @)]
    ELSE Heard(slots, n)

\* rip_input() of a response.
Response(h, slots, p) ==
    IF p.from[1] = h /\ p.from[2] \in ifnet[h]
    THEN HeardSelf(h, slots, p.from[2])
    ELSE Learnt(Heard(slots, p.from[2]), p.from, p.nets)

\* The answer to a request for all routes, which every host gives.
Reply(h, q, p, slots) ==
    LET n == p.from[2] IN
    IF /\ p.from[1] \in alive /\ {p.from, <<h, n>>} \subseteq up
       /\ Supplied(slots) # <<>>
    THEN [q EXCEPT ![p.from[1]] =
             Append(@, Packet("response", <<h, n>>, Supplied(slots)))]
    ELSE q

-----------------------------------------------------------------------------
(* The daemon.                                                             *)

\* main(): it decides once whether to supply, asks for all routes, and calls
\* timer().  What an earlier daemon has told the kernel is still there.
Start(h) ==
    LET found == {n \in Nets : <<h, n>> \in up}
        supplies == Cardinality(found) > 1
        table == [n \in Nets |-> [routes[h][n] EXCEPT !.rt = NoRoute]]
        slots == [n \in Nets |->
                    IF n \in found
                    THEN Aged(addrouteforif(h, n, table[n]), supplies)
                    ELSE table[n]]
        asked == Toall(h, queue, found, "request",
                       <<[net |-> 0, metric |-> Infinity]>>)
    IN  /\ h \notin alive
        /\ alive' = alive \cup {h}
        /\ ifnet' = [ifnet EXCEPT ![h] = found]
        /\ supplier' = IF supplies THEN supplier \cup {h} ELSE supplier \ {h}
        /\ timeval' = [timeval EXCEPT ![h] = 0]
        /\ routes' = [routes EXCEPT ![h] = slots]
        /\ queue' = SupplyAll(h, asked, found, slots, supplies)
        /\ ticked' = ticked \cup {h}
        /\ UNCHANGED <<up, faults>>

\* SIGALRM while the daemon waits for packets.
timer(h) ==
    /\ h \in alive \ ticked
    /\ timeval' = [timeval EXCEPT ![h] = (@ + 1) % Check]
    /\ ifnet' = [ifnet EXCEPT ![h] = Known(h)]
    /\ routes' = [routes EXCEPT ![h] = AfterTimer(h)]
    /\ queue' = SupplyAll(h, queue, Known(h), AfterTimer(h), h \in supplier)
    /\ ticked' = ticked \cup {h}
    /\ UNCHANGED <<alive, up, supplier, faults>>

\* recvfrom(), and rip_input() with SIGALRM blocked.
process(h) ==
    LET p == Head(queue[h])
        rest == [queue EXCEPT ![h] = Tail(@)]
    IN  /\ h \in alive /\ queue[h] # <<>>
        /\ \/ /\ p.cmd = "request"
              /\ queue' = Reply(h, rest, p, routes[h])
              /\ UNCHANGED routes
           \/ /\ p.cmd = "response"
              /\ routes' = [routes EXCEPT ![h] = Response(h, routes[h], p)]
              /\ queue' = rest
        /\ UNCHANGED <<alive, up, supplier, ifnet, timeval, ticked, faults>>

Fault == faults < MaxFaults /\ faults' = faults + 1

\* SIGALRM after recvfrom() and before sigblock().  timer() builds what it
\* sends in the buffer that holds the packet, so that rip_input() takes the
\* table of this host for one of the sender's, as long as the packet was.
Interrupted(h) ==
    LET p == Head(queue[h])
        own == Supplied(AfterTimer(h))
        nets == [i \in DOMAIN p.nets |->
                    IF i <= Len(own) THEN own[i] ELSE p.nets[i]]
    IN  /\ Fault
        /\ h \in (alive \cap supplier) \ ticked /\ queue[h] # <<>>
        /\ own # <<>>
        /\ timeval' = [timeval EXCEPT ![h] = (@ + 1) % Check]
        /\ ifnet' = [ifnet EXCEPT ![h] = Known(h)]
        /\ routes' = [routes EXCEPT ![h] =
              Response(h, AfterTimer(h), Packet("response", p.from, nets))]
        /\ queue' = SupplyAll(h, [queue EXCEPT ![h] = Tail(@)], Known(h),
                              AfterTimer(h), TRUE)
        /\ ticked' = ticked \cup {h}
        /\ UNCHANGED <<alive, up, supplier>>

\* SIGHUP or SIGINT.  The kernel's routes stay.
hup(h) ==
    LET gone == [n \in Nets |-> IF routes[h][n].rt = NoRoute THEN routes[h][n]
                    ELSE [routes[h][n] EXCEPT !.rt.metric = Infinity]]
    IN  /\ Fault
        /\ h \in alive
        /\ alive' = alive \ {h}
        /\ routes' = [routes EXCEPT ![h] =
                        [n \in Nets |-> [@[n] EXCEPT !.rt = NoRoute]]]
        /\ queue' = [SupplyAll(h, queue, ifnet[h], gone, h \in supplier)
                        EXCEPT ![h] = <<>>]
        /\ UNCHANGED <<up, supplier, ifnet, timeval, ticked>>

-----------------------------------------------------------------------------
(* The environment.                                                        *)

\* The daemon is killed.
Crash(h) ==
    /\ Fault
    /\ h \in alive
    /\ alive' = alive \ {h}
    /\ routes' = [routes EXCEPT ![h] =
                    [n \in Nets |-> [@[n] EXCEPT !.rt = NoRoute]]]
    /\ queue' = [queue EXCEPT ![h] = <<>>]
    /\ UNCHANGED <<up, supplier, ifnet, timeval, ticked>>

Down(l) ==
    /\ Fault
    /\ l \in up /\ up' = up \ {l}
    /\ UNCHANGED <<alive, supplier, ifnet, timeval, routes, queue, ticked>>

Up(l) ==
    /\ l \in Links \ up /\ up' = up \cup {l}
    /\ UNCHANGED <<alive, supplier, ifnet, timeval, routes, queue, ticked,
                   faults>>

LosePacket(h) ==
    /\ Fault
    /\ queue[h] # <<>>
    /\ queue' = [queue EXCEPT ![h] = Tail(@)]
    /\ UNCHANGED <<alive, up, supplier, ifnet, timeval, routes, ticked>>

\* The next 30 seconds: packets do not take that long.
NextRound ==
    /\ alive \subseteq ticked
    /\ \A h \in Hosts : queue[h] = <<>>
    /\ ticked' = {}
    /\ UNCHANGED <<alive, up, supplier, ifnet, timeval, routes, queue, faults>>

\* Every interface is configured; the kernel has a route for each.
Init ==
    /\ alive = {} /\ up = Links /\ supplier = {} /\ ticked = {}
    /\ ifnet = [h \in Hosts |-> {}]
    /\ timeval = [h \in Hosts |-> 0]
    /\ routes = [h \in Hosts |-> [n \in Nets |->
          [rt |-> NoRoute,
           kern |-> IF <<h, n>> \in Links THEN <<h, n>> ELSE NoRoute]]]
    /\ queue = [h \in Hosts |-> <<>>]
    /\ faults = 0

Run == NextRound \/ \E h \in Hosts : timer(h) \/ process(h)

Next ==
    \/ Run
    \/ \E h \in Hosts : \/ Start(h) \/ hup(h) \/ Crash(h)
                        \/ Interrupted(h) \/ LosePacket(h)
    \/ \E l \in Links : Down(l) \/ Up(l)

Spec == Init /\ [][Next]_vars

\* Daemons run, and read their packets within a round.
FairSpec == Spec /\ WF_vars(Run)

-----------------------------------------------------------------------------
(* Properties.                                                             *)

Packets == [cmd : {"request", "response"}, from : Links,
            nets : Seq([net : 0..NumNets, metric : 0..Infinity])]

TypeOK ==
    /\ alive \subseteq Hosts /\ up \subseteq Links
    /\ supplier \subseteq Hosts /\ ticked \subseteq Hosts
    /\ ifnet \in [Hosts -> SUBSET Nets]
    /\ timeval \in [Hosts -> 0..(Check - 1)]
    /\ routes \in [Hosts -> [Nets -> Slot]]
    /\ queue \in [Hosts -> Seq(Packets)]
    /\ faults \in 0..MaxFaults

\* The pairs of a host and a network at most k hops away, when only the
\* given links work and only hosts of fwd pass packets on.
Within(links, fwd) ==
    LET w[k \in 0..Infinity] ==
          IF k = 0 THEN links
          ELSE w[k - 1] \cup
               {l \in Hosts \X Nets : \E m \in w[k - 1] :
                  /\ m[1] \in fwd /\ m[2] = l[2]
                  /\ \E n \in Nets : {<<l[1], n>>, <<m[1], n>>} \subseteq links}
    IN  w

\* The distances when everything works.
Nearest == Within(Links, Hosts)

Finite(slot) == slot.rt # NoRoute /\ slot.rt.metric < Infinity

\* No host believes a network to be nearer than it can be: neither failures,
\* nor packets that come late, nor an interrupted packet shorten a distance.
NeverShorter ==
    \A h \in Hosts, n \in Nets : Finite(routes[h][n]) =>
        <<h, n>> \in Nearest[routes[h][n].rt.metric]

\* An entry marked RTS_INTERFACE is that of an interface of the host itself,
\* at distance 0 or expired; any other leads through another host on a
\* network of this one.
InterfaceOwn ==
    /\ TypeOK
    /\ \A h \in alive, n \in Nets :
         LET rt == routes[h][n].rt
         IN  rt # NoRoute =>
               IF rt.iface
               THEN /\ rt.router = <<h, n>> /\ n \in ifnet[h]
                    /\ rt.metric \in {0, Infinity}
               ELSE /\ rt.router[1] # h /\ <<h, rt.router[2]>> \in Links
                    /\ rt.metric > 0

\* As long as nothing fails and nothing is lost, no route expires, although
\* an entry is refreshed only when half of its time is over.
NoFalseExpiry ==
    faults = 0 => \A h \in alive, n \in Nets :
        routes[h][n].rt # NoRoute => routes[h][n].rt.timer < Expire

\* A daemon never lets the kernel's route get out of step with its own.
InStep(slot) ==
    slot.kern = IF slot.rt = NoRoute THEN NoRoute ELSE slot.rt.router
KernelFollows ==
    [][\A h \in alive \cap alive', n \in Nets :
          InStep(routes[h][n]) => InStep(routes'[h][n])]_vars

\* An interface that works and whose entry expired before it came back.
Stuck == \E h \in alive : \E n \in ifnet[h] :
            /\ <<h, n>> \in up
            /\ routes[h][n].rt # NoRoute /\ routes[h][n].rt.iface
            /\ routes[h][n].rt.metric = Infinity

\* When failures end, every supplier has the shortest route to each network
\* that can be reached, and none to another, for good: the routes that two
\* hosts learn from each other are counted up and vanish.  (Unless an
\* interface came back too early: see InterfaceRecovers.)
Exact ==
    LET live == {l \in up : l[1] \in alive}
        w == Within(live, alive \cap supplier)
    IN  \A h \in alive \cap supplier, n \in Nets :
          LET hops == {k \in 0..(Infinity - 1) : <<h, n>> \in w[k]}
          IN  IF hops = {} THEN ~Finite(routes[h][n])
              ELSE /\ Finite(routes[h][n])
                   /\ routes[h][n].rt.metric \in hops
                   /\ \A k \in hops : routes[h][n].rt.metric <= k
Converges == <>[](Exact \/ Stuck)

-----------------------------------------------------------------------------
(* What the manual and comments of the code say and the code does not do.  *)

\* "On hangup, let everyone know we're going away": a host that hears that a
\* network is lost does not go on using the sender's route to it.
GoodbyeHeard ==
    [][\A h \in Hosts : process(h) /\ Head(queue[h]).cmd = "response" =>
          LET p == Head(queue[h])
          IN  \A i \in DOMAIN p.nets : p.nets[i].metric = Infinity =>
                ~ /\ Finite(routes'[h][p.nets[i].net])
                  /\ routes'[h][p.nets[i].net].rt.router = p.from]_vars

\* "the only way our peer [...] can tell that the link is up": an interface
\* that works again gets its route back.
InterfaceRecovers == <>[]~Stuck

\* "If the interface is present but not yet up [...] we'll come back later":
\* a host that has found two networks supplies its table.
RoutersSupply ==
    \A h \in alive : Cardinality(ifnet[h]) > 1 => h \in supplier

\* "maintaining up to date kernel routing table entries": in the end the
\* kernel has the gateways of the daemon's table.
KernelCurrent ==
    <>[]\A h \in alive, n \in Nets : routes[h][n].rt # NoRoute =>
            routes[h][n].kern = routes[h][n].rt.router
=============================================================================
