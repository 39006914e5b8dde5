------------------------------- MODULE RpcUdp -------------------------------
(***************************************************************************)
(* Remote procedure calls over UDP: clntudp_call() of                      *)
(* lib/librpc/rpc/clnt_udp.c, the loop of svc.c and the reply cache of     *)
(* svc_udp.c.                                                              *)
(*                                                                         *)
(* A call is <<client, number>>, and a result names the call whose         *)
(* execution produced it; a refusal names none.  Arguments, credentials    *)
(* and the encoding are left out: encoding, decoding or the server may     *)
(* simply fail.  All calls are to one procedure, so that what the cache    *)
(* saves of a call is its caller.  A datagram that was sent may arrive     *)
(* late, repeatedly or never.                                              *)
(***************************************************************************)
EXTENDS Naturals, Sequences, FiniteSets, SequencesExt

CONSTANTS
    Clients,
    Base,               \* the half of a client's transaction ids that stays
    Half, Mod,          \* 2^16: an id is n * Half + Base[c], n counts modulo Mod
    MaxCalls,           \* bound: calls of a client
    Waits,              \* timeout / cu_wait
    NRefreshes,         \* times the credentials are refreshed, 2 in the code
    Refreshing,         \* clients whose AUTH_REFRESH() may succeed
    Size,               \* entries of the reply cache
    None

ASSUME RpcAssumption ==
    /\ {Half, Mod, Waits, Size} \subseteq Nat \ {0}
    /\ MaxCalls \in [Clients -> Nat] /\ NRefreshes \in Nat
    /\ Refreshing \subseteq Clients
    /\ Base \in [Clients -> 0..Half - 1]

Calls == UNION {{c} \X (1..MaxCalls[c]) : c \in Clients}
Slots == 0..Size - 1
Buffers == 0..Size
Ids == 0..Mod * Half - 1
Nodes == [id : Ids, addr : Clients \cup {None}, buf : Buffers]
Replies == [id : Ids, res : Calls \cup {None}]

ASSUME NoneAssumption == None \notin Clients \cup Calls \cup Nodes \cup Replies

VARIABLES
    made,               \* calls a client has made
    status, result,     \* per call: how far it is, the call whose result it got
    xid,                \* the half of the id that counts
    waited, refreshes,  \* time_waited in units of cu_wait, nrefreshes
    requests, replies,  \* datagrams sent
    ran,                \* calls executed
    enabled,            \* su_cache # NULL
    uc,                 \* the cache
    mem,                \* the reply that a buffer of the cache holds
    rbuf                \* rpc_buffer(xprt)

cvars == <<made, status, result, xid, waited, refreshes>>
svars == <<ran, enabled, uc, mem, rbuf>>
vars  == <<cvars, requests, replies, svars>>

-----------------------------------------------------------------------------
(* The cache.  A node stays in its slot of uc_fifo for ever, so a chain is *)
(* a sequence of slots.                                                    *)

\* CACHE_LOC
Loc(id) == id % (4 * Size)

EmptyCache == [fifo       |-> [i \in Slots |-> None],
               entries    |-> [l \in 0..4 * Size - 1 |-> <<>>],
               nextvictim |-> 0,
               addr       |-> None]

Used == {i \in Slots : uc.fifo[i] # None}

\* The places in the chain whose nodes cache_get() accepts: it compares them
\* with what the last miss saved, not with the message.  It takes the first.
Matches(id) ==
    LET chain == uc.entries[Loc(id)]
    IN  {j \in DOMAIN chain : /\ uc.fifo[chain[j]].id = id
                             /\ uc.fifo[chain[j]].addr = uc.addr}
First(places) == CHOOSE j \in places : \A k \in places : j <= k
Match(id) == uc.fifo[uc.entries[Loc(id)][First(Matches(id))]]

\* cache_set() takes the oldest node out of its chain ...
\* Mutant: it stays in the chain.
MutUnchained(v) == uc.entries
Unchained(v) ==
    LET l == Loc(uc.fifo[v].id)
        chain == uc.entries[l]
    IN  IF v \notin Used THEN uc.entries
        ELSE [uc.entries EXCEPT ![l] =
                 RemoveAt(chain, First({j \in DOMAIN chain : chain[j] = v}))]

\* ... unless it is not there ("cache_set: victim not found"), or there is
\* neither an old node nor memory for a new one ...
Free == {b \in Buffers \ {rbuf} : \A i \in Used : uc.fifo[i].buf # b}
CanCache ==
    LET v == uc.nextvictim
    IN  IF v \in Used THEN Contains(uc.entries[Loc(uc.fifo[v].id)], v)
        ELSE Free # {}

\* ... and trades its buffer, or a new one, for the one with the reply.
NewBuffer ==
    LET v == uc.nextvictim
    IN  IF v \in Used THEN uc.fifo[v].buf ELSE CHOOSE b \in Free : TRUE

\* Mutant: everyone keeps his own.
MutTraded == [node |-> NewBuffer, transport |-> rbuf]
Traded == [node |-> rbuf, transport |-> NewBuffer]

\* The cache with the reply to the present call; addr is what cache_get() saved.
CacheSet(id, addr) ==
    LET v == uc.nextvictim IN
    [fifo       |-> [uc.fifo EXCEPT ![v] = [id |-> id, addr |-> addr,
                                          buf |-> Traded.node]],
     entries    |-> [Unchained(v) EXCEPT ![Loc(id)] = <<v>> \o @],
     nextvictim |-> (v + 1) % Size,
     addr       |-> addr]

-----------------------------------------------------------------------------
Init ==
    /\ made = [c \in Clients |-> 0]
    /\ status = [k \in Calls |-> "unused"]
    /\ result = [k \in Calls |-> None]
    /\ xid = [c \in Clients |-> 0]
    /\ waited = [c \in Clients |-> 0]
    /\ refreshes = [c \in Clients |-> 0]
    /\ requests = {} /\ replies = {} /\ ran = {}
    /\ enabled = FALSE /\ uc = EmptyCache
    /\ mem = [b \in Buffers |-> None] /\ rbuf = 0

-----------------------------------------------------------------------------
(* The client: clntudp_call().                                             *)

\* Mutant: a new call has the id of the last one.
MutBump(n) == n
Bump(n) == (n + 1) % Mod
Id(c, n) == n * Half + Base[c]
Current(c) == <<c, made[c]>>
Waiting(c) == made[c] > 0 /\ status[Current(c)] = "open"

Request(k, n) == [from |-> k[1], id |-> Id(k[1], n), call |-> k]
\* The locals of clntudp_call(), and their end with the call.
Locals(c, w, n) ==
    /\ waited' = [waited EXCEPT ![c] = w]
    /\ refreshes' = [refreshes EXCEPT ![c] = n]
Ends(k, e) ==
    /\ status' = [status EXCEPT ![k] = e]
    /\ Locals(k[1], 0, 0)
Fails(k) == Ends(k, "failed") /\ UNCHANGED result

\* call_again: a new id, then the datagram is sent, or cannot be encoded or
\* sent.
NewId(k) == xid' = [xid EXCEPT ![k[1]] = Bump(@)]
Send(k, n) == requests' = requests \cup {Request(k, n)}
CallAgain(k, w, n) ==
    /\ NewId(k)
    /\ \/ /\ Send(k, Bump(xid[k[1]]))
          /\ status' = [status EXCEPT ![k] = "open"]
          /\ Locals(k[1], w, n)
          /\ UNCHANGED result
       \/ Fails(k) /\ UNCHANGED requests

Begin(c) == made[c] < MaxCalls[c] /\ ~Waiting(c) /\ made' = [made EXCEPT ![c] = @ + 1]

Call(c) ==
    /\ Begin(c)
    /\ CallAgain(<<c, made[c] + 1>>, 0, NRefreshes)
    /\ UNCHANGED <<replies, svars>>

\* With a timeout of zero the call is sent and RPC_TIMEDOUT returned.
Batch(c) ==
    /\ Begin(c)
    /\ NewId(<<c, made[c] + 1>>)
    /\ Send(<<c, made[c] + 1>>, Bump(xid[c]))
    /\ Fails(<<c, made[c] + 1>>)
    /\ UNCHANGED <<replies, svars>>

\* time_waited < timeout.  Mutant: one more try.
MutTimeLeft(c) == waited[c] < Waits
TimeLeft(c) == waited[c] + 1 < Waits

\* select() returns 0: send_again, or RPC_TIMEDOUT.
Timeout(c) ==
    /\ Waiting(c)
    /\ \/ /\ TimeLeft(c)
          /\ Locals(c, waited[c] + 1, refreshes[c])
          /\ Send(Current(c), xid[c])
          /\ UNCHANGED <<status, result>>
       \/ Fails(Current(c)) /\ UNCHANGED requests       \* or sendto() fails
    /\ UNCHANGED <<made, xid, replies, svars>>

\* select() or recvfrom() fails.  After EINTR the wait starts anew, which
\* changes no variable here: time_waited is only updated when it is over, what
\* the comment in the code calls buggy.
CantRecv(c) ==
    /\ Waiting(c)
    /\ Fails(Current(c))
    /\ UNCHANGED <<made, xid, requests, replies, svars>>

\* The reply to this call, as far as the id shows.  The loop goes on waiting
\* when another one comes.
Mine(c, r) == r.to = c /\ r.id = Id(c, xid[c])

\* RPC_SUCCESS, or the verifier or the results are not accepted.
Success(c, r) ==
    /\ Waiting(c) /\ Mine(c, r) /\ r.res \in Calls
    /\ \/ /\ Ends(Current(c), "ok")
          /\ result' = [result EXCEPT ![Current(c)] = r.res]
       \/ Fails(Current(c))
    /\ UNCHANGED <<made, xid, requests, replies, svars>>

\* Any other status: AUTH_REFRESH() and call_again, or that is the end.  The
\* time waited so far counts.
Refused(c, r) ==
    /\ Waiting(c) /\ Mine(c, r) /\ r.res = None
    /\ \/ /\ refreshes[c] > 0 /\ c \in Refreshing
          /\ CallAgain(Current(c), waited[c], refreshes[c] - 1)
       \/ /\ Fails(Current(c))
          /\ UNCHANGED <<xid, requests>>
    /\ UNCHANGED <<made, replies, svars>>

-----------------------------------------------------------------------------
(* The server: svc_getreqset() for one datagram.                           *)

\* svcudp_recv(): what the cache knows is sent, and the call goes on.
Hit(q) == enabled /\ Matches(q.id) # {}
FromCache(q) ==
    IF Hit(q)
    THEN LET r == mem[Match(q.id).buf]
         IN  {[to |-> q.from, id |-> r.id, res |-> r.res]}
    ELSE {}
Saved(q) == IF Hit(q) THEN uc.addr ELSE q.from

\* What the server makes of it: a refusal, or an execution.
Answer(q, res) == ran' = IF res = None THEN ran ELSE ran \cup {q.call}

\* The reply is left in the buffer of the transport, for the next datagram.
Uncached(q) ==
    /\ uc' = [uc EXCEPT !.addr = IF enabled THEN Saved(q) ELSE None]
    /\ mem' = [mem EXCEPT ![rbuf] = None]
    /\ UNCHANGED rbuf

\* svcudp_reply() sends and caches ...
Serve(q, res) ==
    /\ Answer(q, res)
    /\ replies' = replies \cup FromCache(q) \cup {[to |-> q.from, id |-> q.id, res |-> res]}
    /\ \/ /\ enabled /\ CanCache
          /\ uc' = CacheSet(q.id, Saved(q))
          /\ rbuf' = Traded.transport
          /\ mem' = [mem EXCEPT ![NewBuffer] = None,
                                ![rbuf] = [id |-> q.id, res |-> res]]
       \/ /\ ~(enabled /\ CanCache)
          /\ Uncached(q)
    /\ UNCHANGED <<cvars, requests, enabled>>

\* ... or there is no memory for a node, or the reply cannot be sent, or the
\* procedure gives none.
ServeUncached(q, res, sent) ==
    /\ Answer(q, res)
    /\ sent => enabled /\ uc.nextvictim \notin Used
    /\ replies' = replies \cup FromCache(q) \cup
                  (IF sent THEN {[to |-> q.from, id |-> q.id, res |-> res]} ELSE {})
    /\ Uncached(q)
    /\ UNCHANGED <<cvars, requests, enabled>>

EnableCache ==
    /\ ~enabled
    /\ enabled' = TRUE
    /\ UNCHANGED <<cvars, requests, replies, ran, uc, mem, rbuf>>

\* The server dies and is started again.
Restart ==
    /\ enabled' = FALSE
    /\ uc' = EmptyCache
    /\ mem' = [b \in Buffers |-> None] /\ rbuf' = 0
    /\ UNCHANGED <<cvars, requests, replies, ran>>

Next ==
    \/ \E c \in Clients : Call(c) \/ Batch(c) \/ Timeout(c) \/ CantRecv(c)
    \/ \E c \in Clients, r \in replies : Success(c, r) \/ Refused(c, r)
    \/ \E q \in requests : \E res \in {None, q.call} :
           Serve(q, res) \/ \E sent \in BOOLEAN : ServeUncached(q, res, sent)
    \/ EnableCache \/ Restart

\* A client that waits waits to the end: the signals (EINTR) and stale replies
\* that start the wait anew do not come for ever.  The code does not provide
\* for that.  A client that is interrupted more often than every cu_wait
\* neither sends again nor times out.
Spec == Init /\ [][Next]_vars /\ \A c \in Clients : WF_vars(Timeout(c))

-----------------------------------------------------------------------------
(* Properties.                                                             *)

\* Every variable has its type.
TypeOK ==
    /\ \A c \in Clients : made[c] \in 0..MaxCalls[c]
    /\ status \in [Calls -> {"unused", "open", "failed", "ok"}]
    /\ result \in [Calls -> Calls \cup {None}]
    /\ xid \in [Clients -> 0..Mod - 1]
    /\ waited \in [Clients -> 0..Waits - 1]
    /\ refreshes \in [Clients -> 0..NRefreshes]
    /\ requests \subseteq [from : Clients, id : Ids, call : Calls]
    /\ replies \subseteq [to : Clients, id : Ids, res : Calls \cup {None}]
    /\ ran \subseteq Calls
    /\ enabled \in BOOLEAN
    /\ mem \in [Buffers -> Replies \cup {None}]
    /\ rbuf \in Buffers
    /\ uc.nextvictim \in Slots /\ uc.addr \in Clients \cup {None}

\* The cache is sound: a node is on the chain of its id, once, and on no
\* other, so that cache_set() finds its victim; and no buffer is shared by
\* two nodes, or by a node and the transport, which would overwrite it.
CacheSound ==
    /\ \A i \in Used, l \in DOMAIN uc.entries :
        Cardinality({j \in DOMAIN uc.entries[l] : uc.entries[l][j] = i})
            = IF l = Loc(uc.fifo[i].id) THEN 1 ELSE 0
    /\ \A i \in Used : uc.fifo[i].buf # rbuf
    /\ \A i, j \in Used : uc.fifo[i].buf = uc.fifo[j].buf => i = j

\* A node holds the reply to the call it was made for: the id in the buffer
\* is the id in the node.
NodesAnswer ==
    \A i \in Used : mem[uc.fifo[i].buf] # None
                        /\ mem[uc.fifo[i].buf].id = uc.fifo[i].id

\* Remote procedure calls as RemoteCall describes them, where "ok" is the
\* result of an execution of the call itself: retransmissions, refreshed
\* credentials, late replies and the cache never give a caller the result of
\* another call, and every call ends.
RC == INSTANCE RemoteCall WITH
        status <- [k \in Calls |-> IF result[k] \notin {None, k} THEN "wrong"
                                   ELSE status[k]]
CallsAnswered == RC!Spec

-----------------------------------------------------------------------------
(* What the source says of itself and does not do.                         *)

\* "Index into cache is xid, proc, vers, prog and address": a reply from the
\* cache goes to the caller whose call it answers.
KeyedByAddress ==
    \A r \in replies : r.res \in Calls => r.res[1] = r.to
=============================================================================
