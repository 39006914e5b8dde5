------------------------------ MODULE TelnetOpt -----------------------------
(***************************************************************************)
(* The negotiation of one telnet option: libexec/telnetd/state.c.          *)
(*                                                                         *)
(* One end asks with DO and DONT and keeps his_state, his_want_state and   *)
(* do_dont_resp; the other performs the option, offers with WILL and WONT  *)
(* and keeps my_state, my_want_state and will_wont_resp.  Each end of a    *)
(* connection has both halves, which share nothing, so the half that asks  *)
(* at one end is put together here with the half that performs at the      *)
(* other, and both run the code of state.c (as built: LINEMODE without     *)
(* KLUDGELINEMODE).  What an option does to the terminal is left out, and  *)
(* so is LOGOUT, which ends the server.                                    *)
(***************************************************************************)
EXTENDS Naturals, Sequences

CONSTANTS
    MaxAsk,             \* bound: requests each end starts by itself
    AlreadyOn           \* the peer believes that it echoes before it is asked

ASSUME TelnetAssumption == MaxAsk \in Nat /\ AlreadyOn \in BOOLEAN

VARIABLES
    opt,                \* ECHO, SGA and TM are treated apart
    willOk, doOk,       \* changeok: the answer to an unasked WILL, to a DO
    his, my,            \* the two halves
    turn_on_sga,
    toPeer, toUs,       \* DO and DONT, WILL and WONT under way
    phase,              \* of telnetd's start, for ECHO
    asks                \* requests an end has started

telnetvars == <<opt, willOk, doOk, his, my, turn_on_sga, toPeer, toUs, phase, asks>>

HalfState == [state : BOOLEAN, want : BOOLEAN, resp : Nat]
Off == [state |-> FALSE, want |-> FALSE, resp |-> 0]
On == [state |-> TRUE, want |-> TRUE, resp |-> 0]

\* DO or WILL, DONT or WONT, and DO NAWS, which follows DO ECHO, or its answer.
Yes == "yes"
No == "no"
Naws == "naws"

TelnetInit ==
    /\ opt \in {"ECHO", "SGA", "TM", "other"}
    /\ willOk \in BOOLEAN /\ doOk \in BOOLEAN
    /\ opt \in {"ECHO", "TM"} => ~willOk
    /\ opt = "SGA" => doOk
    /\ opt = "TM" => ~doOk
    /\ his = Off
    /\ my = IF opt = "ECHO" /\ AlreadyOn THEN On ELSE Off
    /\ turn_on_sga = 0
    /\ toPeer = <<>> /\ toUs = <<>>
    /\ phase = IF opt = "ECHO" THEN "start" ELSE "run"
    /\ asks = [e \in {"us", "peer"} |-> 0]

-----------------------------------------------------------------------------
(* What do, dont, will and wont have in common.  A half and what it sends. *)

Result(h, out) == [half |-> h, out |-> out]

\* do_dont_resp or will_wont_resp when new arrives.
\* Mutant: it is not decremented a second time.
MutRespOnce(h, new) == IF h.resp = 0 THEN 0 ELSE h.resp - 1
RespLeft(h, new) ==
    IF h.resp = 0 THEN 0
    ELSE IF h.resp > 1 /\ h.state = new THEN h.resp - 2
    ELSE h.resp - 1

\* A request of our own, unless it says nothing new.  want is new, but that
\* of TM stays negative.  Mutant: requests are always sent.
MutNothingNew(h, new) == FALSE
NothingNew(h, new) == (h.resp = 0 /\ h.state = new) \/ h.want = new
Ask(h, new, want) ==
    IF NothingNew(h, new) THEN Result(h, <<>>)
    ELSE Result([h EXCEPT !.want = want, !.resp = @ + 1],
                <<IF new THEN Yes ELSE No>>)

Settled(h, new) == Result([h EXCEPT !.state = new, !.resp = RespLeft(h, new)], <<>>)

\* A positive request that was not asked for: agree, or answer negatively
\* and count that as a request of our own.
Unasked(ok) ==
    IF ok THEN Result(On, <<Yes>>)
    ELSE Result([state |-> TRUE, want |-> FALSE, resp |-> 1], <<No>>)

\* It is always ok to change to negative state; only a change is confirmed.
TurnOff(h) == Result(Off, IF h.state THEN <<No>> ELSE <<>>)

-----------------------------------------------------------------------------
(* willoption(), wontoption(), dooption() and dontoption().                *)

WillOption(h) ==
    IF RespLeft(h, TRUE) # 0 THEN Settled(h, TRUE)
    ELSE IF ~h.want /\ opt = "TM" THEN Result([h EXCEPT !.resp = 0], <<>>)
    ELSE IF ~h.want THEN Unasked(willOk)
    ELSE IF opt = "ECHO"
         THEN LET d == Ask([h EXCEPT !.resp = 0], FALSE, FALSE)
              IN  Result([d.half EXCEPT !.state = TRUE], d.out)
    ELSE Settled(h, TRUE)

WontOption(h) ==
    IF RespLeft(h, FALSE) # 0 \/ ~h.want THEN Settled(h, FALSE)
    ELSE IF opt = "TM" THEN Result([h EXCEPT !.want = FALSE, !.resp = 0], <<>>)
    ELSE TurnOff(h)

DoOption(h) ==
    IF RespLeft(h, TRUE) # 0 \/ h.want THEN Settled(h, TRUE)
    ELSE IF opt = "TM" THEN Result(Off, <<Yes>>)
    ELSE Unasked(doOk)

\* A DONT SGA is answered, once, with the attempt to turn it on again.
\* Mutant: every time.
MutAgain == TRUE
Again == turn_on_sga = 0
DontOption(h) ==
    IF RespLeft(h, FALSE) # 0 \/ ~h.want THEN Settled(h, FALSE)
    ELSE IF opt = "SGA" /\ Again
         THEN LET a == Ask(Off, TRUE, TRUE)
              IN  Result(a.half, TurnOff(h).out \o a.out)
    ELSE TurnOff(h)

SgaAfterDo(h) ==
    IF opt = "SGA" /\ RespLeft(h, TRUE) = 0 /\ ~h.want THEN 0 ELSE turn_on_sga
SgaAfterDont(h) ==
    IF opt = "SGA" /\ RespLeft(h, FALSE) = 0 /\ h.want THEN 1 - turn_on_sga
    ELSE turn_on_sga

-----------------------------------------------------------------------------
\* The end that asks, the end that performs: its half, and what is sent.
Us(r) == his' = r.half /\ toPeer' = toPeer \o r.out
Peer(r) == my' = r.half /\ toUs' = toUs \o r.out

\* telrcv() at either end.
RecvFromPeer ==
    /\ toUs # <<>> /\ Head(toUs) # Naws
    /\ toUs' = Tail(toUs)
    /\ Us(IF Head(toUs) = Yes THEN WillOption(his) ELSE WontOption(his))
    /\ UNCHANGED <<opt, willOk, doOk, my, turn_on_sga, phase, asks>>

RecvFromUs ==
    /\ toPeer # <<>> /\ Head(toPeer) # Naws
    /\ toPeer' = Tail(toPeer)
    /\ Peer(IF Head(toPeer) = Yes THEN DoOption(my) ELSE DontOption(my))
    /\ turn_on_sga' = IF Head(toPeer) = Yes THEN SgaAfterDo(my) ELSE SgaAfterDont(my)
    /\ UNCHANGED <<opt, willOk, doOk, his, phase, asks>>

\* telnetd starts with DO ECHO, and DO NAWS to see when it is answered.
Start ==
    /\ phase = "start"
    /\ phase' = "spin"
    /\ his' = Ask(his, TRUE, TRUE).half
    /\ toPeer' = toPeer \o Ask(his, TRUE, TRUE).out \o <<Naws>>
    /\ UNCHANGED <<opt, willOk, doOk, my, turn_on_sga, toUs, asks>>

\* The peer answers DO NAWS, after what it said to DO ECHO.
AnswerNaws ==
    /\ toPeer # <<>> /\ Head(toPeer) = Naws
    /\ toPeer' = Tail(toPeer)
    /\ toUs' = Append(toUs, Naws)
    /\ UNCHANGED <<opt, willOk, doOk, his, my, turn_on_sga, phase, asks>>

\* The receipt of a WILL ECHO is simulated unless the answer was WONT.
\* Mutant: never.
MutSimulated == Result(his, <<>>)
Simulated == IF his.want THEN WillOption(his) ELSE Result(his, <<>>)

\* NAWS is answered, or had been answered before (the peer offered it) and
\* ECHO has settled; the late answer to NAWS is then nothing new.
SpinEnds ==
    /\ \/ toUs # <<>> /\ Head(toUs) = Naws /\ toUs' = Tail(toUs)
       \/ phase = "spin" /\ his.state = his.want /\ UNCHANGED toUs
    /\ phase' = "run"
    /\ IF phase = "spin" THEN Us(Simulated) ELSE UNCHANGED <<his, toPeer>>
    /\ UNCHANGED <<opt, willOk, doOk, my, turn_on_sga, asks>>

\* send_do() and send_dont() for reasons of our own: what is asked for is
\* also accepted.  Of ECHO there is none, and a timing mark is asked for when
\* the last one has come.
Request(new) ==
    /\ asks["us"] < MaxAsk
    /\ \/ opt \in {"SGA", "other"} /\ (new => willOk)
       \/ opt = "TM" /\ new /\ his.resp = 0
    /\ Us(Ask(his, new, new /\ opt # "TM"))
    /\ asks' = [asks EXCEPT !["us"] = @ + 1]
    /\ UNCHANGED <<opt, willOk, doOk, my, turn_on_sga, toUs, phase>>

\* send_will() and send_wont(); so with what is offered, and a timing mark is
\* never offered.
Offer(new) ==
    /\ opt # "TM" /\ (new => doOk) /\ asks["peer"] < MaxAsk
    /\ Peer(Ask(my, new, new))
    /\ asks' = [asks EXCEPT !["peer"] = @ + 1]
    /\ UNCHANGED <<opt, willOk, doOk, his, turn_on_sga, toPeer, phase>>

TelnetNext ==
    \/ RecvFromPeer \/ RecvFromUs \/ Start \/ AnswerNaws \/ SpinEnds
    \/ \E new \in BOOLEAN : Request(new) \/ Offer(new)

TelnetSpec == TelnetInit /\ [][TelnetNext]_telnetvars

\* telnetd starts, and both ends read what the other sends.
TelnetFairSpec ==
    /\ TelnetSpec
    /\ WF_telnetvars(RecvFromPeer) /\ WF_telnetvars(RecvFromUs)
    /\ WF_telnetvars(Start) /\ WF_telnetvars(AnswerNaws) /\ WF_telnetvars(SpinEnds)

-----------------------------------------------------------------------------
(* Properties.                                                             *)

\* Every variable has its type.
TelnetTypeOK ==
    /\ his \in HalfState /\ my \in HalfState
    /\ toPeer \in Seq({Yes, No, Naws}) /\ toUs \in Seq({Yes, No, Naws})
    /\ turn_on_sga \in {0, 1}
    /\ phase \in {"start", "spin", "run"}

Quiet == toPeer = <<>> /\ toUs = <<>> /\ phase = "run"

\* do_dont_resp and will_wont_resp, which are chars, never get negative
\* although they are decremented twice, and do not creep up: an end
\* counts at most two answers for every message under way (a request and its
\* withdrawal may have one answer), and one for a refusal that is never
\* acknowledged.
Counted ==
    /\ TelnetTypeOK
    /\ \A h \in {his, my} : h.resp <= 2 * (Len(toPeer) + Len(toUs)) + 1

\* When nothing is under way any more, the two ends agree whether the option
\* is on, each has what it wants and none still waits for an answer, however
\* the requests of both have crossed.
Agreement == Quiet => my.want = his.want /\ (my.want => my = On /\ his = On)

\* An option that both ends do not accept is off in the end, also where
\* telnetd asks for it only to see what the peer answers.
Consent == Quiet /\ his.want => willOk /\ doOk

\* No negotiation goes on for ever.
Quiesces == <>[]Quiet

-----------------------------------------------------------------------------
(* What the source says of itself and does not do.                         *)

\* "my_state will revert to negative when the negative acknowlegment arrives
\* from the peer": there is none when a DO is refused, so that my_state stays
\* positive and the answer is counted for ever.
StateReverts == Quiet => my.state = my.want

\* "simulate the receipt of a will echo.  This will also send a WONT ECHO to
\* the client, since we assume that the client failed to respond because it
\* believes that it is already in DO ECHO mode, which we do not want".
EchoTurnedOff == Quiet /\ opt = "ECHO" => ~my.state
=============================================================================
