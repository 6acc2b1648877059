----------------------------- MODULE PppDaemon -----------------------------
(***************************************************************************)
(* The PPP daemon of one unit: LCP, IPCP and CHAP composed as the callbacks *)
(* of lcp.c, ipcp.c and auth.c compose them, under the signal handlers of   *)
(* pppLib.c (packets, callouts, hangup, termination).                       *)
(*                                                                          *)
(* d is ppp_if[unit].  Every handler is an operator from d to d; die() may  *)
(* end the task in the middle of one, and then nothing after it runs.       *)
(* upap.c is not in the repository: PAP is the set of exchanges under way.  *)
(***************************************************************************)
EXTENDS PppFsmOps, PppChapOps

CONSTANTS
    LcpFlagSets,   \* lcp_open: {} active, passive or silent with RESTART
    AuthRequired,  \* auth_required
    AuthProtocols, \* what LCP may negotiate: of "none", "CHAP", "UPAP"
    EchoInterval,  \* lcp_echo_interval # 0
    EchoFails,     \* lcp_echo_fails
    MaxPending     \* bound: callouts of one kind pending at once

ASSUME DaemonAssumption ==
    /\ LcpFlagSets \subseteq SUBSET Flags
    /\ \A fl \in LcpFlagSets : fl \cap {"PASSIVE", "SILENT"} # {} => "RESTART" \in fl
    /\ AuthRequired \in BOOLEAN
    /\ AuthProtocols \subseteq {"none", "CHAP", "UPAP"}
    /\ EchoInterval \in BOOLEAN
    /\ EchoFails \in Nat
    /\ MaxPending \in Nat

VARIABLE d

Phases == {"DEAD", "ESTABLISH", "AUTHENTICATE", "NETWORK", "TERMINATE"}
AuthBits == {"CHAP_PEER", "CHAP_WITHPEER", "UPAP_PEER", "UPAP_WITHPEER"}

\* neg: the outcome of option negotiation that lcp_up finds: go and ho are the
\* authentication protocols of the two directions, login says whether null_login
\* admits a peer that refused.
Negotiations ==
    {n \in [go : AuthProtocols, ho : AuthProtocols, login : BOOLEAN] : n.login => n.go = "none"}

----------------------------------------------------------------------------
\* ppp_if[unit] = NULL
NoUnit ==
    [alive |-> FALSE, lcp |-> fsm_init({}, 0), ipcp |-> fsm_init({}, 0),
     chap |-> ChapInit, upap |-> {}, phase |-> "DEAD", auth_pending |-> {},
     echos |-> 0, echo_running |-> FALSE, echo_timers |-> 0, ifup |-> FALSE]

SetPhase(e, p) == [e EXCEPT !.phase = p]
SetChap(e, c) == [e EXCEPT !.chap = [c EXCEPT !.said = {}]]

\* ipcp_down: take the interface down.
ipcp_down(e) == [e EXCEPT !.ifup = FALSE]

\* IPCP's fsm has become g without coming up.
IpcpNow(e, g) ==
    LET n == [e EXCEPT !.ipcp = Begin(g)]
    IN  IF "down" \in g.cb THEN ipcp_down(n) ELSE n

ipcp_open(e) == IpcpNow(e, fsm_open(e.ipcp))
ipcp_lowerup(e) == IpcpNow(e, fsm_lowerup(e.ipcp))
ipcp_lowerdown(e) == IpcpNow(e, fsm_lowerdown(e.ipcp))
ipcp_protrej(e) == IpcpNow(e, fsm_lowerdown(e.ipcp))

\* Mutant of lcp_echo_lowerdown: the flag is cleared, the callout stays.
EchoKeepsTimer(e) == [e EXCEPT !.echo_running = FALSE]

lcp_echo_lowerdown(e) ==
    IF ~ e.echo_running THEN e
    ELSE [e EXCEPT !.echo_timers = Cancel(@), !.echo_running = FALSE]

----------------------------------------------------------------------------
\* LCP going down, finishing, being closed; the end of the task.

\* Mutant of lcp_down: IPCP is not told.
LcpDownForgetsIpcp(e) ==
    LET n == lcp_echo_lowerdown(e)
    IN  SetPhase([SetChap(n, ChapLowerDown(n.chap)) EXCEPT !.upap = {}], "TERMINATE")

\* Mutant of lcp_down: link_down is not called.
LcpDownKeepsPhase(e) ==
    LET n == ipcp_lowerdown(lcp_echo_lowerdown(e))
    IN  [SetChap(n, ChapLowerDown(n.chap)) EXCEPT !.upap = {}, !.ifup = FALSE]

lcp_down(e) ==
    LET n == ipcp_lowerdown(lcp_echo_lowerdown(e))
        m == SetChap(n, ChapLowerDown(n.chap))
    IN  SetPhase([m EXCEPT !.upap = {}, !.ifup = FALSE], "TERMINATE")

\* LCP's fsm has become g without coming up or finishing.
LcpNow(e, g) ==
    LET n == [e EXCEPT !.lcp = Begin(g)]
    IN  IF "down" \in g.cb THEN lcp_down(n) ELSE n

link_terminated(e) == SetPhase(e, "DEAD")

lcp_finished(e) ==
    IF e.lcp.state \in {"STOPPED", "CLOSED"} /\ "RESTART" \in e.lcp.flags
      THEN LcpNow(e, fsm_open(e.lcp))
      ELSE link_terminated(e)

Stays(fl) == fl \cap {"PASSIVE", "SILENT"} # {}

lcp_close(e) ==
    IF e.lcp.state = "STOPPED" /\ Stays(e.lcp.flags)
      THEN lcp_finished([e EXCEPT !.lcp = Goto(@, "CLOSED")])
      ELSE LcpNow(e, fsm_close(e.lcp))

\* cleanup releases the unit and the task exits.
die(e) == LET n == lcp_close(e) IN IF Stays(n.lcp.flags) THEN n ELSE NoUnit

----------------------------------------------------------------------------
\* Authentication (auth.c).

AuthBit(protocol, side) ==
    CASE protocol = "CHAP" -> {IF side = "peer" THEN "CHAP_PEER" ELSE "CHAP_WITHPEER"}
      [] protocol = "UPAP" -> {IF side = "peer" THEN "UPAP_PEER" ELSE "UPAP_WITHPEER"}
      [] OTHER             -> {}

\* One authentication done: on to the network phase when it was the last.
\* Mutant of AuthDone: the network phase does not wait for the other side.
AuthDoneAlone(e, bits) ==
    ipcp_open(SetPhase([e EXCEPT !.auth_pending = @ \ bits], "NETWORK"))

AuthDone(e, bits) ==
    LET n == [e EXCEPT !.auth_pending = @ \ bits]
    IN  IF n.auth_pending = {} THEN ipcp_open(SetPhase(n, "NETWORK")) ELSE n

auth_peer_fail(e) == die(e)
auth_peer_success(e, protocol) == AuthDone(e, AuthBit(protocol, "peer"))
auth_withpeer_success(e, protocol) == AuthDone(e, AuthBit(protocol, "withpeer"))

\* Starting the negotiated authentications; PAP starts outside the repository.
StartAuth(e, neg) ==
    LET c == IF neg.go = "CHAP" THEN ChapAuthPeer(e.chap) ELSE e.chap
        k == IF neg.ho = "CHAP" THEN ChapAuthWithPeer(c) ELSE c
        u == (IF neg.go = "UPAP" THEN {"peer"} ELSE {})
               \cup (IF neg.ho = "UPAP" THEN {"withpeer"} ELSE {})
    IN  [SetChap(e, k) EXCEPT
            !.upap = @ \cup u,
            !.auth_pending = AuthBit(neg.go, "peer") \cup AuthBit(neg.ho, "withpeer")]

link_established(e, neg) ==
    LET refused == AuthRequired /\ neg.go = "none" /\ ~ neg.login
        n == IF refused THEN die(e) ELSE e
        s == StartAuth(SetPhase(n, "AUTHENTICATE"), neg)
    IN  IF ~ n.alive THEN n
        ELSE IF s.auth_pending = {} THEN ipcp_open(SetPhase(s, "NETWORK")) ELSE s

----------------------------------------------------------------------------
\* Echo requests (lcp.c).

\* lcp_lowerdown and the phase, when echo replies have stopped coming.
LcpLinkFailure(e) ==
    IF e.lcp.state # "OPENED" THEN e
    ELSE SetPhase(LcpNow(e, fsm_lowerdown(e.lcp)), "TERMINATE")

\* Mutant of LcpSendEchoRequest: one failure more than the limit is allowed.
EchoOffByOne(e) ==
    CASE EchoFails # 0 /\ e.echos > EchoFails ->
            die([LcpLinkFailure(e) EXCEPT !.echos = 0])
      [] EchoFails # 0 /\ e.echos <= EchoFails -> [e EXCEPT !.echos = @ + 1]
      [] OTHER -> e

\* Mutant of LcpSendEchoRequest: the link goes down, the daemon goes on.
EchoFailureLives(e) ==
    CASE EchoFails # 0 /\ e.echos >= EchoFails -> [LcpLinkFailure(e) EXCEPT !.echos = 0]
      [] EchoFails # 0 /\ e.echos < EchoFails -> [e EXCEPT !.echos = @ + 1]
      [] OTHER -> e

LcpSendEchoRequest(e) ==
    CASE EchoFails # 0 /\ e.echos >= EchoFails ->
            die([LcpLinkFailure(e) EXCEPT !.echos = 0])
      [] EchoFails # 0 /\ e.echos < EchoFails -> [e EXCEPT !.echos = @ + 1]
      [] OTHER -> e

\* Mutant of LcpEchoCheck: the flag is set, the callout is not queued.
EchoOnce(e) ==
    LET n == LcpSendEchoRequest(e)
    IN  IF n.alive THEN [n EXCEPT !.echo_running = TRUE] ELSE n

LcpEchoCheck(e) ==
    LET n == LcpSendEchoRequest(e)
    IN  IF ~ n.alive THEN n
        ELSE [n EXCEPT !.echo_timers = @ + 1, !.echo_running = TRUE]

LcpEchoTimeout(e) ==
    LET n == [e EXCEPT !.echo_timers = Cancel(@)]
    IN  IF n.echo_running THEN LcpEchoCheck([n EXCEPT !.echo_running = FALSE])
                          ELSE n

lcp_echo_lowerup(e) ==
    LET n == [e EXCEPT !.echos = 0, !.echo_running = FALSE]
    IN  IF EchoInterval THEN LcpEchoCheck(n) ELSE n

lcp_received_echo_reply(e) == [e EXCEPT !.echos = 0]

----------------------------------------------------------------------------
\* LCP and IPCP coming up.

lcp_up(e, neg) ==
    LET n == ipcp_lowerup(SetChap(e, ChapLowerUp(e.chap)))
    IN  link_established(lcp_echo_lowerup(n), neg)

\* LCP's fsm has become g: run the callbacks fsm.c made.  The outcomes differ in
\* what was negotiated, which is for the peer to choose.
LcpStep(e, g) ==
    LET n == LcpNow(e, g)
    IN  CASE "finished" \in g.cb -> {lcp_finished(n)}
          [] "up" \in g.cb       -> {lcp_up(n, neg) : neg \in Negotiations}
          [] OTHER               -> {n}

ipcp_close(e) == die(IpcpNow(e, fsm_close(e.ipcp)))

\* ok: the addresses are known and allowed and the interface accepts them.
ipcp_up(e, ok) == IF ok THEN [e EXCEPT !.ifup = TRUE] ELSE ipcp_close(e)

\* ipcp_rejci: a Reject of the address option is the end of the link.  Where die
\* returns, fsm_rconfnakrej goes on with the IPCP that lcp_down has taken down.
RejectAddress(e, good) ==
    LET n == die(e)
    IN  IF n.alive THEN IpcpNow(n, fsm_rconfnakrej(n.ipcp, n.ipcp.reqid, good)) ELSE n

IpcpStep(e, g) ==
    LET n == IpcpNow(e, g)
    IN  IF "up" \in g.cb THEN {ipcp_up(n, ok) : ok \in BOOLEAN} ELSE {n}

\* CHAP's state has become c: make its calls of auth.c.
ChapStep(e, c) ==
    LET n == SetChap(e, c)
    IN  CASE "peer_fail" \in c.said        -> {auth_peer_fail(n)}
          [] "peer_success" \in c.said     -> {auth_peer_success(n, "CHAP")}
          [] "withpeer_success" \in c.said -> {auth_withpeer_success(n, "CHAP")}
          [] OTHER                         -> {n}

----------------------------------------------------------------------------
\* What ppp_task and its signal handlers do.

Bounded(e) ==
    /\ e.lcp.timers <= MaxPending /\ e.ipcp.timers <= MaxPending
    /\ e.chap.chal <= MaxPending /\ e.chap.resp <= MaxPending
    /\ e.chap.rech <= MaxPending /\ e.echo_timers <= MaxPending

Becomes(outcomes) == \E e \in outcomes : Bounded(e) /\ d' = e

\* pppInit and ppp_task: initialise, bring LCP's lower layer up, open LCP.
Start ==
    /\ ~ d.alive
    /\ \E flags \in LcpFlagSets :
          LET g == fsm_open(fsm_lowerup(fsm_init(flags, 0)))
          IN  Becomes({[NoUnit EXCEPT !.alive = TRUE, !.lcp = Begin(g),
                                      !.phase = "ESTABLISH"]})

ReceiveLcp ==
    /\ d.alive
    /\ \E code \in InCodes, id \in Ids :
          \E verdict \in Verdicts(code) :
             Becomes(LcpStep(d, fsm_input(d.lcp, [code |-> code, id |-> id], verdict)))

\* The codes lcp_extcode takes.
ReceiveEchoReply ==
    /\ d.alive /\ d.lcp.state \notin Deaf
    /\ Becomes({lcp_received_echo_reply(d)})

ReceiveProtRej ==
    /\ d.alive /\ d.lcp.state = "OPENED"
    /\ Becomes(LcpStep(d, fsm_protreject(d.lcp)))

ReceiveIpcpProtRej ==
    /\ d.alive /\ d.lcp.state = "OPENED" /\ Becomes({ipcp_protrej(d)})

ReceiveChapProtRej ==
    /\ d.alive /\ d.lcp.state = "OPENED"
    /\ Becomes(ChapStep(d, ChapProtocolReject(d.chap)))

\* io: a packet of a protocol not in prottbl is answered with a Protocol-Reject.
lcp_sprotrej(e) == [e EXCEPT !.lcp = IncrId(@)]

ReceiveUnknownProtocol ==
    /\ d.alive /\ d.lcp.state = "OPENED" /\ Becomes({lcp_sprotrej(d)})

\* io: packets of the other protocols are for an OPENED LCP only.
ReceiveIpcp ==
    /\ d.alive /\ d.lcp.state = "OPENED"
    /\ \E code \in InCodes, id \in Ids :
          \E verdict \in Verdicts(code) :
             Becomes(IpcpStep(d, fsm_input(d.ipcp, [code |-> code, id |-> id], verdict)))

ReceiveIpcpReject ==
    /\ d.alive /\ d.lcp.state = "OPENED" /\ d.ipcp.state \notin Deaf
    /\ Becomes({RejectAddress(d, good) : good \in BOOLEAN})

ReceiveChap ==
    /\ d.alive /\ d.lcp.state = "OPENED"
    /\ \/ Becomes(ChapStep(d, ChapReceiveChallenge(d.chap)))
       \/ \E matches, good \in BOOLEAN :
             Becomes(ChapStep(d, ChapReceiveResponse(d.chap, matches, good)))
       \/ Becomes(ChapStep(d, ChapReceiveSuccess(d.chap)))
       \/ Becomes(ChapStep(d, ChapReceiveFailure(d.chap)))

\* External: an exchange of the PAP module ends (answered, refused, timed out,
\* or ended by a Protocol-Reject).
FinishUpap ==
    /\ d.alive /\ d.lcp.state = "OPENED"
    /\ \E side \in d.upap :
          LET e == [d EXCEPT !.upap = @ \ {side}]
          IN  IF side = "peer"
                THEN Becomes({auth_peer_success(e, "UPAP"), auth_peer_fail(e)})
                ELSE Becomes({auth_withpeer_success(e, "UPAP"), e})

\* Callouts.  Pending(e, k) of kind k are queued in e; Expired(e, k) is what e
\* becomes when one of them has left the list and its function has run.
Callouts == {"lcp", "ipcp", "challenge", "response", "rechallenge", "echo"}

Pending(e, k) ==
    CASE k = "lcp"         -> e.lcp.timers
      [] k = "ipcp"        -> e.ipcp.timers
      [] k = "challenge"   -> e.chap.chal
      [] k = "response"    -> e.chap.resp
      [] k = "rechallenge" -> e.chap.rech
      [] k = "echo"        -> e.echo_timers

Enqueue(e, k, n) ==
    CASE k = "lcp"         -> [e EXCEPT !.lcp.timers = @ + n]
      [] k = "ipcp"        -> [e EXCEPT !.ipcp.timers = @ + n]
      [] k = "challenge"   -> [e EXCEPT !.chap.chal = @ + n]
      [] k = "response"    -> [e EXCEPT !.chap.resp = @ + n]
      [] k = "rechallenge" -> [e EXCEPT !.chap.rech = @ + n]
      [] k = "echo"        -> [e EXCEPT !.echo_timers = @ + n]

Expired(e, k) ==
    CASE k = "lcp"         -> LcpStep(e, Expire(e.lcp))
      [] k = "ipcp"        -> IpcpStep(e, Expire(e.ipcp))
      [] k = "challenge"   -> ChapStep(e, ChapChallengeTimeout(e.chap))
      [] k = "response"    -> ChapStep(e, ChapResponseTimeout(e.chap))
      [] k = "rechallenge" -> ChapStep(e, ChapRechallenge(e.chap))
      [] k = "echo"        -> {LcpEchoTimeout(e)}

Timeout1(k) == d.alive /\ Pending(d, k) > 0 /\ Becomes(Expired(d, k))

LcpTimeout == Timeout1("lcp")
IpcpTimeout == Timeout1("ipcp")
ChallengeTimeout == Timeout1("challenge")
ResponseTimeout == Timeout1("response")
RechallengeTimeout == Timeout1("rechallenge")
EchoTimeout == Timeout1("echo")

\* k has left the list with the first of its batch, whose function has made n of
\* the unit: k is called even if that function has tried to cancel it.
Rest(n, k) == IF n.alive THEN Expired(Enqueue(n, k, 1), k) ELSE {n}

\* alrm: two callouts expire in the same second.
BatchTimeout ==
    /\ d.alive
    /\ \E j, k \in Callouts :
          LET off == Enqueue(d, k, -1)
          IN  /\ Pending(d, k) > 0 /\ Pending(off, j) > 0
              /\ Becomes(UNION {Rest(n, k) : n \in Expired(off, j)})

\* hup and intr
Interrupt == d.alive /\ Becomes({die(d)})

\* term, the signal of pppDelete
Terminate == d.alive /\ Becomes({die([d EXCEPT !.lcp.flags = {}])})

\* ppp_task leaves its loop.
Leave == d.alive /\ d.phase = "DEAD" /\ Becomes({die(d)})

----------------------------------------------------------------------------
Init == d = NoUnit

Receive ==
    \/ ReceiveLcp \/ ReceiveEchoReply \/ ReceiveProtRej \/ ReceiveIpcpProtRej
    \/ ReceiveChapProtRej \/ ReceiveUnknownProtocol \/ ReceiveIpcp
    \/ ReceiveIpcpReject \/ ReceiveChap \/ FinishUpap

Timers ==
    \/ LcpTimeout \/ IpcpTimeout \/ ChallengeTimeout \/ ResponseTimeout
    \/ RechallengeTimeout \/ EchoTimeout \/ BatchTimeout

Next == Start \/ Receive \/ Timers \/ Interrupt \/ Terminate \/ Leave

Spec == Init /\ [][Next]_d

\* Callouts expire, and the loop of ppp_task tests the phase after every signal.
LiveSpec ==
    /\ Spec
    /\ WF_d(LcpTimeout) /\ WF_d(IpcpTimeout) /\ WF_d(ChallengeTimeout)
    /\ WF_d(EchoTimeout) /\ WF_d(Leave)

----------------------------------------------------------------------------
(* Every field of ppp_if[unit] keeps its range. *)
TypeOK ==
    d \in [alive : BOOLEAN, lcp : FSM, ipcp : FSM, chap : CHAP,
           upap : SUBSET {"peer", "withpeer"}, phase : Phases,
           auth_pending : SUBSET AuthBits, echos : 0 .. EchoFails,
           echo_running : BOOLEAN, echo_timers : Nat, ifup : BOOLEAN]

(* The interface carries IP only while both automata are OPENED: whatever  *)
(* takes LCP or IPCP down takes the interface down with it.                *)
InterfaceNeedsLink ==
    d.ifup => d.lcp.state = "OPENED" /\ d.ipcp.state = "OPENED"

(* The network phase is not entered, nor stayed in, while an authentication *)
(* negotiated by LCP is still to be done.                                   *)
NetworkIsAuthenticated == d.phase = "NETWORK" => d.auth_pending = {}

(* lcp_echo_timer_running tells the truth: an echo callout is pending just  *)
(* when it is set, and there is never a second one.                         *)
EchoTimerTracked == d.echo_timers = IF d.echo_running THEN 1 ELSE 0

(* The CHAP server waits for a response with just one callout pending, and  *)
(* leaves none behind when it stops waiting.                                *)
ChallengeTracked == d.chap.chal = IF d.chap.server \in Challenging THEN 1 ELSE 0

(* LCP always listens: a live daemon does not sit in a state in which       *)
(* fsm_input drops every packet.                                            *)
AlwaysListening == d.alive => d.lcp.state \notin Deaf

(* A daemon that is neither passive nor silent always listens, also after an *)
(* echo failure, after pppDelete's signal and behind calls of die.           *)
ActiveListening == d.alive /\ ~ Stays(d.lcp.flags) => d.lcp.state \notin Deaf

(* Authentication and network phases are phases of an established link, in a *)
(* daemon that is neither passive nor silent: die, which link_established    *)
(* calls for a peer that refuses to authenticate, does not return there.     *)
PhaseNeedsLink ==
    d.phase \in {"AUTHENTICATE", "NETWORK"} /\ ~ Stays(d.lcp.flags) =>
        d.lcp.state = "OPENED"

\* After a Terminate-Ack fsm.c has called lcp_down, which stops the echoes, and
\* is still OPENED.
HalfDown == d.lcp.state = "OPENED" /\ ~ d.echo_running

(* A daemon whose peer falls silent notices, by an echo failure or exhausted  *)
(* retries, and comes to its end; a passive or silent one is in the end ready  *)
(* for the next connection (lcp_finished: "reopen the link for the next        *)
(* connection"), or INITIAL, which is what an echo failure leaves behind and   *)
(* AlwaysListening is about.  (HalfDown is the one other exception.)           *)
SilentPeerNoticed ==
    <>[][Timers \/ Leave]_d =>
        <>[](\/ ~ d.alive
             \/ Stays(d.lcp.flags) /\ d.lcp.state \in {"STOPPED", "INITIAL"}
             \/ HalfDown)

(* IP is not carried while an authentication is still to be done.          *)
AuthBeforeIp == d.ifup => d.auth_pending = {}
============================================================================
