---------------------------- MODULE PppIpcpLink ----------------------------
(***************************************************************************)
(* Two active-mode PPP daemons over an LCP link, negotiating IPCP with each *)
(* other: two automata (PppFsmOps), each with the option callbacks of       *)
(* ipcp.c (PppIpcpOptions), joined by two FIFO lines.                       *)
(*                                                                          *)
(* LCP is seen from above: it brings IPCP up and down, at one end after the *)
(* other, and what was on its way when it went down reaches no IPCP that    *)
(* comes up afterwards.  die ends a daemon and, by LCP's Terminate-Request, *)
(* the other one.                                                           *)
(***************************************************************************)
EXTENDS PppFsmOps, PppIpcpOptions

CONSTANTS
    Ends,        \* the two daemons
    Confs,       \* the pairs of configurations to choose from
    MaxLosses,   \* bound: packets lost
    MaxDowns,    \* bound: renegotiations of LCP
    MaxWire      \* bound: packets on one line

ASSUME IpcpLinkAssumption ==
    /\ \E a, b \in Ends : a # b /\ Ends = {a, b}
    /\ Confs \subseteq [Ends -> Options] /\ {MaxLosses, MaxDowns, MaxWire} \subseteq Nat

VARIABLES
    conf,     \* ipcp_wantoptions as configured
    f,        \* ipcp_fsm of each end
    go,       \* ipcp_gotoptions: what we ask for
    ho,       \* ipcp_hisoptions: what we let the peer have
    req,      \* wantoptions.req_addr: the peer is to be asked for its address
    up,       \* the ends whose interface is up
    over,     \* the ends that have died
    downs,    \* how often the link below each end has gone down
    wire,     \* the packets on their way to each end
    losses    \* packets lost so far

vars == <<conf, f, go, ho, req, up, over, downs, wire, losses>>

Peer(e) == CHOOSE o \in Ends : o # e
None == [c \in {} |-> 0]
Want(e) == ipcp_resetci(conf[e])

Init ==
    /\ conf \in Confs
    /\ f = [e \in Ends |-> fsm_init({}, 0)]
    /\ go = conf
    /\ ho = [e \in Ends |-> None]
    /\ req = {}
    /\ up = {} /\ over = {}
    /\ downs = [e \in Ends |-> 0]
    /\ wire = [e \in Ends |-> << >>]
    /\ losses = 0

----------------------------------------------------------------------------
\* The packets of g, with the options that go into each.
Frames(g, o, reply) ==
    [i \in 1 .. Len(g.out) |->
        [code |-> g.out[i].code, id |-> g.out[i].id,
         opts |-> CASE g.out[i].code = "CONFREQ" -> ipcp_addci(o)
                    [] g.out[i].code \in {"CONFACK", "CONFNAK", "CONFREJ"} -> reply
                    [] OTHER -> None]]

\* ipcp_up: both addresses must be known, or the link is closed.
Usable(e, o, h) == Remote(conf[e], h) # 0 /\ o.ouraddr # 0

\* gotoptions and req_addr once g's callbacks have run.
Got(e, g, o) == IF "resetci" \in g.cb THEN Want(e) ELSE o
Requests(e, g, rq) ==
    IF "resetci" \in g.cb /\ "addr" \in conf[e].neg THEN rq \cup {e} ELSE rq

\* End e's fsm becomes g, with gotoptions o and hisoptions h, having taken what it
\* read off w.  die sends what there is to send, and the end is gone.
Step(e, w, g, o, h, reply) ==
    LET fails == "up" \in g.cb /\ ~ Usable(e, o, h)
        last == IF fails THEN fsm_close(g) ELSE g
        sent == [w EXCEPT ![Peer(e)] = @ \o Frames(last, o, reply)]
    IN  /\ Len(sent[Peer(e)]) <= MaxWire
        /\ wire' = sent
        /\ f' = [f EXCEPT ![e] = IF fails THEN fsm_init({}, 0) ELSE Begin(g)]
        /\ go' = [go EXCEPT ![e] = o]
        /\ ho' = [ho EXCEPT ![e] = h]
        /\ over' = IF fails THEN over \cup {e} ELSE over
        /\ up' = IF "up" \in g.cb /\ ~ fails THEN up \cup {e}
                 ELSE IF "down" \in g.cb THEN up \ {e} ELSE up

\* An operation of e that reads no packet.
Acts(e, g) ==
    /\ e \notin over
    /\ Step(e, wire, g, Got(e, g, go[e]), ho[e], None)
    /\ req' = Requests(e, g, req)
    /\ UNCHANGED <<conf, losses>>

----------------------------------------------------------------------------
\* lcp_up.  An IPCP opened on an earlier link resumes at once.
LowerUp(e) ==
    /\ f[e].state \in Deaf
    /\ downs[e] = downs[Peer(e)]
    /\ f[Peer(e)].state \notin Deaf \/ \A p \in Ends : wire[p] = << >>
    /\ Acts(e, fsm_lowerup(f[e]))
    /\ UNCHANGED downs

\* auth.c, when there is nothing more to authenticate
Open(e) ==
    /\ f[e].state = "CLOSED"
    /\ Acts(e, fsm_open(f[e]))
    /\ UNCHANGED downs

\* lcp_down, at the end where LCP starts to renegotiate or at the other end, which
\* hears of it after the packets sent before.
LowerDown(e) ==
    /\ \/ f[e].state \notin Deaf /\ downs[e] = downs[Peer(e)] /\ downs[e] < MaxDowns
       \/ downs[e] < downs[Peer(e)] /\ wire[e] = << >>
    /\ Acts(e, fsm_lowerdown(f[e]))
    /\ downs' = [downs EXCEPT ![e] = @ + 1]

\* Three seconds are long for the line, and for the other end to open IPCP too.
Timeout3s(e) ==
    /\ f[e].timers > 0
    /\ \A p \in Ends : wire[p] = << >> /\ f[p].state \notin Deaf \cup {"CLOSED"}
    /\ Acts(e, Expire(f[e]))
    /\ UNCHANGED downs

Lose(e) ==
    /\ wire[e] # << >> /\ losses < MaxLosses
    /\ wire' = [wire EXCEPT ![e] = Tail(@)]
    /\ losses' = losses + 1
    /\ UNCHANGED <<conf, f, go, ho, req, up, over, downs>>

----------------------------------------------------------------------------
\* The packet at the head of e's line, and the lines without it.
Head1(e) == Head(wire[e])
Rest(e) == [wire EXCEPT ![e] = Tail(@)]
Packet1(e) == [code |-> Head1(e).code, id |-> Head1(e).id]
Listening(e, codes) ==
    wire[e] # << >> /\ Head1(e).code \in codes /\ f[e].state \notin Deaf

Drop(e) ==
    /\ wire[e] # << >> /\ f[e].state \in Deaf
    /\ wire' = Rest(e)
    /\ UNCHANGED <<conf, f, go, ho, req, up, over, downs, losses>>

\* A Configure-Request: reqci sees wantoptions as the head of fsm_rconfreq left
\* them.  States that do not reply leave hisoptions alone.
ReceiveRequest(e) ==
    LET r == Head1(e).opts
        p == RconfreqPrepare(f[e])
        tough == RejectIfDisagree(p)
        asked == Requests(e, p, req)
        asks == e \in asked
        g == fsm_input(f[e], Packet1(e), Verdict(Want(e), asks, r, tough))
        replies == f[e].state \notin {"CLOSED"} \cup Terminating
    IN  /\ Listening(e, {"CONFREQ"})
        /\ IF replies
             THEN /\ Step(e, Rest(e), g, Got(e, p, go[e]), HisOptions(Want(e), r),
                          Reply(Want(e), asks, r, tough))
                  /\ req' = IF ReqAddr(Want(e), asks, r, tough) THEN asked ELSE asked \ {e}
             ELSE Step(e, Rest(e), g, go[e], ho[e], None) /\ UNCHANGED req
        /\ UNCHANGED <<conf, downs, losses>>

\* An answer to our request.  Naks and Rejects change gotoptions unless OPENED,
\* where the new negotiation starts from wantoptions anyway.
ReceiveAnswer(e) ==
    LET r == Head1(e).opts
        code == Head1(e).code
        current == Head1(e).id = f[e].reqid
        good == CASE code = "CONFACK" -> ipcp_ackci(go[e], r)
                  [] code = "CONFNAK" -> TRUE
                  [] OTHER            -> RejGood(go[e], r)
        taken == good /\ current /\ f[e].state # "OPENED"
        o == CASE code = "CONFNAK" /\ taken -> ipcp_nakci(go[e], r)
               [] code = "CONFREJ" /\ taken -> ipcp_rejci(go[e], r)
               [] OTHER -> go[e]
        g == fsm_input(f[e], Packet1(e), IF good THEN "good" ELSE "bad")
    IN  /\ Listening(e, {"CONFACK", "CONFNAK", "CONFREJ"})
        /\ ~ (code = "CONFREJ" /\ current /\ RejectsAddress(go[e], r))
        /\ Step(e, Rest(e), g, Got(e, g, o), ho[e], None)
        /\ req' = Requests(e, g, req)
        /\ UNCHANGED <<conf, downs, losses>>

\* The end is gone: ppp_if[unit] is released.
Gone(e) ==
    /\ f' = [f EXCEPT ![e] = fsm_init({}, 0)]
    /\ up' = up \ {e}
    /\ over' = over \cup {e}
    /\ UNCHANGED <<conf, go, ho, req, downs, losses>>

\* A Reject of the address: ipcp_rejci calls die.
ReceiveAddressReject(e) ==
    /\ Listening(e, {"CONFREJ"})
    /\ Head1(e).id = f[e].reqid /\ RejectsAddress(go[e], Head1(e).opts)
    /\ wire' = Rest(e)
    /\ Gone(e)

ReceiveOther(e) ==
    LET g == fsm_input(f[e], Packet1(e), "none")
    IN  /\ Listening(e, {"TERMREQ", "TERMACK"})
        /\ Step(e, Rest(e), g, Got(e, g, go[e]), ho[e], None)
        /\ req' = Requests(e, g, req)
        /\ UNCHANGED <<conf, downs, losses>>

\* LCP's Terminate-Request from the daemon that has died ends this one.
PeerGone(e) ==
    /\ e \notin over /\ Peer(e) \in over /\ wire[e] = << >>
    /\ Gone(e)
    /\ UNCHANGED wire

Deliver(e) ==
    \/ Drop(e) \/ ReceiveRequest(e) \/ ReceiveAnswer(e) \/ ReceiveAddressReject(e)
    \/ ReceiveOther(e) \/ PeerGone(e)

Next ==
    \E e \in Ends :
        LowerUp(e) \/ Open(e) \/ LowerDown(e) \/ Timeout3s(e) \/ Lose(e) \/ Deliver(e)

Spec == Init /\ [][Next]_vars

\* LCP comes up again and tells the other end when it goes down, the line delivers
\* what it does not lose, and a callout expires however often it has to wait (SF).
LiveSpec ==
    Spec /\ \A e \in Ends :
        /\ WF_vars(LowerUp(e)) /\ WF_vars(Open(e)) /\ WF_vars(Deliver(e))
        /\ WF_vars(LowerDown(e) /\ downs[e] < downs[Peer(e)])
        /\ SF_vars(Timeout3s(e))

----------------------------------------------------------------------------
(* Every variable keeps its range. *)
TypeOK ==
    /\ f \in [Ends -> FSM] /\ go \in [Ends -> Options]
    /\ \A e \in Ends : DOMAIN ho[e] \subseteq CIs
    /\ up \cap over = {} /\ req \subseteq Ends
    /\ downs \in [Ends -> 0 .. MaxDowns] /\ losses \in 0 .. MaxLosses

(* When both interfaces are up, each routes to the address that the other   *)
(* has taken for its own, and compresses for just as many connections as    *)
(* the other has asked for.                                                 *)
Agreement ==
    up = Ends => \A e \in Ends :
        LET asked == ipcp_addci(go[Peer(e)])
        IN  /\ DOMAIN ho[e] = DOMAIN asked
            /\ "addr" \in DOMAIN asked => ho[e]["addr"] = go[Peer(e)].ouraddr
            /\ "vj" \in DOMAIN asked =>
                  ho[e]["vj"].maxslotindex = asked["vj"].maxslotindex

\* The address that e's configuration and its peer's settle on, 0 if none: its own
\* if the peer will have it, else the peer's choice if e will have that.
Settled(e) ==
    LET own == conf[e].ouraddr
        his == conf[Peer(e)].hisaddr
    IN  CASE own # 0 /\ (own = his \/ Want(Peer(e)).accept_remote) -> own
          [] OTHER -> IF Want(e).accept_local THEN his ELSE 0

Negotiated(e) == "addr" \in conf[e].neg

Compatible ==
    /\ \A e \in Ends : Negotiated(e) <=> Negotiated(Peer(e))
    /\ \A e \in Ends : IF Negotiated(e) THEN Settled(e) # 0
                                        ELSE conf[e].ouraddr # 0 /\ conf[e].hisaddr # 0

(* Ends whose configurations are compatible come up in the end and stay up; *)
(* ends whose configurations are not both end.  No negotiation goes on for  *)
(* ever, and none that could have succeeded is given up.                    *)
Settles ==
    /\ Compatible => <>[](up = Ends)
    /\ ~ Compatible => <>(over = Ends)

(* no_vjccomp disables connection ID compression: an end that is configured *)
(* with it is not sent compressed connection ids.                           *)
NoVjccomp ==
    up = Ends => \A e \in Ends :
        ~ conf[Peer(e)].vj.cflag /\ "vj" \in DOMAIN ho[e] => ~ ho[e]["vj"].cflag
============================================================================
