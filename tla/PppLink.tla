------------------------------ MODULE PppLink ------------------------------
(***************************************************************************)
(* Two PPP daemons at the ends of a serial line, negotiating LCP with each  *)
(* other: two automata (PppFsmOps), each with the option callbacks of lcp.c *)
(* (PppLcpOptions), joined by two FIFO lines, good or lossy.                *)
(*                                                                          *)
(* A daemon may be killed and started again at any time.  A daemon that has *)
(* finished exits, as link_terminated makes it.                             *)
(***************************************************************************)
EXTENDS PppFsmOps, PppLcpOptions

CONSTANTS
    Ends,       \* the two daemons
    Want,       \* lcp_wantoptions of each
    Allow,      \* lcp_allowoptions of each
    Prompt,     \* no callout expires while a packet is on the line
    MaxKills,   \* bound: kills of a daemon
    MaxWire     \* bound: packets on one line

ASSUME LinkAssumption ==
    /\ \E a, b \in Ends : a # b /\ Ends = {a, b}
    /\ Want \in [Ends -> Options] /\ Allow \in [Ends -> Options]
    /\ Prompt \in BOOLEAN
    /\ MaxKills \in Nat /\ MaxWire \in Nat

VARIABLES
    f,      \* lcp_fsm of each end
    go,     \* lcp_gotoptions: what we ask for
    ho,     \* lcp_hisoptions: what we let the peer have
    up,     \* the ends whose LCP has called up and not down since
    wire,   \* the packets on their way to each end
    kills,  \* kills so far
    calm    \* rigid: nothing is lost, no daemon is killed, and none is started
            \* so late that a callout of the other expires before

vars == <<f, go, ho, up, wire, kills, calm>>

Peer(e) == CHOOSE o \in Ends : o # e
None == [c \in {} |-> "void"]

Init ==
    /\ f = [e \in Ends |-> fsm_init({}, 0)]
    /\ go = Want
    /\ ho = [e \in Ends |-> None]
    /\ up = {}
    /\ wire = [e \in Ends |-> << >>]
    /\ kills = 0
    /\ calm \in BOOLEAN

----------------------------------------------------------------------------
\* The packets of g, with the options that go into each: a request carries what
\* gotoptions holds once the operation is over, a reply what reqci put there.
Frames(g, o, reply) ==
    [i \in 1 .. Len(g.out) |->
        [code |-> g.out[i].code, id |-> g.out[i].id,
         opts |-> CASE g.out[i].code = "CONFREQ" -> lcp_addci(o)
                    [] g.out[i].code \in {"CONFACK", "CONFNAK", "CONFREJ"} -> reply
                    [] OTHER -> None]]

Send(w, e, frames) == [w EXCEPT ![Peer(e)] = @ \o frames]

\* End e's fsm becomes g, with gotoptions o, having taken what it read off w.
Step(e, w, g, o, reply) ==
    LET exits == "finished" \in g.cb
        sent == Send(w, e, Frames(g, o, reply))
    IN  /\ Len(sent[Peer(e)]) <= MaxWire
        /\ wire' = sent
        /\ f' = [f EXCEPT ![e] = IF exits THEN fsm_init({}, 0) ELSE Begin(g)]
        /\ go' = [go EXCEPT ![e] = IF exits THEN Want[e] ELSE o]
        /\ up' = IF "up" \in g.cb THEN up \cup {e}
                 ELSE IF "down" \in g.cb THEN up \ {e} ELSE up

\* gotoptions once g's callbacks have run: resetci starts over, with a new magic
\* number.
Reset(e, g, o) ==
    IF "resetci" \in g.cb THEN {lcp_resetci(Want[e], m) : m \in Magics} ELSE {o}

----------------------------------------------------------------------------
\* ppp_task: lcp_lowerup, lcp_open
Start(e) ==
    LET g == fsm_open(fsm_lowerup(f[e]))
    IN  /\ f[e].state = "INITIAL"
        /\ \E o \in Reset(e, g, go[e]) : Step(e, wire, g, o, None)
        /\ UNCHANGED <<ho, kills, calm>>

\* SIGTERM: die sends a Terminate-Request and exits.
Kill(e) ==
    LET g == fsm_close(f[e])
        sent == Send(wire, e, Frames(g, go[e], None))
    IN  /\ ~calm /\ f[e].state # "INITIAL" /\ kills < MaxKills
        /\ Len(sent[Peer(e)]) <= MaxWire
        /\ wire' = sent
        /\ f' = [f EXCEPT ![e] = fsm_init({}, 0)]
        /\ go' = [go EXCEPT ![e] = Want[e]]
        /\ ho' = [ho EXCEPT ![e] = None]
        /\ up' = up \ {e}
        /\ kills' = kills + 1
        /\ UNCHANGED calm

Timeout3s(e) ==
    LET g == Expire(f[e])
    IN  /\ f[e].timers > 0
        /\ Prompt => \A p \in Ends : wire[p] = << >>
        /\ calm => \A p \in Ends : f[p].state # "INITIAL"
        /\ \E o \in Reset(e, g, go[e]) : Step(e, wire, g, o, None)
        /\ UNCHANGED <<ho, kills, calm>>

Lose(e) ==
    /\ ~calm /\ wire[e] # << >>
    /\ wire' = [wire EXCEPT ![e] = Tail(@)]
    /\ UNCHANGED <<f, go, ho, up, kills, calm>>

\* The packet at the head of e's line, and the line without it.
Head1(e) == Head(wire[e])
Rest(e) == [wire EXCEPT ![e] = Tail(@)]
Packet1(e) == [code |-> Head1(e).code, id |-> Head1(e).id]
Listening(e, codes) ==
    wire[e] # << >> /\ Head1(e).code \in codes /\ f[e].state \notin Deaf

Drop(e) ==
    /\ wire[e] # << >> /\ f[e].state \in Deaf
    /\ wire' = Rest(e)
    /\ UNCHANGED <<f, go, ho, up, kills, calm>>

\* A Configure-Request: reqci sees the options as the head of fsm_rconfreq left
\* them, and answers from them.  States that do not reply leave ho alone.
ReceiveRequest(e) ==
    LET r == Head1(e).opts
        p == RconfreqPrepare(f[e])
        replies == f[e].state \notin {"CLOSED"} \cup Terminating
    IN  /\ Listening(e, {"CONFREQ"})
        /\ \E o \in Reset(e, p, go[e]), m \in Magics :
              LET tough == RejectIfDisagree(p)
                  g == fsm_input(f[e], Packet1(e), Verdict(o, Allow[e], r, tough))
              IN  /\ Step(e, Rest(e), g, IF replies THEN o ELSE go[e],
                          Reply(o, Allow[e], r, tough, m))
                  /\ ho' = IF replies
                             THEN [ho EXCEPT ![e] = HisOptions(o, Allow[e], r)]
                             ELSE ho
        /\ UNCHANGED <<kills, calm>>

\* An answer to our request.  Naks and Rejects change gotoptions unless OPENED,
\* where the new negotiation starts from wantoptions anyway.
ReceiveAnswer(e) ==
    LET r == Head1(e).opts
        code == Head1(e).code
        good == CASE code = "CONFACK" -> lcp_ackci(go[e], r)
                  [] code = "CONFNAK" -> NakGood(go[e], r)
                  [] OTHER            -> RejGood(go[e], r)
        taken == good /\ Head1(e).id = f[e].reqid /\ f[e].state # "OPENED"
        g == fsm_input(f[e], Packet1(e), IF good THEN "good" ELSE "bad")
    IN  /\ Listening(e, {"CONFACK", "CONFNAK", "CONFREJ"})
        /\ \E m \in Magics :
              LET o == CASE code = "CONFNAK" /\ taken -> lcp_nakci(go[e], Want[e], r, m)
                         [] code = "CONFREJ" /\ taken -> lcp_rejci(go[e], r)
                         [] OTHER -> go[e]
              IN  \E n \in Reset(e, g, o) : Step(e, Rest(e), g, n, None)
        /\ UNCHANGED <<ho, kills, calm>>

ReceiveOther(e) ==
    LET g == fsm_input(f[e], Packet1(e), "none")
    IN  /\ Listening(e, {"TERMREQ", "TERMACK", "CODEREJ"})
        /\ \E o \in Reset(e, g, go[e]) : Step(e, Rest(e), g, o, None)
        /\ UNCHANGED <<ho, kills, calm>>

Deliver(e) == Drop(e) \/ ReceiveRequest(e) \/ ReceiveAnswer(e) \/ ReceiveOther(e)

Next == \E e \in Ends : Start(e) \/ Kill(e) \/ Timeout3s(e) \/ Lose(e) \/ Deliver(e)

Spec == Init /\ [][Next]_vars

\* A good line delivers and both daemons are started.  A callout of DEFTIMEOUT
\* seconds expires, however often the other end's interrupts the wait (SF).
\* Nothing is asked of a line that loses packets.
LiveSpec ==
    /\ Spec
    /\ WF_vars(calm /\ \E e \in Ends : Start(e) \/ Deliver(e))
    /\ \A e \in Ends : SF_vars(calm /\ Timeout3s(e))

----------------------------------------------------------------------------
(* When both ends are up they agree: each lets the other have exactly what  *)
(* the other asks for, whatever was lost, resent or restarted on the way.   *)
Agreement ==
    up = Ends => \A e \in Ends : ho[e] = lcp_addci(go[Peer(e)])

(* Two ends that are both up and both negotiated a magic number can tell    *)
(* each other from a looped-back line.                                      *)
MagicDiffers ==
    up = Ends /\ (\A e \in Ends : "magicnumber" \in Asked(go[e]))
        => \A e \in Ends : go[e].magicnumber # go[Peer(e)].magicnumber

\* Each end does the authentication the other asks for first, or none at all.
CommonAuth ==
    \A e \in Ends :
        LET asked == Asked(Want[e]) \cap Auth
            does  == Allow[Peer(e)].neg \cap Auth
        IN  asked \subseteq does \/ does = {}

\* On a good line no daemon ends because LCP has finished.
Perseveres == calm => \A e \in Ends : f[e].state # "INITIAL" => f'[e].state # "INITIAL"

(* On a good line Naks and Rejects come to an end before the requests do, and no *)
(* daemon gives up on its peer, unless that has another authentication to offer  *)
(* than the one it is asked for first.                                           *)
NoGivingUp == [][CommonAuth => Perseveres]_vars

\* magic() stops returning the number the other end has just drawn.
MagicsPart == <>[](\A e \in Ends : go[e].magicnumber # go[Peer(e)].magicnumber)

(* With a good line that answers before callouts expire, two daemons that are *)
(* not killed come up and stay up: options that one refuses or wants otherwise *)
(* are given up in time, on the same condition as in NoGivingUp.              *)
Connects == CommonAuth /\ calm /\ MagicsPart => <>[](up = Ends)
============================================================================
