---------------------------- MODULE PppFsmOps ----------------------------
(***************************************************************************)
(* The control-protocol automaton of the PPP daemon                        *)
(* (src/vxworks_test/netinet/ppp/fsm.c): one operator per C function, each *)
(* from an fsm record to the fsm record the function leaves behind.        *)
(*                                                                         *)
(* What a call does to the outside is kept in three fields of the record:  *)
(*   timers  the fsm_timeout callouts of this fsm that are pending         *)
(*   cb      the callbacks of the protocol that the operation made         *)
(*   out     the packets the operation gave to output(), in order          *)
(* Begin empties cb and out, so after an operation they are its own.       *)
(*                                                                         *)
(* The verdicts of the protocol's reqci, ackci, nakci and rejci callbacks  *)
(* are arguments: fsm.c only branches on them.                             *)
(***************************************************************************)
EXTENDS Integers, Sequences

CONSTANTS
    IdMod,     \* ids are u_char: 256 in the code
    MaxConf,   \* DEFMAXCONFREQS
    MaxTerm,   \* DEFMAXTERMREQS
    MaxNak     \* DEFMAXNAKLOOPS

ASSUME FsmAssumption ==
    /\ IdMod \in Nat \ {0}
    /\ MaxConf \in Nat \ {0}
    /\ MaxTerm \in Nat \ {0}
    /\ MaxNak \in Nat

States == {"INITIAL", "STARTING", "CLOSED", "STOPPED", "CLOSING", "STOPPING",
           "REQSENT", "ACKRCVD", "ACKSENT", "OPENED"}
Flags == {"PASSIVE", "RESTART", "SILENT"}
Codes == {"CONFREQ", "CONFACK", "CONFNAK", "CONFREJ", "TERMREQ", "TERMACK",
          "CODEREJ"}
InCodes == Codes \cup {"UNKNOWN"}       \* UNKNOWN: any code fsm.c has no case for
Callbacks == {"up", "down", "starting", "finished", "retransmit", "resetci"}

Negotiating == {"REQSENT", "ACKRCVD", "ACKSENT"}
Terminating == {"CLOSING", "STOPPING"}

Ids == 0 .. IdMod - 1
NoReq == IdMod - 1                     \* f->reqid = -1, in a u_char
\* Mutant of NextId: the id is not kept in a u_char.
NextIdWide(i) == i + 1
NextId(i) == (i + 1) % IdMod           \* ++f->id, in a u_char

Packet == [code : Codes, id : Ids]

\* nakloops only matters up to the limit it is compared with.
FSM == [state : States, flags : SUBSET Flags, id : Ids, reqid : Ids,
        retransmits : Int, nakloops : 0 .. MaxNak, timers : Nat,
        cb : SUBSET Callbacks, out : Seq(Packet)]

fsm_init(flags, id) ==
    [state |-> "INITIAL", flags |-> flags, id |-> id, reqid |-> 0,
     retransmits |-> 0, nakloops |-> 0, timers |-> 0,
     cb |-> {}, out |-> << >>]

Begin(f) == [[f EXCEPT !.cb = {}] EXCEPT !.out = << >>]

----------------------------------------------------------------------------
\* Building blocks of the functions below.

Goto(f, s) == [f EXCEPT !.state = s]
Call(f, c) == [f EXCEPT !.cb = @ \cup {c}]
SetRetransmits(f, n) == [f EXCEPT !.retransmits = n]
SetNakloops(f, n) == [f EXCEPT !.nakloops = n]
SetReqid(f, i) == [f EXCEPT !.reqid = i]
IncrId(f) == [f EXCEPT !.id = NextId(@)]

\* f->reqid = ++f->id
NewReqid(f) == SetReqid(IncrId(f), IncrId(f).id)

\* PPP_TIMEOUT queues one more callout; PPP_UNTIMEOUT drops one, if any.
Timeout(f)   == [f EXCEPT !.timers = @ + 1]
Untimeout(f) == [f EXCEPT !.timers = IF @ > 0 THEN @ - 1 ELSE 0]

fsm_sdata(f, code, id) ==
    [f EXCEPT !.out = Append(@, [code |-> code, id |-> id])]

\* Sending a request uses up one transmission and arms the retry timer.
SendRequest(f, code) ==
    Timeout(SetRetransmits(fsm_sdata(f, code, f.reqid), f.retransmits - 1))

\* Options and nakloops are reset unless a negotiation is going on.
ResetOptions(f) ==
    IF f.state \in Negotiating THEN f ELSE SetNakloops(Call(f, "resetci"), 0)

\* Mutant of fsm_sconfreq: a retransmission also resets the counter.
SconfreqResets(f, retransmit) ==
    LET g == SetRetransmits(ResetOptions(f), MaxConf)
    IN  SendRequest(IF retransmit THEN g ELSE NewReqid(g), "CONFREQ")

fsm_sconfreq(f, retransmit) ==
    LET g == ResetOptions(f)
    IN  SendRequest(IF retransmit THEN g ELSE NewReqid(SetRetransmits(g, MaxConf)),
                    "CONFREQ")

\* A fresh Terminate-Request, and the timer that resends it.
SendTermReq(f) == SendRequest(NewReqid(f), "TERMREQ")

StartTerminate(f) == SendTermReq(SetRetransmits(f, MaxTerm))

Renegotiate(f) == Goto(fsm_sconfreq(f, FALSE), "REQSENT")

----------------------------------------------------------------------------
\* Events from the layer below and from the administrator.

fsm_lowerup(f) ==
    CASE f.state = "INITIAL"  -> Goto(f, "CLOSED")
      [] f.state = "STARTING" -> IF "SILENT" \in f.flags
                                   THEN Goto(f, "STOPPED")
                                   ELSE Renegotiate(f)
      [] OTHER                -> f

fsm_lowerdown(f) ==
    CASE f.state = "CLOSED"   -> Goto(f, "INITIAL")
      [] f.state = "STOPPED"  -> Call(Goto(f, "STARTING"), "starting")
      [] f.state = "CLOSING"  -> Untimeout(Goto(f, "INITIAL"))
      [] f.state \in Negotiating \cup {"STOPPING"}
                              -> Untimeout(Goto(f, "STARTING"))
      [] f.state = "OPENED"   -> Goto(Call(f, "down"), "STARTING")
      [] OTHER                -> f

\* OPT_RESTART: a second open is a down followed by an up.
Restart(f) == IF "RESTART" \in f.flags THEN fsm_lowerup(fsm_lowerdown(f)) ELSE f

fsm_open(f) ==
    CASE f.state = "INITIAL" -> Call(Goto(f, "STARTING"), "starting")
      [] f.state = "CLOSED"  -> IF "SILENT" \in f.flags
                                  THEN Goto(f, "STOPPED")
                                  ELSE Renegotiate(f)
      [] f.state = "CLOSING" -> Restart(Goto(f, "STOPPING"))
      [] f.state \in {"STOPPED", "OPENED"} -> Restart(f)
      [] OTHER               -> f

fsm_close(f) ==
    CASE f.state = "STARTING" -> Goto(f, "INITIAL")
      [] f.state = "STOPPED"  -> Goto(f, "CLOSED")
      [] f.state = "STOPPING" -> Goto(f, "CLOSING")
      [] f.state \in Negotiating -> Goto(StartTerminate(Untimeout(f)), "CLOSING")
      [] f.state = "OPENED"   -> Goto(StartTerminate(Call(f, "down")), "CLOSING")
      [] OTHER                -> f

\* Mutant of fsm_timeout: a retransmission in ACKRCVD stays in ACKRCVD.
TimeoutKeepsAckrcvd(f) ==
    CASE f.state \in Terminating ->
            IF f.retransmits <= 0
              THEN Call(Goto(f, IF f.state = "CLOSING" THEN "CLOSED" ELSE "STOPPED"),
                        "finished")
              ELSE SendTermReq(f)
      [] f.state \in Negotiating ->
            IF f.retransmits <= 0
              THEN Call(Goto(f, "STOPPED"), "finished")
              ELSE fsm_sconfreq(Call(f, "retransmit"), TRUE)
      [] OTHER -> f

\* The callout has left the list before fsm_timeout runs (see Expire).
fsm_timeout(f) ==
    CASE f.state \in Terminating ->
            IF f.retransmits <= 0
              THEN Call(Goto(f, IF f.state = "CLOSING" THEN "CLOSED" ELSE "STOPPED"),
                        "finished")
              ELSE SendTermReq(f)
      [] f.state \in Negotiating ->
            IF f.retransmits <= 0
              THEN IF "PASSIVE" \in f.flags
                     THEN Goto(f, "STOPPED")
                     ELSE Call(Goto(f, "STOPPED"), "finished")
              ELSE LET g == fsm_sconfreq(Call(f, "retransmit"), TRUE)
                   IN  IF g.state = "ACKRCVD" THEN Goto(g, "REQSENT") ELSE g
      [] OTHER -> f

\* Expiry of one pending callout: alrm() unlinks it, then calls fsm_timeout.
Expire(f) == fsm_timeout(Untimeout(f))

----------------------------------------------------------------------------
\* Packets.

\* The switch at the head of fsm_rconfreq, in the states that go on to reply.
RconfreqPrepare(f) ==
    CASE f.state = "OPENED"  -> fsm_sconfreq(Call(f, "down"), FALSE)
      [] f.state = "STOPPED" -> Renegotiate(f)
      [] OTHER               -> f

\* What reqci is told about the negotiation so far.
RejectIfDisagree(f) == f.nakloops >= MaxNak

\* The reply, with reqci's verdict code, and what it does to the state.
RconfreqReply(f, code, id) ==
    LET g == fsm_sdata(f, code, id)
        h == IF code = "CONFNAK" /\ g.nakloops < MaxNak
               THEN SetNakloops(g, g.nakloops + 1) ELSE g
    IN  CASE code = "CONFACK" /\ f.state = "ACKRCVD" ->
                SetNakloops(Call(Goto(Untimeout(g), "OPENED"), "up"), 0)
          [] code = "CONFACK" /\ f.state # "ACKRCVD" ->
                SetNakloops(Goto(g, "ACKSENT"), 0)
          [] OTHER -> IF f.state = "ACKRCVD" THEN h ELSE Goto(h, "REQSENT")

fsm_rconfreq(f, id, code) ==
    CASE f.state = "CLOSED"          -> fsm_sdata(f, "TERMACK", id)
      [] f.state \in Terminating     -> f
      [] OTHER                       -> RconfreqReply(RconfreqPrepare(f), code, id)

fsm_rconfack(f, id, good) ==
    LET g == SetReqid(f, NoReq)
    IN  CASE id # f.reqid \/ ~good -> f
          [] id = f.reqid /\ good  ->
               CASE g.state \in {"CLOSED", "STOPPED"} -> fsm_sdata(g, "TERMACK", id)
                 [] g.state = "REQSENT" ->
                      SetRetransmits(Goto(g, "ACKRCVD"), MaxConf)
                 [] g.state = "ACKRCVD" -> Renegotiate(g)
                 [] g.state = "ACKSENT" ->
                      Call(SetRetransmits(Goto(Untimeout(g), "OPENED"), MaxConf),
                           "up")
                 [] g.state = "OPENED"  -> Renegotiate(Call(g, "down"))
                 [] OTHER               -> g

fsm_rconfnakrej(f, id, good) ==
    LET g == SetReqid(f, NoReq)
    IN  CASE id # f.reqid \/ ~good -> f
          [] id = f.reqid /\ good  ->
               CASE g.state \in {"CLOSED", "STOPPED"} -> fsm_sdata(g, "TERMACK", id)
                 [] g.state \in {"REQSENT", "ACKSENT"} ->
                      fsm_sconfreq(Untimeout(g), FALSE)
                 [] g.state = "ACKRCVD" -> Renegotiate(g)
                 [] g.state = "OPENED"  -> Renegotiate(Call(g, "down"))
                 [] OTHER               -> g

\* Mutant of fsm_rtermreq: STOPPING is entered without a callout.
RtermreqNoTimer(f, id) ==
    LET g == CASE f.state \in {"ACKRCVD", "ACKSENT"} -> Goto(f, "REQSENT")
               [] f.state = "OPENED" ->
                    Goto(SetRetransmits(Call(f, "down"), 0), "STOPPING")
               [] OTHER -> f
    IN  fsm_sdata(g, "TERMACK", id)

fsm_rtermreq(f, id) ==
    LET g == CASE f.state \in {"ACKRCVD", "ACKSENT"} -> Goto(f, "REQSENT")
               [] f.state = "OPENED" ->
                    Timeout(Goto(SetRetransmits(Call(f, "down"), 0), "STOPPING"))
               [] OTHER -> f
    IN  fsm_sdata(g, "TERMACK", id)

fsm_rtermack(f) ==
    CASE f.state = "CLOSING"  -> Call(Goto(f, "CLOSED"), "finished")
      [] f.state = "STOPPING" -> Call(Goto(f, "STOPPED"), "finished")
      [] f.state = "ACKRCVD"  -> Goto(f, "REQSENT")
      [] f.state = "OPENED"   -> fsm_sconfreq(Call(f, "down"), FALSE)
      [] OTHER                -> f

fsm_rcoderej(f) == IF f.state = "ACKRCVD" THEN Goto(f, "REQSENT") ELSE f

fsm_protreject(f) ==
    CASE f.state = "CLOSING" -> Call(Goto(Untimeout(f), "CLOSED"), "finished")
      [] f.state = "CLOSED"  -> Call(f, "finished")
      [] f.state \in Negotiating \cup {"STOPPING"} ->
            Call(Goto(Untimeout(f), "STOPPED"), "finished")
      [] f.state = "STOPPED" -> Call(f, "finished")
      [] f.state = "OPENED"  -> Goto(StartTerminate(Call(f, "down")), "STOPPING")
      [] OTHER               -> f

\* A code fsm_input does not know, which the extcode callback did not take.
UnknownCode(f) == fsm_sdata(IncrId(f), "CODEREJ", IncrId(f).id)

\* fsm_input drops packets while the lower layer is down.
Deaf == {"INITIAL", "STARTING"}

\* fsm_input: p is the packet, verdict what the protocol's callback says of its
\* options (a reply code for reqci, TRUE or FALSE for ackci, nakci and rejci).
Verdicts(code) ==
    CASE code = "CONFREQ" -> {"CONFACK", "CONFNAK", "CONFREJ"}
      [] code \in {"CONFACK", "CONFNAK", "CONFREJ"} -> {"good", "bad"}
      [] OTHER -> {"none"}

fsm_input(f, p, verdict) ==
    CASE f.state \in Deaf -> f
      [] f.state \notin Deaf ->
           CASE p.code = "CONFREQ" -> fsm_rconfreq(f, p.id, verdict)
             [] p.code = "CONFACK" -> fsm_rconfack(f, p.id, verdict = "good")
             [] p.code \in {"CONFNAK", "CONFREJ"} ->
                   fsm_rconfnakrej(f, p.id, verdict = "good")
             [] p.code = "TERMREQ" -> fsm_rtermreq(f, p.id)
             [] p.code = "TERMACK" -> fsm_rtermack(f)
             [] p.code = "CODEREJ" -> fsm_rcoderej(f)
             [] OTHER              -> UnknownCode(f)
============================================================================
