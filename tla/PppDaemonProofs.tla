--------------------------- MODULE PppDaemonProofs ---------------------------
(***************************************************************************)
(* Theorems about PppDaemon, for every id width, retry and echo limit,     *)
(* authentication policy and mode of the daemon.                           *)
(***************************************************************************)
EXTENDS PppDaemon, TLAPS

----------------------------------------------------------------------------
(* What the operations of fsm.c do to the state and which of the callbacks *)
(* up, down and finished they make, for every fsm they may be called on:   *)
(* the facts that lcp.c, ipcp.c and the daemon above them rely on.         *)

Watched == {"up", "down", "finished"}

\* g is an fsm with these flags, in state s, that has made the watched callbacks C.
Res(g, fl, s, C) ==
    /\ g \in FSM /\ g.flags = fl /\ g.state = s
    /\ \A c \in Watched : c \in g.cb <=> c \in C

\* h is what an operation left of g: OPENED is entered with up and left with
\* down, up ends a negotiation, and an fsm that has finished is at rest.
FsmStep(g, h) ==
    /\ h \in FSM /\ h.flags = g.flags
    /\ g.state = "OPENED" /\ h.state # "OPENED" => "down" \in h.cb
    /\ h.state = "OPENED" => g.state = "OPENED" \/ "up" \in h.cb
    /\ "up" \in h.cb => /\ h.state = "OPENED" /\ g.state \in Negotiating
                        /\ "down" \notin h.cb /\ "finished" \notin h.cb
    /\ "finished" \in h.cb => /\ h.state \in {"STOPPED", "CLOSED"}
                              /\ g.state \notin Deaf \cup {"OPENED"}

\* The same of an operation that does not touch the lower layer.
FsmMove(g, h) == FsmStep(g, h) /\ (h.state \in Deaf <=> g.state \in Deaf)

----------------------------------------------------------------------------
(* The building blocks.                                                    *)

(* An assignment to f->state. *)
LEMMA ResGoto ==
  ASSUME NEW g, NEW fl, NEW s, NEW C, Res(g, fl, s, C), NEW t \in States
  PROVE  Res(Goto(g, t), fl, t, C)
  BY DEF Res, Goto, FSM

(* A callback. *)
LEMMA ResCall ==
  ASSUME NEW g, NEW fl, NEW s, NEW C, Res(g, fl, s, C), NEW c \in Callbacks
  PROVE  Res(Call(g, c), fl, s, C \cup {c})
  BY DEF Res, Call, FSM

(* The counters, ids and callouts of an fsm are no part of what is watched. *)
LEMMA ResSet ==
  ASSUME NEW g, NEW fl, NEW s, NEW C, Res(g, fl, s, C)
  PROVE  /\ \A n \in Int : Res(SetRetransmits(g, n), fl, s, C)
         /\ \A n \in 0 .. MaxNak : Res(SetNakloops(g, n), fl, s, C)
         /\ \A i \in Ids : Res(SetReqid(g, i), fl, s, C)
  BY DEF Res, SetRetransmits, SetNakloops, SetReqid, FSM

(* Queuing or dropping a callout. *)
LEMMA ResTimer ==
  ASSUME NEW g, NEW fl, NEW s, NEW C, Res(g, fl, s, C)
  PROVE  Res(Timeout(g), fl, s, C) /\ Res(Untimeout(g), fl, s, C)
<1>1. /\ g.timers + 1 \in Nat
      /\ (IF g.timers > 0 THEN g.timers - 1 ELSE 0) \in Nat
  BY DEF Res, FSM
<1>2. QED
  BY <1>1 DEF Res, Timeout, Untimeout, FSM

(* The next id. *)
LEMMA ResId ==
  ASSUME NEW g, NEW fl, NEW s, NEW C, Res(g, fl, s, C)
  PROVE  Res(IncrId(g), fl, s, C) /\ Res(NewReqid(g), fl, s, C)
<1>1. NextId(g.id) \in Ids
  <2>1. g.id \in Ids
    BY DEF Res, FSM
  <2>2. QED
    BY <2>1, FsmAssumption DEF NextId, Ids
<1>2. Res(IncrId(g), fl, s, C) /\ IncrId(g).id \in Ids
  BY <1>1 DEF Res, IncrId, FSM
<1>3. QED
  BY <1>2, ResSet DEF NewReqid

(* A packet is sent. *)
LEMMA ResSdata ==
  ASSUME NEW g, NEW fl, NEW s, NEW C, Res(g, fl, s, C), NEW c \in Codes, NEW i \in Ids
  PROVE  Res(fsm_sdata(g, c, i), fl, s, C)
<1> DEFINE p == [code |-> c, id |-> i]
<1>1. p \in Packet
  BY DEF Packet
<1>2. fsm_sdata(g, c, i) = [g EXCEPT !.out = Append(@, p)]
  BY DEF fsm_sdata
<1> HIDE DEF p
<1>3. g.out \in Seq(Packet)
  BY DEF Res, FSM
<1>4. Append(g.out, p) \in Seq(Packet)
  BY <1>1, <1>3
<1>5. QED
  BY <1>2, <1>4 DEF Res, FSM

(* A request is sent, fresh or again. *)
LEMMA ResRequest ==
  ASSUME NEW g, NEW fl, NEW s, NEW C, Res(g, fl, s, C), NEW c \in Codes
  PROVE  Res(SendRequest(g, c), fl, s, C)
<1>1. g.reqid \in Ids /\ g.retransmits - 1 \in Int
  BY DEF Res, FSM
<1>2. Res(fsm_sdata(g, c, g.reqid), fl, s, C)
  BY <1>1, ResSdata
<1>3. Res(SetRetransmits(fsm_sdata(g, c, g.reqid), g.retransmits - 1), fl, s, C)
  BY <1>1, <1>2, ResSet
<1>4. QED
  BY <1>3, ResTimer DEF SendRequest

(* fsm_sconfreq leaves the state alone and calls resetci at most. *)
LEMMA ResSconfreq ==
  ASSUME NEW g, NEW fl, NEW s, NEW C, Res(g, fl, s, C), NEW r \in BOOLEAN
  PROVE  Res(fsm_sconfreq(g, r), fl, s, C)
<1> DEFINE a == ResetOptions(g)
           b == IF r THEN a ELSE NewReqid(SetRetransmits(a, MaxConf))
<1>1. Res(a, fl, s, C)
  <2>1. CASE g.state \in Negotiating
    BY <2>1 DEF ResetOptions
  <2>2. CASE g.state \notin Negotiating
    <3>1. 0 \in 0 .. MaxNak /\ "resetci" \in Callbacks
      BY FsmAssumption DEF Callbacks
    <3>2. Res(Call(g, "resetci"), fl, s, C \cup {"resetci"})
      BY <3>1, ResCall
    <3>3. Res(Call(g, "resetci"), fl, s, C)
      BY <3>2 DEF Res, Watched
    <3>4. a = SetNakloops(Call(g, "resetci"), 0)
      BY <2>2 DEF ResetOptions
    <3>5. QED
      BY <3>1, <3>3, <3>4, ResSet
  <2>3. QED
    BY <2>1, <2>2
<1> HIDE DEF a
<1>2. Res(SetRetransmits(a, MaxConf), fl, s, C)
  BY <1>1, FsmAssumption, ResSet
<1>3. Res(b, fl, s, C)
  BY <1>1, <1>2, ResId
<1>4. fsm_sconfreq(g, r) = SendRequest(b, "CONFREQ") /\ "CONFREQ" \in Codes
  BY DEF fsm_sconfreq, a, Codes
<1> HIDE DEF b
<1>5. QED
  BY <1>3, <1>4, ResRequest

(* A new Configure-Request that moves the fsm to REQSENT. *)
LEMMA ResRenegotiate ==
  ASSUME NEW g, NEW fl, NEW s, NEW C, Res(g, fl, s, C)
  PROVE  Res(Renegotiate(g), fl, "REQSENT", C)
  BY ResSconfreq, ResGoto DEF Renegotiate, States

(* A Terminate-Request. *)
LEMMA ResTerminate ==
  ASSUME NEW g, NEW fl, NEW s, NEW C, Res(g, fl, s, C)
  PROVE  Res(SendTermReq(g), fl, s, C) /\ Res(StartTerminate(g), fl, s, C)
<1>1. "TERMREQ" \in Codes
  BY DEF Codes
<1>2. ASSUME NEW h, Res(h, fl, s, C) PROVE Res(SendTermReq(h), fl, s, C)
  <2>1. Res(NewReqid(h), fl, s, C)
    BY <1>2, ResId
  <2>2. QED
    BY <1>1, <2>1, ResRequest DEF SendTermReq
<1>3. Res(SetRetransmits(g, MaxTerm), fl, s, C)
  BY FsmAssumption, ResSet
<1>4. QED
  BY <1>2, <1>3 DEF StartTerminate

----------------------------------------------------------------------------
(* The operations, on an fsm that has made no callback yet.                *)

(* Where an operation starts from. *)
LEMMA ResStart ==
  ASSUME NEW g \in FSM, g.cb = {}
  PROVE  Res(g, g.flags, g.state, {}) /\ g.state \in States /\ FsmStep(g, g) /\ FsmMove(g, g)
  BY DEF Res, FsmStep, FsmMove, FSM

(* From the outcome of an operation to FsmStep. *)
LEMMA ResStep ==
  ASSUME NEW g, NEW h, NEW s, NEW C, Res(h, g.flags, s, C),
         g.state = "OPENED" /\ s # "OPENED" => "down" \in C,
         s = "OPENED" => g.state = "OPENED" \/ "up" \in C,
         "up" \in C => /\ s = "OPENED" /\ g.state \in Negotiating
                       /\ "down" \notin C /\ "finished" \notin C,
         "finished" \in C => s \in {"STOPPED", "CLOSED"} /\ g.state \notin Deaf \cup {"OPENED"}
  PROVE  FsmStep(g, h)
  BY DEF Res, FsmStep, Watched

(* The same for FsmMove. *)
LEMMA ResMove ==
  ASSUME NEW g, NEW h, NEW s, NEW C, Res(h, g.flags, s, C),
         g.state = "OPENED" /\ s # "OPENED" => "down" \in C,
         s = "OPENED" => g.state = "OPENED" \/ "up" \in C,
         "up" \in C => /\ s = "OPENED" /\ g.state \in Negotiating
                       /\ "down" \notin C /\ "finished" \notin C,
         "finished" \in C => s \in {"STOPPED", "CLOSED"} /\ g.state \notin Deaf \cup {"OPENED"},
         s \in Deaf <=> g.state \in Deaf
  PROVE  FsmMove(g, h)
<1>1. FsmStep(g, h)
  BY ResStep
<1>2. QED
  BY <1>1 DEF FsmMove, Res

(* The lower layer comes up: the negotiation starts, or waits for the peer. *)
LEMMA LowerUpRes ==
  ASSUME NEW g, NEW fl, NEW C, NEW s \in States, Res(g, fl, s, C)
  PROVE  \/ s = "INITIAL" /\ Res(fsm_lowerup(g), fl, "CLOSED", C)
         \/ s = "STARTING" /\ Res(fsm_lowerup(g), fl, "STOPPED", C)
         \/ s = "STARTING" /\ Res(fsm_lowerup(g), fl, "REQSENT", C)
         \/ s \notin Deaf /\ fsm_lowerup(g) = g
<1>1. g.state = s
  BY DEF Res
<1>2. Res(Goto(g, "CLOSED"), fl, "CLOSED", C) /\ Res(Goto(g, "STOPPED"), fl, "STOPPED", C)
  BY ResGoto DEF States
<1>3. Res(Renegotiate(g), fl, "REQSENT", C)
  BY ResRenegotiate
<1>4. QED
  BY <1>1, <1>2, <1>3 DEF fsm_lowerup, Deaf

(* fsm_lowerup is a step that leaves OPENED alone. *)
LEMMA LowerUpFacts ==
  ASSUME NEW g \in FSM, g.cb = {}
  PROVE  FsmStep(g, fsm_lowerup(g))
<1>1. Res(g, g.flags, g.state, {}) /\ g.state \in States /\ FsmStep(g, g)
  BY ResStart
<1>2. CASE g.state = "INITIAL"
  <2>1. Res(fsm_lowerup(g), g.flags, "CLOSED", {})
    BY <1>1, <1>2, LowerUpRes DEF Deaf
  <2>2. QED
    BY <1>2, <2>1, ResStep
<1>3. CASE g.state = "STARTING"
  <2>1. Res(fsm_lowerup(g), g.flags, "STOPPED", {}) \/ Res(fsm_lowerup(g), g.flags, "REQSENT", {})
    BY <1>1, <1>3, LowerUpRes DEF Deaf
  <2>2. QED
    BY <1>3, <2>1, ResStep
<1>4. CASE g.state \notin {"INITIAL", "STARTING"}
  <2>1. fsm_lowerup(g) = g
    BY <1>4 DEF fsm_lowerup
  <2>2. QED
    BY <1>1, <2>1
<1>5. QED
  BY <1>2, <1>3, <1>4

(* The lower layer goes down: every state but the two that wait for it is left. *)
LEMMA LowerDownRes ==
  ASSUME NEW g, NEW fl, NEW C, NEW s \in States, Res(g, fl, s, C)
  PROVE  \/ s \in Deaf /\ fsm_lowerdown(g) = g
         \/ s \in {"CLOSED", "CLOSING"} /\ Res(fsm_lowerdown(g), fl, "INITIAL", C)
         \/ s \in Negotiating \cup {"STOPPED", "STOPPING"} /\ Res(fsm_lowerdown(g), fl, "STARTING", C)
         \/ s = "OPENED" /\ Res(fsm_lowerdown(g), fl, "STARTING", C \cup {"down"})
<1>1. g.state = s
  BY DEF Res
<1>2. "INITIAL" \in States /\ "STARTING" \in States /\ "down" \in Callbacks /\ "starting" \in Callbacks
  BY DEF States, Callbacks
<1>3. Res(Goto(g, "INITIAL"), fl, "INITIAL", C) /\ Res(Goto(g, "STARTING"), fl, "STARTING", C)
  BY <1>2, ResGoto
<1>4. /\ Res(Untimeout(Goto(g, "INITIAL")), fl, "INITIAL", C)
      /\ Res(Untimeout(Goto(g, "STARTING")), fl, "STARTING", C)
  BY <1>3, ResTimer
<1>5. Res(Call(Goto(g, "STARTING"), "starting"), fl, "STARTING", C)
  <2>1. Res(Call(Goto(g, "STARTING"), "starting"), fl, "STARTING", C \cup {"starting"})
    BY <1>2, <1>3, ResCall
  <2>2. QED
    BY <2>1 DEF Res, Watched
<1>6. Res(Goto(Call(g, "down"), "STARTING"), fl, "STARTING", C \cup {"down"})
  <2>1. Res(Call(g, "down"), fl, s, C \cup {"down"})
    BY <1>2, ResCall
  <2>2. QED
    BY <1>2, <2>1, ResGoto
<1>7. CASE s = "CLOSED"
  BY <1>1, <1>3, <1>7 DEF fsm_lowerdown, Negotiating
<1>8. CASE s = "STOPPED"
  BY <1>1, <1>5, <1>8 DEF fsm_lowerdown, Negotiating
<1>9. CASE s = "CLOSING"
  BY <1>1, <1>4, <1>9 DEF fsm_lowerdown
<1>10. CASE s \in Negotiating \cup {"STOPPING"}
  BY <1>1, <1>4, <1>10 DEF fsm_lowerdown, Negotiating
<1>11. CASE s = "OPENED"
  BY <1>1, <1>6, <1>11 DEF fsm_lowerdown, Negotiating
<1>12. CASE s \in Deaf
  BY <1>1, <1>12 DEF fsm_lowerdown, Negotiating, Deaf
<1>13. QED
  BY <1>7, <1>8, <1>9, <1>10, <1>11, <1>12 DEF States, Negotiating, Deaf

(* fsm_lowerdown calls down just when it leaves OPENED, and ends up waiting for the
   lower layer. *)
LEMMA LowerDownFacts ==
  ASSUME NEW g \in FSM, g.cb = {}
  PROVE  FsmStep(g, fsm_lowerdown(g)) /\ fsm_lowerdown(g).state \in Deaf
<1>1. Res(g, g.flags, g.state, {}) /\ g.state \in States /\ FsmStep(g, g)
  BY ResStart
<1>2. CASE g.state \in Deaf
  <2>1. fsm_lowerdown(g) = g
    BY <1>1, <1>2, LowerDownRes DEF Deaf, Negotiating
  <2>2. QED
    BY <1>1, <1>2, <2>1
<1>3. CASE g.state = "OPENED"
  <2>1. Res(fsm_lowerdown(g), g.flags, "STARTING", {} \cup {"down"})
    BY <1>1, <1>3, LowerDownRes DEF Deaf, Negotiating
  <2>2. QED
    BY <1>3, <2>1, ResStep DEF Res, Deaf
<1>4. CASE g.state \notin Deaf \cup {"OPENED"}
  <2>1. PICK t \in {"INITIAL", "STARTING"} : Res(fsm_lowerdown(g), g.flags, t, {})
    BY <1>1, <1>4, LowerDownRes
  <2>2. QED
    BY <1>4, <2>1, ResStep DEF Res, Deaf
<1>5. QED
  BY <1>2, <1>3, <1>4

(* fsm_open, a restart included, calls down when it leaves OPENED and never up. *)
LEMMA OpenFacts ==
  ASSUME NEW g \in FSM, g.cb = {}
  PROVE  /\ FsmStep(g, fsm_open(g)) /\ "up" \notin fsm_open(g).cb
         /\ g.state \in Deaf => fsm_open(g).state \in Deaf
         /\ g.state \notin Deaf => fsm_open(g).state \notin Deaf
<1>0. /\ Res(g, g.flags, g.state, {}) /\ g.state \in States /\ FsmStep(g, g)
      /\ "up" \notin g.cb /\ "STOPPING" \in States /\ "STARTING" \in States
      /\ "starting" \in Callbacks
  BY ResStart DEF States, Callbacks
<1>1. ASSUME NEW h, NEW s \in {"STOPPED", "STOPPING", "OPENED"}, Res(h, g.flags, s, {}),
             "RESTART" \in h.flags
      PROVE  \E C \in {{}, {"down"}}, t \in {"STOPPED", "REQSENT"} :
                Res(Restart(h), g.flags, t, C) /\ (s = "OPENED" => C = {"down"})
  <2>1. s \in States /\ s \notin Deaf
    BY DEF States, Deaf
  <2>2. PICK C \in {{}, {"down"}} :
          Res(fsm_lowerdown(h), g.flags, "STARTING", C) /\ (s = "OPENED" => C = {"down"})
    <3>1. CASE s = "OPENED"
      <4>1. Res(fsm_lowerdown(h), g.flags, "STARTING", {} \cup {"down"})
        BY <1>1, <2>1, <3>1, LowerDownRes DEF Negotiating
      <4>2. {} \cup {"down"} = {"down"}
        OBVIOUS
      <4>3. QED
        BY <4>1, <4>2
    <3>2. CASE s # "OPENED"
      BY <1>1, <2>1, <3>2, LowerDownRes
    <3>3. QED
      BY <3>1, <3>2
  <2>3. Restart(h) = fsm_lowerup(fsm_lowerdown(h))
    BY <1>1 DEF Restart
  <2>4. PICK t \in {"STOPPED", "REQSENT"} : Res(Restart(h), g.flags, t, C)
    BY <1>0, <2>2, <2>3, LowerUpRes DEF Deaf
  <2>5. QED
    BY <2>2, <2>4
<1>2. CASE g.state = "INITIAL"
  <2>1. fsm_open(g) = Call(Goto(g, "STARTING"), "starting")
    BY <1>2 DEF fsm_open
  <2>2. Res(Goto(g, "STARTING"), g.flags, "STARTING", {})
    BY <1>0, ResGoto
  <2>3. Res(fsm_open(g), g.flags, "STARTING", {} \cup {"starting"})
    BY <1>0, <2>1, <2>2, ResCall
  <2>4. QED
    BY <1>2, <2>3, ResStep DEF Res, Watched, Deaf
<1>3. CASE g.state = "CLOSED"
  <2>1. PICK t \in {"STOPPED", "REQSENT"} : Res(fsm_open(g), g.flags, t, {})
    BY <1>0, <1>3, ResGoto, ResRenegotiate DEF fsm_open, States
  <2>2. QED
    BY <1>3, <2>1, ResStep DEF Res, Watched, Deaf
<1>4. CASE g.state = "CLOSING"
  <2> DEFINE h == Goto(g, "STOPPING")
  <2>1. fsm_open(g) = Restart(h)
    BY <1>4 DEF fsm_open
  <2>2. Res(h, g.flags, "STOPPING", {})
    BY <1>0, ResGoto
  <2> HIDE DEF h
  <2>3. \E C \in {{}, {"down"}}, t \in {"STOPPED", "STOPPING", "REQSENT"} :
            Res(fsm_open(g), g.flags, t, C)
    <3>1. CASE "RESTART" \in h.flags
      BY <1>1, <2>1, <2>2, <3>1
    <3>2. CASE "RESTART" \notin h.flags
      BY <2>1, <2>2, <3>2 DEF Restart
    <3>3. QED
      BY <3>1, <3>2
  <2>4. QED
    BY <1>4, <2>3, ResStep DEF Res, Watched, Deaf
<1>5. CASE g.state \in {"STOPPED", "OPENED"}
  <2>1. fsm_open(g) = Restart(g)
    BY <1>5 DEF fsm_open
  <2>2. CASE "RESTART" \in g.flags
    <3>1. PICK C \in {{}, {"down"}}, t \in {"STOPPED", "REQSENT"} :
                Res(fsm_open(g), g.flags, t, C) /\ (g.state = "OPENED" => C = {"down"})
      BY <1>0, <1>1, <1>5, <2>1, <2>2
    <3>2. QED
      BY <1>5, <3>1, ResStep DEF Res, Watched, Deaf
  <2>3. CASE "RESTART" \notin g.flags
    BY <1>0, <1>5, <2>1, <2>3 DEF Restart
  <2>4. QED
    BY <2>2, <2>3
<1>6. CASE g.state \notin {"INITIAL", "CLOSED", "CLOSING", "STOPPED", "OPENED"}
  <2>1. fsm_open(g) = g
    BY <1>6 DEF fsm_open
  <2>2. QED
    BY <1>0, <2>1
<1>7. QED
  BY <1>2, <1>3, <1>4, <1>5, <1>6

(* fsm_close calls down when it leaves OPENED, and neither up nor finished. *)
LEMMA CloseFacts ==
  ASSUME NEW g \in FSM, g.cb = {}
  PROVE  /\ FsmStep(g, fsm_close(g))
         /\ "up" \notin fsm_close(g).cb /\ "finished" \notin fsm_close(g).cb
         /\ fsm_close(g).state # "OPENED"
         /\ g.state \in Deaf => fsm_close(g).state \in Deaf
<1>0. /\ Res(g, g.flags, g.state, {}) /\ g.state \in States /\ FsmStep(g, g)
      /\ "INITIAL" \in States /\ "CLOSED" \in States /\ "CLOSING" \in States
      /\ "down" \in Callbacks
  BY ResStart DEF States, Callbacks
<1>1. CASE g.state \in {"STARTING", "STOPPED", "STOPPING"}
  <2>1. PICK t \in {"INITIAL", "CLOSED", "CLOSING"} :
          fsm_close(g) = Goto(g, t) /\ (g.state = "STARTING" => t = "INITIAL")
    BY <1>1 DEF fsm_close, Negotiating
  <2>2. Res(fsm_close(g), g.flags, t, {})
    BY <1>0, <2>1, ResGoto
  <2>3. QED
    BY <1>1, <2>1, <2>2, ResStep DEF Res, Watched, Deaf
<1>2. CASE g.state \in Negotiating
  <2>1. fsm_close(g) = Goto(StartTerminate(Untimeout(g)), "CLOSING")
    BY <1>2 DEF fsm_close, Negotiating
  <2>2. Res(Untimeout(g), g.flags, g.state, {})
    BY <1>0, ResTimer
  <2>3. Res(StartTerminate(Untimeout(g)), g.flags, g.state, {})
    BY <2>2, ResTerminate
  <2>4. Res(fsm_close(g), g.flags, "CLOSING", {})
    BY <1>0, <2>1, <2>3, ResGoto
  <2>5. QED
    BY <1>2, <2>4, ResStep DEF Res, Watched, Deaf, Negotiating
<1>3. CASE g.state = "OPENED"
  <2>1. fsm_close(g) = Goto(StartTerminate(Call(g, "down")), "CLOSING")
    BY <1>3 DEF fsm_close, Negotiating
  <2>2. Res(Call(g, "down"), g.flags, g.state, {} \cup {"down"})
    BY <1>0, ResCall
  <2>3. Res(StartTerminate(Call(g, "down")), g.flags, g.state, {} \cup {"down"})
    BY <2>2, ResTerminate
  <2>4. Res(fsm_close(g), g.flags, "CLOSING", {} \cup {"down"})
    BY <1>0, <2>1, <2>3, ResGoto
  <2>5. QED
    BY <1>3, <2>4, ResStep DEF Res, Watched, Deaf
<1>4. CASE g.state \notin Negotiating \cup {"STARTING", "STOPPED", "STOPPING", "OPENED"}
  <2>1. fsm_close(g) = g
    BY <1>4 DEF fsm_close
  <2>2. QED
    BY <1>0, <1>4, <2>1
<1>5. QED
  BY <1>1, <1>2, <1>3, <1>4

(* fsm_protreject ends whatever is going on. *)
LEMMA ProtrejectFacts ==
  ASSUME NEW g \in FSM, g.cb = {}
  PROVE  FsmMove(g, fsm_protreject(g))
<1>0. /\ Res(g, g.flags, g.state, {}) /\ g.state \in States /\ FsmMove(g, g)
      /\ "STOPPED" \in States /\ "CLOSED" \in States /\ "STOPPING" \in States
      /\ "down" \in Callbacks /\ "finished" \in Callbacks
  BY ResStart DEF States, Callbacks
<1>1. CASE g.state \in Negotiating \cup {"CLOSING", "STOPPING"}
  <2>1. PICK t \in {"STOPPED", "CLOSED"} :
          fsm_protreject(g) = Call(Goto(Untimeout(g), t), "finished")
    BY <1>1 DEF fsm_protreject, Negotiating
  <2>2. Res(Untimeout(g), g.flags, g.state, {})
    BY <1>0, ResTimer
  <2>3. Res(Goto(Untimeout(g), t), g.flags, t, {})
    BY <1>0, <2>2, ResGoto
  <2>4. Res(fsm_protreject(g), g.flags, t, {} \cup {"finished"})
    BY <1>0, <2>1, <2>3, ResCall
  <2>5. QED
    BY <1>1, <2>4, ResMove DEF Deaf, Negotiating
<1>2. CASE g.state \in {"CLOSED", "STOPPED"}
  <2>1. fsm_protreject(g) = Call(g, "finished")
    BY <1>2 DEF fsm_protreject, Negotiating
  <2>2. Res(fsm_protreject(g), g.flags, g.state, {} \cup {"finished"})
    BY <1>0, <2>1, ResCall
  <2>3. QED
    BY <1>2, <2>2, ResMove DEF Deaf
<1>3. CASE g.state = "OPENED"
  <2>1. fsm_protreject(g) = Goto(StartTerminate(Call(g, "down")), "STOPPING")
    BY <1>3 DEF fsm_protreject, Negotiating
  <2>2. Res(Call(g, "down"), g.flags, g.state, {} \cup {"down"})
    BY <1>0, ResCall
  <2>3. Res(StartTerminate(Call(g, "down")), g.flags, g.state, {} \cup {"down"})
    BY <2>2, ResTerminate
  <2>4. Res(fsm_protreject(g), g.flags, "STOPPING", {} \cup {"down"})
    BY <1>0, <2>1, <2>3, ResGoto
  <2>5. QED
    BY <1>3, <2>4, ResMove DEF Deaf
<1>4. CASE g.state \in Deaf
  <2>1. fsm_protreject(g) = g
    BY <1>4 DEF fsm_protreject, Deaf, Negotiating
  <2>2. QED
    BY <1>0, <1>4, <2>1
<1>5. QED
  BY <1>0, <1>1, <1>2, <1>3, <1>4 DEF States, Deaf, Negotiating

(* A callout expires: fsm_timeout sends again or finishes, and calls neither up nor
   down. *)
LEMMA ExpireFacts ==
  ASSUME NEW g \in FSM, g.cb = {}
  PROVE  /\ FsmMove(g, Expire(g)) /\ "up" \notin Expire(g).cb /\ "down" \notin Expire(g).cb
<1> DEFINE h == Untimeout(g)
<1>0. /\ Res(h, g.flags, g.state, {}) /\ g.state \in States
      /\ "STOPPED" \in States /\ "CLOSED" \in States /\ "REQSENT" \in States
      /\ "retransmit" \in Callbacks /\ "finished" \in Callbacks
  BY ResStart, ResTimer DEF States, Callbacks
<1>1. Expire(g) = fsm_timeout(h)
  BY DEF Expire
<1> HIDE DEF h
<1>2. h.state = g.state /\ h.flags = g.flags
  BY <1>0 DEF Res
<1>3. CASE g.state \in Terminating /\ h.retransmits <= 0
  <2>1. PICK t \in {"CLOSED", "STOPPED"} : Expire(g) = Call(Goto(h, t), "finished")
    BY <1>1, <1>2, <1>3 DEF fsm_timeout, Negotiating, Terminating
  <2>2. Res(Goto(h, t), g.flags, t, {})
    BY <1>0, ResGoto
  <2>3. Res(Expire(g), g.flags, t, {} \cup {"finished"})
    BY <1>0, <2>1, <2>2, ResCall
  <2>4. QED
    BY <1>3, <2>3, ResMove DEF Res, Watched, Deaf, Terminating
<1>4. CASE g.state \in Terminating /\ ~ (h.retransmits <= 0)
  <2>1. Expire(g) = SendTermReq(h)
    BY <1>1, <1>2, <1>4 DEF fsm_timeout, Negotiating, Terminating
  <2>2. Res(Expire(g), g.flags, g.state, {})
    BY <1>0, <2>1, ResTerminate
  <2>3. QED
    BY <1>4, <2>2, ResMove DEF Res, Watched, Deaf, Terminating
<1>5. CASE g.state \in Negotiating /\ h.retransmits <= 0
  <2>1. Res(Goto(h, "STOPPED"), g.flags, "STOPPED", {})
    BY <1>0, ResGoto
  <2>2. Res(Call(Goto(h, "STOPPED"), "finished"), g.flags, "STOPPED", {} \cup {"finished"})
    BY <1>0, <2>1, ResCall
  <2>3. Expire(g) = Goto(h, "STOPPED") \/ Expire(g) = Call(Goto(h, "STOPPED"), "finished")
    BY <1>1, <1>2, <1>5 DEF fsm_timeout, Negotiating, Terminating
  <2>4. CASE Expire(g) = Goto(h, "STOPPED")
    BY <1>5, <2>1, <2>4, ResMove DEF Res, Watched, Deaf, Negotiating
  <2>5. CASE Expire(g) = Call(Goto(h, "STOPPED"), "finished")
    BY <1>5, <2>2, <2>5, ResMove DEF Res, Watched, Deaf, Negotiating
  <2>6. QED
    BY <2>3, <2>4, <2>5
<1>6. CASE g.state \in Negotiating /\ ~ (h.retransmits <= 0)
  <2> DEFINE r == fsm_sconfreq(Call(h, "retransmit"), TRUE)
  <2>1. Expire(g) = IF r.state = "ACKRCVD" THEN Goto(r, "REQSENT") ELSE r
    BY <1>1, <1>2, <1>6 DEF fsm_timeout, Negotiating, Terminating
  <2>2. Res(Call(h, "retransmit"), g.flags, g.state, {} \cup {"retransmit"})
    BY <1>0, ResCall
  <2>3. Res(r, g.flags, g.state, {} \cup {"retransmit"})
    BY <2>2, ResSconfreq
  <2> HIDE DEF r
  <2>4. PICK t \in Negotiating : Res(Expire(g), g.flags, t, {} \cup {"retransmit"})
    BY <1>0, <1>6, <2>1, <2>3, ResGoto DEF Negotiating
  <2>5. QED
    BY <1>6, <2>4, ResMove DEF Res, Watched, Deaf, Negotiating
<1>7. CASE g.state \notin Negotiating \cup Terminating
  <2>1. Expire(g) = h
    BY <1>1, <1>2, <1>7 DEF fsm_timeout
  <2>2. QED
    BY <1>0, <2>1, ResMove DEF Res, Watched, Deaf
<1>8. QED
  BY <1>3, <1>4, <1>5, <1>6, <1>7

(* A Configure-Request: the reply may complete the negotiation of ACKRCVD. *)
LEMMA RconfreqFacts ==
  ASSUME NEW g \in FSM, g.cb = {}, g.state \notin Deaf, NEW i \in Ids,
         NEW c \in {"CONFACK", "CONFNAK", "CONFREJ"}
  PROVE  FsmMove(g, fsm_rconfreq(g, i, c))
<1>0. /\ Res(g, g.flags, g.state, {}) /\ g.state \in States /\ FsmMove(g, g)
      /\ "OPENED" \in States /\ "ACKSENT" \in States /\ "REQSENT" \in States
      /\ "down" \in Callbacks /\ "up" \in Callbacks /\ "TERMACK" \in Codes /\ c \in Codes
      /\ 0 \in 0 .. MaxNak
  BY FsmAssumption, ResStart DEF States, Callbacks, Codes
<1>1. CASE g.state = "CLOSED"
  <2>1. fsm_rconfreq(g, i, c) = fsm_sdata(g, "TERMACK", i)
    BY <1>1 DEF fsm_rconfreq, Terminating
  <2>2. Res(fsm_rconfreq(g, i, c), g.flags, g.state, {})
    BY <1>0, <2>1, ResSdata
  <2>3. QED
    BY <1>1, <2>2, ResMove DEF Deaf
<1>2. CASE g.state \in Terminating
  <2>1. fsm_rconfreq(g, i, c) = g
    BY <1>2 DEF fsm_rconfreq, Terminating
  <2>2. QED
    BY <1>0, <2>1
<1>3. CASE g.state \notin Terminating \cup {"CLOSED"}
  <2> DEFINE h == RconfreqPrepare(g)
             a == fsm_sdata(h, c, i)
             b == IF c = "CONFNAK" /\ a.nakloops < MaxNak
                    THEN SetNakloops(a, a.nakloops + 1) ELSE a
  <2>1. fsm_rconfreq(g, i, c) = RconfreqReply(h, c, i)
    BY <1>3 DEF fsm_rconfreq
  <2>2. PICK s \in {"OPENED", "REQSENT", "ACKRCVD", "ACKSENT"}, C \in {{}, {"down"}} :
          /\ Res(h, g.flags, s, C)
          /\ g.state = "OPENED" => "down" \in C
          /\ s = "ACKRCVD" => g.state = "ACKRCVD" /\ C = {}
    <3>1. CASE g.state = "OPENED"
      <4>1. h = fsm_sconfreq(Call(g, "down"), FALSE)
        BY <3>1 DEF RconfreqPrepare
      <4>2. Res(Call(g, "down"), g.flags, "OPENED", {} \cup {"down"})
        BY <1>0, <3>1, ResCall
      <4>3. Res(h, g.flags, "OPENED", {} \cup {"down"})
        BY <4>1, <4>2, ResSconfreq
      <4>4. {} \cup {"down"} = {"down"}
        OBVIOUS
      <4>5. QED
        BY <4>3, <4>4
    <3>2. CASE g.state = "STOPPED"
      <4>1. Res(h, g.flags, "REQSENT", {})
        BY <1>0, <3>2, ResRenegotiate DEF RconfreqPrepare
      <4>2. QED
        BY <3>2, <4>1
    <3>3. CASE g.state \in Negotiating
      <4>1. h = g
        BY <3>3 DEF RconfreqPrepare, Negotiating
      <4>2. QED
        BY <1>0, <3>3, <4>1 DEF Negotiating
    <3>4. QED
      BY <1>0, <1>3, <3>1, <3>2, <3>3 DEF States, Deaf, Negotiating, Terminating
  <2> HIDE DEF h
  <2>3. Res(a, g.flags, s, C)
    BY <1>0, <2>2, ResSdata
  <2>4. h.state = s
    BY <2>2 DEF Res
  <2>5. CASE c = "CONFACK" /\ s = "ACKRCVD"
    <3>1. RconfreqReply(h, c, i) = SetNakloops(Call(Goto(Untimeout(a), "OPENED"), "up"), 0)
      BY <2>4, <2>5 DEF RconfreqReply
    <3> HIDE DEF a
    <3>2. Res(Untimeout(a), g.flags, s, C)
      BY <2>3, ResTimer
    <3>3. Res(Goto(Untimeout(a), "OPENED"), g.flags, "OPENED", C)
      BY <1>0, <3>2, ResGoto
    <3>4. Res(Call(Goto(Untimeout(a), "OPENED"), "up"), g.flags, "OPENED", C \cup {"up"})
      BY <1>0, <3>3, ResCall
    <3>5. Res(fsm_rconfreq(g, i, c), g.flags, "OPENED", C \cup {"up"})
      BY <1>0, <2>1, <3>1, <3>4, ResSet
    <3>6. QED
      BY <2>2, <2>5, <3>5, ResMove DEF Negotiating, Deaf
  <2>6. CASE c = "CONFACK" /\ s # "ACKRCVD"
    <3>1. RconfreqReply(h, c, i) = SetNakloops(Goto(a, "ACKSENT"), 0)
      BY <2>4, <2>6 DEF RconfreqReply
    <3> HIDE DEF a
    <3>2. Res(Goto(a, "ACKSENT"), g.flags, "ACKSENT", C)
      BY <1>0, <2>3, ResGoto
    <3>3. Res(fsm_rconfreq(g, i, c), g.flags, "ACKSENT", C)
      BY <1>0, <2>1, <3>1, <3>2, ResSet
    <3>4. QED
      BY <2>2, <3>3, ResMove DEF Deaf
  <2>7. CASE c # "CONFACK"
    <3>1. RconfreqReply(h, c, i) = IF s = "ACKRCVD" THEN b ELSE Goto(b, "REQSENT")
      BY <2>4, <2>7 DEF RconfreqReply
    <3> HIDE DEF a
    <3>2. a.nakloops \in 0 .. MaxNak
      BY <2>3 DEF Res, FSM
    <3>3. a.nakloops < MaxNak => a.nakloops + 1 \in 0 .. MaxNak
      BY <3>2, FsmAssumption
    <3>4. Res(b, g.flags, s, C)
      BY <2>3, <3>3, ResSet
    <3> HIDE DEF b
    <3>5. Res(Goto(b, "REQSENT"), g.flags, "REQSENT", C)
      BY <1>0, <3>4, ResGoto
    <3>6. CASE s = "ACKRCVD"
      <4>1. Res(fsm_rconfreq(g, i, c), g.flags, s, C)
        BY <2>1, <3>1, <3>4, <3>6
      <4>2. QED
        BY <2>2, <3>6, <4>1, ResMove DEF Deaf
    <3>7. CASE s # "ACKRCVD"
      <4>1. Res(fsm_rconfreq(g, i, c), g.flags, "REQSENT", C)
        BY <2>1, <3>1, <3>5, <3>7
      <4>2. QED
        BY <2>2, <4>1, ResMove DEF Deaf
    <3>8. QED
      BY <3>6, <3>7
  <2>8. QED
    BY <2>5, <2>6, <2>7
<1>4. QED
  BY <1>1, <1>2, <1>3

(* A Configure-Ack: it may complete the negotiation of ACKSENT. *)
LEMMA RconfackFacts ==
  ASSUME NEW g \in FSM, g.cb = {}, NEW i \in Ids, NEW good \in BOOLEAN
  PROVE  FsmMove(g, fsm_rconfack(g, i, good))
<1>0. /\ Res(g, g.flags, g.state, {}) /\ g.state \in States /\ FsmMove(g, g)
      /\ "OPENED" \in States /\ "ACKRCVD" \in States
      /\ "down" \in Callbacks /\ "up" \in Callbacks /\ "TERMACK" \in Codes
      /\ MaxConf \in Int
  BY FsmAssumption, ResStart DEF States, Callbacks, Codes
<1> DEFINE r == fsm_rconfack(g, i, good)
           h == SetReqid(g, NoReq)
<1>1. CASE i # g.reqid \/ ~good
  <2>1. r = g
    BY <1>1 DEF fsm_rconfack
  <2>2. QED
    BY <1>0, <2>1
<1>2. CASE i = g.reqid /\ good
  <2>1. NoReq \in Ids
    BY FsmAssumption DEF NoReq, Ids
  <2>2. Res(h, g.flags, g.state, {})
    BY <1>0, <2>1, ResSet
  <2>3. h.state = g.state
    BY <2>2 DEF Res
  <2>4. r = CASE h.state \in {"CLOSED", "STOPPED"} -> fsm_sdata(h, "TERMACK", i)
              [] h.state = "REQSENT" -> SetRetransmits(Goto(h, "ACKRCVD"), MaxConf)
              [] h.state = "ACKRCVD" -> Renegotiate(h)
              [] h.state = "ACKSENT" ->
                   Call(SetRetransmits(Goto(Untimeout(h), "OPENED"), MaxConf), "up")
              [] h.state = "OPENED"  -> Renegotiate(Call(h, "down"))
              [] OTHER               -> h
    BY <1>2 DEF fsm_rconfack
  <2> HIDE DEF h, r
  <2>5. CASE g.state \in {"CLOSED", "STOPPED"}
    <3>1. r = fsm_sdata(h, "TERMACK", i)
      BY <2>3, <2>4, <2>5
    <3>2. Res(r, g.flags, g.state, {})
      BY <1>0, <2>2, <3>1, ResSdata
    <3>3. QED
      BY <2>5, <3>2, ResMove DEF r, Deaf
  <2>6. CASE g.state = "REQSENT"
    <3>1. r = SetRetransmits(Goto(h, "ACKRCVD"), MaxConf)
      BY <2>3, <2>4, <2>6
    <3>2. Res(Goto(h, "ACKRCVD"), g.flags, "ACKRCVD", {})
      BY <1>0, <2>2, ResGoto
    <3>3. Res(r, g.flags, "ACKRCVD", {})
      BY <1>0, <3>1, <3>2, ResSet
    <3>4. QED
      BY <2>6, <3>3, ResMove DEF r, Deaf
  <2>7. CASE g.state = "ACKRCVD"
    <3>1. Res(r, g.flags, "REQSENT", {})
      BY <2>2, <2>3, <2>4, <2>7, ResRenegotiate
    <3>2. QED
      BY <2>7, <3>1, ResMove DEF r, Deaf
  <2>8. CASE g.state = "ACKSENT"
    <3>1. r = Call(SetRetransmits(Goto(Untimeout(h), "OPENED"), MaxConf), "up")
      BY <2>3, <2>4, <2>8
    <3>2. Res(Untimeout(h), g.flags, g.state, {})
      BY <2>2, ResTimer
    <3>3. Res(Goto(Untimeout(h), "OPENED"), g.flags, "OPENED", {})
      BY <1>0, <3>2, ResGoto
    <3>4. Res(SetRetransmits(Goto(Untimeout(h), "OPENED"), MaxConf), g.flags, "OPENED", {})
      BY <1>0, <3>3, ResSet
    <3>5. Res(r, g.flags, "OPENED", {} \cup {"up"})
      BY <1>0, <3>1, <3>4, ResCall
    <3>6. QED
      BY <2>8, <3>5, ResMove DEF r, Negotiating, Deaf
  <2>9. CASE g.state = "OPENED"
    <3>1. r = Renegotiate(Call(h, "down"))
      BY <2>3, <2>4, <2>9
    <3>2. Res(Call(h, "down"), g.flags, g.state, {} \cup {"down"})
      BY <1>0, <2>2, ResCall
    <3>3. Res(r, g.flags, "REQSENT", {} \cup {"down"})
      BY <3>1, <3>2, ResRenegotiate
    <3>4. QED
      BY <2>9, <3>3, ResMove DEF r, Deaf
  <2>10. CASE g.state \notin Negotiating \cup {"CLOSED", "STOPPED", "OPENED"}
    <3>1. r = h
      BY <2>3, <2>4, <2>10 DEF Negotiating
    <3>2. QED
      BY <2>2, <2>10, <3>1, ResMove DEF r, Deaf
  <2>11. QED
    BY <2>5, <2>6, <2>7, <2>8, <2>9, <2>10 DEF Negotiating
<1>3. QED
  BY <1>1, <1>2

(* A Configure-Nak or a Configure-Reject: the request is sent anew. *)
LEMMA RconfnakrejFacts ==
  ASSUME NEW g \in FSM, g.cb = {}, NEW i \in Ids, NEW good \in BOOLEAN
  PROVE  FsmMove(g, fsm_rconfnakrej(g, i, good)) /\ "up" \notin fsm_rconfnakrej(g, i, good).cb
<1>0. /\ Res(g, g.flags, g.state, {}) /\ g.state \in States /\ FsmMove(g, g)
      /\ "down" \in Callbacks /\ "TERMACK" \in Codes
  BY ResStart DEF States, Callbacks, Codes
<1> DEFINE r == fsm_rconfnakrej(g, i, good)
           h == SetReqid(g, NoReq)
<1>1. CASE i # g.reqid \/ ~good
  <2>1. r = g
    BY <1>1 DEF fsm_rconfnakrej
  <2>2. QED
    BY <1>0, <2>1
<1>2. CASE i = g.reqid /\ good
  <2>1. NoReq \in Ids
    BY FsmAssumption DEF NoReq, Ids
  <2>2. Res(h, g.flags, g.state, {})
    BY <1>0, <2>1, ResSet
  <2>3. h.state = g.state
    BY <2>2 DEF Res
  <2>4. r = CASE h.state \in {"CLOSED", "STOPPED"} -> fsm_sdata(h, "TERMACK", i)
              [] h.state \in {"REQSENT", "ACKSENT"} -> fsm_sconfreq(Untimeout(h), FALSE)
              [] h.state = "ACKRCVD" -> Renegotiate(h)
              [] h.state = "OPENED"  -> Renegotiate(Call(h, "down"))
              [] OTHER               -> h
    BY <1>2 DEF fsm_rconfnakrej
  <2> HIDE DEF h, r
  <2>5. CASE g.state \in {"CLOSED", "STOPPED"}
    <3>1. r = fsm_sdata(h, "TERMACK", i)
      BY <2>3, <2>4, <2>5
    <3>2. Res(r, g.flags, g.state, {})
      BY <1>0, <2>2, <3>1, ResSdata
    <3>3. QED
      BY <2>5, <3>2, ResMove DEF r, Res, Watched, Deaf
  <2>6. CASE g.state \in {"REQSENT", "ACKSENT"}
    <3>1. r = fsm_sconfreq(Untimeout(h), FALSE)
      BY <2>3, <2>4, <2>6
    <3>2. Res(Untimeout(h), g.flags, g.state, {})
      BY <2>2, ResTimer
    <3>3. Res(r, g.flags, g.state, {})
      BY <3>1, <3>2, ResSconfreq
    <3>4. QED
      BY <2>6, <3>3, ResMove DEF r, Res, Watched, Deaf
  <2>7. CASE g.state = "ACKRCVD"
    <3>1. Res(r, g.flags, "REQSENT", {})
      BY <2>2, <2>3, <2>4, <2>7, ResRenegotiate
    <3>2. QED
      BY <2>7, <3>1, ResMove DEF r, Res, Watched, Deaf
  <2>8. CASE g.state = "OPENED"
    <3>1. r = Renegotiate(Call(h, "down"))
      BY <2>3, <2>4, <2>8
    <3>2. Res(Call(h, "down"), g.flags, g.state, {} \cup {"down"})
      BY <1>0, <2>2, ResCall
    <3>3. Res(r, g.flags, "REQSENT", {} \cup {"down"})
      BY <3>1, <3>2, ResRenegotiate
    <3>4. QED
      BY <2>8, <3>3, ResMove DEF r, Res, Watched, Deaf
  <2>9. CASE g.state \notin Negotiating \cup {"CLOSED", "STOPPED", "OPENED"}
    <3>1. r = h
      BY <2>3, <2>4, <2>9 DEF Negotiating
    <3>2. QED
      BY <2>2, <2>9, <3>1, ResMove DEF r, Res, Watched, Deaf
  <2>10. QED
    BY <2>5, <2>6, <2>7, <2>8, <2>9 DEF Negotiating
<1>3. QED
  BY <1>1, <1>2

(* The other packets: Terminate-Request, Terminate-Ack, Code-Reject, unknown codes. *)
LEMMA OtherPacketFacts ==
  ASSUME NEW g \in FSM, g.cb = {}, g.state \notin Deaf, NEW i \in Ids
  PROVE  /\ FsmMove(g, fsm_rtermreq(g, i)) /\ FsmMove(g, fsm_rtermack(g))
         /\ FsmMove(g, fsm_rcoderej(g)) /\ FsmMove(g, UnknownCode(g))
<1>0. /\ Res(g, g.flags, g.state, {}) /\ g.state \in States /\ FsmMove(g, g)
      /\ "REQSENT" \in States /\ "CLOSED" \in States /\ "STOPPED" \in States
      /\ "STOPPING" \in States /\ "TERMACK" \in Codes /\ "CODEREJ" \in Codes
      /\ "down" \in Callbacks /\ "finished" \in Callbacks /\ 0 \in Int
  BY ResStart DEF States, Callbacks, Codes
<1>1. Res(Goto(g, "REQSENT"), g.flags, "REQSENT", {})
  BY <1>0, ResGoto
<1>2. Res(Call(g, "down"), g.flags, g.state, {} \cup {"down"})
  BY <1>0, ResCall
<1>3. FsmMove(g, fsm_rtermreq(g, i))
  <2> DEFINE h == CASE g.state \in {"ACKRCVD", "ACKSENT"} -> Goto(g, "REQSENT")
                    [] g.state = "OPENED" ->
                         Timeout(Goto(SetRetransmits(Call(g, "down"), 0), "STOPPING"))
                    [] OTHER -> g
  <2>1. PICK s \in States, C \in {{}, {} \cup {"down"}} :
          /\ Res(h, g.flags, s, C)
          /\ s \notin Deaf \cup {"OPENED"} /\ (g.state = "OPENED" => "down" \in C)
    <3>1. CASE g.state \in {"ACKRCVD", "ACKSENT"}
      BY <1>0, <1>1, <3>1 DEF Deaf
    <3>2. CASE g.state = "OPENED"
      <4>1. Res(SetRetransmits(Call(g, "down"), 0), g.flags, g.state, {} \cup {"down"})
        BY <1>0, <1>2, ResSet
      <4>2. Res(Goto(SetRetransmits(Call(g, "down"), 0), "STOPPING"), g.flags, "STOPPING",
                {} \cup {"down"})
        BY <1>0, <4>1, ResGoto
      <4>3. Res(h, g.flags, "STOPPING", {} \cup {"down"})
        BY <3>2, <4>2, ResTimer
      <4>4. QED
        BY <1>0, <4>3 DEF Deaf
    <3>3. CASE g.state \notin {"ACKRCVD", "ACKSENT", "OPENED"}
      <4>1. h = g
        BY <3>3
      <4>2. QED
        BY <1>0, <3>3, <4>1
    <3>4. QED
      BY <3>1, <3>2, <3>3
  <2>2. fsm_rtermreq(g, i) = fsm_sdata(h, "TERMACK", i)
    BY DEF fsm_rtermreq
  <2> HIDE DEF h
  <2>3. Res(fsm_rtermreq(g, i), g.flags, s, C)
    BY <1>0, <2>1, <2>2, ResSdata
  <2>4. QED
    BY <2>1, <2>3, ResMove DEF Deaf
<1>4. FsmMove(g, fsm_rtermack(g))
  <2>1. CASE g.state \in Terminating
    <3>1. PICK t \in {"CLOSED", "STOPPED"} : fsm_rtermack(g) = Call(Goto(g, t), "finished")
      BY <2>1 DEF fsm_rtermack, Terminating
    <3>2. Res(Goto(g, t), g.flags, t, {})
      BY <1>0, ResGoto
    <3>3. Res(fsm_rtermack(g), g.flags, t, {} \cup {"finished"})
      BY <1>0, <3>1, <3>2, ResCall
    <3>4. QED
      BY <2>1, <3>3, ResMove DEF Deaf, Terminating
  <2>2. CASE g.state = "ACKRCVD"
    <3>1. fsm_rtermack(g) = Goto(g, "REQSENT")
      BY <2>2 DEF fsm_rtermack
    <3>2. QED
      BY <1>1, <2>2, <3>1, ResMove DEF Deaf
  <2>3. CASE g.state = "OPENED"
    <3>1. fsm_rtermack(g) = fsm_sconfreq(Call(g, "down"), FALSE)
      BY <2>3 DEF fsm_rtermack
    <3>2. Res(fsm_rtermack(g), g.flags, g.state, {} \cup {"down"})
      BY <1>2, <3>1, ResSconfreq
    <3>3. QED
      BY <2>3, <3>2, ResMove DEF Deaf
  <2>4. CASE g.state \notin Terminating \cup {"ACKRCVD", "OPENED"}
    <3>1. fsm_rtermack(g) = g
      BY <2>4 DEF fsm_rtermack, Terminating
    <3>2. QED
      BY <1>0, <3>1
  <2>5. QED
    BY <2>1, <2>2, <2>3, <2>4
<1>5. FsmMove(g, fsm_rcoderej(g))
  <2>1. CASE g.state = "ACKRCVD"
    <3>1. fsm_rcoderej(g) = Goto(g, "REQSENT")
      BY <2>1 DEF fsm_rcoderej
    <3>2. QED
      BY <1>1, <2>1, <3>1, ResMove DEF Deaf
  <2>2. CASE g.state # "ACKRCVD"
    BY <1>0, <2>2 DEF fsm_rcoderej
  <2>3. QED
    BY <2>1, <2>2
<1>6. FsmMove(g, UnknownCode(g))
  <2>1. Res(IncrId(g), g.flags, g.state, {})
    BY <1>0, ResId
  <2>2. IncrId(g).id \in Ids
    BY <2>1 DEF Res, FSM
  <2>3. Res(UnknownCode(g), g.flags, g.state, {})
    BY <1>0, <2>1, <2>2, ResSdata DEF UnknownCode
  <2>4. QED
    BY <2>3, ResMove DEF Deaf
<1>7. QED
  BY <1>3, <1>4, <1>5, <1>6

(* fsm_input, whatever the packet and the verdict on its options. *)
LEMMA InputFacts ==
  ASSUME NEW g \in FSM, g.cb = {}, NEW code \in InCodes, NEW i \in Ids,
         NEW verdict \in Verdicts(code)
  PROVE  FsmMove(g, fsm_input(g, [code |-> code, id |-> i], verdict))
<1> DEFINE r == fsm_input(g, [code |-> code, id |-> i], verdict)
<1>1. CASE g.state \in Deaf
  <2>1. r = g
    BY <1>1 DEF fsm_input
  <2>2. QED
    BY <1>1, <2>1, ResStart
<1>2. CASE g.state \notin Deaf
  <2>1. r = CASE code = "CONFREQ" -> fsm_rconfreq(g, i, verdict)
              [] code = "CONFACK" -> fsm_rconfack(g, i, verdict = "good")
              [] code \in {"CONFNAK", "CONFREJ"} -> fsm_rconfnakrej(g, i, verdict = "good")
              [] code = "TERMREQ" -> fsm_rtermreq(g, i)
              [] code = "TERMACK" -> fsm_rtermack(g)
              [] code = "CODEREJ" -> fsm_rcoderej(g)
              [] OTHER            -> UnknownCode(g)
    BY <1>2 DEF fsm_input
  <2>2. code = "CONFREQ" => verdict \in {"CONFACK", "CONFNAK", "CONFREJ"}
    BY DEF Verdicts
  <2>3. \A b \in BOOLEAN : FsmMove(g, fsm_rconfack(g, i, b)) /\ FsmMove(g, fsm_rconfnakrej(g, i, b))
    BY RconfackFacts, RconfnakrejFacts
  <2>4. (verdict = "good") \in BOOLEAN
    OBVIOUS
  <2>5. /\ FsmMove(g, fsm_rconfack(g, i, verdict = "good"))
        /\ FsmMove(g, fsm_rconfnakrej(g, i, verdict = "good"))
    BY <2>3, <2>4
  <2>6. code = "CONFREQ" => FsmMove(g, fsm_rconfreq(g, i, verdict))
    BY <1>2, <2>2, RconfreqFacts
  <2>7. /\ FsmMove(g, fsm_rtermreq(g, i)) /\ FsmMove(g, fsm_rtermack(g))
        /\ FsmMove(g, fsm_rcoderej(g)) /\ FsmMove(g, UnknownCode(g))
    BY <1>2, OtherPacketFacts
  <2>8. QED
    BY <1>2, <2>1, <2>5, <2>6, <2>7 DEF InCodes, Codes
<1>3. QED
  BY <1>1, <1>2

----------------------------------------------------------------------------
(* The state of the unit.                                                  *)

Unit == [alive : BOOLEAN, lcp : FSM, ipcp : FSM, chap : CHAP,
         upap : SUBSET {"peer", "withpeer"}, phase : Phases,
         auth_pending : SUBSET AuthBits, echos : 0 .. EchoFails,
         echo_running : BOOLEAN, echo_timers : Nat, ifup : BOOLEAN]

\* Between two handlers all callbacks and reports have been dealt with.
Settled(e) == e.lcp.cb = {} /\ e.ipcp.cb = {} /\ e.chap.said = {}

\* lcp_open sets OPT_RESTART with the other two flags, term clears all.
Restarts(e) ==
    Stays(e.lcp.flags) => "RESTART" \in e.lcp.flags /\ \E fl \in LcpFlagSets : Stays(fl)

\* The properties of PppDaemon, of any state of the unit.
IfNeedsLink(e) == e.ifup => e.lcp.state = "OPENED" /\ e.ipcp.state = "OPENED"
NetworkAuth(e) == e.phase = "NETWORK" => e.auth_pending = {}
NotDead(e) == e.alive /\ Stays(e.lcp.flags) => e.phase # "DEAD"

\* Echoes stop with the link.  The exception is a daemon that has outlived an echo
\* failure: die has returned, LcpEchoCheck queues its callout on a dead link.
EchoesOnLink(e) == e.echo_running => e.lcp.state \in Deaf \cup {"OPENED"}

\* Without a link the CHAP server is INITIAL: not even PENDING, in which
\* ChapLowerUp and then ChapAuthPeer would both send a challenge.
ServerIdle(e) == e.lcp.state # "OPENED" => e.chap.server = "INITIAL"

Sound(e) ==
    /\ e \in Unit /\ Settled(e) /\ Restarts(e) /\ IfNeedsLink(e) /\ NetworkAuth(e)
    /\ NotDead(e) /\ EchoesOnLink(e) /\ ServerIdle(e)

\* A daemon that does not stay listens, and is in a later phase on a link only.
Attended(e) ==
    /\ e.alive /\ ~ Stays(e.lcp.flags) =>
           /\ e.lcp.state \notin Deaf
           /\ e.phase \in {"AUTHENTICATE", "NETWORK"} => e.lcp.state = "OPENED"
    /\ e.phase \in {"AUTHENTICATE", "NETWORK"} => e.alive

EchoTracked(e) == e.echo_timers = IF e.echo_running THEN 1 ELSE 0
ChalTracked(e) == e.chap.chal = IF e.chap.server \in Challenging THEN 1 ELSE 0

\* The echo callout, or that of the challenge, is off the list and has still to run.
EchoOff(e) == e.echo_timers = 0
ChalOff(e) == e.chap.chal = 0 /\ e.chap.server # "OPEN"

\* The unit is e before and n after something that starts no echo and no challenge.
KeptEcho(e, n) == (EchoTracked(e) => EchoTracked(n)) /\ (EchoOff(e) => EchoOff(n))
KeptChal(e, n) == (ChalTracked(e) => ChalTracked(n)) /\ (ChalOff(e) => ChalOff(n))
Ends(e, n) == e.alive => n.alive \/ n = NoUnit
Kept(e, n) == KeptEcho(e, n) /\ KeptChal(e, n) /\ Ends(e, n)

\* The outcome of a part of a handler, and that of a whole one.
Steady(e, n) == Sound(n) /\ Kept(e, n) /\ n.alive = e.alive /\ n.lcp.flags = e.lcp.flags
Safe(e, n) == Sound(n) /\ Attended(n) /\ Kept(e, n)

Whole(e) == Sound(e) /\ Attended(e) /\ EchoTracked(e) /\ ChalTracked(e)

Inv == Whole(d)

----------------------------------------------------------------------------
(* Parts of the unit.                                                      *)

(* The callbacks have been made: Begin empties cb. *)
LEMMA BeginRes ==
  ASSUME NEW g \in FSM
  PROVE  /\ Begin(g) \in FSM /\ Begin(g).cb = {}
         /\ Begin(g).state = g.state /\ Begin(g).flags = g.flags
<1> DEFINE h == [g EXCEPT !.cb = {}]
<1>1. h \in FSM /\ h.cb = {} /\ h.state = g.state /\ h.flags = g.flags
  BY DEF FSM
<1>2. Begin(g) = [h EXCEPT !.out = << >>] /\ << >> \in Seq(Packet)
  BY DEF Begin
<1> HIDE DEF h
<1>3. QED
  BY <1>1, <1>2 DEF FSM

(* Dropping a callout. *)
LEMMA CancelType ==
  ASSUME NEW n \in Nat
  PROVE  Cancel(n) \in Nat /\ (n = 0 => Cancel(n) = 0) /\ (n = 1 => Cancel(n) = 0)
  BY DEF Cancel

(* CHAP's state is stored, its reports have been passed on. *)
LEMMA SetChapFacts ==
  ASSUME NEW e \in Unit, NEW c \in CHAP
  PROVE  /\ SetChap(e, c) \in Unit
         /\ SetChap(e, c).chap.said = {} /\ SetChap(e, c).chap.server = c.server
         /\ SetChap(e, c).chap.chal = c.chal
         /\ SetChap(e, c).alive = e.alive /\ SetChap(e, c).lcp = e.lcp
         /\ SetChap(e, c).ipcp = e.ipcp /\ SetChap(e, c).upap = e.upap
         /\ SetChap(e, c).phase = e.phase /\ SetChap(e, c).auth_pending = e.auth_pending
         /\ SetChap(e, c).echos = e.echos /\ SetChap(e, c).echo_running = e.echo_running
         /\ SetChap(e, c).echo_timers = e.echo_timers /\ SetChap(e, c).ifup = e.ifup
<1> DEFINE k == [c EXCEPT !.said = {}]
<1>1. k \in CHAP /\ k.said = {} /\ k.server = c.server /\ k.chal = c.chal
  BY DEF CHAP
<1>2. SetChap(e, c) = [e EXCEPT !.chap = k]
  BY DEF SetChap
<1> HIDE DEF k
<1>3. QED
  BY <1>1, <1>2 DEF Unit

(* ChapLowerDown forgets everything but the callouts it has no reason to drop. *)
LEMMA ChapLowerDownFacts ==
  ASSUME NEW c \in CHAP
  PROVE  /\ ChapLowerDown(c) \in CHAP /\ ChapLowerDown(c).server = "INITIAL"
         /\ ChapLowerDown(c).said = c.said
         /\ ChapLowerDown(c).chal = IF c.server \in Challenging THEN Cancel(c.chal) ELSE c.chal
<1> DEFINE x == IF c.server \in Challenging THEN Cancel(c.chal) ELSE c.chal
           y == IF c.server = "OPEN" /\ Rechallenge THEN Cancel(c.rech) ELSE c.rech
           z == IF c.client = "RESPONSE" THEN Cancel(c.resp) ELSE c.resp
<1>1. x \in Nat /\ y \in Nat /\ z \in Nat
  <2>1. c.chal \in Nat /\ c.rech \in Nat /\ c.resp \in Nat
    BY DEF CHAP
  <2>2. QED
    BY <2>1, CancelType
<1>2. ChapLowerDown(c) = [c EXCEPT !.chal = x, !.rech = y, !.resp = z,
                                   !.client = "INITIAL", !.server = "INITIAL"]
  BY DEF ChapLowerDown
<1> HIDE DEF x, y, z
<1>3. QED
  BY <1>1, <1>2 DEF CHAP, ClientStates, ServerStates, x

(* IPCP takes a step: the interface goes down with it and nothing else changes. *)
LEMMA IpcpNowFields ==
  ASSUME NEW e \in Unit, NEW g, FsmStep(e.ipcp, g)
  PROVE  /\ IpcpNow(e, g) \in Unit /\ IpcpNow(e, g).ipcp.cb = {}
         /\ IpcpNow(e, g).ipcp.state = g.state
         /\ IpcpNow(e, g).ifup = (e.ifup /\ "down" \notin g.cb)
         /\ IpcpNow(e, g).alive = e.alive /\ IpcpNow(e, g).lcp = e.lcp
         /\ IpcpNow(e, g).chap = e.chap /\ IpcpNow(e, g).upap = e.upap
         /\ IpcpNow(e, g).phase = e.phase /\ IpcpNow(e, g).auth_pending = e.auth_pending
         /\ IpcpNow(e, g).echos = e.echos /\ IpcpNow(e, g).echo_running = e.echo_running
         /\ IpcpNow(e, g).echo_timers = e.echo_timers
<1> DEFINE b == Begin(g)
           n == [e EXCEPT !.ipcp = b]
<1>1. b \in FSM /\ b.cb = {} /\ b.state = g.state
  BY BeginRes DEF FsmStep
<1>2. IpcpNow(e, g) = IF "down" \in g.cb THEN [n EXCEPT !.ifup = FALSE] ELSE n
  BY DEF IpcpNow, ipcp_down
<1> HIDE DEF b
<1>3. e.ifup \in BOOLEAN
  BY DEF Unit
<1>4. CASE "down" \in g.cb
  BY <1>1, <1>2, <1>4 DEF Unit
<1>5. CASE "down" \notin g.cb
  BY <1>1, <1>2, <1>3, <1>5 DEF Unit
<1>6. QED
  BY <1>4, <1>5

(* So it keeps the unit sound. *)
LEMMA IpcpNowSound ==
  ASSUME NEW e, Sound(e), NEW g, FsmStep(e.ipcp, g)
  PROVE  /\ Steady(e, IpcpNow(e, g)) /\ IpcpNow(e, g).lcp = e.lcp
         /\ Attended(e) => Attended(IpcpNow(e, g))
<1>1. e \in Unit
  BY DEF Sound
<1> DEFINE n == IpcpNow(e, g)
<1>2. /\ n \in Unit /\ n.ipcp.cb = {} /\ n.ipcp.state = g.state
      /\ n.ifup = (e.ifup /\ "down" \notin g.cb)
      /\ n.alive = e.alive /\ n.lcp = e.lcp /\ n.chap = e.chap /\ n.upap = e.upap
      /\ n.phase = e.phase /\ n.auth_pending = e.auth_pending /\ n.echos = e.echos
      /\ n.echo_running = e.echo_running /\ n.echo_timers = e.echo_timers
  BY <1>1, IpcpNowFields
<1> HIDE DEF n
<1>3. IfNeedsLink(n)
  BY <1>2 DEF Sound, IfNeedsLink, FsmStep
<1>4. Sound(n)
  BY <1>2, <1>3 DEF Sound, Settled, Restarts, NetworkAuth, NotDead, EchoesOnLink, ServerIdle
<1>5. Kept(e, n)
  BY <1>2 DEF Kept, KeptEcho, KeptChal, Ends, EchoTracked, ChalTracked, EchoOff, ChalOff
<1>6. Attended(e) => Attended(n)
  BY <1>2 DEF Attended
<1>7. QED
  BY <1>2, <1>4, <1>5, <1>6 DEF n, Steady

(* Two parts of a handler, one after the other. *)
LEMMA SteadyTrans ==
  ASSUME NEW e, NEW m, NEW n, Steady(e, m), Steady(m, n)
  PROVE  Steady(e, n)
<1>1. KeptEcho(e, n) /\ KeptChal(e, n)
  BY DEF Steady, Kept, KeptEcho, KeptChal
<1>2. Ends(e, n) /\ Sound(n) /\ n.alive = e.alive /\ n.lcp.flags = e.lcp.flags
  BY DEF Steady, Ends, Kept
<1>3. QED
  BY <1>1, <1>2 DEF Steady, Kept

(* And a whole handler after a part of one. *)
LEMMA SafeAfter ==
  ASSUME NEW e, NEW m, NEW n, Steady(e, m), Safe(m, n)
  PROVE  Safe(e, n)
<1>1. KeptEcho(e, n) /\ KeptChal(e, n)
  BY DEF Steady, Safe, Kept, KeptEcho, KeptChal
<1>2. Ends(e, n)
  BY DEF Steady, Safe, Kept, Ends
<1>3. QED
  BY <1>1, <1>2 DEF Safe, Kept

(* lcp_down stops the echoes, takes IPCP, CHAP and PAP down and ends the phase. *)
LEMMA LcpDownFields ==
  ASSUME NEW e \in Unit, Settled(e), NEW n, n = lcp_down(e)
  PROVE  /\ n \in Unit /\ Settled(n)
         /\ n.alive = e.alive /\ n.lcp = e.lcp /\ n.phase = "TERMINATE"
         /\ n.auth_pending = e.auth_pending /\ n.echos = e.echos /\ n.ifup = FALSE
         /\ n.echo_running = FALSE
         /\ n.echo_timers = IF e.echo_running THEN Cancel(e.echo_timers) ELSE e.echo_timers
         /\ n.chap.server = "INITIAL"
         /\ n.chap.chal = IF e.chap.server \in Challenging THEN Cancel(e.chap.chal)
                                                             ELSE e.chap.chal
<1> DEFINE a == lcp_echo_lowerdown(e)
           b == ipcp_lowerdown(a)
           c == SetChap(b, ChapLowerDown(b.chap))
           m == [c EXCEPT !.upap = {}, !.ifup = FALSE]
<1>1. /\ a \in Unit /\ a.alive = e.alive /\ a.lcp = e.lcp /\ a.ipcp = e.ipcp /\ a.chap = e.chap
      /\ a.auth_pending = e.auth_pending /\ a.echos = e.echos /\ a.echo_running = FALSE
      /\ a.echo_timers = IF e.echo_running THEN Cancel(e.echo_timers) ELSE e.echo_timers
  <2>1. e.echo_timers \in Nat /\ e.echo_running \in BOOLEAN
    BY DEF Unit
  <2>2. Cancel(e.echo_timers) \in Nat
    BY <2>1, CancelType
  <2>3. CASE e.echo_running
    BY <2>2, <2>3 DEF lcp_echo_lowerdown, Unit
  <2>4. CASE ~ e.echo_running
    BY <2>1, <2>4 DEF lcp_echo_lowerdown
  <2>5. QED
    BY <2>3, <2>4
<1> HIDE DEF a
<1>2. a.ipcp \in FSM /\ a.ipcp.cb = {} /\ a.chap \in CHAP /\ a.chap.said = {}
  BY <1>1 DEF Unit, Settled
<1>3. /\ b \in Unit /\ b.ipcp.cb = {} /\ b.chap = a.chap
      /\ b.alive = a.alive /\ b.lcp = a.lcp /\ b.auth_pending = a.auth_pending
      /\ b.echos = a.echos /\ b.echo_running = a.echo_running /\ b.echo_timers = a.echo_timers
  BY <1>1, <1>2, LowerDownFacts, IpcpNowFields DEF ipcp_lowerdown
<1> HIDE DEF b
<1>4. /\ ChapLowerDown(b.chap) \in CHAP /\ ChapLowerDown(b.chap).server = "INITIAL"
      /\ ChapLowerDown(b.chap).chal =
            IF e.chap.server \in Challenging THEN Cancel(e.chap.chal) ELSE e.chap.chal
  BY <1>1, <1>2, <1>3, ChapLowerDownFacts
<1>5. /\ c \in Unit /\ c.chap.said = {} /\ c.chap.server = "INITIAL"
      /\ c.chap.chal = IF e.chap.server \in Challenging THEN Cancel(e.chap.chal)
                                                          ELSE e.chap.chal
      /\ c.alive = b.alive /\ c.lcp = b.lcp /\ c.ipcp = b.ipcp /\ c.auth_pending = b.auth_pending
      /\ c.echos = b.echos /\ c.echo_running = b.echo_running /\ c.echo_timers = b.echo_timers
  BY <1>3, <1>4, SetChapFacts
<1>6. n = [m EXCEPT !.phase = "TERMINATE"]
  BY DEF lcp_down, SetPhase, a, b
<1> HIDE DEF c
<1>7. /\ m \in Unit /\ m.alive = c.alive /\ m.lcp = c.lcp /\ m.ipcp = c.ipcp /\ m.chap = c.chap
      /\ m.auth_pending = c.auth_pending /\ m.echos = c.echos /\ m.ifup = FALSE
      /\ m.echo_running = c.echo_running /\ m.echo_timers = c.echo_timers
  BY <1>5 DEF Unit
<1> HIDE DEF m
<1>8. /\ n \in Unit /\ n.alive = m.alive /\ n.lcp = m.lcp /\ n.ipcp = m.ipcp /\ n.chap = m.chap
      /\ n.auth_pending = m.auth_pending /\ n.echos = m.echos /\ n.ifup = m.ifup
      /\ n.echo_running = m.echo_running /\ n.echo_timers = m.echo_timers
      /\ n.phase = "TERMINATE"
  BY <1>6, <1>7 DEF Unit, Phases
<1>9. Settled(n)
  BY <1>1, <1>3, <1>5, <1>7, <1>8 DEF Settled
<1>10. QED
  BY <1>1, <1>3, <1>5, <1>7, <1>8, <1>9

----------------------------------------------------------------------------
(* LCP and the end of the task.                                            *)

\* LCP has moved on to g, the way it does after ppp_task has brought it up.
LcpMove(e, g) == FsmStep(e.lcp, g) /\ (e.lcp.state \in Deaf => g.state \in Deaf)

\* n is what LcpNow makes of e with an LCP that has become g.
LcpPut(e, g, n) ==
    /\ n \in Unit /\ Settled(n) /\ n.alive = e.alive
    /\ n.lcp.state = g.state /\ n.lcp.flags = e.lcp.flags
    /\ n.auth_pending = e.auth_pending /\ n.echos = e.echos

LcpUndisturbed(e, n) ==
    /\ n.phase = e.phase /\ n.ifup = e.ifup /\ n.ipcp = e.ipcp /\ n.chap = e.chap
    /\ n.echo_running = e.echo_running /\ n.echo_timers = e.echo_timers

LcpDowned(e, n) ==
    /\ n.phase = "TERMINATE" /\ n.ifup = FALSE /\ n.chap.server = "INITIAL"
    /\ n.echo_running = FALSE
    /\ n.echo_timers = IF e.echo_running THEN Cancel(e.echo_timers) ELSE e.echo_timers
    /\ n.chap.chal = IF e.chap.server \in Challenging THEN Cancel(e.chap.chal) ELSE e.chap.chal

(* LCP takes a step and, if it goes down, lcp_down is run. *)
LEMMA LcpNowFields ==
  ASSUME NEW e \in Unit, Settled(e), NEW g, FsmStep(e.lcp, g)
  PROVE  /\ LcpPut(e, g, LcpNow(e, g))
         /\ "down" \notin g.cb => LcpUndisturbed(e, LcpNow(e, g))
         /\ "down" \in g.cb => LcpDowned(e, LcpNow(e, g))
<1> DEFINE b == Begin(g)
           m == [e EXCEPT !.lcp = b]
           n == LcpNow(e, g)
<1>1. b \in FSM /\ b.cb = {} /\ b.state = g.state /\ b.flags = e.lcp.flags
  BY BeginRes DEF FsmStep
<1>2. n = IF "down" \in g.cb THEN lcp_down(m) ELSE m
  BY DEF LcpNow
<1> HIDE DEF b, n
<1>3. /\ m \in Unit /\ m.lcp = b /\ m.alive = e.alive /\ m.ipcp = e.ipcp /\ m.chap = e.chap
      /\ m.phase = e.phase /\ m.auth_pending = e.auth_pending /\ m.echos = e.echos
      /\ m.echo_running = e.echo_running /\ m.echo_timers = e.echo_timers /\ m.ifup = e.ifup
  BY <1>1 DEF Unit
<1> HIDE DEF m
<1>4. Settled(m)
  BY <1>1, <1>3 DEF Settled
<1>5. CASE "down" \in g.cb
  <2>1. n = lcp_down(m)
    BY <1>2, <1>5
  <2>2. /\ n \in Unit /\ Settled(n)
        /\ n.alive = m.alive /\ n.lcp = m.lcp /\ n.phase = "TERMINATE"
        /\ n.auth_pending = m.auth_pending /\ n.echos = m.echos /\ n.ifup = FALSE
        /\ n.echo_running = FALSE
        /\ n.echo_timers = IF m.echo_running THEN Cancel(m.echo_timers) ELSE m.echo_timers
        /\ n.chap.server = "INITIAL"
        /\ n.chap.chal = IF m.chap.server \in Challenging THEN Cancel(m.chap.chal)
                                                            ELSE m.chap.chal
    BY <1>3, <1>4, <2>1, LcpDownFields
  <2>3. LcpPut(e, g, n)
    BY <1>1, <1>3, <2>2 DEF LcpPut
  <2>4. LcpDowned(e, n)
    BY <1>3, <2>2 DEF LcpDowned
  <2>5. QED
    BY <1>5, <2>3, <2>4 DEF n
<1>6. CASE "down" \notin g.cb
  <2>1. LcpPut(e, g, n) /\ LcpUndisturbed(e, n)
    BY <1>1, <1>2, <1>3, <1>4, <1>6 DEF LcpPut, LcpUndisturbed
  <2>2. QED
    BY <1>6, <2>1 DEF n
<1>7. QED
  BY <1>5, <1>6

\* What lcp_up finds.
AtRest(e, n) ==
    /\ ~ n.echo_running /\ n.chap.server = "INITIAL" /\ n.chap = e.chap
    /\ n.echo_timers = e.echo_timers

(* So the unit stays sound, and an LCP that comes up finds echoes and CHAP at rest. *)
LEMMA LcpNowSound ==
  ASSUME NEW e, Sound(e), NEW g, LcpMove(e, g)
  PROVE  /\ Steady(e, LcpNow(e, g)) /\ LcpPut(e, g, LcpNow(e, g))
         /\ Attended(e) /\ g.state \notin Deaf => Attended(LcpNow(e, g))
         /\ "up" \in g.cb => AtRest(e, LcpNow(e, g))
<1>0. /\ e \in Unit /\ Settled(e) /\ FsmStep(e.lcp, g) /\ e.lcp \in FSM
      /\ e.echo_timers \in Nat /\ e.chap \in CHAP /\ e.chap.chal \in Nat
      /\ e.echo_running \in BOOLEAN
  BY DEF Sound, LcpMove, Unit, CHAP
<1> DEFINE n == LcpNow(e, g)
<1>1. LcpPut(e, g, n) /\ ("down" \notin g.cb => LcpUndisturbed(e, n))
                      /\ ("down" \in g.cb => LcpDowned(e, n))
  BY <1>0, LcpNowFields
<1> HIDE DEF n
<1>2. CASE "down" \notin g.cb
  <2>1. LcpUndisturbed(e, n)
    BY <1>1, <1>2
  <2>2. e.lcp.state = "OPENED" => g.state = "OPENED"
    BY <1>0, <1>2 DEF FsmStep
  <2>3. Restarts(n) /\ IfNeedsLink(n) /\ NetworkAuth(n) /\ NotDead(n)
    BY <1>1, <2>1, <2>2 DEF Sound, Restarts, IfNeedsLink, NetworkAuth, NotDead, LcpPut,
                            LcpUndisturbed
  <2>4. EchoesOnLink(n) /\ ServerIdle(n)
    BY <1>1, <2>1, <2>2 DEF Sound, EchoesOnLink, ServerIdle, LcpMove, LcpPut, LcpUndisturbed
  <2>5. Sound(n)
    BY <1>1, <2>3, <2>4 DEF Sound, LcpPut
  <2>6. Kept(e, n)
    BY <1>1, <2>1 DEF Kept, KeptEcho, KeptChal, Ends, EchoTracked, ChalTracked, EchoOff, ChalOff,
                      LcpPut, LcpUndisturbed
  <2>7. Attended(e) /\ g.state \notin Deaf => Attended(n)
    BY <1>1, <2>1, <2>2 DEF Attended, LcpPut, LcpUndisturbed
  <2>8. "up" \in g.cb => AtRest(e, n)
    <3>1. "up" \in g.cb => e.lcp.state \in Negotiating
      BY <1>0 DEF FsmStep
    <3>2. "up" \in g.cb => ~ e.echo_running /\ e.chap.server = "INITIAL"
      BY <3>1 DEF Sound, EchoesOnLink, ServerIdle, Negotiating, Deaf
    <3>3. QED
      BY <1>0, <2>1, <3>2 DEF AtRest, LcpUndisturbed
  <2>9. QED
    BY <1>1, <2>5, <2>6, <2>7, <2>8 DEF n, Steady, LcpPut
<1>3. CASE "down" \in g.cb
  <2>1. LcpDowned(e, n)
    BY <1>1, <1>3
  <2>2. Restarts(n) /\ IfNeedsLink(n) /\ NetworkAuth(n) /\ NotDead(n)
    BY <1>1, <2>1 DEF Sound, Restarts, IfNeedsLink, NetworkAuth, NotDead, LcpPut, LcpDowned
  <2>3. EchoesOnLink(n) /\ ServerIdle(n)
    BY <2>1 DEF EchoesOnLink, ServerIdle, LcpDowned
  <2>4. Sound(n)
    BY <1>1, <2>2, <2>3 DEF Sound, LcpPut
  <2>5. KeptEcho(e, n)
    BY <1>0, <2>1, CancelType DEF KeptEcho, EchoTracked, EchoOff, LcpDowned
  <2>6. KeptChal(e, n)
    <3>1. "INITIAL" \notin Challenging
      BY DEF Challenging
    <3>2. QED
      BY <1>0, <2>1, <3>1, CancelType DEF KeptChal, ChalTracked, ChalOff, LcpDowned
  <2>7. Attended(e) /\ g.state \notin Deaf => Attended(n)
    BY <1>1, <2>1 DEF Attended, LcpPut, LcpDowned
  <2>8. "up" \notin g.cb
    BY <1>0, <1>3 DEF FsmStep
  <2>9. Ends(e, n)
    BY <1>1 DEF LcpPut, Ends
  <2>10. QED
    BY <1>1, <2>4, <2>5, <2>6, <2>7, <2>8, <2>9 DEF n, Kept, Steady, LcpPut
<1>4. QED
  BY <1>2, <1>3

\* All of the unit but LCP, the phase and the pending authentications.
SameRest(e, n) ==
    /\ n.ipcp = e.ipcp /\ n.chap = e.chap /\ n.echo_running = e.echo_running
    /\ n.echo_timers = e.echo_timers /\ n.ifup = e.ifup

(* A change of the phase. *)
LEMMA SetPhaseSound ==
  ASSUME NEW e, Sound(e), NEW p \in Phases, p = "NETWORK" => e.auth_pending = {},
         p = "DEAD" => ~ (e.alive /\ Stays(e.lcp.flags))
  PROVE  /\ Steady(e, SetPhase(e, p)) /\ SameRest(e, SetPhase(e, p))
         /\ SetPhase(e, p).lcp = e.lcp /\ SetPhase(e, p).phase = p
         /\ SetPhase(e, p).auth_pending = e.auth_pending
<1> DEFINE n == SetPhase(e, p)
<1>1. e \in Unit
  BY DEF Sound
<1>2. /\ n \in Unit /\ SameRest(e, n) /\ n.lcp = e.lcp /\ n.phase = p
      /\ n.auth_pending = e.auth_pending /\ n.alive = e.alive
  BY <1>1 DEF Unit, SetPhase, SameRest
<1> HIDE DEF n
<1>3. Sound(n)
  BY <1>2 DEF Sound, Settled, Restarts, IfNeedsLink, NetworkAuth, NotDead, EchoesOnLink, ServerIdle,
              SameRest
<1>4. Kept(e, n)
  BY <1>2 DEF Kept, KeptEcho, KeptChal, Ends, EchoTracked, ChalTracked, EchoOff, ChalOff, SameRest
<1>5. QED
  BY <1>2, <1>3, <1>4 DEF n, Steady

(* lcp_finished reopens LCP for the next connection, or the link is dead. *)
LEMMA FinishedSound ==
  ASSUME NEW e, Sound(e), e.lcp.state \in {"STOPPED", "CLOSED"}
  PROVE  Steady(e, lcp_finished(e)) /\ (Attended(e) => Attended(lcp_finished(e)))
<1> DEFINE n == lcp_finished(e)
<1>0. e.lcp \in FSM /\ e.lcp.cb = {} /\ e.lcp.state \notin Deaf
  BY DEF Sound, Unit, Settled, Deaf
<1>1. CASE "RESTART" \in e.lcp.flags
  <2> DEFINE g == fsm_open(e.lcp)
  <2>1. n = LcpNow(e, g)
    BY <1>1 DEF lcp_finished
  <2>2. LcpMove(e, g) /\ g.state \notin Deaf
    BY <1>0, OpenFacts DEF LcpMove
  <2> HIDE DEF g, n
  <2>3. QED
    BY <2>1, <2>2, LcpNowSound DEF n
<1>2. CASE "RESTART" \notin e.lcp.flags
  <2>1. n = SetPhase(e, "DEAD")
    BY <1>2 DEF lcp_finished, link_terminated
  <2>2. ~ Stays(e.lcp.flags)
    BY <1>2 DEF Sound, Restarts
  <2>3. "DEAD" \in Phases
    BY DEF Phases
  <2> HIDE DEF n
  <2>4. Steady(e, n) /\ n.lcp = e.lcp /\ n.phase = "DEAD"
    BY <2>1, <2>2, <2>3, SetPhaseSound
  <2>5. Attended(n)
    BY <1>0, <2>4 DEF Attended
  <2>6. QED
    BY <2>4, <2>5 DEF n
<1>3. QED
  BY <1>1, <1>2

(* lcp_close, in every state. *)
LEMMA LcpCloseSound ==
  ASSUME NEW e, Sound(e)
  PROVE  /\ Steady(e, lcp_close(e))
         /\ e.lcp.state \in Deaf => lcp_close(e).lcp.state \in Deaf
<1> DEFINE n == lcp_close(e)
<1>0. e.lcp \in FSM /\ e.lcp.cb = {} /\ e \in Unit
  BY DEF Sound, Unit, Settled
<1>1. CASE e.lcp.state = "STOPPED" /\ Stays(e.lcp.flags)
  <2> DEFINE c == Goto(e.lcp, "CLOSED")
             m == [e EXCEPT !.lcp = c]
  <2>1. n = lcp_finished(m)
    BY <1>1 DEF lcp_close
  <2>2. c \in FSM /\ c.state = "CLOSED" /\ c.flags = e.lcp.flags /\ c.cb = {}
    <3>1. Res(e.lcp, e.lcp.flags, e.lcp.state, {}) /\ "CLOSED" \in States
      BY <1>0, ResStart DEF States
    <3>2. Res(c, e.lcp.flags, "CLOSED", {})
      BY <3>1, ResGoto
    <3>3. c.cb = {}
      BY <1>0 DEF Goto, FSM
    <3>4. QED
      BY <3>2, <3>3 DEF Res
  <2> HIDE DEF c, n
  <2>3. /\ m \in Unit /\ m.lcp = c /\ m.alive = e.alive /\ m.phase = e.phase
        /\ m.auth_pending = e.auth_pending /\ SameRest(e, m)
    BY <1>0, <2>2 DEF Unit, SameRest
  <2> HIDE DEF m
  <2>4. ~ e.ifup /\ ~ e.echo_running /\ e.chap.server = "INITIAL"
    BY <1>1 DEF Sound, IfNeedsLink, EchoesOnLink, ServerIdle, Deaf
  <2>5. Sound(m)
    BY <2>2, <2>3, <2>4 DEF Sound, Settled, Restarts, IfNeedsLink, NetworkAuth, NotDead,
                            EchoesOnLink, ServerIdle, SameRest
  <2>6. Kept(e, m)
    BY <2>3 DEF Kept, KeptEcho, KeptChal, Ends, EchoTracked, ChalTracked, EchoOff, ChalOff, SameRest
  <2>7. Steady(e, m)
    BY <2>2, <2>3, <2>5, <2>6 DEF Steady
  <2>8. Steady(m, n)
    BY <2>1, <2>2, <2>3, <2>5, FinishedSound
  <2>9. Steady(e, n)
    BY <2>7, <2>8, SteadyTrans
  <2>10. QED
    BY <1>1, <2>9 DEF n, Deaf
<1>2. CASE ~ (e.lcp.state = "STOPPED" /\ Stays(e.lcp.flags))
  <2> DEFINE g == fsm_close(e.lcp)
  <2>1. n = LcpNow(e, g)
    BY <1>2 DEF lcp_close
  <2>2. LcpMove(e, g)
    BY <1>0, CloseFacts DEF LcpMove
  <2> HIDE DEF g, n
  <2>3. Steady(e, n) /\ LcpPut(e, g, n)
    BY <2>1, <2>2, LcpNowSound
  <2>4. QED
    BY <2>2, <2>3 DEF n, LcpPut, LcpMove
<1>3. QED
  BY <1>1, <1>2

(* fsm_init returns an fsm that has done nothing. *)
LEMMA FsmInitFacts ==
  ASSUME NEW fl \in SUBSET Flags
  PROVE  /\ fsm_init(fl, 0) \in FSM /\ fsm_init(fl, 0).state = "INITIAL"
         /\ fsm_init(fl, 0).flags = fl /\ fsm_init(fl, 0).cb = {}
<1>1. 0 \in Ids /\ 0 \in Int /\ 0 \in 0 .. MaxNak /\ 0 \in Nat /\ << >> \in Seq(Packet)
  BY FsmAssumption DEF Ids
<1>2. QED
  BY <1>1 DEF fsm_init, FSM, States

(* There is no unit: everything the properties ask for holds. *)
LEMMA NoUnitFacts ==
  /\ Sound(NoUnit) /\ Attended(NoUnit) /\ ~ NoUnit.alive
  /\ EchoTracked(NoUnit) /\ EchoOff(NoUnit) /\ ChalTracked(NoUnit) /\ ChalOff(NoUnit)
<1>1. fsm_init({}, 0) \in FSM /\ fsm_init({}, 0).state = "INITIAL"
      /\ fsm_init({}, 0).flags = {} /\ fsm_init({}, 0).cb = {}
  BY FsmInitFacts
<1>2. /\ ChapInit \in CHAP /\ ChapInit.said = {} /\ ChapInit.server = "INITIAL"
      /\ ChapInit.chal = 0
  <2>1. 0 \in 0 .. MaxChal /\ 0 \in Nat
    BY ChapAssumption
  <2>2. QED
    BY <2>1 DEF ChapInit, CHAP, ClientStates, ServerStates
<1>3. NoUnit \in Unit
  <2>1. 0 \in 0 .. EchoFails /\ 0 \in Nat
    BY DaemonAssumption
  <2>2. QED
    BY <1>1, <1>2, <2>1 DEF NoUnit, Unit, Phases
<1>4. /\ NoUnit.alive = FALSE /\ NoUnit.lcp = fsm_init({}, 0) /\ NoUnit.ipcp = fsm_init({}, 0)
      /\ NoUnit.chap = ChapInit /\ NoUnit.phase = "DEAD" /\ NoUnit.auth_pending = {}
      /\ NoUnit.echo_running = FALSE /\ NoUnit.echo_timers = 0 /\ NoUnit.ifup = FALSE
  BY DEF NoUnit
<1>5. ~ Stays({})
  BY DEF Stays
<1>6. Sound(NoUnit)
  BY <1>1, <1>2, <1>3, <1>4, <1>5 DEF Sound, Settled, Restarts, IfNeedsLink, NetworkAuth, NotDead,
                                  EchoesOnLink, ServerIdle
<1>7. "INITIAL" \notin Challenging
  BY DEF Challenging
<1>8. QED
  BY <1>2, <1>4, <1>6, <1>7 DEF Attended, EchoTracked, EchoOff, ChalTracked, ChalOff

(* die ends the task, or returns in a daemon that stays. *)
LEMMA DieSound ==
  ASSUME NEW e, Sound(e), e.alive
  PROVE  /\ Safe(e, die(e))
         /\ die(e).alive => /\ Stays(die(e).lcp.flags) /\ Steady(e, die(e))
                            /\ e.lcp.state \in Deaf => die(e).lcp.state \in Deaf
<1> DEFINE c == lcp_close(e)
           n == die(e)
<1>1. Steady(e, c) /\ (e.lcp.state \in Deaf => c.lcp.state \in Deaf)
  BY LcpCloseSound
<1>2. n = IF Stays(c.lcp.flags) THEN c ELSE NoUnit
  BY DEF die
<1> HIDE DEF c, n
<1>3. CASE Stays(c.lcp.flags)
  <2>1. n = c /\ Attended(n)
    BY <1>1, <1>2, <1>3 DEF Attended, Steady
  <2>2. Safe(e, n)
    BY <1>1, <2>1 DEF Safe, Steady
  <2>3. QED
    BY <1>1, <1>3, <2>1, <2>2 DEF n
<1>4. CASE ~ Stays(c.lcp.flags)
  <2>1. n = NoUnit
    BY <1>2, <1>4
  <2>2. Safe(e, n) /\ ~ n.alive
    BY <2>1, NoUnitFacts DEF Safe, Kept, KeptEcho, KeptChal, Ends
  <2>3. QED
    BY <2>2 DEF n
<1>5. QED
  BY <1>3, <1>4

----------------------------------------------------------------------------
(* Authentication.                                                         *)

\* Attended asks nothing more of a unit in which one of these holds.
Excused(e) == e.alive /\ (Stays(e.lcp.flags) \/ e.lcp.state = "OPENED")

(* A unit that is excused is attended. *)
LEMMA ExcusedAttended ==
  ASSUME NEW e, Excused(e)
  PROVE  Attended(e)
  BY DEF Excused, Attended, Deaf

(* Steady parts keep the excuse, as long as LCP stays where it is. *)
LEMMA SteadyExcused ==
  ASSUME NEW e, NEW n, Steady(e, n), n.lcp = e.lcp, Excused(e)
  PROVE  Excused(n)
  BY DEF Steady, Excused

(* The network phase starts with opening IPCP. *)
LEMMA EnterNetwork ==
  ASSUME NEW e, Sound(e), Excused(e), e.auth_pending = {}
  PROVE  Safe(e, ipcp_open(SetPhase(e, "NETWORK")))
<1> DEFINE m == SetPhase(e, "NETWORK")
           g == fsm_open(m.ipcp)
           n == ipcp_open(m)
<1>1. Steady(e, m) /\ m.lcp = e.lcp
  <2>1. "NETWORK" \in Phases
    BY DEF Phases
  <2>2. QED
    BY <2>1, SetPhaseSound
<1> HIDE DEF m
<1>2. Sound(m) /\ Excused(m)
  BY <1>1, SteadyExcused DEF Steady
<1>3. m.ipcp \in FSM /\ m.ipcp.cb = {}
  BY <1>2 DEF Sound, Unit, Settled
<1>4. FsmStep(m.ipcp, g)
  BY <1>3, OpenFacts
<1>5. n = IpcpNow(m, g)
  BY DEF ipcp_open
<1> HIDE DEF g, n
<1>6. Steady(m, n) /\ n.lcp = m.lcp
  BY <1>2, <1>4, <1>5, IpcpNowSound
<1>7. Steady(e, n)
  BY <1>1, <1>6, SteadyTrans
<1>8. Attended(n)
  BY <1>2, <1>6, SteadyExcused, ExcusedAttended
<1>9. QED
  BY <1>7, <1>8 DEF n, m, Safe, Steady

(* One authentication less to be done. *)
LEMMA AuthDoneSafe ==
  ASSUME NEW e, Sound(e), Excused(e), NEW bits
  PROVE  Safe(e, AuthDone(e, bits))
<1> DEFINE m == [e EXCEPT !.auth_pending = @ \ bits]
           n == AuthDone(e, bits)
<1>1. /\ m \in Unit /\ m.lcp = e.lcp /\ m.alive = e.alive /\ m.phase = e.phase
      /\ m.auth_pending = e.auth_pending \ bits /\ SameRest(e, m)
  BY DEF Sound, Unit, SameRest
<1>2. n = IF m.auth_pending = {} THEN ipcp_open(SetPhase(m, "NETWORK")) ELSE m
  BY DEF AuthDone
<1> HIDE DEF m, n
<1>3. Sound(m)
  BY <1>1 DEF Sound, Settled, Restarts, IfNeedsLink, NetworkAuth, NotDead, EchoesOnLink, ServerIdle,
              SameRest
<1>4. Kept(e, m)
  BY <1>1 DEF Kept, KeptEcho, KeptChal, Ends, EchoTracked, ChalTracked, EchoOff, ChalOff, SameRest
<1>5. Steady(e, m)
  BY <1>1, <1>3, <1>4 DEF Steady
<1>6. Excused(m)
  BY <1>1, <1>5, SteadyExcused
<1>7. CASE m.auth_pending = {}
  <2>1. Safe(m, n)
    BY <1>2, <1>3, <1>6, <1>7, EnterNetwork
  <2>2. QED
    BY <1>5, <2>1, SafeAfter DEF n
<1>8. CASE m.auth_pending # {}
  BY <1>2, <1>5, <1>6, <1>8, ExcusedAttended DEF n, Safe, Steady
<1>9. QED
  BY <1>7, <1>8

(* CHAP as a client: the server and its callout are left alone. *)
LEMMA AuthWithPeerFacts ==
  ASSUME NEW c \in CHAP
  PROVE  /\ ChapAuthWithPeer(c) \in CHAP /\ ChapAuthWithPeer(c).server = c.server
         /\ ChapAuthWithPeer(c).chal = c.chal
<1> DEFINE s == IF c.client \in {"INITIAL", "PENDING"} THEN "PENDING" ELSE "LISTEN"
           k == [c EXCEPT !.typed = @ \cup {"client"}]
<1>1. k \in CHAP /\ k.server = c.server /\ k.chal = c.chal
  BY DEF CHAP
<1>2. ChapAuthWithPeer(c) = [k EXCEPT !.client = s]
  BY DEF ChapAuthWithPeer, Client, Typed
<1>3. s \in ClientStates
  BY DEF ClientStates
<1> HIDE DEF k, s
<1>4. QED
  BY <1>1, <1>2, <1>3 DEF CHAP

(* A new challenge: its callout is queued, it is the first transmission. *)
LEMMA ChallengeFacts ==
  ASSUME NEW c \in CHAP, NEW s \in ServerStates
  PROVE  /\ Challenge(c, s) \in CHAP /\ Challenge(c, s).server = s
         /\ Challenge(c, s).chal = c.chal + 1 /\ Challenge(c, s).said = c.said
<1> DEFINE a == [c EXCEPT !.transmits = 0]
           b == [a EXCEPT !.chal = @ + 1, !.transmits = @ + 1]
<1>0. 0 \in 0 .. MaxChal /\ 1 \in 0 .. MaxChal
  BY ChapAssumption
<1>1. a \in CHAP /\ a.chal = c.chal /\ a.transmits = 0 /\ a.chal \in Nat /\ a.said = c.said
  BY <1>0 DEF CHAP
<1>2. Challenge(c, s) = [b EXCEPT !.server = s]
  BY DEF Challenge, Server, ChapSendChallenge, ChapGenChallenge
<1> HIDE DEF a
<1>3. a.chal + 1 \in Nat /\ a.transmits + 1 = 1
  BY <1>1
<1>4. b \in CHAP /\ b.chal = c.chal + 1 /\ b.said = c.said
  BY <1>0, <1>1, <1>3 DEF CHAP
<1> HIDE DEF b
<1>5. QED
  BY <1>2, <1>4 DEF CHAP

(* CHAP as a server on an open link: the first challenge goes out. *)
LEMMA AuthPeerFacts ==
  ASSUME NEW c \in CHAP, c.server = "CLOSED"
  PROVE  /\ ChapAuthPeer(c) \in CHAP /\ ChapAuthPeer(c).server = "INITIAL_CHAL"
         /\ ChapAuthPeer(c).chal = c.chal + 1
<1> DEFINE k == [c EXCEPT !.typed = @ \cup {"server"}]
<1>1. k \in CHAP /\ k.server = "CLOSED" /\ k.chal = c.chal
  BY DEF CHAP
<1>2. ChapAuthPeer(c) = IF k.server \in {"INITIAL", "PENDING"} THEN Server(k, "PENDING")
                                                               ELSE Challenge(k, "INITIAL_CHAL")
  BY DEF ChapAuthPeer, Typed
<1> HIDE DEF k
<1>3. ChapAuthPeer(c) = Challenge(k, "INITIAL_CHAL") /\ "INITIAL_CHAL" \in ServerStates
  BY <1>1, <1>2 DEF ServerStates
<1>4. QED
  BY <1>1, <1>3, ChallengeFacts

(* The lower layer of CHAP comes up: a server that was idle is ready. *)
LEMMA ChapLowerUpFacts ==
  ASSUME NEW c \in CHAP, c.server = "INITIAL"
  PROVE  /\ ChapLowerUp(c) \in CHAP /\ ChapLowerUp(c).server = "CLOSED"
         /\ ChapLowerUp(c).chal = c.chal
<1> DEFINE k == CASE c.client = "INITIAL" -> Client(c, "CLOSED")
                  [] c.client = "PENDING" -> Client(c, "LISTEN")
                  [] OTHER                -> c
<1>1. k \in CHAP /\ k.server = "INITIAL" /\ k.chal = c.chal
  BY DEF CHAP, Client, ClientStates
<1>2. ChapLowerUp(c) = CASE k.server = "INITIAL" -> Server(k, "CLOSED")
                         [] k.server = "PENDING" -> Challenge(k, "INITIAL_CHAL")
                         [] OTHER                -> k
  BY DEF ChapLowerUp
<1> HIDE DEF k
<1>3. ChapLowerUp(c) = [k EXCEPT !.server = "CLOSED"]
  BY <1>1, <1>2 DEF Server
<1>4. QED
  BY <1>1, <1>3 DEF CHAP, ServerStates

\* n is e with another CHAP state, c.
ChapPut(e, c, n) ==
    /\ Sound(n) /\ KeptEcho(e, n) /\ n.lcp = e.lcp /\ n.alive = e.alive
    /\ n.chap.server = c.server /\ n.chap.chal = c.chal
    /\ n.ipcp = e.ipcp /\ n.phase = e.phase /\ n.echo_running = e.echo_running
    /\ n.echo_timers = e.echo_timers /\ n.auth_pending = e.auth_pending

(* Storing CHAP's state. *)
LEMMA SetChapSound ==
  ASSUME NEW e, Sound(e), NEW c \in CHAP, e.lcp.state = "OPENED" \/ c.server = "INITIAL"
  PROVE  ChapPut(e, c, SetChap(e, c))
<1> DEFINE n == SetChap(e, c)
<1>0. e \in Unit
  BY DEF Sound
<1>1. /\ n \in Unit /\ n.chap.said = {} /\ n.chap.server = c.server /\ n.chap.chal = c.chal
      /\ n.alive = e.alive /\ n.lcp = e.lcp /\ n.ipcp = e.ipcp /\ n.phase = e.phase
      /\ n.auth_pending = e.auth_pending /\ n.echo_running = e.echo_running
      /\ n.echo_timers = e.echo_timers /\ n.ifup = e.ifup
  BY <1>0, SetChapFacts
<1> HIDE DEF n
<1>2. Sound(n)
  BY <1>1 DEF Sound, Settled, Restarts, IfNeedsLink, NetworkAuth, NotDead, EchoesOnLink, ServerIdle
<1>3. KeptEcho(e, n)
  BY <1>1 DEF KeptEcho, EchoTracked, EchoOff
<1>4. QED
  BY <1>1, <1>2, <1>3 DEF n, ChapPut

(* The bits of auth_pending. *)
LEMMA AuthBitType ==
  ASSUME NEW p, NEW side
  PROVE  AuthBit(p, side) \in SUBSET AuthBits
  BY DEF AuthBit, AuthBits

(* Starting the authentications: a challenge goes out only on an open link. *)
LEMMA StartAuthSound ==
  ASSUME NEW e, Sound(e), e.phase = "AUTHENTICATE", ChalTracked(e), NEW neg \in Negotiations,
         neg.go = "CHAP" => e.lcp.state = "OPENED" /\ e.chap.server = "CLOSED"
  PROVE  /\ Sound(StartAuth(e, neg)) /\ ChalTracked(StartAuth(e, neg))
         /\ KeptEcho(e, StartAuth(e, neg))
         /\ StartAuth(e, neg).alive = e.alive /\ StartAuth(e, neg).lcp = e.lcp
<1> DEFINE c == IF neg.go = "CHAP" THEN ChapAuthPeer(e.chap) ELSE e.chap
           k == IF neg.ho = "CHAP" THEN ChapAuthWithPeer(c) ELSE c
           u == (IF neg.go = "UPAP" THEN {"peer"} ELSE {})
                  \cup (IF neg.ho = "UPAP" THEN {"withpeer"} ELSE {})
           b == AuthBit(neg.go, "peer") \cup AuthBit(neg.ho, "withpeer")
           m == SetChap(e, k)
           n == StartAuth(e, neg)
<1>0. e \in Unit /\ e.chap \in CHAP /\ e.chap.chal \in Nat
  BY DEF Sound, Unit, CHAP
<1>1. /\ c \in CHAP /\ (e.lcp.state = "OPENED" \/ c.server = "INITIAL")
      /\ c.chal = IF c.server \in Challenging THEN 1 ELSE 0
  <2>1. CASE neg.go = "CHAP"
    <3>1. e.chap.server = "CLOSED" /\ e.chap.chal = 0
      BY <2>1 DEF ChalTracked, Challenging
    <3>2. c = ChapAuthPeer(e.chap)
      BY <2>1
    <3> HIDE DEF c
    <3>3. c \in CHAP /\ c.server = "INITIAL_CHAL" /\ c.chal = e.chap.chal + 1
      BY <1>0, <3>1, <3>2, AuthPeerFacts
    <3>4. c.chal = 1
      BY <3>1, <3>3
    <3>5. QED
      BY <2>1, <3>3, <3>4 DEF Challenging
  <2>2. CASE neg.go # "CHAP"
    BY <1>0, <2>2 DEF ChalTracked, Sound, ServerIdle
  <2>3. QED
    BY <2>1, <2>2
<1> HIDE DEF c
<1>2. k \in CHAP /\ k.server = c.server /\ k.chal = c.chal
  BY <1>1, AuthWithPeerFacts
<1>3. u \in SUBSET {"peer", "withpeer"}
  OBVIOUS
<1>4. b \in SUBSET AuthBits
  BY AuthBitType
<1>5. n = [m EXCEPT !.upap = @ \cup u, !.auth_pending = b]
  BY DEF StartAuth, c
<1> HIDE DEF k, u, b
<1>6. ChapPut(e, k, m)
  BY <1>1, <1>2, SetChapSound
<1> HIDE DEF m, n
<1>7. m \in Unit /\ m.phase = "AUTHENTICATE" /\ Sound(m)
  BY <1>6 DEF ChapPut, Sound
<1>8. /\ n \in Unit /\ n.alive = m.alive /\ n.lcp = m.lcp /\ n.phase = m.phase
      /\ SameRest(m, n)
  BY <1>3, <1>4, <1>5, <1>7 DEF Unit, SameRest
<1>9. Sound(n)
  BY <1>7, <1>8 DEF Sound, Settled, Restarts, IfNeedsLink, NetworkAuth, NotDead, EchoesOnLink,
                    ServerIdle, SameRest
<1>10. ChalTracked(n)
  BY <1>1, <1>2, <1>6, <1>8 DEF ChalTracked, ChapPut, SameRest
<1>11. KeptEcho(e, n)
  BY <1>6, <1>8 DEF KeptEcho, EchoTracked, EchoOff, ChapPut, SameRest
<1>12. n.alive = e.alive /\ n.lcp = e.lcp
  BY <1>6, <1>8 DEF ChapPut
<1>13. QED
  BY <1>9, <1>10, <1>11, <1>12 DEF n

(* A safe handler keeps the whole invariant. *)
LEMMA SafeWhole ==
  ASSUME NEW e, NEW n, EchoTracked(e), ChalTracked(e), Safe(e, n)
  PROVE  Whole(n)
  BY DEF Safe, Kept, KeptEcho, KeptChal, Whole

(* link_established, also where die has returned: the phases go on without a link. *)
LEMMA LinkEstablishedWhole ==
  ASSUME NEW e, Whole(e), e.alive, e.lcp.state = "OPENED", e.chap.server = "CLOSED",
         NEW neg \in Negotiations
  PROVE  Whole(link_established(e, neg))
<1> DEFINE refused == AuthRequired /\ neg.go = "none" /\ ~ neg.login
           n == IF refused THEN die(e) ELSE e
           p == SetPhase(n, "AUTHENTICATE")
           s == StartAuth(p, neg)
           r == link_established(e, neg)
<1>1. /\ Whole(n) /\ (n.alive => Excused(n))
      /\ neg.go = "CHAP" => n.lcp.state = "OPENED" /\ n.chap.server = "CLOSED"
  <2>1. CASE refused
    <3>1. Safe(e, n) /\ (n.alive => Stays(n.lcp.flags))
      BY <2>1, DieSound DEF Whole
    <3>2. neg.go # "CHAP"
      BY <2>1
    <3> HIDE DEF n
    <3>3. Whole(n)
      BY <3>1, SafeWhole DEF Whole
    <3>4. QED
      BY <3>1, <3>2, <3>3 DEF Excused
  <2>2. CASE ~ refused
    BY <2>2 DEF Excused
  <2>3. QED
    BY <2>1, <2>2
<1>2. r = IF ~ n.alive THEN n
          ELSE IF s.auth_pending = {} THEN ipcp_open(SetPhase(s, "NETWORK")) ELSE s
  BY DEF link_established
<1> HIDE DEF refused, n, r
<1>3. CASE ~ n.alive
  BY <1>1, <1>2, <1>3 DEF r
<1>4. CASE n.alive
  <2>1. Steady(n, p) /\ p.lcp = n.lcp /\ p.phase = "AUTHENTICATE" /\ SameRest(n, p)
    <3>1. "AUTHENTICATE" \in Phases /\ Sound(n)
      BY <1>1 DEF Phases, Whole
    <3>2. QED
      BY <3>1, SetPhaseSound
  <2> HIDE DEF p
  <2>2. Sound(p) /\ ChalTracked(p) /\ EchoTracked(p) /\ Excused(p) /\ p.chap = n.chap
    BY <1>1, <1>4, <2>1, SteadyExcused DEF Steady, Whole, Kept, KeptEcho, KeptChal, SameRest
  <2>3. /\ Sound(s) /\ ChalTracked(s) /\ KeptEcho(p, s) /\ s.alive = p.alive /\ s.lcp = p.lcp
    BY <1>1, <2>1, <2>2, StartAuthSound
  <2> HIDE DEF s
  <2>4. Excused(s) /\ EchoTracked(s)
    BY <2>2, <2>3 DEF Excused, KeptEcho
  <2>5. Whole(s)
    BY <2>3, <2>4, ExcusedAttended DEF Whole
  <2>6. CASE s.auth_pending = {}
    <3>1. Safe(s, ipcp_open(SetPhase(s, "NETWORK")))
      BY <2>3, <2>4, <2>6, EnterNetwork
    <3>2. Safe(s, r)
      BY <1>2, <1>4, <2>6, <3>1
    <3>3. QED
      BY <2>3, <2>4, <3>2, SafeWhole DEF r
  <2>7. CASE s.auth_pending # {}
    BY <1>2, <1>4, <2>5, <2>7 DEF r
  <2>8. QED
    BY <2>6, <2>7
<1>5. QED
  BY <1>3, <1>4

----------------------------------------------------------------------------
(* Echo requests.                                                          *)

\* n is e with other echo counters.
EchoPut(e, n) ==
    /\ n \in Unit /\ n.alive = e.alive /\ n.lcp = e.lcp /\ n.ipcp = e.ipcp /\ n.chap = e.chap
    /\ n.phase = e.phase /\ n.auth_pending = e.auth_pending /\ n.ifup = e.ifup

(* Only EchoesOnLink is about the echo counters. *)
LEMMA EchoPutSound ==
  ASSUME NEW e, Sound(e), NEW n, EchoPut(e, n),
         n.echo_running => e.lcp.state \in Deaf \cup {"OPENED"}
  PROVE  /\ Sound(n) /\ KeptChal(e, n) /\ Ends(e, n) /\ (Attended(e) => Attended(n))
<1>1. EchoesOnLink(n)
  BY DEF EchoPut, EchoesOnLink
<1>2. Sound(n)
  BY <1>1 DEF EchoPut, Sound, Settled, Restarts, IfNeedsLink, NetworkAuth, NotDead, ServerIdle
<1>3. KeptChal(e, n) /\ Ends(e, n)
  BY DEF EchoPut, KeptChal, Ends, ChalTracked, ChalOff
<1>4. Attended(e) => Attended(n)
  BY DEF EchoPut, Attended
<1>5. QED
  BY <1>2, <1>3, <1>4

(* The link is taken for dead: LCP's lower layer goes down. *)
LEMMA LinkFailureSound ==
  ASSUME NEW e, Sound(e)
  PROVE  /\ Steady(e, LcpLinkFailure(e)) /\ LcpLinkFailure(e) \in Unit
         /\ e.lcp.state \in Deaf \cup {"OPENED"} => LcpLinkFailure(e).lcp.state \in Deaf
<1> DEFINE n == LcpLinkFailure(e)
<1>1. CASE e.lcp.state # "OPENED"
  <2>1. n = e
    BY <1>1 DEF LcpLinkFailure
  <2>2. Kept(e, e)
    BY DEF Kept, KeptEcho, KeptChal, Ends
  <2> HIDE DEF n
  <2>3. QED
    BY <1>1, <2>1, <2>2 DEF n, Steady, Sound
<1>2. CASE e.lcp.state = "OPENED"
  <2> DEFINE g == fsm_lowerdown(e.lcp)
             m == LcpNow(e, g)
  <2>1. n = SetPhase(m, "TERMINATE")
    BY <1>2 DEF LcpLinkFailure
  <2>2. e.lcp \in FSM /\ e.lcp.cb = {}
    BY DEF Sound, Unit, Settled
  <2>3. LcpMove(e, g) /\ g.state \in Deaf
    BY <2>2, LowerDownFacts DEF LcpMove
  <2> HIDE DEF g, n
  <2>4. Steady(e, m) /\ LcpPut(e, g, m)
    BY <2>3, LcpNowSound
  <2> HIDE DEF m
  <2>5. Sound(m) /\ "TERMINATE" \in Phases
    BY <2>4 DEF Steady, Phases
  <2>6. Steady(m, n) /\ n.lcp = m.lcp
    BY <2>1, <2>5, SetPhaseSound
  <2>7. Steady(e, n)
    BY <2>4, <2>6, SteadyTrans
  <2>8. n.lcp.state \in Deaf
    BY <2>3, <2>4, <2>6 DEF LcpPut
  <2>9. QED
    BY <2>7, <2>8 DEF n, Steady, Sound
<1>3. QED
  BY <1>1, <1>2

(* An echo request is sent, or there have been too many without an answer. *)
LEMMA SendEchoSafe ==
  ASSUME NEW e, Sound(e), Attended(e), e.alive, e.lcp.state \in Deaf \cup {"OPENED"}
  PROVE  /\ Safe(e, LcpSendEchoRequest(e))
         /\ LcpSendEchoRequest(e).alive =>
                LcpSendEchoRequest(e).lcp.state \in Deaf \cup {"OPENED"}
         /\ e.echos = 0 => /\ EchoPut(e, LcpSendEchoRequest(e))
                           /\ LcpSendEchoRequest(e).echo_timers = e.echo_timers
<1> DEFINE n == LcpSendEchoRequest(e)
<1>0. e.echos \in 0 .. EchoFails /\ EchoFails \in Nat /\ 0 \in 0 .. EchoFails /\ e \in Unit
  BY DaemonAssumption DEF Sound, Unit
<1>1. CASE EchoFails # 0 /\ e.echos >= EchoFails
  <2> DEFINE f == LcpLinkFailure(e)
             m == [f EXCEPT !.echos = 0]
  <2>1. n = die(m)
    BY <1>0, <1>1 DEF LcpSendEchoRequest
  <2>2. Steady(e, f) /\ f \in Unit /\ f.lcp.state \in Deaf
    BY LinkFailureSound
  <2> HIDE DEF f, n
  <2>3. /\ EchoPut(f, m) /\ m.echo_running = f.echo_running /\ m.echo_timers = f.echo_timers
    BY <1>0, <2>2 DEF Unit, EchoPut
  <2> HIDE DEF m
  <2>4. Sound(m) /\ KeptChal(f, m) /\ Ends(f, m)
    BY <2>2, <2>3, EchoPutSound DEF Steady
  <2>5. KeptEcho(f, m)
    BY <2>3 DEF KeptEcho, EchoTracked, EchoOff
  <2>6. Steady(f, m)
    BY <2>3, <2>4, <2>5 DEF Steady, Kept, EchoPut
  <2>7. Steady(e, m)
    BY <2>2, <2>6, SteadyTrans
  <2>8. Safe(m, n) /\ (n.alive => n.lcp.state \in Deaf)
    BY <2>1, <2>2, <2>3, <2>4, DieSound DEF EchoPut, Steady
  <2>9. Safe(e, n)
    BY <2>7, <2>8, SafeAfter
  <2>10. e.echos # 0
    BY <1>0, <1>1
  <2>11. QED
    BY <2>8, <2>9, <2>10 DEF n
<1>2. CASE ~ (EchoFails # 0 /\ e.echos >= EchoFails)
  <2>1. EchoFails = 0 => n = e
    BY <1>0, <1>2 DEF LcpSendEchoRequest
  <2>2. EchoFails # 0 => n = [e EXCEPT !.echos = @ + 1] /\ e.echos + 1 \in 0 .. EchoFails
    BY <1>0, <1>2 DEF LcpSendEchoRequest
  <2> HIDE DEF n
  <2>3. EchoPut(e, n) /\ n.echo_running = e.echo_running /\ n.echo_timers = e.echo_timers
    BY <1>0, <2>1, <2>2 DEF Unit, EchoPut
  <2>4. Sound(n) /\ KeptChal(e, n) /\ Ends(e, n) /\ Attended(n)
    BY <2>3, EchoPutSound
  <2>5. KeptEcho(e, n)
    BY <2>3 DEF KeptEcho, EchoTracked, EchoOff
  <2>6. QED
    BY <2>3, <2>4, <2>5 DEF n, Safe, Kept, EchoPut
<1>3. QED
  BY <1>1, <1>2

(* The echo callout is queued: there was none, now there is one and the flag is set. *)
LEMMA EchoCheckFacts ==
  ASSUME NEW e, Sound(e), Attended(e), e.alive, EchoOff(e), e.lcp.state \in Deaf \cup {"OPENED"}
  PROVE  /\ Sound(LcpEchoCheck(e)) /\ Attended(LcpEchoCheck(e)) /\ EchoTracked(LcpEchoCheck(e))
         /\ KeptChal(e, LcpEchoCheck(e)) /\ Ends(e, LcpEchoCheck(e))
         /\ e.echos = 0 => EchoPut(e, LcpEchoCheck(e))
<1> DEFINE m == LcpSendEchoRequest(e)
           n == LcpEchoCheck(e)
<1>1. /\ Safe(e, m) /\ (m.alive => m.lcp.state \in Deaf \cup {"OPENED"})
      /\ (e.echos = 0 => EchoPut(e, m))
  BY SendEchoSafe
<1>2. n = IF ~ m.alive THEN m ELSE [m EXCEPT !.echo_timers = @ + 1, !.echo_running = TRUE]
  BY DEF LcpEchoCheck
<1> HIDE DEF m, n
<1>3. /\ Sound(m) /\ Attended(m) /\ KeptChal(e, m) /\ EchoOff(m) /\ m \in Unit
      /\ (m.alive \/ m = NoUnit)
  BY <1>1 DEF Safe, Kept, KeptEcho, Ends, Sound
<1>4. CASE ~ m.alive
  <2>1. n = m /\ n = NoUnit
    BY <1>2, <1>3, <1>4
  <2>2. e.echos # 0
    BY <1>1, <1>4 DEF EchoPut
  <2>3. QED
    BY <1>3, <2>1, <2>2, NoUnitFacts DEF n, Ends
<1>5. CASE m.alive
  <2>1. m.echo_timers = 0 /\ m.echo_timers + 1 = 1 /\ 1 \in Nat
    BY <1>3 DEF EchoOff
  <2>2. n = [m EXCEPT !.echo_timers = 1, !.echo_running = TRUE]
    BY <1>2, <1>5, <2>1
  <2>3. EchoPut(m, n) /\ n.echo_timers = 1 /\ n.echo_running = TRUE
    BY <1>3, <2>1, <2>2 DEF Unit, EchoPut
  <2>4. Sound(n) /\ KeptChal(m, n) /\ Ends(m, n) /\ Attended(n)
    BY <1>1, <1>3, <1>5, <2>3, EchoPutSound
  <2>5. EchoTracked(n)
    BY <2>3 DEF EchoTracked
  <2>6. KeptChal(e, n)
    BY <1>3, <2>4 DEF KeptChal
  <2>7. Ends(e, n)
    BY <1>5, <2>3 DEF Ends, EchoPut
  <2>8. e.echos = 0 => EchoPut(e, n)
    BY <1>1, <2>3 DEF EchoPut
  <2>9. QED
    BY <2>4, <2>5, <2>6, <2>7, <2>8 DEF n
<1>6. QED
  BY <1>4, <1>5

(* The echo callout expires. *)
LEMMA EchoTimeoutFacts ==
  ASSUME NEW e, Sound(e), Attended(e), e.alive, e.echo_timers = 1
  PROVE  /\ Sound(LcpEchoTimeout(e)) /\ Attended(LcpEchoTimeout(e)) /\ EchoTracked(LcpEchoTimeout(e))
         /\ KeptChal(e, LcpEchoTimeout(e)) /\ Ends(e, LcpEchoTimeout(e))
<1> DEFINE m == [e EXCEPT !.echo_timers = Cancel(@)]
           k == [m EXCEPT !.echo_running = FALSE]
           n == LcpEchoTimeout(e)
<1>0. e \in Unit /\ Cancel(e.echo_timers) = 0 /\ 0 \in Nat /\ e.echo_running \in BOOLEAN
  <2>1. 1 \in Nat /\ Cancel(1) = 0
    BY CancelType
  <2>2. QED
    BY <2>1 DEF Sound, Unit
<1>1. EchoPut(e, m) /\ m.echo_timers = 0 /\ m.echo_running = e.echo_running
  BY <1>0 DEF Unit, EchoPut
<1>2. n = IF m.echo_running THEN LcpEchoCheck(k) ELSE m
  BY DEF LcpEchoTimeout
<1> HIDE DEF m, n
<1>3. EchoPut(e, k) /\ k.echo_timers = 0 /\ k.echo_running = FALSE
  BY <1>1 DEF Unit, EchoPut
<1> HIDE DEF k
<1>4. CASE e.echo_running
  <2>1. e.lcp.state \in Deaf \cup {"OPENED"}
    BY <1>4 DEF Sound, EchoesOnLink
  <2>2. Sound(k) /\ KeptChal(e, k) /\ Attended(k)
    BY <1>3, EchoPutSound
  <2>3. k.alive /\ k.lcp.state \in Deaf \cup {"OPENED"} /\ EchoOff(k)
    BY <1>3, <2>1 DEF EchoPut, EchoOff
  <2>4. n = LcpEchoCheck(k)
    BY <1>1, <1>2, <1>4
  <2>5. Sound(n) /\ Attended(n) /\ EchoTracked(n) /\ KeptChal(k, n) /\ Ends(k, n)
    BY <2>2, <2>3, <2>4, EchoCheckFacts
  <2>6. KeptChal(e, n) /\ Ends(e, n)
    BY <2>2, <2>3, <2>5 DEF KeptChal, Ends
  <2>7. QED
    BY <2>5, <2>6 DEF n
<1>5. CASE ~ e.echo_running
  <2>1. n = m /\ ~ m.echo_running
    BY <1>1, <1>2, <1>5
  <2>2. Sound(m) /\ KeptChal(e, m) /\ Ends(e, m) /\ Attended(m)
    BY <1>1, <2>1, EchoPutSound
  <2>3. EchoTracked(m)
    BY <1>1, <2>1 DEF EchoTracked
  <2>4. QED
    BY <2>1, <2>2, <2>3 DEF n
<1>6. QED
  BY <1>4, <1>5

(* The echoes start, on a link that has just come up. *)
LEMMA EchoLowerupFacts ==
  ASSUME NEW e, Sound(e), e.alive, e.lcp.state = "OPENED", ~ e.echo_running, EchoTracked(e)
  PROVE  /\ Sound(lcp_echo_lowerup(e)) /\ EchoTracked(lcp_echo_lowerup(e))
         /\ EchoPut(e, lcp_echo_lowerup(e))
<1> DEFINE m == [e EXCEPT !.echos = 0, !.echo_running = FALSE]
           n == lcp_echo_lowerup(e)
<1>0. e \in Unit /\ 0 \in 0 .. EchoFails /\ e.echo_timers = 0
  BY DaemonAssumption DEF Sound, EchoTracked
<1>1. /\ EchoPut(e, m) /\ m.echo_timers = 0 /\ m.echo_running = FALSE /\ m.echos = 0
  BY <1>0 DEF Unit, EchoPut
<1>2. n = IF EchoInterval THEN LcpEchoCheck(m) ELSE m
  BY DEF lcp_echo_lowerup
<1> HIDE DEF m, n
<1>3. Attended(e)
  BY ExcusedAttended DEF Excused
<1>4. Sound(m) /\ Attended(m)
  BY <1>1, <1>3, EchoPutSound
<1>5. m.alive /\ EchoOff(m) /\ m.lcp.state \in Deaf \cup {"OPENED"} /\ EchoTracked(m)
  BY <1>1 DEF EchoPut, EchoOff, EchoTracked
<1>6. Sound(LcpEchoCheck(m)) /\ EchoTracked(LcpEchoCheck(m)) /\ EchoPut(m, LcpEchoCheck(m))
  BY <1>1, <1>4, <1>5, EchoCheckFacts
<1>7. CASE EchoInterval
  <2>1. Sound(n) /\ EchoTracked(n) /\ EchoPut(m, n)
    BY <1>2, <1>6, <1>7
  <2>2. EchoPut(e, n)
    BY <1>1, <2>1 DEF EchoPut
  <2>3. QED
    BY <2>1, <2>2 DEF n
<1>8. CASE ~ EchoInterval
  BY <1>1, <1>2, <1>4, <1>5, <1>8 DEF n
<1>9. QED
  BY <1>7, <1>8

----------------------------------------------------------------------------
(* LCP and IPCP coming up, and their steps.                                *)

(* lcp_up starts the echoes, CHAP and IPCP, and then the authentications. *)
LEMMA LcpUpWhole ==
  ASSUME NEW e, Sound(e), EchoTracked(e), ChalTracked(e), e.alive, e.lcp.state = "OPENED",
         ~ e.echo_running, e.chap.server = "INITIAL", NEW neg \in Negotiations
  PROVE  Whole(lcp_up(e, neg))
<1> DEFINE c == ChapLowerUp(e.chap)
           a == SetChap(e, c)
           g == fsm_lowerup(a.ipcp)
           b == ipcp_lowerup(a)
           n == lcp_echo_lowerup(b)
<1>1. lcp_up(e, neg) = link_established(n, neg)
  BY DEF lcp_up
<1>2. c \in CHAP /\ c.server = "CLOSED" /\ c.chal = e.chap.chal
  BY ChapLowerUpFacts DEF Sound, Unit
<1> HIDE DEF c
<1>3. ChapPut(e, c, a)
  BY <1>2, SetChapSound
<1> HIDE DEF a
<1>4. /\ Sound(a) /\ EchoTracked(a) /\ a.chap.server = "CLOSED" /\ a.alive
      /\ a.lcp.state = "OPENED" /\ ~ a.echo_running
  BY <1>2, <1>3 DEF ChapPut, KeptEcho
<1>5. ChalTracked(a)
  BY <1>2, <1>3 DEF ChapPut, ChalTracked, Challenging
<1>6. a \in Unit /\ a.ipcp \in FSM /\ a.ipcp.cb = {}
  BY <1>4 DEF Sound, Unit, Settled
<1>7. FsmStep(a.ipcp, g)
  BY <1>6, LowerUpFacts
<1>8. b = IpcpNow(a, g)
  BY DEF ipcp_lowerup
<1> HIDE DEF g, b
<1>9. Steady(a, b) /\ b.lcp = a.lcp
  BY <1>4, <1>7, <1>8, IpcpNowSound
<1>10. b.chap = a.chap /\ b.echo_running = a.echo_running
  BY <1>6, <1>7, <1>8, IpcpNowFields
<1>11. /\ Sound(b) /\ EchoTracked(b) /\ ChalTracked(b) /\ b.alive /\ b.lcp.state = "OPENED"
       /\ ~ b.echo_running /\ b.chap.server = "CLOSED"
  BY <1>4, <1>5, <1>9, <1>10 DEF Steady, Kept, KeptEcho, KeptChal
<1>12. Sound(n) /\ EchoTracked(n) /\ EchoPut(b, n)
  BY <1>11, EchoLowerupFacts
<1> HIDE DEF n
<1>13. n.alive /\ n.lcp.state = "OPENED" /\ n.chap.server = "CLOSED" /\ ChalTracked(n)
  BY <1>11, <1>12 DEF EchoPut, ChalTracked
<1>14. Attended(n)
  BY <1>13, ExcusedAttended DEF Excused
<1>15. Whole(n)
  BY <1>12, <1>13, <1>14 DEF Whole
<1>16. QED
  BY <1>1, <1>13, <1>15, LinkEstablishedWhole

(* A step of LCP in which it does not come up. *)
LEMMA LcpStepSafe ==
  ASSUME NEW e, Sound(e), Attended(e), e.alive, NEW g, FsmMove(e.lcp, g), "up" \notin g.cb,
         NEW n \in LcpStep(e, g)
  PROVE  Safe(e, n)
<1> DEFINE m == LcpNow(e, g)
<1>1. LcpMove(e, g)
  BY DEF FsmMove, LcpMove
<1>2. /\ Steady(e, m) /\ LcpPut(e, g, m) /\ (g.state \notin Deaf => Attended(m))
  BY <1>1, LcpNowSound
<1>3. n = IF "finished" \in g.cb THEN lcp_finished(m) ELSE m
  BY DEF LcpStep
<1> HIDE DEF m
<1>4. Attended(m)
  <2>1. CASE g.state \in Deaf
    <3>1. ~ e.alive \/ Stays(e.lcp.flags)
      BY <2>1 DEF Attended, FsmMove
    <3>2. QED
      BY <1>2, <3>1, ExcusedAttended DEF Steady, Excused
  <2>2. QED
    BY <1>2, <2>1
<1>5. CASE "finished" \in g.cb
  <2>1. m.lcp.state \in {"STOPPED", "CLOSED"} /\ Sound(m)
    BY <1>2, <1>5 DEF FsmMove, FsmStep, LcpPut, Steady
  <2>2. Steady(m, n) /\ Attended(n)
    BY <1>3, <1>4, <1>5, <2>1, FinishedSound
  <2>3. Steady(e, n)
    BY <1>2, <2>2, SteadyTrans
  <2>4. QED
    BY <2>2, <2>3 DEF Steady, Safe
<1>6. CASE "finished" \notin g.cb
  BY <1>2, <1>3, <1>4, <1>6 DEF Steady, Safe
<1>7. QED
  BY <1>5, <1>6

(* Any step of LCP. *)
LEMMA LcpStepWhole ==
  ASSUME NEW e, Whole(e), e.alive, NEW g, FsmMove(e.lcp, g), NEW n \in LcpStep(e, g)
  PROVE  Whole(n)
<1>1. CASE "up" \notin g.cb
  BY <1>1, LcpStepSafe, SafeWhole DEF Whole
<1>2. CASE "up" \in g.cb
  <2> DEFINE m == LcpNow(e, g)
  <2>1. LcpMove(e, g) /\ Sound(e) /\ g.state = "OPENED" /\ "finished" \notin g.cb
    BY <1>2 DEF FsmMove, FsmStep, LcpMove, Whole
  <2>2. Steady(e, m) /\ LcpPut(e, g, m) /\ AtRest(e, m)
    BY <1>2, <2>1, LcpNowSound
  <2>3. PICK neg \in Negotiations : n = lcp_up(m, neg)
    BY <1>2, <2>1 DEF LcpStep
  <2> HIDE DEF m
  <2>4. Sound(m) /\ EchoTracked(m) /\ ChalTracked(m) /\ m.alive /\ m.lcp.state = "OPENED"
    BY <2>1, <2>2 DEF Steady, Kept, KeptEcho, KeptChal, Whole, LcpPut
  <2>5. ~ m.echo_running /\ m.chap.server = "INITIAL"
    BY <2>2 DEF AtRest
  <2>6. QED
    BY <2>3, <2>4, <2>5, LcpUpWhole
<1>3. QED
  BY <1>1, <1>2

(* A part of a handler that keeps the unit attended is safe. *)
LEMMA SteadySafe ==
  ASSUME NEW e, NEW n, Steady(e, n), Attended(n)
  PROVE  Safe(e, n)
  BY DEF Steady, Safe

(* IPCP comes up and the interface with it, or the daemon ends. *)
LEMMA IpcpUpSafe ==
  ASSUME NEW e, Sound(e), Attended(e), e.alive, e.lcp.state = "OPENED", e.ipcp.state = "OPENED",
         NEW ok \in BOOLEAN
  PROVE  Safe(e, ipcp_up(e, ok))
<1> DEFINE n == ipcp_up(e, ok)
<1>1. CASE ok
  <2>1. n = [e EXCEPT !.ifup = TRUE]
    BY <1>1 DEF ipcp_up
  <2> HIDE DEF n
  <2>2. /\ n \in Unit /\ n.alive = e.alive /\ n.lcp = e.lcp /\ n.ipcp = e.ipcp /\ n.chap = e.chap
        /\ n.phase = e.phase /\ n.auth_pending = e.auth_pending
        /\ n.echo_running = e.echo_running /\ n.echo_timers = e.echo_timers
    BY <2>1 DEF Sound, Unit
  <2>3. Sound(n)
    BY <2>2 DEF Sound, Settled, Restarts, IfNeedsLink, NetworkAuth, NotDead, EchoesOnLink, ServerIdle
  <2>4. Kept(e, n)
    BY <2>2 DEF Kept, KeptEcho, KeptChal, Ends, EchoTracked, ChalTracked, EchoOff, ChalOff
  <2>5. Attended(n)
    BY <2>2 DEF Attended
  <2>6. QED
    BY <2>3, <2>4, <2>5 DEF n, Safe
<1>2. CASE ~ ok
  <2> DEFINE g == fsm_close(e.ipcp)
             m == IpcpNow(e, g)
  <2>1. n = die(m)
    BY <1>2 DEF ipcp_up, ipcp_close
  <2>2. e.ipcp \in FSM /\ e.ipcp.cb = {}
    BY DEF Sound, Unit, Settled
  <2>3. FsmStep(e.ipcp, g)
    BY <2>2, CloseFacts
  <2> HIDE DEF g, n
  <2>4. Steady(e, m)
    BY <2>3, IpcpNowSound
  <2> HIDE DEF m
  <2>5. Safe(m, n)
    BY <2>1, <2>4, DieSound DEF Steady
  <2>6. QED
    BY <2>4, <2>5, SafeAfter DEF n
<1>3. QED
  BY <1>1, <1>2

(* A step of IPCP, which comes up on an open link only. *)
LEMMA IpcpStepSafe ==
  ASSUME NEW e, Sound(e), Attended(e), e.alive, NEW g, FsmStep(e.ipcp, g),
         "up" \in g.cb => e.lcp.state = "OPENED", NEW n \in IpcpStep(e, g)
  PROVE  Safe(e, n)
<1> DEFINE m == IpcpNow(e, g)
<1>1. Steady(e, m) /\ m.lcp = e.lcp /\ Attended(m)
  BY IpcpNowSound
<1>2. m.ipcp.state = g.state
  BY IpcpNowFields DEF Sound
<1>3. CASE "up" \in g.cb
  <2>1. PICK ok \in BOOLEAN : n = ipcp_up(m, ok)
    BY <1>3 DEF IpcpStep
  <2>2. g.state = "OPENED"
    BY <1>3 DEF FsmStep
  <2> HIDE DEF m
  <2>3. Sound(m) /\ m.alive /\ m.lcp.state = "OPENED" /\ m.ipcp.state = "OPENED"
    BY <1>1, <1>2, <1>3, <2>2 DEF Steady
  <2>4. Safe(m, n)
    BY <1>1, <2>1, <2>3, IpcpUpSafe
  <2>5. QED
    BY <1>1, <2>4, SafeAfter
<1>4. CASE "up" \notin g.cb
  <2>1. n = m
    BY <1>4 DEF IpcpStep
  <2> HIDE DEF m
  <2>2. QED
    BY <1>1, <2>1, SteadySafe
<1>5. QED
  BY <1>3, <1>4

(* A Reject of the address option. *)
LEMMA RejectAddressSafe ==
  ASSUME NEW e, Sound(e), e.alive, NEW good \in BOOLEAN
  PROVE  Safe(e, RejectAddress(e, good))
<1> DEFINE m == die(e)
           g == fsm_rconfnakrej(m.ipcp, m.ipcp.reqid, good)
           n == RejectAddress(e, good)
<1>1. Safe(e, m) /\ (m.alive => Steady(e, m))
  BY DieSound
<1>2. n = IF m.alive THEN IpcpNow(m, g) ELSE m
  BY DEF RejectAddress
<1> HIDE DEF m, n
<1>3. CASE m.alive
  <2>1. Sound(m) /\ Attended(m)
    BY <1>1 DEF Safe
  <2>2. m.ipcp \in FSM /\ m.ipcp.cb = {} /\ m.ipcp.reqid \in Ids
    BY <2>1 DEF Sound, Unit, Settled, FSM
  <2>3. FsmStep(m.ipcp, g)
    BY <2>2, RconfnakrejFacts DEF FsmMove
  <2> HIDE DEF g
  <2>4. Steady(m, n) /\ Attended(n)
    BY <1>2, <1>3, <2>1, <2>3, IpcpNowSound
  <2>5. QED
    BY <1>1, <1>3, <2>4, SteadySafe, SafeAfter DEF n
<1>4. CASE ~ m.alive
  BY <1>1, <1>2, <1>4 DEF n
<1>5. QED
  BY <1>3, <1>4

----------------------------------------------------------------------------
(* CHAP.                                                                   *)

\* What auth.c does with CHAP's reports: successes come over an open link only.
Reported(e, c) ==
    /\ c \in CHAP /\ (e.lcp.state = "OPENED" \/ c.server = "INITIAL")
    /\ "peer_success" \in c.said \/ "withpeer_success" \in c.said => e.lcp.state = "OPENED"

\* The server is followed: the one callout while it waits, none else.
Counted(c) == c.chal = IF c.server \in Challenging THEN 1 ELSE 0
Uncounted(c) == c.chal = 0 /\ c.server # "OPEN"

(* CHAP's state is stored and its reports are made. *)
LEMMA ChapStepFacts ==
  ASSUME NEW e, Sound(e), Attended(e), e.alive, NEW c, Reported(e, c), NEW n \in ChapStep(e, c)
  PROVE  /\ Sound(n) /\ Attended(n) /\ KeptEcho(e, n) /\ Ends(e, n)
         /\ Counted(c) => ChalTracked(n)
         /\ Uncounted(c) => ChalOff(n)
<1> DEFINE m == SetChap(e, c)
<1>1. ChapPut(e, c, m)
  BY SetChapSound DEF Reported
<1>2. n \in {die(m), AuthDone(m, AuthBit("CHAP", "peer")), AuthDone(m, AuthBit("CHAP", "withpeer")), m}
  BY DEF ChapStep, auth_peer_fail, auth_peer_success, auth_withpeer_success
<1>3. n \in {AuthDone(m, AuthBit("CHAP", "peer")), AuthDone(m, AuthBit("CHAP", "withpeer"))} =>
        n \in {die(m), m} \/ "peer_success" \in c.said \/ "withpeer_success" \in c.said
  BY DEF ChapStep, auth_peer_fail, auth_peer_success, auth_withpeer_success
<1> HIDE DEF m
<1>4. Sound(m) /\ Attended(m) /\ m.alive
  BY <1>1 DEF ChapPut, Attended
<1>5. Safe(m, n)
  <2>1. CASE n = die(m)
    BY <1>4, <2>1, DieSound
  <2>2. CASE n = m
    BY <1>4, <2>2 DEF Safe, Kept, KeptEcho, KeptChal, Ends
  <2>3. CASE n \notin {die(m), m}
    <3>1. Excused(m)
      BY <1>1, <1>2, <1>3, <2>3 DEF Reported, ChapPut, Excused
    <3>2. QED
      BY <1>2, <1>4, <2>3, <3>1, AuthDoneSafe
  <2>4. QED
    BY <2>1, <2>2, <2>3
<1>6. (Counted(c) => ChalTracked(m)) /\ (Uncounted(c) => ChalOff(m))
  BY <1>1 DEF ChapPut, Counted, Uncounted, ChalTracked, ChalOff
<1>7. KeptEcho(e, n)
  BY <1>1, <1>5 DEF ChapPut, KeptEcho, Safe, Kept
<1>8. Ends(e, n)
  BY <1>1, <1>5 DEF ChapPut, Ends, Safe, Kept
<1>9. QED
  BY <1>5, <1>6, <1>7, <1>8 DEF Safe, Kept, KeptChal

\* k is c after something that is not for the server.
ForClient(c, k) == k \in CHAP /\ k.server = c.server /\ k.chal = c.chal

(* Dropping, and queuing, the callout of the response. *)
LEMMA RespFacts ==
  ASSUME NEW c \in CHAP
  PROVE  /\ ForClient(c, [c EXCEPT !.resp = Cancel(@)])
         /\ [c EXCEPT !.resp = Cancel(@)].said = c.said
         /\ [c EXCEPT !.resp = Cancel(@)].client = c.client
         /\ ForClient(c, ChapSendResponse(c)) /\ ChapSendResponse(c).said = c.said
<1>1. c.resp \in Nat /\ c.resp + 1 \in Nat
  BY DEF CHAP
<1>2. Cancel(c.resp) \in Nat
  BY <1>1, CancelType
<1>3. /\ ForClient(c, [c EXCEPT !.resp = Cancel(@)]) /\ [c EXCEPT !.resp = Cancel(@)].said = c.said
      /\ [c EXCEPT !.resp = Cancel(@)].client = c.client
  BY <1>2 DEF CHAP, ForClient
<1> DEFINE k == [c EXCEPT !.client = "RESPONSE"]
<1>4. k \in CHAP /\ k.server = c.server /\ k.chal = c.chal /\ k.said = c.said /\ k.resp = c.resp
  BY DEF CHAP, ClientStates
<1>5. ChapSendResponse(c) = [k EXCEPT !.resp = @ + 1]
  BY DEF ChapSendResponse, Client
<1> HIDE DEF k
<1>6. ForClient(c, ChapSendResponse(c)) /\ ChapSendResponse(c).said = c.said
  BY <1>1, <1>4, <1>5 DEF CHAP, ForClient
<1>7. QED
  BY <1>3, <1>6

(* The client's operations: only ChapReceiveSuccess reports, and only success. *)
LEMMA ClientFacts ==
  ASSUME NEW c \in CHAP
  PROVE  /\ ForClient(c, ChapReceiveChallenge(c)) /\ ForClient(c, ChapReceiveSuccess(c))
         /\ ForClient(c, ChapReceiveFailure(c)) /\ ForClient(c, ChapResponseTimeout(c))
         /\ ChapResponseTimeout(c).said = c.said
<1> DEFINE r == [c EXCEPT !.resp = Cancel(@)]
<1>1. ForClient(c, c)
  BY DEF ForClient
<1>2. /\ ForClient(c, r) /\ r.said = c.said /\ r.client = c.client
      /\ ForClient(c, ChapSendResponse(c)) /\ ChapSendResponse(c).said = c.said
  BY RespFacts
<1>3. ChapReceiveFailure(c) = IF c.client # "RESPONSE" THEN c ELSE r
  BY DEF ChapReceiveFailure
<1>4. ChapReceiveSuccess(c) = IF c.client # "RESPONSE" THEN c
                              ELSE Say(Client(r, "OPEN"), "withpeer_success")
  BY DEF ChapReceiveSuccess
<1>5. ChapReceiveChallenge(c) \in {c, ChapSendResponse(c), ChapSendResponse(r)}
  BY DEF ChapReceiveChallenge
<1>6. ChapResponseTimeout(c) = IF r.client # "RESPONSE" THEN r ELSE ChapSendResponse(r)
  BY DEF ChapResponseTimeout
<1> HIDE DEF r
<1>7. r \in CHAP /\ r.server = c.server /\ r.chal = c.chal
  BY <1>2 DEF ForClient
<1>8. ForClient(c, ChapSendResponse(r)) /\ ChapSendResponse(r).said = c.said
  BY <1>2, <1>7, RespFacts DEF ForClient
<1>9. ForClient(c, ChapReceiveSuccess(c))
  <2> DEFINE a == [r EXCEPT !.client = "OPEN"]
             b == [a EXCEPT !.said = @ \cup {"withpeer_success"}]
  <2>1. a \in CHAP /\ a.server = c.server /\ a.chal = c.chal
    BY <1>7 DEF CHAP, ClientStates
  <2>2. Say(Client(r, "OPEN"), "withpeer_success") = b
    BY DEF Say, Client
  <2> HIDE DEF a
  <2>3. b \in CHAP /\ b.server = c.server /\ b.chal = c.chal
    BY <2>1 DEF CHAP, Reports
  <2> HIDE DEF b
  <2>4. QED
    BY <1>1, <1>4, <2>2, <2>3 DEF ForClient
<1>10. QED
  BY <1>1, <1>2, <1>3, <1>5, <1>6, <1>8, <1>9

(* A report of success or failure on the way to a state of the server. *)
LEMMA ServerSay ==
  ASSUME NEW c \in CHAP, NEW s \in ServerStates, NEW r \in Reports
  PROVE  /\ Server(c, s) \in CHAP /\ Server(c, s).server = s /\ Server(c, s).chal = c.chal
         /\ Server(c, s).said = c.said
         /\ Say(c, r) \in CHAP /\ Say(c, r).server = c.server /\ Say(c, r).chal = c.chal
         /\ Say(c, r).said = c.said \cup {r}
  BY DEF Server, Say, CHAP

(* Dropping the callout of the challenge. *)
LEMMA ChalCancel ==
  ASSUME NEW c \in CHAP
  PROVE  /\ [c EXCEPT !.chal = Cancel(@)] \in CHAP
         /\ [c EXCEPT !.chal = Cancel(@)].server = c.server
         /\ [c EXCEPT !.chal = Cancel(@)].chal = Cancel(c.chal)
         /\ [c EXCEPT !.chal = Cancel(@)].said = c.said
         /\ [c EXCEPT !.chal = Cancel(@)].transmits = c.transmits
<1>1. Cancel(c.chal) \in Nat
  BY CancelType DEF CHAP
<1>2. QED
  BY <1>1 DEF CHAP

(* Queuing the next rechallenge. *)
LEMMA ArmFacts ==
  ASSUME NEW c \in CHAP
  PROVE  /\ ForClient(c, ArmRechallenge(c)) /\ ArmRechallenge(c).said = c.said
<1>1. c.rech + 1 \in Nat
  BY DEF CHAP
<1>2. QED
  BY <1>1 DEF CHAP, ForClient, ArmRechallenge

(* A Protocol-Reject of CHAP. *)
LEMMA ChapRejectFacts ==
  ASSUME NEW c \in CHAP, c.said = {}
  PROVE  /\ ChapProtocolReject(c) \in CHAP /\ ChapProtocolReject(c).said \subseteq {"peer_fail"}
         /\ Counted(c) => Counted(ChapProtocolReject(c))
<1> DEFINE k == IF c.server \in {"INITIAL", "CLOSED"} THEN c ELSE Say(c, "peer_fail")
           r == ChapProtocolReject(c)
<1>1. k \in CHAP /\ k.server = c.server /\ k.chal = c.chal /\ k.said \subseteq {"peer_fail"}
  <2>1. "peer_fail" \in Reports /\ "INITIAL" \in ServerStates
    BY DEF Reports, ServerStates
  <2>2. QED
    BY <2>1, ServerSay
<1>2. r = ChapLowerDown(k)
  BY DEF ChapProtocolReject
<1> HIDE DEF k, r
<1>3. /\ r \in CHAP /\ r.server = "INITIAL" /\ r.said = k.said
      /\ r.chal = IF k.server \in Challenging THEN Cancel(k.chal) ELSE k.chal
  BY <1>1, <1>2, ChapLowerDownFacts
<1>4. Cancel(1) = 0 /\ "INITIAL" \notin Challenging
  BY CancelType DEF Challenging
<1>5. Counted(c) => Counted(r)
  BY <1>1, <1>3, <1>4 DEF Counted
<1>6. QED
  BY <1>1, <1>3, <1>5 DEF r

(* A response of the peer: right or wrong, the server no longer waits for it. *)
LEMMA ReceiveResponseFacts ==
  ASSUME NEW c \in CHAP, NEW matches \in BOOLEAN, NEW good \in BOOLEAN
  PROVE  /\ ChapReceiveResponse(c, matches, good) \in CHAP
         /\ Counted(c) => Counted(ChapReceiveResponse(c, matches, good))
<1> DEFINE k == [c EXCEPT !.chal = Cancel(@)]
           s == IF c.server = "INITIAL_CHAL" THEN Say(k, "peer_success") ELSE k
           r == ChapReceiveResponse(c, matches, good)
<1>0. /\ "peer_success" \in Reports /\ "peer_fail" \in Reports /\ "OPEN" \in ServerStates
      /\ "BADAUTH" \in ServerStates
  BY DEF Reports, ServerStates
<1>1. k \in CHAP /\ k.chal = Cancel(c.chal)
  BY ChalCancel
<1>2. r \in {c, ArmRechallenge(Server(s, "OPEN")), Say(Server(k, "BADAUTH"), "peer_fail")}
  BY DEF ChapReceiveResponse
<1> HIDE DEF k, r
<1>3. s \in CHAP /\ s.chal = k.chal
  BY <1>0, <1>1, ServerSay
<1> HIDE DEF s
<1>4. Server(s, "OPEN") \in CHAP /\ Server(s, "OPEN").server = "OPEN" /\ Server(s, "OPEN").chal = k.chal
  BY <1>0, <1>3, ServerSay
<1>5. /\ Server(k, "BADAUTH") \in CHAP /\ Server(k, "BADAUTH").server = "BADAUTH"
      /\ Server(k, "BADAUTH").chal = k.chal
  BY <1>0, <1>1, ServerSay
<1>6. c.chal \in {0, 1} => Cancel(c.chal) = 0
  BY CancelType
<1>7. "OPEN" \notin Challenging /\ "BADAUTH" \notin Challenging
  BY DEF Challenging
<1>8. CASE r = c
  BY <1>8 DEF r
<1>9. CASE r = ArmRechallenge(Server(s, "OPEN"))
  <2>1. r \in CHAP /\ r.server = "OPEN" /\ r.chal = k.chal
    BY <1>4, <1>9, ArmFacts DEF ForClient
  <2>2. QED
    BY <1>1, <1>6, <1>7, <2>1 DEF r, Counted
<1>10. CASE r = Say(Server(k, "BADAUTH"), "peer_fail")
  <2>1. r \in CHAP /\ r.server = "BADAUTH" /\ r.chal = k.chal
    BY <1>0, <1>5, <1>10, ServerSay
  <2>2. QED
    BY <1>1, <1>6, <1>7, <2>1 DEF r, Counted
<1>11. QED
  BY <1>2, <1>8, <1>9, <1>10

(* The callout of a challenge expires: the challenge is repeated, or given up. *)
LEMMA ChallengeTimeoutFacts ==
  ASSUME NEW c \in CHAP, c.said = {}, c.chal = 1
  PROVE  /\ ChapChallengeTimeout(c) \in CHAP /\ ChapChallengeTimeout(c).said \subseteq {"peer_fail"}
         /\ Counted(ChapChallengeTimeout(c))
         /\ c.server = "INITIAL" => ChapChallengeTimeout(c).server = "INITIAL"
<1> DEFINE k == [c EXCEPT !.chal = Cancel(@)]
           r == ChapChallengeTimeout(c)
<1>1. /\ k \in CHAP /\ k.server = c.server /\ k.chal = 0 /\ k.said = {} /\ k.transmits = c.transmits
  <2>1. Cancel(1) = 0
    BY CancelType
  <2>2. QED
    BY <2>1, ChalCancel
<1>2. r = CASE k.server \notin Challenging  -> k
            [] k.server \in Challenging /\ k.transmits >= MaxChal ->
                  Say(Server(k, "BADAUTH"), "peer_fail")
            [] OTHER -> ChapSendChallenge(k)
  BY DEF ChapChallengeTimeout
<1> HIDE DEF k, r
<1>3. CASE k.server \notin Challenging
  <2>1. r = k
    BY <1>2, <1>3
  <2>2. QED
    BY <1>1, <1>3, <2>1 DEF r, Counted
<1>4. CASE k.server \in Challenging /\ k.transmits >= MaxChal
  <2> DEFINE b == Server(k, "BADAUTH")
  <2>1. r = Say(b, "peer_fail")
    BY <1>2, <1>4
  <2>2. "peer_fail" \in Reports /\ "BADAUTH" \in ServerStates /\ "BADAUTH" \notin Challenging
    BY DEF Reports, ServerStates, Challenging
  <2>3. b \in CHAP /\ b.server = "BADAUTH" /\ b.chal = 0 /\ b.said = {}
    BY <1>1, <2>2, ServerSay
  <2> HIDE DEF b
  <2>4. r \in CHAP /\ r.server = "BADAUTH" /\ r.chal = 0 /\ r.said = {} \cup {"peer_fail"}
    BY <2>1, <2>2, <2>3, ServerSay
  <2>5. c.server # "INITIAL"
    BY <1>1, <1>4 DEF Challenging
  <2>6. Counted(r)
    BY <2>2, <2>4 DEF Counted
  <2>7. QED
    BY <2>4, <2>5, <2>6 DEF r
<1>5. CASE k.server \in Challenging /\ ~ (k.transmits >= MaxChal)
  <2>1. r = [k EXCEPT !.chal = @ + 1, !.transmits = @ + 1]
    BY <1>2, <1>5 DEF ChapSendChallenge
  <2>2. k.transmits + 1 \in 0 .. MaxChal /\ k.chal + 1 = 1 /\ 1 \in Nat
    BY <1>1, <1>5, ChapAssumption DEF CHAP
  <2>3. r \in CHAP /\ r.server = k.server /\ r.chal = 1 /\ r.said = {}
    BY <1>1, <2>1, <2>2 DEF CHAP
  <2>4. QED
    BY <1>1, <1>5, <2>3 DEF r, Counted
<1>6. QED
  BY <1>3, <1>4, <1>5

(* The rechallenge callout expires: an OPEN server challenges again. *)
LEMMA RechallengeFacts ==
  ASSUME NEW c \in CHAP
  PROVE  /\ ChapRechallenge(c) \in CHAP /\ ChapRechallenge(c).said = c.said
         /\ Counted(c) => Counted(ChapRechallenge(c))
         /\ Uncounted(c) => Uncounted(ChapRechallenge(c))
         /\ c.server = "INITIAL" => ChapRechallenge(c).server = "INITIAL"
<1> DEFINE k == [c EXCEPT !.rech = Cancel(@)]
           h == Challenge(k, "RECHALLENGE")
           r == ChapRechallenge(c)
<1>1. k \in CHAP /\ k.server = c.server /\ k.chal = c.chal /\ k.said = c.said
  <2>1. Cancel(c.rech) \in Nat
    BY CancelType DEF CHAP
  <2>2. QED
    BY <2>1 DEF CHAP
<1>2. r = IF k.server # "OPEN" THEN k ELSE ArmRechallenge(h)
  BY DEF ChapRechallenge
<1> HIDE DEF k, r
<1>3. CASE k.server # "OPEN"
  <2>1. r = k
    BY <1>2, <1>3
  <2>2. QED
    BY <1>1, <2>1 DEF r, Counted, Uncounted
<1>4. CASE k.server = "OPEN"
  <2>1. h \in CHAP /\ h.server = "RECHALLENGE" /\ h.chal = k.chal + 1 /\ h.said = k.said
    BY <1>1, ChallengeFacts DEF ServerStates
  <2> HIDE DEF h
  <2>2. r \in CHAP /\ r.server = "RECHALLENGE" /\ r.chal = k.chal + 1 /\ r.said = c.said
    BY <1>1, <1>2, <1>4, <2>1, ArmFacts DEF ForClient
  <2>3. Counted(c) => r.chal = 1
    <3>1. "OPEN" \notin Challenging
      BY DEF Challenging
    <3>2. Counted(c) => k.chal = 0
      BY <1>1, <1>4, <3>1 DEF Counted
    <3>3. QED
      BY <2>2, <3>2
  <2>4. Counted(c) => Counted(r)
    BY <2>2, <2>3 DEF Counted, Challenging
  <2>5. ~ Uncounted(c) /\ c.server # "INITIAL"
    BY <1>1, <1>4 DEF Uncounted
  <2>6. QED
    BY <2>2, <2>4, <2>5 DEF r
<1>5. QED
  BY <1>3, <1>4

----------------------------------------------------------------------------
(* Callouts.                                                               *)

(* What is known of CHAP between two handlers. *)
LEMMA ChapOf ==
  ASSUME NEW e, Sound(e)
  PROVE  /\ e.chap \in CHAP /\ e.chap.said = {} /\ e.chap.chal \in Nat
         /\ e.lcp.state = "OPENED" \/ e.chap.server = "INITIAL"
         /\ ChalTracked(e) <=> Counted(e.chap)
         /\ ChalOff(e) <=> Uncounted(e.chap)
  BY DEF Sound, Unit, CHAP, Settled, ServerIdle, ChalTracked, Counted, ChalOff, Uncounted

(* Every callout but those of the echo and the challenge. *)
LEMMA ExpiredSafe ==
  ASSUME NEW e, Sound(e), Attended(e), e.alive, NEW k \in Callouts \ {"echo", "challenge"},
         NEW n \in Expired(e, k)
  PROVE  Safe(e, n)
<1>0. /\ e.lcp \in FSM /\ e.lcp.cb = {} /\ e.ipcp \in FSM /\ e.ipcp.cb = {}
  BY DEF Sound, Unit, Settled
<1>1. CASE k = "lcp"
  <2> DEFINE g == Expire(e.lcp)
  <2>1. n \in LcpStep(e, g)
    BY <1>1 DEF Expired
  <2>2. FsmMove(e.lcp, g) /\ "up" \notin g.cb
    BY <1>0, ExpireFacts
  <2> HIDE DEF g
  <2>3. QED
    BY <2>1, <2>2, LcpStepSafe
<1>2. CASE k = "ipcp"
  <2> DEFINE g == Expire(e.ipcp)
  <2>1. n \in IpcpStep(e, g)
    BY <1>2 DEF Expired
  <2>2. FsmStep(e.ipcp, g) /\ "up" \notin g.cb
    BY <1>0, ExpireFacts DEF FsmMove
  <2> HIDE DEF g
  <2>3. QED
    BY <2>1, <2>2, IpcpStepSafe
<1>3. ASSUME NEW c, n \in ChapStep(e, c), c \in CHAP, c.said = {},
             e.chap.server = "INITIAL" => c.server = "INITIAL",
             Counted(e.chap) => Counted(c), Uncounted(e.chap) => Uncounted(c)
      PROVE  Safe(e, n)
  <2>1. Reported(e, c)
    BY <1>3, ChapOf DEF Reported
  <2>2. /\ Sound(n) /\ Attended(n) /\ KeptEcho(e, n) /\ Ends(e, n)
        /\ (Counted(c) => ChalTracked(n)) /\ (Uncounted(c) => ChalOff(n))
    BY <1>3, <2>1, ChapStepFacts
  <2>3. KeptChal(e, n)
    BY <1>3, <2>2, ChapOf DEF KeptChal
  <2>4. QED
    BY <2>2, <2>3 DEF Safe, Kept
<1>4. CASE k = "response"
  <2> DEFINE c == ChapResponseTimeout(e.chap)
  <2>1. n \in ChapStep(e, c)
    BY <1>4 DEF Expired
  <2>2. ForClient(e.chap, c) /\ c.said = {}
    BY ChapOf, ClientFacts
  <2> HIDE DEF c
  <2>3. QED
    BY <1>3, <2>1, <2>2 DEF ForClient, Counted, Uncounted
<1>5. CASE k = "rechallenge"
  <2> DEFINE c == ChapRechallenge(e.chap)
  <2>1. n \in ChapStep(e, c)
    BY <1>5 DEF Expired
  <2>2. /\ c \in CHAP /\ c.said = {} /\ (e.chap.server = "INITIAL" => c.server = "INITIAL")
        /\ (Counted(e.chap) => Counted(c)) /\ (Uncounted(e.chap) => Uncounted(c))
    BY ChapOf, RechallengeFacts
  <2> HIDE DEF c
  <2>3. QED
    BY <1>3, <2>1, <2>2
<1>6. QED
  BY <1>1, <1>2, <1>4, <1>5 DEF Callouts

\* The outcomes of the other two.
EchoDone(e, n) ==
    Sound(n) /\ Attended(n) /\ EchoTracked(n) /\ KeptChal(e, n) /\ Ends(e, n)
ChalDone(e, n) ==
    Sound(n) /\ Attended(n) /\ ChalTracked(n) /\ KeptEcho(e, n) /\ Ends(e, n)

(* The callout of the echo, whose only one it is. *)
LEMMA ExpiredEcho ==
  ASSUME NEW e, Sound(e), Attended(e), e.alive, e.echo_timers = 1, NEW n \in Expired(e, "echo")
  PROVE  EchoDone(e, n)
<1>1. n = LcpEchoTimeout(e)
  BY DEF Expired
<1>2. QED
  BY <1>1, EchoTimeoutFacts DEF EchoDone

(* The callout of the challenge, whose only one it is. *)
LEMMA ExpiredChal ==
  ASSUME NEW e, Sound(e), Attended(e), e.alive, e.chap.chal = 1, NEW n \in Expired(e, "challenge")
  PROVE  ChalDone(e, n)
<1> DEFINE c == ChapChallengeTimeout(e.chap)
<1>1. n \in ChapStep(e, c)
  BY DEF Expired
<1>2. /\ c \in CHAP /\ c.said \subseteq {"peer_fail"} /\ Counted(c)
      /\ e.chap.server = "INITIAL" => c.server = "INITIAL"
  BY ChapOf, ChallengeTimeoutFacts
<1> HIDE DEF c
<1>3. "peer_success" \notin c.said /\ "withpeer_success" \notin c.said
  BY <1>2
<1>4. Reported(e, c)
  BY <1>2, <1>3, ChapOf DEF Reported
<1>5. QED
  BY <1>1, <1>2, <1>4, ChapStepFacts DEF ChalDone

(* One callout expires. *)
LEMMA ExpiredWhole ==
  ASSUME NEW e, Whole(e), e.alive, NEW k \in Callouts, Pending(e, k) > 0, NEW n \in Expired(e, k)
  PROVE  Whole(n) /\ Ends(e, n)
<1>0. /\ Sound(e) /\ Attended(e) /\ EchoTracked(e) /\ ChalTracked(e)
      /\ e.echo_running \in BOOLEAN /\ e.echo_timers \in Nat
  BY DEF Whole, Sound, Unit
<1>1. CASE k = "echo"
  <2>1. e.echo_timers = 1
    BY <1>0, <1>1 DEF Pending, EchoTracked
  <2>2. EchoDone(e, n)
    BY <1>0, <1>1, <2>1, ExpiredEcho
  <2>3. QED
    BY <1>0, <2>2 DEF EchoDone, Whole, KeptChal
<1>2. CASE k = "challenge"
  <2>1. e.chap.chal = 1
    BY <1>0, <1>2 DEF Pending, ChalTracked
  <2>2. ChalDone(e, n)
    BY <1>0, <1>2, <2>1, ExpiredChal
  <2>3. QED
    BY <1>0, <2>2 DEF ChalDone, Whole, KeptEcho
<1>3. CASE k \notin {"echo", "challenge"}
  <2>1. Safe(e, n)
    BY <1>0, <1>3, ExpiredSafe
  <2>2. Whole(n)
    BY <1>0, <2>1, SafeWhole
  <2>3. QED
    BY <2>1, <2>2 DEF Safe, Kept
<1>4. QED
  BY <1>1, <1>2, <1>3

\* n is e with other callouts pending.
Requeued(e, n) ==
    /\ n \in Unit /\ n.alive = e.alive /\ n.phase = e.phase /\ n.auth_pending = e.auth_pending
    /\ n.lcp.state = e.lcp.state /\ n.lcp.flags = e.lcp.flags /\ n.lcp.cb = e.lcp.cb
    /\ n.ipcp.state = e.ipcp.state /\ n.ipcp.cb = e.ipcp.cb
    /\ n.chap.server = e.chap.server /\ n.chap.said = e.chap.said
    /\ n.echo_running = e.echo_running /\ n.ifup = e.ifup

(* A callout more or less in the list is nothing to Sound and Attended. *)
LEMMA RequeuedSound ==
  ASSUME NEW e, Sound(e), Attended(e), NEW n, Requeued(e, n)
  PROVE  Sound(n) /\ Attended(n)
<1>1. Sound(n)
  BY DEF Requeued, Sound, Settled, Restarts, IfNeedsLink, NetworkAuth, NotDead, EchoesOnLink,
         ServerIdle
<1>2. Attended(n)
  BY DEF Requeued, Attended
<1>3. QED
  BY <1>1, <1>2

(* Enqueue changes the count of its kind, and no other. *)
LEMMA EnqueueFacts ==
  ASSUME NEW e \in Unit, NEW k \in Callouts, NEW i \in Int, Pending(e, k) + i \in Nat
  PROVE  /\ Requeued(e, Enqueue(e, k, i))
         /\ Enqueue(e, k, i).echo_timers = IF k = "echo" THEN e.echo_timers + i ELSE e.echo_timers
         /\ Enqueue(e, k, i).chap.chal = IF k = "challenge" THEN e.chap.chal + i ELSE e.chap.chal
<1> DEFINE n == Enqueue(e, k, i)
<1>0. e.lcp \in FSM /\ e.ipcp \in FSM /\ e.chap \in CHAP
  BY DEF Unit
<1>1. CASE k = "lcp"
  <2> DEFINE f == [e.lcp EXCEPT !.timers = @ + i]
  <2>1. f \in FSM /\ f.state = e.lcp.state /\ f.flags = e.lcp.flags /\ f.cb = e.lcp.cb
    <3>1. e.lcp.timers + i \in Nat
      BY <1>1 DEF Pending
    <3>2. QED
      BY <1>0, <3>1 DEF FSM
  <2>2. n = [e EXCEPT !.lcp = f]
    BY <1>1 DEF Enqueue
  <2> HIDE DEF f, n
  <2>3. Requeued(e, n) /\ n.echo_timers = e.echo_timers /\ n.chap = e.chap
    BY <2>1, <2>2 DEF Unit, Requeued
  <2>4. QED
    BY <1>1, <2>3 DEF n
<1>2. CASE k = "ipcp"
  <2> DEFINE f == [e.ipcp EXCEPT !.timers = @ + i]
  <2>1. f \in FSM /\ f.state = e.ipcp.state /\ f.flags = e.ipcp.flags /\ f.cb = e.ipcp.cb
    <3>1. e.ipcp.timers + i \in Nat
      BY <1>2 DEF Pending
    <3>2. QED
      BY <1>0, <3>1 DEF FSM
  <2>2. n = [e EXCEPT !.ipcp = f]
    BY <1>2 DEF Enqueue
  <2> HIDE DEF f, n
  <2>3. Requeued(e, n) /\ n.echo_timers = e.echo_timers /\ n.chap = e.chap
    BY <2>1, <2>2 DEF Unit, Requeued
  <2>4. QED
    BY <1>2, <2>3 DEF n
<1>3. ASSUME NEW c \in CHAP, n = [e EXCEPT !.chap = c], c.server = e.chap.server,
             c.said = e.chap.said
      PROVE  Requeued(e, n) /\ n.echo_timers = e.echo_timers /\ n.chap = c
  <2> HIDE DEF n
  <2>1. QED
    BY <1>3 DEF Unit, Requeued
<1>4. CASE k = "challenge"
  <2> DEFINE c == [e.chap EXCEPT !.chal = @ + i]
  <2>1. c \in CHAP /\ c.server = e.chap.server /\ c.said = e.chap.said /\ c.chal = e.chap.chal + i
    <3>1. e.chap.chal + i \in Nat
      BY <1>4 DEF Pending
    <3>2. QED
      BY <1>0, <3>1 DEF CHAP
  <2>2. n = [e EXCEPT !.chap = c]
    BY <1>4 DEF Enqueue
  <2> HIDE DEF c, n
  <2>3. Requeued(e, n) /\ n.echo_timers = e.echo_timers /\ n.chap = c
    BY <1>3, <2>1, <2>2
  <2>4. QED
    BY <1>4, <2>1, <2>3 DEF n
<1>5. CASE k = "response"
  <2> DEFINE c == [e.chap EXCEPT !.resp = @ + i]
  <2>1. c \in CHAP /\ c.server = e.chap.server /\ c.said = e.chap.said /\ c.chal = e.chap.chal
    <3>1. e.chap.resp + i \in Nat
      BY <1>5 DEF Pending
    <3>2. QED
      BY <1>0, <3>1 DEF CHAP
  <2>2. n = [e EXCEPT !.chap = c]
    BY <1>5 DEF Enqueue
  <2> HIDE DEF c, n
  <2>3. Requeued(e, n) /\ n.echo_timers = e.echo_timers /\ n.chap = c
    BY <1>3, <2>1, <2>2
  <2>4. QED
    BY <1>5, <2>1, <2>3 DEF n
<1>6. CASE k = "rechallenge"
  <2> DEFINE c == [e.chap EXCEPT !.rech = @ + i]
  <2>1. c \in CHAP /\ c.server = e.chap.server /\ c.said = e.chap.said /\ c.chal = e.chap.chal
    <3>1. e.chap.rech + i \in Nat
      BY <1>6 DEF Pending
    <3>2. QED
      BY <1>0, <3>1 DEF CHAP
  <2>2. n = [e EXCEPT !.chap = c]
    BY <1>6 DEF Enqueue
  <2> HIDE DEF c, n
  <2>3. Requeued(e, n) /\ n.echo_timers = e.echo_timers /\ n.chap = c
    BY <1>3, <2>1, <2>2
  <2>4. QED
    BY <1>6, <2>1, <2>3 DEF n
<1>7. CASE k = "echo"
  <2>1. e.echo_timers + i \in Nat
    BY <1>7 DEF Pending
  <2>2. n = [e EXCEPT !.echo_timers = @ + i]
    BY <1>7 DEF Enqueue
  <2> HIDE DEF n
  <2>3. Requeued(e, n) /\ n.echo_timers = e.echo_timers + i /\ n.chap = e.chap
    BY <2>1, <2>2 DEF Unit, Requeued
  <2>4. QED
    BY <1>7, <2>3 DEF n
<1>8. QED
  BY <1>1, <1>2, <1>4, <1>5, <1>6, <1>7 DEF Callouts

(* The counts are natural numbers. *)
LEMMA PendingType ==
  ASSUME NEW e \in Unit, NEW k \in Callouts
  PROVE  Pending(e, k) \in Nat
<1>1. e.lcp \in FSM /\ e.ipcp \in FSM /\ e.chap \in CHAP /\ e.echo_timers \in Nat
  BY DEF Unit
<1>2. /\ e.lcp.timers \in Nat /\ e.ipcp.timers \in Nat /\ e.chap.chal \in Nat
      /\ e.chap.resp \in Nat /\ e.chap.rech \in Nat
  BY <1>1 DEF FSM, CHAP
<1>3. QED
  BY <1>1, <1>2 DEF Pending, Callouts

(* Two callouts expire in the same second: the second, k, is off the list while the
   function of the first, j, runs, and is called whatever that function has cancelled. *)
LEMMA BatchWhole ==
  ASSUME NEW e, Whole(e), e.alive, NEW j \in Callouts, NEW k \in Callouts, Pending(e, k) > 0,
         Pending(Enqueue(e, k, -1), j) > 0, NEW n \in Expired(Enqueue(e, k, -1), j),
         NEW r \in Rest(n, k)
  PROVE  Whole(r)
<1> DEFINE off == Enqueue(e, k, -1)
           on == Enqueue(n, k, 1)
<1>0. /\ Sound(e) /\ Attended(e) /\ EchoTracked(e) /\ ChalTracked(e) /\ e \in Unit
      /\ e.echo_running \in BOOLEAN /\ e.echo_timers \in Nat /\ e.chap \in CHAP /\ e.chap.chal \in Nat
  BY DEF Whole, Sound, Unit, CHAP
<1>1. /\ Requeued(e, off)
      /\ off.echo_timers = IF k = "echo" THEN e.echo_timers + (-1) ELSE e.echo_timers
      /\ off.chap.chal = IF k = "challenge" THEN e.chap.chal + (-1) ELSE e.chap.chal
  <2>1. Pending(e, k) \in Nat
    BY <1>0, PendingType
  <2>2. Pending(e, k) + (-1) \in Nat /\ -1 \in Int
    BY <2>1
  <2>3. QED
    BY <1>0, <2>2, EnqueueFacts
<1>2. n \in Unit => /\ Requeued(n, on)
                    /\ on.echo_timers = IF k = "echo" THEN n.echo_timers + 1 ELSE n.echo_timers
                    /\ on.chap.chal = IF k = "challenge" THEN n.chap.chal + 1 ELSE n.chap.chal
  <2>1. n \in Unit => Pending(n, k) \in Nat
    BY PendingType
  <2>2. n \in Unit => Pending(n, k) + 1 \in Nat /\ 1 \in Int
    BY <2>1
  <2>3. QED
    BY <2>2, EnqueueFacts
<1>3. r \in IF n.alive THEN Expired(on, k) ELSE {n}
  BY DEF Rest
<1> HIDE DEF off, on
<1>4. Sound(off) /\ Attended(off) /\ off.alive
  BY <1>0, <1>1, RequeuedSound DEF Requeued
<1>5. Pending(off, j) > 0 /\ n \in Expired(off, j)
  BY DEF off
<1>6. Sound(n) /\ Attended(n) /\ n.alive =>
        Requeued(n, on) /\ Sound(on) /\ Attended(on) /\ on.alive
  BY <1>2, RequeuedSound DEF Requeued, Sound
<1>7. CASE k \notin {"echo", "challenge"}
  <2>1. EchoTracked(off) /\ ChalTracked(off)
    BY <1>0, <1>1, <1>7 DEF EchoTracked, ChalTracked, Requeued
  <2>2. Whole(n)
    BY <1>4, <1>5, <2>1, ExpiredWhole DEF Whole
  <2>3. CASE n.alive
    <3>1. Requeued(n, on) /\ Sound(on) /\ Attended(on) /\ on.alive
      BY <1>6, <2>2, <2>3 DEF Whole
    <3>2. EchoTracked(on) /\ ChalTracked(on)
      BY <1>2, <1>7, <2>2, <3>1 DEF EchoTracked, ChalTracked, Requeued, Whole, Sound
    <3>3. Safe(on, r)
      BY <1>3, <1>7, <2>3, <3>1, ExpiredSafe
    <3>4. QED
      BY <3>2, <3>3, SafeWhole
  <2>4. CASE ~ n.alive
    BY <1>3, <2>2, <2>4
  <2>5. QED
    BY <2>3, <2>4
<1>8. CASE k = "echo"
  <2>1. EchoOff(off) /\ ChalTracked(off)
    <3>1. e.echo_timers = 1
      BY <1>0, <1>8 DEF Pending, EchoTracked
    <3>2. off.echo_timers = 0
      BY <1>1, <1>8, <3>1
    <3>3. off.chap.chal = e.chap.chal
      BY <1>1, <1>8
    <3>4. QED
      BY <1>0, <1>1, <3>2, <3>3 DEF EchoOff, ChalTracked, Requeued
  <2>2. j # "echo"
    BY <1>5, <2>1 DEF Pending, EchoOff
  <2>3. Sound(n) /\ Attended(n) /\ EchoOff(n) /\ ChalTracked(n) /\ Ends(off, n)
    <3>1. CASE j = "challenge"
      <4>1. off.chap.chal = 1
        BY <1>5, <2>1, <3>1 DEF Pending, ChalTracked
      <4>2. ChalDone(off, n)
        BY <1>4, <1>5, <3>1, <4>1, ExpiredChal
      <4>3. QED
        BY <2>1, <4>2 DEF ChalDone, KeptEcho
    <3>2. CASE j # "challenge"
      <4>1. Safe(off, n)
        BY <1>4, <1>5, <2>2, <3>2, ExpiredSafe
      <4>2. QED
        BY <2>1, <4>1 DEF Safe, Kept, KeptEcho, KeptChal
    <3>3. QED
      BY <3>1, <3>2
  <2>4. CASE n.alive
    <3>1. Requeued(n, on) /\ Sound(on) /\ Attended(on) /\ on.alive
      BY <1>6, <2>3, <2>4
    <3>2. on.echo_timers = n.echo_timers + 1 /\ on.chap.chal = n.chap.chal
      BY <1>2, <1>8, <2>3 DEF Sound
    <3>3. on.echo_timers = 1 /\ ChalTracked(on)
      BY <2>3, <3>1, <3>2 DEF EchoOff, ChalTracked, Requeued
    <3>4. EchoDone(on, r)
      BY <1>3, <1>8, <2>4, <3>1, <3>3, ExpiredEcho
    <3>5. QED
      BY <3>3, <3>4 DEF EchoDone, KeptChal, Whole
  <2>5. CASE ~ n.alive
    <3>1. r = NoUnit
      BY <1>3, <1>4, <2>3, <2>5 DEF Ends
    <3>2. QED
      BY <3>1, NoUnitFacts DEF Whole
  <2>6. QED
    BY <2>4, <2>5
<1>9. CASE k = "challenge"
  <2>1. ChalOff(off) /\ EchoTracked(off)
    <3>1. e.chap.chal = 1 /\ e.chap.server \in Challenging
      BY <1>0, <1>9 DEF Pending, ChalTracked
    <3>2. off.chap.chal = 0
      BY <1>1, <1>9, <3>1
    <3>3. off.echo_timers = e.echo_timers /\ e.chap.server # "OPEN"
      BY <1>1, <1>9, <3>1 DEF Challenging
    <3>4. QED
      BY <1>0, <1>1, <3>2, <3>3 DEF ChalOff, EchoTracked, Requeued
  <2>2. j # "challenge"
    BY <1>5, <2>1 DEF Pending, ChalOff
  <2>3. Sound(n) /\ Attended(n) /\ ChalOff(n) /\ EchoTracked(n) /\ Ends(off, n)
    <3>1. CASE j = "echo"
      <4>1. off.echo_timers = 1
        BY <1>0, <1>1, <1>5, <2>1, <3>1 DEF Pending, EchoTracked, Requeued
      <4>2. EchoDone(off, n)
        BY <1>4, <1>5, <3>1, <4>1, ExpiredEcho
      <4>3. QED
        BY <2>1, <4>2 DEF EchoDone, KeptChal
    <3>2. CASE j # "echo"
      <4>1. Safe(off, n)
        BY <1>4, <1>5, <2>2, <3>2, ExpiredSafe
      <4>2. QED
        BY <2>1, <4>1 DEF Safe, Kept, KeptEcho, KeptChal
    <3>3. QED
      BY <3>1, <3>2
  <2>4. CASE n.alive
    <3>1. Requeued(n, on) /\ Sound(on) /\ Attended(on) /\ on.alive
      BY <1>6, <2>3, <2>4
    <3>2. on.chap.chal = n.chap.chal + 1 /\ on.echo_timers = n.echo_timers
      BY <1>2, <1>9, <2>3 DEF Sound
    <3>3. on.chap.chal = 1 /\ EchoTracked(on)
      BY <2>3, <3>1, <3>2 DEF ChalOff, EchoTracked, Requeued
    <3>4. ChalDone(on, r)
      BY <1>3, <1>9, <2>4, <3>1, <3>3, ExpiredChal
    <3>5. QED
      BY <3>3, <3>4 DEF ChalDone, KeptEcho, Whole
  <2>5. CASE ~ n.alive
    <3>1. r = NoUnit
      BY <1>3, <1>4, <2>3, <2>5 DEF Ends
    <3>2. QED
      BY <3>1, NoUnitFacts DEF Whole
  <2>6. QED
    BY <2>4, <2>5
<1>10. QED
  BY <1>7, <1>8, <1>9

----------------------------------------------------------------------------
(* The actions.                                                            *)

(* ppp_task starts with LCP opened on a lower layer that is up. *)
LEMMA StartWhole ==
  ASSUME Start
  PROVE  Whole(d')
<1>1. PICK fl \in LcpFlagSets :
        d' = [NoUnit EXCEPT !.alive = TRUE,
                            !.lcp = Begin(fsm_open(fsm_lowerup(fsm_init(fl, 0)))),
                            !.phase = "ESTABLISH"]
  BY DEF Start, Becomes
<1> DEFINE i == fsm_init(fl, 0)
           u == fsm_lowerup(i)
           g == fsm_open(u)
           b == Begin(g)
<1>2. fl \in SUBSET Flags /\ (Stays(fl) => "RESTART" \in fl)
  BY DaemonAssumption DEF Stays
<1>3. i \in FSM /\ i.state = "INITIAL" /\ i.flags = fl /\ i.cb = {}
  BY <1>2, FsmInitFacts
<1>4. u \in FSM /\ u.state = "CLOSED" /\ u.flags = fl /\ u.cb = {}
  <2>1. u = [i EXCEPT !.state = "CLOSED"]
    BY <1>3 DEF fsm_lowerup, Goto
  <2> HIDE DEF i, u
  <2>2. QED
    BY <1>3, <2>1 DEF FSM, States
<1> HIDE DEF i, u
<1>5. FsmStep(u, g) /\ "up" \notin g.cb /\ g.state \notin Deaf
  BY <1>4, OpenFacts DEF Deaf
<1>6. b \in FSM /\ b.cb = {} /\ b.state \notin Deaf \cup {"OPENED"} /\ b.flags = fl
  BY <1>4, <1>5, BeginRes DEF FsmStep
<1>7. d' = [NoUnit EXCEPT !.alive = TRUE, !.lcp = b, !.phase = "ESTABLISH"]
  BY <1>1 DEF i, u
<1> HIDE DEF b
<1>8. NoUnit \in Unit /\ Settled(NoUnit)
  BY NoUnitFacts DEF Sound
<1>9. /\ d' \in Unit /\ d'.lcp = b /\ d'.alive = TRUE /\ d'.phase = "ESTABLISH"
      /\ d'.ipcp = NoUnit.ipcp /\ d'.chap = NoUnit.chap /\ d'.ifup = NoUnit.ifup
      /\ d'.echo_running = NoUnit.echo_running /\ d'.echo_timers = NoUnit.echo_timers
  BY <1>6, <1>7, <1>8 DEF Unit, Phases
<1>10. ~ NoUnit.ifup /\ ~ NoUnit.echo_running /\ NoUnit.chap.server = "INITIAL"
  BY DEF NoUnit, ChapInit
<1>11. Sound(d')
  BY <1>2, <1>6, <1>8, <1>9, <1>10 DEF Sound, Settled, Restarts, IfNeedsLink, NetworkAuth, NotDead,
                                   EchoesOnLink, ServerIdle
<1>12. Attended(d')
  BY <1>6, <1>9 DEF Attended
<1>13. EchoTracked(d') /\ ChalTracked(d')
  BY <1>9, NoUnitFacts DEF EchoTracked, ChalTracked
<1>14. QED
  BY <1>11, <1>12, <1>13 DEF Whole

(* What is known of the unit between two handlers. *)
LEMMA InvFacts ==
  ASSUME Inv
  PROVE  /\ Whole(d) /\ Sound(d) /\ Attended(d) /\ EchoTracked(d) /\ ChalTracked(d) /\ d \in Unit
         /\ d.lcp \in FSM /\ d.lcp.cb = {} /\ d.ipcp \in FSM /\ d.ipcp.cb = {}
         /\ d.chap \in CHAP /\ d.chap.said = {}
  BY DEF Inv, Whole, Sound, Unit, Settled

(* Packets of LCP, and what they make it call. *)
LEMMA LcpPacketWhole ==
  ASSUME Inv, ReceiveLcp \/ ReceiveEchoReply \/ ReceiveProtRej \/ ReceiveUnknownProtocol
  PROVE  Whole(d')
<1>0. /\ Whole(d) /\ Sound(d) /\ Attended(d) /\ d \in Unit /\ d.lcp \in FSM /\ d.lcp.cb = {}
      /\ EchoTracked(d) /\ ChalTracked(d)
  BY InvFacts
<1>1. CASE ReceiveLcp
  <2>1. PICK code \in InCodes, id \in Ids : \E verdict \in Verdicts(code) :
          Becomes(LcpStep(d, fsm_input(d.lcp, [code |-> code, id |-> id], verdict)))
    BY <1>1 DEF ReceiveLcp
  <2>2. PICK verdict \in Verdicts(code) :
          Becomes(LcpStep(d, fsm_input(d.lcp, [code |-> code, id |-> id], verdict)))
    BY <2>1
  <2> DEFINE g == fsm_input(d.lcp, [code |-> code, id |-> id], verdict)
  <2>3. FsmMove(d.lcp, g)
    BY <1>0, InputFacts
  <2>4. d' \in LcpStep(d, g) /\ d.alive
    BY <1>1, <2>2 DEF Becomes, ReceiveLcp
  <2> HIDE DEF g
  <2>5. QED
    BY <1>0, <2>3, <2>4, LcpStepWhole
<1>2. CASE ReceiveProtRej
  <2> DEFINE g == fsm_protreject(d.lcp)
  <2>1. FsmMove(d.lcp, g)
    BY <1>0, ProtrejectFacts
  <2>2. d' \in LcpStep(d, g) /\ d.alive
    BY <1>2 DEF Becomes, ReceiveProtRej
  <2> HIDE DEF g
  <2>3. QED
    BY <1>0, <2>1, <2>2, LcpStepWhole
<1>3. CASE ReceiveEchoReply
  <2>1. d' = [d EXCEPT !.echos = 0]
    BY <1>3 DEF ReceiveEchoReply, Becomes, lcp_received_echo_reply
  <2>2. 0 \in 0 .. EchoFails
    BY DaemonAssumption
  <2>3. EchoPut(d, d') /\ d'.echo_running = d.echo_running /\ d'.echo_timers = d.echo_timers
    BY <1>0, <2>1, <2>2 DEF Unit, EchoPut
  <2>4. d'.echo_running => d.lcp.state \in Deaf \cup {"OPENED"}
    BY <1>0, <2>3 DEF Sound, EchoesOnLink
  <2>5. Sound(d') /\ KeptChal(d, d') /\ Attended(d')
    BY <1>0, <2>3, <2>4, EchoPutSound
  <2>6. EchoTracked(d')
    BY <1>0, <2>3 DEF EchoTracked
  <2>7. QED
    BY <1>0, <2>5, <2>6 DEF KeptChal, Whole
<1>4. CASE ReceiveUnknownProtocol
  <2> DEFINE f == IncrId(d.lcp)
  <2>1. d' = [d EXCEPT !.lcp = f]
    BY <1>4 DEF ReceiveUnknownProtocol, Becomes, lcp_sprotrej
  <2>2. f \in FSM /\ f.state = d.lcp.state /\ f.flags = d.lcp.flags /\ f.cb = d.lcp.cb
    <3>1. Res(d.lcp, d.lcp.flags, d.lcp.state, {})
      BY <1>0, ResStart
    <3>2. Res(f, d.lcp.flags, d.lcp.state, {})
      BY <3>1, ResId
    <3>3. f.cb = d.lcp.cb
      BY <1>0 DEF IncrId, FSM
    <3>4. QED
      BY <3>2, <3>3 DEF Res
  <2> HIDE DEF f
  <2>3. Requeued(d, d') /\ d'.chap = d.chap /\ d'.echo_timers = d.echo_timers
    BY <1>0, <2>1, <2>2 DEF Unit, Requeued
  <2>4. Sound(d') /\ Attended(d')
    BY <1>0, <2>3, RequeuedSound
  <2>5. EchoTracked(d') /\ ChalTracked(d')
    BY <1>0, <2>3 DEF EchoTracked, ChalTracked, Requeued
  <2>6. QED
    BY <2>4, <2>5 DEF Whole
<1>5. QED
  BY <1>1, <1>2, <1>3, <1>4

(* Packets of IPCP, and its Protocol-Reject. *)
LEMMA IpcpPacketWhole ==
  ASSUME Inv, ReceiveIpcp \/ ReceiveIpcpReject \/ ReceiveIpcpProtRej
  PROVE  Whole(d')
<1>0. /\ Sound(d) /\ Attended(d) /\ d.ipcp \in FSM /\ d.ipcp.cb = {}
      /\ EchoTracked(d) /\ ChalTracked(d) /\ d.alive
  BY InvFacts DEF ReceiveIpcp, ReceiveIpcpReject, ReceiveIpcpProtRej
<1>1. CASE ReceiveIpcp
  <2>1. PICK code \in InCodes, id \in Ids : \E verdict \in Verdicts(code) :
          Becomes(IpcpStep(d, fsm_input(d.ipcp, [code |-> code, id |-> id], verdict)))
    BY <1>1 DEF ReceiveIpcp
  <2>2. PICK verdict \in Verdicts(code) :
          Becomes(IpcpStep(d, fsm_input(d.ipcp, [code |-> code, id |-> id], verdict)))
    BY <2>1
  <2> DEFINE g == fsm_input(d.ipcp, [code |-> code, id |-> id], verdict)
  <2>3. FsmStep(d.ipcp, g)
    BY <1>0, InputFacts DEF FsmMove
  <2>4. d' \in IpcpStep(d, g) /\ d.lcp.state = "OPENED"
    BY <1>1, <2>2 DEF Becomes, ReceiveIpcp
  <2> HIDE DEF g
  <2>5. Safe(d, d')
    BY <1>0, <2>3, <2>4, IpcpStepSafe
  <2>6. QED
    BY <1>0, <2>5, SafeWhole
<1>2. CASE ReceiveIpcpReject
  <2>1. PICK good \in BOOLEAN : d' = RejectAddress(d, good)
    BY <1>2 DEF ReceiveIpcpReject, Becomes
  <2>2. Safe(d, d')
    BY <1>0, <2>1, RejectAddressSafe
  <2>3. QED
    BY <1>0, <2>2, SafeWhole
<1>3. CASE ReceiveIpcpProtRej
  <2> DEFINE g == fsm_lowerdown(d.ipcp)
  <2>1. d' = IpcpNow(d, g)
    BY <1>3 DEF ReceiveIpcpProtRej, Becomes, ipcp_protrej
  <2>2. FsmStep(d.ipcp, g)
    BY <1>0, LowerDownFacts
  <2> HIDE DEF g
  <2>3. Steady(d, d') /\ Attended(d')
    BY <1>0, <2>1, <2>2, IpcpNowSound
  <2>4. QED
    BY <1>0, <2>3, SteadySafe, SafeWhole
<1>4. QED
  BY <1>1, <1>2, <1>3

(* Packets of CHAP, its Protocol-Reject, and the end of an exchange of PAP. *)
LEMMA AuthPacketWhole ==
  ASSUME Inv, ReceiveChap \/ ReceiveChapProtRej \/ FinishUpap
  PROVE  Whole(d')
<1>0. /\ Sound(d) /\ Attended(d) /\ d \in Unit /\ d.chap \in CHAP /\ d.chap.said = {}
      /\ EchoTracked(d) /\ ChalTracked(d)
  BY InvFacts
<1>1. d.lcp.state = "OPENED" /\ d.alive
  BY DEF ReceiveChap, ReceiveChapProtRej, FinishUpap
<1>2. ASSUME NEW c \in CHAP, Counted(d.chap) => Counted(c), d' \in ChapStep(d, c)
      PROVE  Whole(d')
  <2>1. Reported(d, c)
    BY <1>1, <1>2 DEF Reported
  <2>2. Counted(c)
    BY <1>0, <1>2, ChapOf
  <2>3. Sound(d') /\ Attended(d') /\ KeptEcho(d, d') /\ ChalTracked(d')
    BY <1>0, <1>1, <1>2, <2>1, <2>2, ChapStepFacts
  <2>4. QED
    BY <1>0, <2>3 DEF KeptEcho, Whole
<1>3. CASE ReceiveChap
  <2>1. CASE \E matches, good \in BOOLEAN : d' \in ChapStep(d, ChapReceiveResponse(d.chap, matches, good))
    <3>1. PICK matches \in BOOLEAN, good \in BOOLEAN :
             d' \in ChapStep(d, ChapReceiveResponse(d.chap, matches, good))
      BY <2>1
    <3>2. QED
      BY <1>0, <1>2, <3>1, ReceiveResponseFacts
  <2>2. ASSUME NEW c, ForClient(d.chap, c), d' \in ChapStep(d, c)
        PROVE  Whole(d')
    BY <1>2, <2>2 DEF ForClient, Counted
  <2>3. /\ ForClient(d.chap, ChapReceiveChallenge(d.chap))
        /\ ForClient(d.chap, ChapReceiveSuccess(d.chap))
        /\ ForClient(d.chap, ChapReceiveFailure(d.chap))
    BY <1>0, ClientFacts
  <2>4. \/ \E matches, good \in BOOLEAN : d' \in ChapStep(d, ChapReceiveResponse(d.chap, matches, good))
        \/ d' \in ChapStep(d, ChapReceiveChallenge(d.chap))
        \/ d' \in ChapStep(d, ChapReceiveSuccess(d.chap))
        \/ d' \in ChapStep(d, ChapReceiveFailure(d.chap))
    BY <1>3 DEF ReceiveChap, Becomes
  <2>5. QED
    BY <2>1, <2>2, <2>3, <2>4
<1>4. CASE ReceiveChapProtRej
  <2>1. d' \in ChapStep(d, ChapProtocolReject(d.chap))
    BY <1>4 DEF ReceiveChapProtRej, Becomes
  <2>2. QED
    BY <1>0, <1>2, <2>1, ChapRejectFacts
<1>5. CASE FinishUpap
  <2>1. PICK side \in d.upap :
          d' \in {AuthDone([d EXCEPT !.upap = @ \ {side}], AuthBit("UPAP", "peer")),
                  AuthDone([d EXCEPT !.upap = @ \ {side}], AuthBit("UPAP", "withpeer")),
                  die([d EXCEPT !.upap = @ \ {side}]), [d EXCEPT !.upap = @ \ {side}]}
    BY <1>5 DEF FinishUpap, Becomes, auth_peer_success, auth_peer_fail, auth_withpeer_success
  <2> DEFINE e == [d EXCEPT !.upap = @ \ {side}]
  <2>2. Requeued(d, e) /\ e.lcp = d.lcp /\ e.chap = d.chap /\ e.echo_timers = d.echo_timers
    BY <1>0 DEF Unit, Requeued
  <2>3. d' \in {AuthDone(e, AuthBit("UPAP", "peer")), AuthDone(e, AuthBit("UPAP", "withpeer")),
                die(e), e}
    BY <2>1
  <2> HIDE DEF e
  <2>4. Sound(e) /\ Attended(e) /\ Excused(e)
    BY <1>0, <1>1, <2>2, RequeuedSound DEF Excused, Requeued
  <2>5. EchoTracked(e) /\ ChalTracked(e)
    BY <1>0, <2>2 DEF EchoTracked, ChalTracked, Requeued
  <2>6. CASE d' = e
    BY <2>4, <2>5, <2>6 DEF Whole
  <2>7. CASE d' = die(e)
    BY <2>4, <2>5, <2>7, DieSound, SafeWhole DEF Excused
  <2>8. CASE d' \notin {die(e), e}
    <3>1. Safe(e, d')
      BY <2>3, <2>4, <2>8, AuthDoneSafe
    <3>2. QED
      BY <2>5, <3>1, SafeWhole
  <2>9. QED
    BY <2>6, <2>7, <2>8
<1>6. QED
  BY <1>3, <1>4, <1>5

(* The callouts. *)
LEMMA TimersWhole ==
  ASSUME Inv, Timers
  PROVE  Whole(d')
<1>0. Whole(d)
  BY InvFacts
<1>1. ASSUME NEW k \in Callouts, Timeout1(k)
      PROVE  Whole(d')
  <2>1. d.alive /\ Pending(d, k) > 0 /\ d' \in Expired(d, k)
    BY <1>1 DEF Timeout1, Becomes
  <2>2. QED
    BY <1>0, <2>1, ExpiredWhole
<1>2. CASE BatchTimeout
  <2>1. PICK j \in Callouts, k \in Callouts :
          /\ Pending(d, k) > 0 /\ Pending(Enqueue(d, k, -1), j) > 0
          /\ Becomes(UNION {Rest(n, k) : n \in Expired(Enqueue(d, k, -1), j)})
    BY <1>2 DEF BatchTimeout
  <2>2. PICK n \in Expired(Enqueue(d, k, -1), j) : d' \in Rest(n, k)
    BY <2>1 DEF Becomes
  <2>3. d.alive
    BY <1>2 DEF BatchTimeout
  <2>4. QED
    BY <1>0, <2>1, <2>2, <2>3, BatchWhole
<1>3. QED
  BY <1>1, <1>2 DEF Timers, LcpTimeout, IpcpTimeout, ChallengeTimeout, ResponseTimeout,
                    RechallengeTimeout, EchoTimeout, Callouts

(* Signals, and the end of ppp_task's loop. *)
LEMMA SignalsWhole ==
  ASSUME Inv, Interrupt \/ Terminate \/ Leave
  PROVE  Whole(d')
<1>0. /\ Sound(d) /\ d \in Unit /\ EchoTracked(d) /\ ChalTracked(d) /\ d.lcp \in FSM /\ d.alive
  BY InvFacts DEF Interrupt, Terminate, Leave
<1>1. CASE Interrupt \/ Leave
  <2>1. d' = die(d)
    BY <1>1 DEF Interrupt, Leave, Becomes
  <2>2. QED
    BY <1>0, <2>1, DieSound, SafeWhole
<1>2. CASE Terminate
  <2> DEFINE f == [d.lcp EXCEPT !.flags = {}]
             e == [d EXCEPT !.lcp = f]
  <2>1. d' = die(e)
    BY <1>2 DEF Terminate, Becomes
  <2>2. f \in FSM /\ f.state = d.lcp.state /\ f.flags = {} /\ f.cb = d.lcp.cb
    BY <1>0 DEF FSM
  <2> HIDE DEF f
  <2>3. /\ e \in Unit /\ e.lcp = f /\ SameRest(d, e) /\ e.phase = d.phase
        /\ e.auth_pending = d.auth_pending /\ e.alive = d.alive
    BY <1>0, <2>2 DEF Unit, SameRest
  <2> HIDE DEF e
  <2>4. ~ Stays({})
    BY DEF Stays
  <2>5. Sound(e)
    BY <1>0, <2>2, <2>3, <2>4 DEF Sound, Settled, Restarts, IfNeedsLink, NetworkAuth, NotDead,
                                  EchoesOnLink, ServerIdle, SameRest
  <2>6. EchoTracked(e) /\ ChalTracked(e)
    BY <1>0, <2>3 DEF EchoTracked, ChalTracked, SameRest
  <2>7. QED
    BY <1>0, <2>1, <2>3, <2>5, <2>6, DieSound, SafeWhole
<1>3. QED
  BY <1>1, <1>2

----------------------------------------------------------------------------
(* The theorems.                                                           *)

(* Every state of the unit is sound, attended and has its callouts counted. *)
THEOREM Invariant == Spec => []Inv
<1>1. Init => Inv
  BY NoUnitFacts DEF Init, Inv, Whole
<1>2. Inv /\ [Next]_d => Inv'
  <2> SUFFICES ASSUME Inv, [Next]_d PROVE Whole(d')
    BY DEF Inv
  <2>1. CASE UNCHANGED d
    BY <2>1 DEF Inv
  <2>2. CASE Start
    BY <2>2, StartWhole
  <2>3. CASE Receive
    BY <2>3, LcpPacketWhole, IpcpPacketWhole, AuthPacketWhole DEF Receive
  <2>4. CASE Timers
    BY <2>4, TimersWhole
  <2>5. CASE Interrupt \/ Terminate \/ Leave
    BY <2>5, SignalsWhole
  <2>6. QED
    BY <2>1, <2>2, <2>3, <2>4, <2>5 DEF Next
<1>3. QED
  BY <1>1, <1>2, PTL DEF Spec

(* Every field of ppp_if[unit] keeps its range. *)
THEOREM TypeCorrect == Spec => []TypeOK
<1>1. Inv => TypeOK
  BY DEF Inv, Whole, Sound, Unit, TypeOK
<1>2. QED
  BY <1>1, Invariant, PTL

(* The interface is up only while LCP and IPCP are OPENED. *)
THEOREM InterfaceFollowsLink == Spec => []InterfaceNeedsLink
<1>1. Inv => InterfaceNeedsLink
  BY DEF Inv, Whole, Sound, IfNeedsLink, InterfaceNeedsLink
<1>2. QED
  BY <1>1, Invariant, PTL

(* No authentication is pending in the network phase. *)
THEOREM NetworkAfterAuth == Spec => []NetworkIsAuthenticated
<1>1. Inv => NetworkIsAuthenticated
  BY DEF Inv, Whole, Sound, NetworkAuth, NetworkIsAuthenticated
<1>2. QED
  BY <1>1, Invariant, PTL

(* One echo callout just while lcp_echo_timer_running is set. *)
THEOREM OneEchoCallout == Spec => []EchoTimerTracked
<1>1. Inv => EchoTimerTracked
  BY DEF Inv, Whole, EchoTracked, EchoTimerTracked
<1>2. QED
  BY <1>1, Invariant, PTL

(* One challenge callout just while the CHAP server waits for a response. *)
THEOREM OneChallengeCallout == Spec => []ChallengeTracked
<1>1. Inv => ChallengeTracked
  BY DEF Inv, Whole, ChalTracked, ChallengeTracked
<1>2. QED
  BY <1>1, Invariant, PTL

(* A daemon that is neither passive nor silent always listens. *)
THEOREM ActiveListens == Spec => []ActiveListening
<1>1. Inv => ActiveListening
  BY DEF Inv, Whole, Attended, ActiveListening
<1>2. QED
  BY <1>1, Invariant, PTL

(* And its later phases are phases of an established link. *)
THEOREM ActivePhases == Spec => []PhaseNeedsLink
<1>1. Inv => PhaseNeedsLink
  BY DEF Inv, Whole, Attended, PhaseNeedsLink
<1>2. QED
  BY <1>1, Invariant, PTL

=============================================================================
