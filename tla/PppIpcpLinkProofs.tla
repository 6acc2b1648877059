------------------------- MODULE PppIpcpLinkProofs -------------------------
(***************************************************************************)
(* Theorems about PppIpcpLink, for every pair of configurations, every     *)
(* retry limit and width of an id, and any number of lost packets and      *)
(* renegotiations of LCP: the types of its state, and that two ends that   *)
(* are up agree.                                                           *)
(***************************************************************************)
EXTENDS PppIpcpLink, SequenceTheorems, TLAPS

----------------------------------------------------------------------------
(* What the operations of fsm.c do, with the packets they send.            *)

\* g is an fsm in state s that has made the callbacks C, of those that matter
\* here, and sent packets with the codes w.
Ran(g, s, C, w) ==
    /\ g \in FSM /\ g.state = s
    /\ \A c \in {"up", "down", "resetci"} : c \in g.cb <=> c \in C
    /\ Len(g.out) = Len(w) /\ \A i \in 1 .. Len(w) : g.out[i].code = w[i]

\* Between two operations: all callbacks made, all packets sent.
Fresh(g) == g \in FSM /\ g.cb = {} /\ g.out = << >>

\* An operation starts with nothing called and nothing sent.
LEMMA RanStart ==
  ASSUME NEW g, Fresh(g)
  PROVE  Ran(g, g.state, {}, << >>) /\ g.state \in States
  BY DEF Fresh, Ran, FSM

\* An assignment to f->state, and a callback.
LEMMA RanGoto ==
  ASSUME NEW g, NEW s, NEW C, NEW w, Ran(g, s, C, w), NEW t \in States
  PROVE  Ran(Goto(g, t), t, C, w)
  BY DEF Ran, Goto, FSM

\* A callback that matters here is remembered.
LEMMA RanCall ==
  ASSUME NEW g, NEW s, NEW C, NEW w, Ran(g, s, C, w), NEW c \in Callbacks
  PROVE  Ran(Call(g, c), s, C \cup {c}, w)
  BY DEF Ran, Call, FSM

\* A callback that does not matter here.
LEMMA RanCallOther ==
  ASSUME NEW g, NEW s, NEW C, NEW w, Ran(g, s, C, w),
         NEW c \in {"starting", "finished", "retransmit"}
  PROVE  Ran(Call(g, c), s, C, w)
  BY DEF Ran, Call, FSM, Callbacks

\* Counters, ids and callouts.
LEMMA RanSet ==
  ASSUME NEW g, NEW s, NEW C, NEW w, Ran(g, s, C, w)
  PROVE  /\ \A n \in Int : Ran(SetRetransmits(g, n), s, C, w)
         /\ \A n \in 0 .. MaxNak : Ran(SetNakloops(g, n), s, C, w)
         /\ \A i \in Ids : Ran(SetReqid(g, i), s, C, w)
  BY DEF Ran, SetRetransmits, SetNakloops, SetReqid, FSM

\* PPP_TIMEOUT and PPP_UNTIMEOUT touch neither state nor packets.
LEMMA RanTimer ==
  ASSUME NEW g, NEW s, NEW C, NEW w, Ran(g, s, C, w)
  PROVE  Ran(Timeout(g), s, C, w) /\ Ran(Untimeout(g), s, C, w)
<1>1. /\ g.timers + 1 \in Nat
      /\ (IF g.timers > 0 THEN g.timers - 1 ELSE 0) \in Nat
  BY DEF Ran, FSM
<1>2. QED
  BY <1>1 DEF Ran, Timeout, Untimeout, FSM

\* Nor do new ids.
LEMMA RanId ==
  ASSUME NEW g, NEW s, NEW C, NEW w, Ran(g, s, C, w)
  PROVE  Ran(NewReqid(g), s, C, w)
<1>1. g.id \in Ids
  BY DEF Ran, FSM
<1>2. NextId(g.id) \in Ids
  BY <1>1, FsmAssumption DEF NextId, Ids
<1>3. Ran(IncrId(g), s, C, w) /\ IncrId(g).id \in Ids
  BY <1>2 DEF Ran, IncrId, FSM
<1>4. QED
  BY <1>3, RanSet DEF NewReqid

\* A packet is sent.
LEMMA RanSdata ==
  ASSUME NEW g, NEW s, NEW C, NEW w \in Seq(Codes), Ran(g, s, C, w),
         NEW c \in Codes, NEW i \in Ids
  PROVE  Ran(fsm_sdata(g, c, i), s, C, Append(w, c)) /\ Append(w, c) \in Seq(Codes)
<1> DEFINE p == [code |-> c, id |-> i]
           out == Append(g.out, p)
<1>1. p \in Packet /\ p.code = c
  BY DEF Packet
<1>2. fsm_sdata(g, c, i) = [g EXCEPT !.out = Append(@, p)]
  BY DEF fsm_sdata
<1> HIDE DEF p
<1>3. g.out \in Seq(Packet) /\ Len(g.out) = Len(w) /\ \A j \in 1 .. Len(w) : g.out[j].code = w[j]
  BY DEF Ran, FSM
<1>4. /\ out \in Seq(Packet) /\ Append(w, c) \in Seq(Codes)
      /\ Len(out) = Len(w) + 1 /\ Len(Append(w, c)) = Len(w) + 1 /\ Len(w) \in Nat
  BY <1>1, <1>3
<1>5. ASSUME NEW j \in 1 .. Len(w) + 1 PROVE out[j].code = Append(w, c)[j]
  <2>1. CASE j = Len(w) + 1
    BY <1>1, <1>3, <2>1
  <2>2. CASE j # Len(w) + 1
    <3>1. j \in 1 .. Len(w)
      BY <1>4, <2>2
    <3>2. out[j] = g.out[j] /\ Append(w, c)[j] = w[j]
      BY <1>1, <1>3, <3>1
    <3>3. QED
      BY <1>3, <3>1, <3>2
  <2>3. QED
    BY <2>1, <2>2
<1>6. fsm_sdata(g, c, i) = [g EXCEPT !.out = out]
  BY <1>2 DEF Ran, FSM
<1> HIDE DEF out
<1>7. QED
  BY <1>4, <1>5, <1>6 DEF Ran, FSM

\* A request is sent, fresh or again.
LEMMA RanRequest ==
  ASSUME NEW g, NEW s, NEW C, NEW w \in Seq(Codes), Ran(g, s, C, w), NEW c \in Codes
  PROVE  Ran(SendRequest(g, c), s, C, Append(w, c)) /\ Append(w, c) \in Seq(Codes)
<1>1. g.reqid \in Ids /\ g.retransmits - 1 \in Int
  BY DEF Ran, FSM
<1>2. Ran(fsm_sdata(g, c, g.reqid), s, C, Append(w, c)) /\ Append(w, c) \in Seq(Codes)
  BY <1>1, RanSdata
<1>3. Ran(SetRetransmits(fsm_sdata(g, c, g.reqid), g.retransmits - 1), s, C, Append(w, c))
  BY <1>1, <1>2, RanSet
<1>4. QED
  BY <1>2, <1>3, RanTimer DEF SendRequest

\* fsm_sconfreq resets the options unless a negotiation is going on.
LEMMA RanSconfreq ==
  ASSUME NEW g, NEW s, NEW C, NEW w \in Seq(Codes), Ran(g, s, C, w), NEW r \in BOOLEAN
  PROVE  /\ Ran(fsm_sconfreq(g, r), s,
                IF s \in Negotiating THEN C ELSE C \cup {"resetci"}, Append(w, "CONFREQ"))
         /\ Append(w, "CONFREQ") \in Seq(Codes)
<1> DEFINE a == ResetOptions(g)
           b == IF r THEN a ELSE NewReqid(SetRetransmits(a, MaxConf))
           D == IF s \in Negotiating THEN C ELSE C \cup {"resetci"}
<1>1. g.state = s
  BY DEF Ran
<1>2. Ran(a, s, D, w)
  <2>1. CASE s \in Negotiating
    BY <1>1, <2>1 DEF ResetOptions
  <2>2. CASE s \notin Negotiating
    <3>1. 0 \in 0 .. MaxNak /\ "resetci" \in Callbacks
      BY FsmAssumption DEF Callbacks
    <3>2. Ran(Call(g, "resetci"), s, C \cup {"resetci"}, w)
      BY <3>1, RanCall
    <3>3. a = SetNakloops(Call(g, "resetci"), 0)
      BY <1>1, <2>2 DEF ResetOptions
    <3>4. QED
      BY <2>2, <3>1, <3>2, <3>3, RanSet
  <2>3. QED
    BY <2>1, <2>2
<1> HIDE DEF a, D
<1>3. Ran(SetRetransmits(a, MaxConf), s, D, w)
  BY <1>2, FsmAssumption, RanSet
<1>4. Ran(b, s, D, w)
  BY <1>2, <1>3, RanId
<1>5. fsm_sconfreq(g, r) = SendRequest(b, "CONFREQ") /\ "CONFREQ" \in Codes
  BY DEF fsm_sconfreq, a, Codes
<1> HIDE DEF b
<1>6. Ran(fsm_sconfreq(g, r), s, D, Append(w, "CONFREQ")) /\ Append(w, "CONFREQ") \in Seq(Codes)
  BY <1>4, <1>5, RanRequest
<1>7. QED
  BY <1>6 DEF D

\* A new negotiation sends a request and waits in REQSENT.
LEMMA RanRenegotiate ==
  ASSUME NEW g, NEW s, NEW C, NEW w \in Seq(Codes), Ran(g, s, C, w)
  PROVE  Ran(Renegotiate(g), "REQSENT",
             IF s \in Negotiating THEN C ELSE C \cup {"resetci"}, Append(w, "CONFREQ"))
  BY RanSconfreq, RanGoto DEF Renegotiate, States

\* A Terminate-Request.
LEMMA RanTerminate ==
  ASSUME NEW g, NEW s, NEW C, NEW w \in Seq(Codes), Ran(g, s, C, w)
  PROVE  /\ Ran(SendTermReq(g), s, C, Append(w, "TERMREQ"))
         /\ Ran(StartTerminate(g), s, C, Append(w, "TERMREQ"))
<1>1. "TERMREQ" \in Codes
  BY DEF Codes
<1>2. ASSUME NEW h, Ran(h, s, C, w) PROVE Ran(SendTermReq(h), s, C, Append(w, "TERMREQ"))
  BY <1>1, <1>2, RanId, RanRequest DEF SendTermReq
<1>3. Ran(SetRetransmits(g, MaxTerm), s, C, w)
  BY FsmAssumption, RanSet
<1>4. QED
  BY <1>2, <1>3 DEF StartTerminate

----------------------------------------------------------------------------
(* The operations, on a fresh fsm.                                         *)

\* fsm_lowerup and fsm_open, from the states they are called in.
LEMMA StartRan ==
  ASSUME NEW g, Fresh(g)
  PROVE  /\ g.state = "INITIAL" => Ran(fsm_lowerup(g), "CLOSED", {}, << >>)
         /\ g.state = "STARTING" =>
              \/ Ran(fsm_lowerup(g), "STOPPED", {}, << >>)
              \/ Ran(fsm_lowerup(g), "REQSENT", {"resetci"}, <<"CONFREQ">>)
         /\ g.state = "CLOSED" =>
              \/ Ran(fsm_open(g), "STOPPED", {}, << >>)
              \/ Ran(fsm_open(g), "REQSENT", {"resetci"}, <<"CONFREQ">>)
<1>1. Ran(g, g.state, {}, << >>)
  BY RanStart
<1>2. Ran(Goto(g, "CLOSED"), "CLOSED", {}, << >>) /\ Ran(Goto(g, "STOPPED"), "STOPPED", {}, << >>)
  BY <1>1, RanGoto DEF States
<1>3. g.state \notin Negotiating => Ran(Renegotiate(g), "REQSENT", {"resetci"}, <<"CONFREQ">>)
  <2>1. << >> \in Seq(Codes) /\ Append(<< >>, "CONFREQ") = <<"CONFREQ">>
    OBVIOUS
  <2>2. {} \cup {"resetci"} = {"resetci"}
    OBVIOUS
  <2>3. ASSUME g.state \notin Negotiating
        PROVE  Ran(Renegotiate(g), "REQSENT", {} \cup {"resetci"}, Append(<< >>, "CONFREQ"))
    BY <1>1, <2>1, <2>3, RanRenegotiate
  <2>4. QED
    BY <2>1, <2>2, <2>3
<1>4. QED
  BY <1>2, <1>3 DEF fsm_lowerup, fsm_open, Negotiating

\* fsm_lowerdown makes the fsm deaf and sends nothing.
LEMMA LowerDownRan ==
  ASSUME NEW g, Fresh(g)
  PROVE  \E s \in Deaf, C \in SUBSET {"down"} :
             /\ Ran(fsm_lowerdown(g), s, C, << >>)
             /\ g.state = "OPENED" => "down" \in C
<1>1. Ran(g, g.state, {}, << >>) /\ g.state \in States
  BY RanStart
<1>2. /\ Ran(Goto(g, "INITIAL"), "INITIAL", {}, << >>)
      /\ Ran(Goto(g, "STARTING"), "STARTING", {}, << >>)
  BY <1>1, RanGoto DEF States
<1>3. /\ Ran(Untimeout(Goto(g, "INITIAL")), "INITIAL", {}, << >>)
      /\ Ran(Untimeout(Goto(g, "STARTING")), "STARTING", {}, << >>)
      /\ Ran(Call(Goto(g, "STARTING"), "starting"), "STARTING", {}, << >>)
  BY <1>2, RanTimer, RanCallOther
<1>4. Ran(Goto(Call(g, "down"), "STARTING"), "STARTING", {"down"}, << >>)
  <2>1. Ran(Call(g, "down"), g.state, {"down"}, << >>)
    <3>1. Ran(Call(g, "down"), g.state, {} \cup {"down"}, << >>)
      BY <1>1, RanCall DEF Callbacks
    <3>2. QED
      BY <3>1
  <2>2. QED
    BY <2>1, RanGoto DEF States
<1>5. CASE g.state = "OPENED"
  <2>1. fsm_lowerdown(g) = Goto(Call(g, "down"), "STARTING")
    BY <1>5 DEF fsm_lowerdown, Negotiating
  <2>2. QED
    BY <1>4, <2>1 DEF Deaf
<1>6. CASE g.state # "OPENED"
  <2>1. \E s \in Deaf : Ran(fsm_lowerdown(g), s, {}, << >>)
    <3>1. CASE g.state = "CLOSED"
      <4>1. fsm_lowerdown(g) = Goto(g, "INITIAL")
        BY <3>1 DEF fsm_lowerdown, Negotiating
      <4>2. QED
        BY <1>2, <4>1 DEF Deaf
    <3>2. CASE g.state = "STOPPED"
      BY <1>3, <3>2 DEF fsm_lowerdown, Deaf
    <3>3. CASE g.state = "CLOSING"
      BY <1>3, <3>3 DEF fsm_lowerdown, Deaf
    <3>4. CASE g.state \in Negotiating \cup {"STOPPING"}
      <4>1. fsm_lowerdown(g) = Untimeout(Goto(g, "STARTING"))
        BY <3>4 DEF fsm_lowerdown, Negotiating
      <4>2. QED
        BY <1>3, <4>1 DEF Deaf
    <3>5. CASE g.state \in Deaf
      <4>1. fsm_lowerdown(g) = g
        BY <3>5 DEF fsm_lowerdown, Negotiating, Deaf
      <4>2. QED
        BY <1>1, <3>5, <4>1
    <3>6. QED
      BY <1>1, <1>6, <3>1, <3>2, <3>3, <3>4, <3>5 DEF States, Negotiating, Deaf
  <2>2. QED
    BY <1>6, <2>1
<1>7. QED
  BY <1>5, <1>6

\* The states in which nothing of the fsm is under way.
Resting == {"CLOSED", "STOPPED", "ACKRCVD", "OPENED"}

\* fsm_timeout: a request again, or the end of the retries.
LEMMA ExpireRan ==
  ASSUME NEW g, Fresh(g), g.state \notin Deaf
  PROVE  \/ Ran(Expire(g), g.state, {}, << >>) /\ g.state \in {"CLOSED", "STOPPED", "OPENED"}
         \/ \E s \in {"CLOSED", "STOPPED"} : Ran(Expire(g), s, {}, << >>) /\ g.state # "OPENED"
         \/ \E s \in States \ (Resting \cup Deaf), c \in {"CONFREQ", "TERMREQ"} :
                Ran(Expire(g), s, {}, <<c>>) /\ g.state # "OPENED"
<1> DEFINE u == Untimeout(g)
<1>1. Ran(u, g.state, {}, << >>) /\ g.state \in States
  BY RanStart, RanTimer
<1>2. u.state = g.state
  BY <1>1 DEF Ran
<1>3. Expire(g) = fsm_timeout(u)
  BY DEF Expire
<1> HIDE DEF u
<1>4. << >> \in Seq(Codes) /\ \A c : Append(<< >>, c) = <<c>>
  OBVIOUS
<1>5. ASSUME NEW s \in {"CLOSED", "STOPPED"}
      PROVE  Ran(Goto(u, s), s, {}, << >>) /\ Ran(Call(Goto(u, s), "finished"), s, {}, << >>)
  BY <1>1, RanGoto, RanCallOther DEF States
<1>6. CASE g.state \in Terminating
  <2>1. Ran(SendTermReq(u), g.state, {}, <<"TERMREQ">>)
    BY <1>1, <1>4, RanTerminate
  <2>2. \/ fsm_timeout(u) = SendTermReq(u)
        \/ fsm_timeout(u) = Call(Goto(u, "CLOSED"), "finished")
        \/ fsm_timeout(u) = Call(Goto(u, "STOPPED"), "finished")
    <3>1. CASE u.retransmits <= 0
      <4>1. fsm_timeout(u) =
              Call(Goto(u, IF u.state = "CLOSING" THEN "CLOSED" ELSE "STOPPED"), "finished")
        BY <1>2, <1>6, <3>1 DEF fsm_timeout, Terminating, Negotiating
      <4>2. QED
        BY <4>1
    <3>2. CASE ~ (u.retransmits <= 0)
      BY <1>2, <1>6, <3>2 DEF fsm_timeout, Terminating, Negotiating
    <3>3. QED
      BY <3>1, <3>2
  <2>3. g.state \in States \ (Resting \cup Deaf) /\ g.state # "OPENED"
    BY <1>1, <1>6 DEF Terminating, Resting, Deaf
  <2>4. QED
    BY <1>3, <1>5, <2>1, <2>2, <2>3
<1>7. CASE g.state \in Negotiating
  <2> DEFINE a == fsm_sconfreq(Call(u, "retransmit"), TRUE)
  <2>1. Ran(a, g.state, {}, <<"CONFREQ">>)
    <3>1. Ran(Call(u, "retransmit"), g.state, {}, << >>)
      BY <1>1, RanCallOther
    <3>2. Ran(a, g.state, IF g.state \in Negotiating THEN {} ELSE {} \cup {"resetci"},
              Append(<< >>, "CONFREQ"))
      BY <1>4, <3>1, RanSconfreq
    <3>3. QED
      BY <1>4, <1>7, <3>2
  <2>2. a.state = g.state
    BY <2>1 DEF Ran
  <2>3. \/ fsm_timeout(u) = a /\ g.state # "ACKRCVD"
        \/ fsm_timeout(u) = Goto(a, "REQSENT")
        \/ fsm_timeout(u) = Goto(u, "STOPPED")
        \/ fsm_timeout(u) = Call(Goto(u, "STOPPED"), "finished")
    <3> HIDE DEF a
    <3>1. u.retransmits > 0 \/ u.retransmits <= 0
      BY <1>1 DEF Ran, FSM
    <3>2. QED
      BY <1>2, <1>7, <2>2, <3>1 DEF fsm_timeout, Negotiating, Terminating, a
  <2> HIDE DEF a
  <2>4. Ran(Goto(a, "REQSENT"), "REQSENT", {}, <<"CONFREQ">>)
    BY <2>1, RanGoto DEF States
  <2>5. /\ "REQSENT" \in States \ (Resting \cup Deaf) /\ g.state # "OPENED"
        /\ g.state # "ACKRCVD" => g.state \in States \ (Resting \cup Deaf)
    BY <1>7 DEF Negotiating, States, Resting, Deaf
  <2>6. QED
    BY <1>3, <1>5, <2>1, <2>3, <2>4, <2>5
<1>8. CASE g.state \notin Terminating \cup Negotiating
  <2>1. fsm_timeout(u) = u
    BY <1>2, <1>8 DEF fsm_timeout
  <2>2. g.state \in {"CLOSED", "STOPPED", "OPENED"}
    BY <1>1, <1>8 DEF States, Terminating, Negotiating, Deaf
  <2>3. QED
    BY <1>1, <1>3, <2>1, <2>2
<1>9. QED
  BY <1>6, <1>7, <1>8

\* The head of fsm_rconfreq: OPENED and STOPPED start a new negotiation.
LEMMA PrepareRan ==
  ASSUME NEW g, Fresh(g), g.state \notin Deaf \cup Terminating \cup {"CLOSED"}
  PROVE  /\ g.state = "OPENED" =>
              Ran(RconfreqPrepare(g), "OPENED", {"down", "resetci"}, <<"CONFREQ">>)
         /\ g.state = "STOPPED" =>
              Ran(RconfreqPrepare(g), "REQSENT", {"resetci"}, <<"CONFREQ">>)
         /\ g.state \in Negotiating =>
              RconfreqPrepare(g) = g /\ Ran(g, g.state, {}, << >>)
<1>1. Ran(g, g.state, {}, << >>)
  BY RanStart
<1>2. /\ << >> \in Seq(Codes) /\ Append(<< >>, "CONFREQ") = <<"CONFREQ">>
      /\ {} \cup {"resetci"} = {"resetci"} /\ {} \cup {"down"} = {"down"}
      /\ {"down"} \cup {"resetci"} = {"down", "resetci"}
  OBVIOUS
<1>3. CASE g.state = "OPENED"
  <2>1. Ran(Call(g, "down"), "OPENED", {"down"}, << >>)
    <3>1. Ran(Call(g, "down"), "OPENED", {} \cup {"down"}, << >>)
      BY <1>1, <1>3, RanCall DEF Callbacks
    <3>2. QED
      BY <1>2, <3>1
  <2>2. Ran(fsm_sconfreq(Call(g, "down"), FALSE), "OPENED",
            IF "OPENED" \in Negotiating THEN {"down"} ELSE {"down"} \cup {"resetci"},
            Append(<< >>, "CONFREQ"))
    BY <1>2, <2>1, RanSconfreq
  <2>3. "OPENED" \notin Negotiating
    BY DEF Negotiating
  <2>4. RconfreqPrepare(g) = fsm_sconfreq(Call(g, "down"), FALSE)
    BY <1>3 DEF RconfreqPrepare
  <2>5. QED
    BY <1>2, <1>3, <2>2, <2>3, <2>4 DEF Negotiating
<1>4. CASE g.state = "STOPPED"
  <2>1. "STOPPED" \notin Negotiating
    BY DEF Negotiating
  <2>2. Ran(Renegotiate(g), "REQSENT",
            IF "STOPPED" \in Negotiating THEN {} ELSE {} \cup {"resetci"},
            Append(<< >>, "CONFREQ"))
    BY <1>1, <1>2, <1>4, RanRenegotiate
  <2>3. RconfreqPrepare(g) = Renegotiate(g)
    BY <1>4 DEF RconfreqPrepare
  <2>4. QED
    BY <1>2, <1>4, <2>1, <2>2, <2>3
<1>5. CASE g.state \in Negotiating
  BY <1>1, <1>5 DEF RconfreqPrepare, Negotiating
<1>6. QED
  BY <1>3, <1>4, <1>5

Replies == {"CONFACK", "CONFNAK", "CONFREJ"}

\* The reply: an Ack in ACKRCVD opens the fsm.
LEMMA ReplyRan ==
  ASSUME NEW g, NEW s \in States, NEW C, NEW w \in Seq(Codes), Ran(g, s, C, w),
         NEW c \in Replies, NEW i \in Ids
  PROVE  /\ s = "ACKRCVD" /\ c = "CONFACK" =>
              Ran(RconfreqReply(g, c, i), "OPENED", C \cup {"up"}, Append(w, c))
         /\ s = "ACKRCVD" /\ c # "CONFACK" =>
              Ran(RconfreqReply(g, c, i), "ACKRCVD", C, Append(w, c))
         /\ s # "ACKRCVD" =>
              Ran(RconfreqReply(g, c, i), IF c = "CONFACK" THEN "ACKSENT" ELSE "REQSENT",
                  C, Append(w, c))
<1> DEFINE a == fsm_sdata(g, c, i)
           b == IF c = "CONFNAK" /\ a.nakloops < MaxNak
                  THEN SetNakloops(a, a.nakloops + 1) ELSE a
<1>1. Ran(a, s, C, Append(w, c)) /\ g.state = s
  BY RanSdata DEF Ran, Replies, Codes
<1> HIDE DEF a
<1>2. MaxNak \in Nat /\ 0 \in 0 .. MaxNak
  BY FsmAssumption
<1>3. Ran(b, s, C, Append(w, c))
  <2>1. CASE c = "CONFNAK" /\ a.nakloops < MaxNak
    <3>1. a.nakloops + 1 \in 0 .. MaxNak
      <4>1. a.nakloops \in 0 .. MaxNak
        BY <1>1 DEF Ran, FSM
      <4>2. QED
        BY <1>2, <2>1, <4>1
    <3>2. b = SetNakloops(a, a.nakloops + 1)
      BY <2>1
    <3>3. QED
      BY <1>1, <3>1, <3>2, RanSet
  <2>2. CASE ~ (c = "CONFNAK" /\ a.nakloops < MaxNak)
    <3>1. b = a
      BY <2>2
    <3>2. QED
      BY <1>1, <3>1
  <2>3. QED
    BY <2>1, <2>2
<1> HIDE DEF b
<1>4. /\ c = "CONFACK" /\ s = "ACKRCVD" =>
            RconfreqReply(g, c, i) = SetNakloops(Call(Goto(Untimeout(a), "OPENED"), "up"), 0)
      /\ c = "CONFACK" /\ s # "ACKRCVD" =>
            RconfreqReply(g, c, i) = SetNakloops(Goto(a, "ACKSENT"), 0)
      /\ c # "CONFACK" =>
            RconfreqReply(g, c, i) = IF s = "ACKRCVD" THEN b ELSE Goto(b, "REQSENT")
  BY <1>1 DEF RconfreqReply, a, b
<1>5. CASE c = "CONFACK" /\ s = "ACKRCVD"
  <2>1. Ran(Goto(Untimeout(a), "OPENED"), "OPENED", C, Append(w, c))
    BY <1>1, RanTimer, RanGoto DEF States
  <2>2. Ran(Call(Goto(Untimeout(a), "OPENED"), "up"), "OPENED", C \cup {"up"}, Append(w, c))
    BY <2>1, RanCall DEF Callbacks
  <2>3. QED
    BY <1>2, <1>4, <1>5, <2>2, RanSet
<1>6. CASE c = "CONFACK" /\ s # "ACKRCVD"
  <2>1. Ran(Goto(a, "ACKSENT"), "ACKSENT", C, Append(w, c))
    BY <1>1, RanGoto DEF States
  <2>2. QED
    BY <1>2, <1>4, <1>6, <2>1, RanSet
<1>7. CASE c # "CONFACK"
  <2>1. Ran(Goto(b, "REQSENT"), "REQSENT", C, Append(w, c))
    BY <1>3, RanGoto DEF States
  <2>2. QED
    BY <1>3, <1>4, <1>7, <2>1
<1>8. QED
  BY <1>5, <1>6, <1>7

\* A list of two.
LEMMA TwoCodes ==
  ASSUME NEW b \in Codes, NEW c \in Codes
  PROVE  Append(<<b>>, c) = <<b, c>>
<1> DEFINE x == <<b>>
           y == <<b, c>>
<1>1. x \in Seq(Codes) /\ Len(x) = 1 /\ x[1] = b
  OBVIOUS
<1>2. y \in Seq(Codes) /\ Len(y) = 2 /\ y[1] = b /\ y[2] = c
  OBVIOUS
<1> HIDE DEF x, y
<1>3. /\ Append(x, c) \in Seq(Codes) /\ Len(Append(x, c)) = 2
      /\ Append(x, c)[1] = b /\ Append(x, c)[2] = c
  <2> DEFINE z == Append(x, c)
  <2>1. /\ z \in Seq(Codes) /\ Len(z) = Len(x) + 1
        /\ \A i \in 1 .. Len(x) : z[i] = x[i]
        /\ z[Len(x) + 1] = c
    BY <1>1, AppendProperties
  <2>2. Len(x) + 1 = 2 /\ 1 \in 1 .. Len(x)
    BY <1>1
  <2> HIDE DEF z
  <2>3. z \in Seq(Codes) /\ Len(z) = 2 /\ z[1] = b /\ z[2] = c
    BY <1>1, <2>1, <2>2
  <2>4. QED
    BY <2>3 DEF z
<1>4. \A i \in 1 .. 2 : Append(x, c)[i] = y[i]
  BY <1>2, <1>3
<1>5. Append(x, c) = y
  BY <1>2, <1>3, <1>4, SeqEqual
<1>6. QED
  BY <1>5 DEF x, y

\* A Configure-Request, in every state that hears it.
LEMMA RconfreqRan ==
  ASSUME NEW g, Fresh(g), NEW c \in Replies, NEW i \in Ids
  PROVE  LET h == fsm_rconfreq(g, i, c)
         IN  /\ g.state = "CLOSED" => Ran(h, "CLOSED", {}, <<"TERMACK">>)
             /\ g.state \in Terminating => Ran(h, g.state, {}, << >>)
             /\ g.state \in {"OPENED", "STOPPED"} =>
                  \E s \in {"ACKSENT", "REQSENT"}, C \in SUBSET {"down", "resetci"} :
                      Ran(h, s, C, <<"CONFREQ", c>>) /\ (g.state = "OPENED" => "down" \in C)
             /\ g.state \in {"REQSENT", "ACKSENT"} =>
                  \E s \in {"ACKSENT", "REQSENT"} : Ran(h, s, {}, <<c>>)
             /\ g.state = "ACKRCVD" =>
                  \/ Ran(h, "OPENED", {"up"}, <<c>>)
                  \/ Ran(h, "ACKRCVD", {}, <<c>>)
<1> DEFINE h == fsm_rconfreq(g, i, c)
           p == RconfreqPrepare(g)
<1>1. Ran(g, g.state, {}, << >>) /\ g.state \in States /\ c \in Codes
  BY RanStart DEF Replies, Codes
<1>2. /\ << >> \in Seq(Codes) /\ <<"CONFREQ">> \in Seq(Codes)
      /\ \A x : Append(<< >>, x) = <<x>>
      /\ Append(<<"CONFREQ">>, c) = <<"CONFREQ", c>>
      /\ {} \cup {"up"} = {"up"}
  <2>1. << >> \in Seq(Codes) /\ <<"CONFREQ">> \in Seq(Codes)
    BY DEF Codes
  <2>2. \A x : Append(<< >>, x) = <<x>>
    OBVIOUS
  <2>3. Append(<<"CONFREQ">>, c) = <<"CONFREQ", c>>
    BY <1>1, TwoCodes DEF Codes
  <2>4. QED
    BY <2>1, <2>2, <2>3
<1>3. CASE g.state = "CLOSED"
  <2>1. h = fsm_sdata(g, "TERMACK", i)
    BY <1>3 DEF fsm_rconfreq, Terminating
  <2>2. Ran(h, "CLOSED", {}, Append(<< >>, "TERMACK"))
    <3>1. Ran(g, "CLOSED", {}, << >>) /\ "TERMACK" \in Codes
      BY <1>1, <1>3 DEF Codes
    <3>2. Ran(fsm_sdata(g, "TERMACK", i), "CLOSED", {}, Append(<< >>, "TERMACK"))
      BY <1>2, <3>1, RanSdata
    <3>3. QED
      BY <2>1, <3>2
  <2>3. QED
    BY <1>2, <1>3, <2>2 DEF Terminating
<1>4. CASE g.state \in Terminating
  <2>1. h = g
    BY <1>4 DEF fsm_rconfreq, Terminating
  <2>2. QED
    BY <1>1, <1>4, <2>1 DEF Terminating
<1>5. CASE g.state \notin Terminating \cup Deaf \cup {"CLOSED"}
  <2>1. h = RconfreqReply(p, c, i)
    BY <1>5 DEF fsm_rconfreq
  <2> HIDE DEF h, p
  <2>2. CASE g.state = "OPENED"
    <3>1. Ran(p, "OPENED", {"down", "resetci"}, <<"CONFREQ">>)
      BY <1>5, <2>2, PrepareRan DEF p
    <3>2. Ran(h, IF c = "CONFACK" THEN "ACKSENT" ELSE "REQSENT", {"down", "resetci"},
              Append(<<"CONFREQ">>, c))
      BY <1>2, <2>1, <3>1, ReplyRan DEF States
    <3>3. QED
      BY <1>2, <2>2, <3>2 DEF Terminating, h
  <2>3. CASE g.state = "STOPPED"
    <3>1. Ran(p, "REQSENT", {"resetci"}, <<"CONFREQ">>)
      BY <1>5, <2>3, PrepareRan DEF p
    <3>2. Ran(h, IF c = "CONFACK" THEN "ACKSENT" ELSE "REQSENT", {"resetci"},
              Append(<<"CONFREQ">>, c))
      BY <1>2, <2>1, <3>1, ReplyRan DEF States
    <3>3. \E s \in {"ACKSENT", "REQSENT"} : Ran(h, s, {"resetci"}, <<"CONFREQ", c>>)
      BY <1>2, <3>2
    <3>4. {"resetci"} \in SUBSET {"down", "resetci"}
      OBVIOUS
    <3>5. QED
      BY <2>3, <3>3, <3>4 DEF Terminating, h
  <2>4. CASE g.state \in {"REQSENT", "ACKSENT"}
    <3>1. Ran(p, g.state, {}, << >>)
      BY <1>5, <2>4, PrepareRan DEF p, Negotiating
    <3>2. Ran(h, IF c = "CONFACK" THEN "ACKSENT" ELSE "REQSENT", {}, Append(<< >>, c))
      BY <1>1, <1>2, <2>1, <2>4, <3>1, ReplyRan
    <3>3. QED
      BY <1>2, <2>4, <3>2 DEF Terminating, h
  <2>5. CASE g.state = "ACKRCVD"
    <3>1. Ran(p, "ACKRCVD", {}, << >>)
      BY <1>5, <2>5, PrepareRan DEF p, Negotiating
    <3>2. \/ Ran(h, "OPENED", {} \cup {"up"}, Append(<< >>, c))
          \/ Ran(h, "ACKRCVD", {}, Append(<< >>, c))
      BY <1>2, <2>1, <3>1, ReplyRan DEF States
    <3>3. QED
      BY <1>2, <2>5, <3>2 DEF Terminating, h
  <2>6. QED
    BY <1>1, <1>5, <2>2, <2>3, <2>4, <2>5 DEF States, Deaf, Terminating
<1>6. CASE g.state \in Deaf
  BY <1>6 DEF Deaf, Terminating
<1>7. QED
  BY <1>3, <1>4, <1>5, <1>6

\* The states in which an answer can arrive.
Waiting == {"REQSENT", "ACKSENT"} \cup Terminating

\* An Ack that is the right one brings the fsm on.
LEMMA RconfackRan ==
  ASSUME NEW g, Fresh(g), g.state \in Waiting, NEW i \in Ids, NEW good \in BOOLEAN
  PROVE  LET h == fsm_rconfack(g, i, good)
         IN  \/ Ran(h, g.state, {}, << >>)
             \/ good /\ Ran(h, "ACKRCVD", {}, << >>)
             \/ good /\ Ran(h, "OPENED", {"up"}, << >>)
<1> DEFINE h == fsm_rconfack(g, i, good)
           r == SetReqid(g, NoReq)
<1>1. Ran(g, g.state, {}, << >>)
  BY RanStart
<1>2. NoReq \in Ids /\ MaxConf \in Int
  BY FsmAssumption DEF NoReq, Ids
<1>3. Ran(r, g.state, {}, << >>)
  BY <1>1, <1>2, RanSet
<1>4. CASE i # g.reqid \/ ~ good
  <2>1. h = g
    BY <1>4 DEF fsm_rconfack
  <2>2. QED
    BY <1>1, <2>1
<1>5. CASE i = g.reqid /\ good
  <2>1. r.state = g.state
    BY <1>3 DEF Ran
  <2>2. /\ g.state = "REQSENT" => h = SetRetransmits(Goto(r, "ACKRCVD"), MaxConf)
        /\ g.state = "ACKSENT" =>
             h = Call(SetRetransmits(Goto(Untimeout(r), "OPENED"), MaxConf), "up")
        /\ g.state \in Terminating => h = r
    <3> HIDE DEF r
    <3>1. h = CASE r.state \in {"CLOSED", "STOPPED"} -> fsm_sdata(r, "TERMACK", i)
                [] r.state = "REQSENT" -> SetRetransmits(Goto(r, "ACKRCVD"), MaxConf)
                [] r.state = "ACKRCVD" -> Renegotiate(r)
                [] r.state = "ACKSENT" ->
                     Call(SetRetransmits(Goto(Untimeout(r), "OPENED"), MaxConf), "up")
                [] r.state = "OPENED"  -> Renegotiate(Call(r, "down"))
                [] OTHER               -> r
      BY <1>5 DEF fsm_rconfack, r
    <3> HIDE DEF h
    <3>2. QED
      BY <2>1, <3>1 DEF Terminating
  <2> HIDE DEF r, h
  <2>3. Ran(Goto(r, "ACKRCVD"), "ACKRCVD", {}, << >>)
    BY <1>3, RanGoto DEF States
  <2>4. Ran(Goto(Untimeout(r), "OPENED"), "OPENED", {}, << >>)
    BY <1>3, RanTimer, RanGoto DEF States
  <2>5. Ran(SetRetransmits(Goto(r, "ACKRCVD"), MaxConf), "ACKRCVD", {}, << >>)
    BY <1>2, <2>3, RanSet
  <2>6. Ran(SetRetransmits(Goto(Untimeout(r), "OPENED"), MaxConf), "OPENED", {}, << >>)
    BY <1>2, <2>4, RanSet
  <2>7. Ran(Call(SetRetransmits(Goto(Untimeout(r), "OPENED"), MaxConf), "up"), "OPENED",
            {"up"}, << >>)
    <3>1. "up" \in Callbacks /\ {} \cup {"up"} = {"up"}
      BY DEF Callbacks
    <3>2. Ran(Call(SetRetransmits(Goto(Untimeout(r), "OPENED"), MaxConf), "up"), "OPENED",
              {} \cup {"up"}, << >>)
      BY <2>6, <3>1, RanCall
    <3>3. QED
      BY <3>1, <3>2
  <2>8. CASE g.state = "REQSENT"
    BY <1>5, <2>2, <2>5, <2>8 DEF h
  <2>9. CASE g.state = "ACKSENT"
    BY <1>5, <2>2, <2>7, <2>9 DEF h
  <2>10. CASE g.state \in Terminating
    BY <1>3, <2>2, <2>10 DEF h
  <2>11. QED
    BY <2>8, <2>9, <2>10 DEF Waiting
<1>6. QED
  BY <1>4, <1>5

\* A Nak or a Reject is answered by a new request, or not at all.
LEMMA RconfnakrejRan ==
  ASSUME NEW g, Fresh(g), g.state \in Waiting, NEW i \in Ids, NEW good \in BOOLEAN
  PROVE  LET h == fsm_rconfnakrej(g, i, good)
         IN  \/ Ran(h, g.state, {}, << >>)
             \/ Ran(h, g.state, {}, <<"CONFREQ">>)
<1> DEFINE h == fsm_rconfnakrej(g, i, good)
           r == SetReqid(g, NoReq)
<1>1. Ran(g, g.state, {}, << >>)
  BY RanStart
<1>2. NoReq \in Ids
  BY FsmAssumption DEF NoReq, Ids
<1>3. Ran(r, g.state, {}, << >>)
  BY <1>1, <1>2, RanSet
<1>4. CASE i # g.reqid \/ ~ good
  <2>1. h = g
    BY <1>4 DEF fsm_rconfnakrej
  <2>2. QED
    BY <1>1, <2>1
<1>5. CASE i = g.reqid /\ good
  <2>1. r.state = g.state
    BY <1>3 DEF Ran
  <2>2. h = CASE r.state \in {"CLOSED", "STOPPED"} -> fsm_sdata(r, "TERMACK", i)
              [] r.state \in {"REQSENT", "ACKSENT"} -> fsm_sconfreq(Untimeout(r), FALSE)
              [] r.state = "ACKRCVD" -> Renegotiate(r)
              [] r.state = "OPENED"  -> Renegotiate(Call(r, "down"))
              [] OTHER               -> r
    BY <1>5 DEF fsm_rconfnakrej
  <2> HIDE DEF r, h
  <2>3. CASE g.state \in {"REQSENT", "ACKSENT"}
    <3>1. h = fsm_sconfreq(Untimeout(r), FALSE)
      BY <2>1, <2>2, <2>3
    <3>2. Ran(Untimeout(r), g.state, {}, << >>)
      BY <1>3, RanTimer
    <3>3. << >> \in Seq(Codes) /\ Append(<< >>, "CONFREQ") = <<"CONFREQ">>
      OBVIOUS
    <3>4. Ran(h, g.state, IF g.state \in Negotiating THEN {} ELSE {} \cup {"resetci"},
              Append(<< >>, "CONFREQ"))
      BY <3>1, <3>2, <3>3, RanSconfreq
    <3>5. g.state \in Negotiating
      BY <2>3 DEF Negotiating
    <3>6. QED
      BY <3>3, <3>4, <3>5 DEF h
  <2>4. CASE g.state \in Terminating
    <3>1. h = r
      BY <2>1, <2>2, <2>4 DEF Terminating
    <3>2. QED
      BY <1>3, <3>1 DEF h
  <2>5. QED
    BY <2>3, <2>4 DEF Waiting
<1>6. QED
  BY <1>4, <1>5

\* A Terminate-Request is answered in every state.
LEMMA RtermreqRan ==
  ASSUME NEW g, Fresh(g), g.state \notin Deaf, NEW i \in Ids
  PROVE  \E s \in States \ Deaf, C \in SUBSET {"down"} :
             /\ Ran(fsm_rtermreq(g, i), s, C, <<"TERMACK">>)
             /\ g.state = "OPENED" => "down" \in C
             /\ s \in Resting => s = g.state /\ s # "ACKRCVD" /\ s # "OPENED"
<1>1. Ran(g, g.state, {}, << >>) /\ g.state \in States
  BY RanStart
<1>2. /\ << >> \in Seq(Codes) /\ Append(<< >>, "TERMACK") = <<"TERMACK">> /\ "TERMACK" \in Codes
      /\ {} \cup {"down"} = {"down"}
  BY DEF Codes
<1>3. ASSUME NEW a, NEW s, NEW C, Ran(a, s, C, << >>)
      PROVE  Ran(fsm_sdata(a, "TERMACK", i), s, C, <<"TERMACK">>)
  <2>1. Ran(fsm_sdata(a, "TERMACK", i), s, C, Append(<< >>, "TERMACK"))
    BY <1>2, <1>3, RanSdata
  <2>2. QED
    BY <1>2, <2>1
<1>4. CASE g.state \in {"ACKRCVD", "ACKSENT"}
  <2>1. fsm_rtermreq(g, i) = fsm_sdata(Goto(g, "REQSENT"), "TERMACK", i)
    BY <1>4 DEF fsm_rtermreq
  <2>2. Ran(Goto(g, "REQSENT"), "REQSENT", {}, << >>)
    BY <1>1, RanGoto DEF States
  <2>3. "REQSENT" \in States \ Deaf /\ "REQSENT" \notin Resting
    BY DEF States, Deaf, Resting
  <2>4. QED
    BY <1>3, <1>4, <2>1, <2>2, <2>3
<1>5. CASE g.state = "OPENED"
  <2> DEFINE a == SetRetransmits(Call(g, "down"), 0)
  <2>1. fsm_rtermreq(g, i) = fsm_sdata(Timeout(Goto(a, "STOPPING")), "TERMACK", i)
    BY <1>5 DEF fsm_rtermreq
  <2>2. Ran(Call(g, "down"), g.state, {} \cup {"down"}, << >>)
    BY <1>1, RanCall DEF Callbacks
  <2>3. Ran(a, g.state, {"down"}, << >>)
    BY <1>2, <2>2, RanSet
  <2> HIDE DEF a
  <2>4. Ran(Timeout(Goto(a, "STOPPING")), "STOPPING", {"down"}, << >>)
    BY <2>3, RanGoto, RanTimer DEF States
  <2>5. "STOPPING" \in States \ Deaf /\ "STOPPING" \notin Resting
    BY DEF States, Deaf, Resting
  <2>6. QED
    BY <1>3, <2>1, <2>4, <2>5
<1>6. CASE g.state \notin {"ACKRCVD", "ACKSENT", "OPENED"}
  <2>1. fsm_rtermreq(g, i) = fsm_sdata(g, "TERMACK", i)
    BY <1>6 DEF fsm_rtermreq
  <2>2. g.state \in States \ Deaf
    BY <1>1
  <2>3. QED
    BY <1>1, <1>3, <1>6, <2>1, <2>2
<1>7. QED
  BY <1>4, <1>5, <1>6

\* A Terminate-Ack ends a termination.
LEMMA RtermackRan ==
  ASSUME NEW g, Fresh(g), g.state \in Waiting
  PROVE  \E s \in {g.state, "CLOSED", "STOPPED"} : Ran(fsm_rtermack(g), s, {}, << >>)
<1>1. Ran(g, g.state, {}, << >>)
  BY RanStart
<1>2. /\ Ran(Call(Goto(g, "CLOSED"), "finished"), "CLOSED", {}, << >>)
      /\ Ran(Call(Goto(g, "STOPPED"), "finished"), "STOPPED", {}, << >>)
  BY <1>1, RanGoto, RanCallOther DEF States
<1>3. QED
  BY <1>1, <1>2 DEF fsm_rtermack, Waiting, Terminating

\* die closes an OPENED fsm, which sends a Terminate-Request.
LEMMA CloseRan ==
  ASSUME NEW g, NEW C, NEW w \in Seq(Codes), Ran(g, "OPENED", C, w)
  PROVE  Ran(fsm_close(g), "CLOSING", C \cup {"down"}, Append(w, "TERMREQ"))
<1>1. fsm_close(g) = Goto(StartTerminate(Call(g, "down")), "CLOSING")
  BY DEF Ran, fsm_close, Negotiating
<1>2. Ran(Call(g, "down"), "OPENED", C \cup {"down"}, w)
  BY RanCall DEF Callbacks
<1>3. Ran(StartTerminate(Call(g, "down")), "OPENED", C \cup {"down"}, Append(w, "TERMREQ"))
  BY <1>2, RanTerminate
<1>4. QED
  BY <1>1, <1>3, RanGoto DEF States

----------------------------------------------------------------------------
(* Packets on a line.                                                      *)

Asks == {"CONFREQ", "TERMREQ"}
Answers == {"CONFACK", "CONFNAK", "CONFREJ", "TERMACK"}

\* The line w holds no packet, or at most one, with a code of K.
No(w, K) == \A i \in 1 .. Len(w) : w[i].code \notin K
One(w, K) == \A i, j \in 1 .. Len(w) : w[i].code \in K /\ w[j].code \in K => i = j

\* Option lists, and what travels on a line.
Lists == {r \in UNION {[D -> Addrs \cup VJ] : D \in SUBSET CIs} :
             /\ "addr" \in DOMAIN r => r["addr"] \in Addrs
             /\ "vj" \in DOMAIN r => r["vj"] \in VJ}
Frame == [code : Codes, id : Ids, opts : Lists]

\* A packet is taken off a line.
LEMMA LineTail ==
  ASSUME NEW w \in Seq(Frame), w # << >>
  PROVE  /\ Head(w) \in Frame /\ Tail(w) \in Seq(Frame) /\ Head(w) = w[1] /\ 1 \in 1 .. Len(w)
         /\ \A i \in 1 .. Len(Tail(w)) : i + 1 \in 1 .. Len(w) /\ Tail(w)[i] = w[i + 1]
         /\ \A K : /\ No(w, K) => No(Tail(w), K) /\ Head(w).code \notin K
                   /\ One(w, K) => One(Tail(w), K)
                   /\ One(w, K) /\ Head(w).code \in K => No(Tail(w), K)
<1>1. /\ Head(w) \in Frame /\ Tail(w) \in Seq(Frame) /\ Len(Tail(w)) = Len(w) - 1
      /\ \A i \in 1 .. Len(Tail(w)) : Tail(w)[i] = w[i + 1]
  BY HeadTailProperties
<1>2. Len(w) \in Nat /\ Len(w) > 0 /\ Head(w) = w[1]
  OBVIOUS
<1> DEFINE t == Tail(w)
           n == Len(w)
<1>3. /\ n \in Nat /\ n > 0 /\ Len(t) = n - 1 /\ 1 \in 1 .. n
      /\ \A i \in 1 .. n - 1 : t[i] = w[i + 1] /\ i + 1 \in 1 .. n
  BY <1>1, <1>2
<1> HIDE DEF t, n
<1>4. ASSUME NEW K, \A i \in 1 .. n : w[i].code \notin K
      PROVE  (\A i \in 1 .. n - 1 : t[i].code \notin K) /\ w[1].code \notin K
  BY <1>3, <1>4
<1>5. ASSUME NEW K, \A i, j \in 1 .. n : w[i].code \in K /\ w[j].code \in K => i = j
      PROVE  \A i, j \in 1 .. n - 1 : t[i].code \in K /\ t[j].code \in K => i = j
  <2> SUFFICES ASSUME NEW i \in 1 .. n - 1, NEW j \in 1 .. n - 1,
                      t[i].code \in K, t[j].code \in K
               PROVE  i = j
    OBVIOUS
  <2>1. i + 1 = j + 1
    BY <1>3, <1>5
  <2>2. QED
    BY <1>3, <2>1
<1>6. ASSUME NEW K, \A i, j \in 1 .. n : w[i].code \in K /\ w[j].code \in K => i = j,
             w[1].code \in K
      PROVE  \A i \in 1 .. n - 1 : t[i].code \notin K
  <2> SUFFICES ASSUME NEW i \in 1 .. n - 1, t[i].code \in K PROVE FALSE
    OBVIOUS
  <2>1. i + 1 = 1
    BY <1>3, <1>6
  <2>2. QED
    BY <1>3, <2>1
<1>7. \A K : /\ No(w, K) => No(t, K) /\ w[1].code \notin K
             /\ One(w, K) => One(t, K)
             /\ One(w, K) /\ w[1].code \in K => No(t, K)
  BY <1>3, <1>4, <1>5, <1>6 DEF No, One, n
<1>8. QED
  BY <1>1, <1>2, <1>3, <1>7 DEF t, n

\* Packets are put behind those on a line.
LEMMA LineConcat ==
  ASSUME NEW v \in Seq(Frame), NEW w \in Seq(Frame)
  PROVE  /\ v \o w \in Seq(Frame)
         /\ \A i \in 1 .. Len(v \o w) :
               \/ i \in 1 .. Len(v) /\ (v \o w)[i] = v[i]
               \/ \E j \in 1 .. Len(w) : (v \o w)[i] = w[j]
         /\ \A K : /\ No(v, K) /\ No(w, K) => No(v \o w, K)
                   /\ One(v, K) /\ No(w, K) => One(v \o w, K)
                   /\ No(v, K) /\ One(w, K) => One(v \o w, K)
<1> DEFINE x == v \o w
           m == Len(v)
           n == Len(w)
<1>1. /\ x \in Seq(Frame) /\ Len(x) = m + n /\ m \in Nat /\ n \in Nat
      /\ \A i \in 1 .. m + n : x[i] = IF i <= m THEN v[i] ELSE w[i - m]
  BY ConcatProperties
<1> HIDE DEF x, m, n
<1>2. ASSUME NEW i \in 1 .. m + n
      PROVE  \/ i \in 1 .. m /\ x[i] = v[i]
             \/ i - m \in 1 .. n /\ x[i] = w[i - m]
  BY <1>1
<1>3. ASSUME NEW K, \A i \in 1 .. m : v[i].code \notin K, \A i \in 1 .. n : w[i].code \notin K
      PROVE  \A i \in 1 .. m + n : x[i].code \notin K
  BY <1>2, <1>3
<1>4. ASSUME NEW K, \A i, j \in 1 .. m : v[i].code \in K /\ v[j].code \in K => i = j,
             \A i \in 1 .. n : w[i].code \notin K
      PROVE  \A i, j \in 1 .. m + n : x[i].code \in K /\ x[j].code \in K => i = j
  BY <1>2, <1>4
<1>5. ASSUME NEW K, \A i \in 1 .. m : v[i].code \notin K,
             \A i, j \in 1 .. n : w[i].code \in K /\ w[j].code \in K => i = j
      PROVE  \A i, j \in 1 .. m + n : x[i].code \in K /\ x[j].code \in K => i = j
  <2> SUFFICES ASSUME NEW i \in 1 .. m + n, NEW j \in 1 .. m + n,
                      x[i].code \in K, x[j].code \in K
               PROVE  i = j
    OBVIOUS
  <2>1. i - m \in 1 .. n /\ x[i] = w[i - m] /\ j - m \in 1 .. n /\ x[j] = w[j - m]
    BY <1>2, <1>5
  <2>2. i - m = j - m
    BY <1>5, <2>1
  <2>3. QED
    BY <1>1, <2>2
<1>6. \A K : /\ No(v, K) /\ No(w, K) => No(x, K)
             /\ One(v, K) /\ No(w, K) => One(x, K)
             /\ No(v, K) /\ One(w, K) => One(x, K)
  BY <1>1, <1>3, <1>4, <1>5 DEF No, One, m, n
<1>7. \A i \in 1 .. Len(x) : \/ i \in 1 .. m /\ x[i] = v[i]
                             \/ \E j \in 1 .. n : x[i] = w[j]
  BY <1>1, <1>2
<1>8. QED
  BY <1>1, <1>6, <1>7 DEF x, m, n

\* The packets an fsm has sent, with their options.
LEMMA FramesFacts ==
  ASSUME NEW g, NEW s, NEW C, NEW w, Ran(g, s, C, w), NEW o \in Options, NEW reply \in Lists
  PROVE  /\ Frames(g, o, reply) \in Seq(Frame)
         /\ Len(Frames(g, o, reply)) = Len(w)
         /\ \A i \in 1 .. Len(w) :
               /\ Frames(g, o, reply)[i].code = w[i]
               /\ w[i] \in {"CONFACK", "CONFNAK", "CONFREJ"} =>
                     Frames(g, o, reply)[i].opts = reply
<1> DEFINE F == Frames(g, o, reply)
           n == Len(w)
           opts(c) == CASE c = "CONFREQ" -> ipcp_addci(o)
                        [] c \in {"CONFACK", "CONFNAK", "CONFREJ"} -> reply
                        [] OTHER -> None
<1>1. /\ g.out \in Seq(Packet) /\ Len(g.out) = n /\ n \in Nat
      /\ \A i \in 1 .. n : g.out[i].code = w[i] /\ g.out[i] \in Packet
  BY DEF Ran, FSM
<1>2. ipcp_addci(o) \in Lists /\ None \in Lists
  <2>1. ipcp_addci(o) \in Lists
    <3> DEFINE r == ipcp_addci(o)
    <3>1. o.neg \in SUBSET CIs /\ o.ouraddr \in Addrs /\ o.vj \in VJ
      BY DEF Options
    <3>2. r = [c \in o.neg |-> IF c = "addr" THEN o.ouraddr ELSE o.vj]
      BY DEF ipcp_addci, Value
    <3> HIDE DEF r
    <3>3. r \in [o.neg -> Addrs \cup VJ] /\ DOMAIN r = o.neg
      BY <3>1, <3>2
    <3>4. ("addr" \in DOMAIN r => r["addr"] \in Addrs) /\ ("vj" \in DOMAIN r => r["vj"] \in VJ)
      BY <3>1, <3>2
    <3>5. QED
      BY <3>1, <3>3, <3>4 DEF Lists, r
  <2>2. None \in Lists
    <3>1. None \in [{} -> Addrs \cup VJ] /\ DOMAIN None = {} /\ {} \in SUBSET CIs
      BY DEF None
    <3>2. QED
      BY <3>1 DEF Lists
  <2>3. QED
    BY <2>1, <2>2
<1>3. F = [i \in 1 .. Len(g.out) |->
             [code |-> g.out[i].code, id |-> g.out[i].id, opts |-> opts(g.out[i].code)]]
  BY DEF Frames
<1>4. \A c : opts(c) \in Lists /\ (c \in {"CONFACK", "CONFNAK", "CONFREJ"} => opts(c) = reply)
  <2>1. ASSUME NEW c, c = "CONFREQ" PROVE opts(c) = ipcp_addci(o)
    BY <2>1
  <2>2. ASSUME NEW c, c \in {"CONFACK", "CONFNAK", "CONFREJ"} PROVE opts(c) = reply
    BY <2>2
  <2>3. ASSUME NEW c, c # "CONFREQ", c \notin {"CONFACK", "CONFNAK", "CONFREJ"}
        PROVE  opts(c) = None
    BY <2>3
  <2> HIDE DEF opts
  <2>4. QED
    BY <1>2, <2>1, <2>2, <2>3
<1> HIDE DEF F, opts
<1>5. \A i \in 1 .. n : F[i] = [code |-> w[i], id |-> g.out[i].id, opts |-> opts(w[i])]
                        /\ w[i] \in Codes /\ g.out[i].id \in Ids
  BY <1>1, <1>3 DEF Packet
<1>6. \A i \in 1 .. n : F[i] \in Frame /\ F[i].code = w[i] /\ F[i].opts = opts(w[i])
  <2> SUFFICES ASSUME NEW i \in 1 .. n
               PROVE  F[i] \in Frame /\ F[i].code = w[i] /\ F[i].opts = opts(w[i])
    OBVIOUS
  <2> DEFINE x == opts(w[i])
  <2>1. F[i] = [code |-> w[i], id |-> g.out[i].id, opts |-> x]
        /\ w[i] \in Codes /\ g.out[i].id \in Ids /\ x \in Lists
    BY <1>4, <1>5
  <2> HIDE DEF x
  <2>2. F[i] \in Frame /\ F[i].code = w[i] /\ F[i].opts = x
    BY <2>1 DEF Frame
  <2>3. QED
    BY <2>2 DEF x
<1>7. F \in [1 .. n -> Frame]
  BY <1>1, <1>3, <1>6
<1>8. F \in Seq(Frame) /\ Len(F) = n
  BY <1>1, <1>7
<1>9. QED
  BY <1>4, <1>6, <1>8 DEF F

----------------------------------------------------------------------------
(* The inductive invariant.                                                *)

\* Nothing of what e has asked is under way on the lines w: no request of e, no
\* answer to one.  Or there is at most one packet of these.
Idle(w, e) == No(w[Peer(e)], Asks) /\ No(w[e], Answers)
Single(w, e) ==
    /\ One(w[Peer(e)], Asks) /\ One(w[e], Answers)
    /\ No(w[Peer(e)], Asks) \/ No(w[e], Answers)

\* The daemon configured as c lets its peer have the options r, and only these.
Granted(c, h, r) == r \in Lists /\ h = HisOptions(ipcp_resetci(c), r)
                    /\ Refused(ipcp_resetci(c), r) = {}

Typed ==
    /\ conf \in [Ends -> Options] /\ f \in [Ends -> FSM]
    /\ go \in [Ends -> Options] /\ ho \in [Ends -> Lists]
    /\ req \subseteq Ends /\ up \subseteq Ends /\ over \subseteq Ends
    /\ downs \in [Ends -> 0 .. MaxDowns] /\ losses \in 0 .. MaxLosses
    /\ wire \in [Ends -> Seq(Frame)]

\* An interface is up on an OPENED fsm only, and an end that has died stays so.
Lives(e) ==
    /\ Fresh(f[e])
    /\ e \in up => f[e].state = "OPENED"
    /\ e \in over => f[e].state = "INITIAL"

\* An fsm that rests has nothing under way, and no other has more than a packet.
Exchanges(e) == Single(wire, e) /\ (f[e].state \in Resting => Idle(wire, e))

\* An end whose LCP has gone down first waits for the other; one that comes up
\* last finds nothing of its own on the lines.
Follows(e) ==
    /\ downs[e] > downs[Peer(e)] => f[e].state \in Deaf
    /\ e \notin over /\ f[e].state \in Deaf /\ f[Peer(e)].state \notin Deaf
         /\ downs[e] = downs[Peer(e)] => Idle(wire, e)

\* An Ack under way is about what its sender still grants, and so is the one that
\* brought e to ACKRCVD or OPENED.
Agreed(e) ==
    /\ \A i \in 1 .. Len(wire[e]) :
          wire[e][i].code = "CONFACK" => Granted(conf[Peer(e)], ho[Peer(e)], wire[e][i].opts)
    /\ f[e].state \in {"ACKRCVD", "OPENED"} =>
          Granted(conf[Peer(e)], ho[Peer(e)], ipcp_addci(go[e]))

Inv == Typed /\ \A e \in Ends : Lives(e) /\ Exchanges(e) /\ Follows(e) /\ Agreed(e)

\* There are two ends.
LEMMA PeerFacts ==
  ASSUME NEW e \in Ends
  PROVE  Peer(e) \in Ends /\ Peer(e) # e /\ Peer(Peer(e)) = e /\ Ends = {e, Peer(e)}
<1>1. PICK a \in Ends, b \in Ends : a # b /\ Ends = {a, b}
  BY IpcpLinkAssumption
<1>2. \A x \in Ends : Peer(x) \in Ends /\ Peer(x) # x
  <2> SUFFICES ASSUME NEW x \in Ends PROVE Peer(x) \in Ends /\ Peer(x) # x
    OBVIOUS
  <2>1. \E o \in Ends : o # x
    BY <1>1
  <2>2. QED
    BY <2>1 DEF Peer
<1>3. Peer(e) \in Ends /\ Peer(e) # e /\ Peer(Peer(e)) \in Ends /\ Peer(Peer(e)) # Peer(e)
  BY <1>2
<1> DEFINE q == Peer(e)
           p == Peer(q)
<1>4. q \in Ends /\ q # e /\ p \in Ends /\ p # q
  BY <1>3
<1> HIDE DEF q, p
<1>5. p = e /\ Ends = {e, q}
  BY <1>1, <1>4
<1>6. QED
  BY <1>4, <1>5 DEF q, p

\* The lines without the packet that e has read, if any.
Taken(w, e) == w = wire \/ (wire[e] # << >> /\ w = Rest(e))

\* Reading a packet leaves the lines as tidy as they were.
LEMMA TakenFacts ==
  ASSUME Inv, NEW e \in Ends, NEW w, Taken(w, e)
  PROVE  /\ w \in [Ends -> Seq(Frame)]
         /\ \A x \in Ends : Single(w, x) /\ (Idle(wire, x) => Idle(w, x))
         /\ \A x \in Ends : \A i \in 1 .. Len(w[x]) :
               w[x][i].code = "CONFACK" => Granted(conf[Peer(x)], ho[Peer(x)], w[x][i].opts)
<1>1. wire \in [Ends -> Seq(Frame)]
  BY DEF Inv, Typed
<1>2. CASE w = wire
  BY <1>1, <1>2 DEF Inv, Exchanges, Agreed
<1>3. CASE wire[e] # << >> /\ w = Rest(e)
  <2>1. w = [wire EXCEPT ![e] = Tail(wire[e])]
    BY <1>3 DEF Rest
  <2>2. Tail(wire[e]) \in Seq(Frame)
    BY <1>1, <1>3, LineTail
  <2>3. w \in [Ends -> Seq(Frame)]
    BY <1>1, <2>1, <2>2
  <2>4. ASSUME NEW y \in Ends, NEW K
        PROVE  (No(wire[y], K) => No(w[y], K)) /\ (One(wire[y], K) => One(w[y], K))
    <3>1. CASE y = e
      <4>1. w[y] = Tail(wire[e]) /\ wire[e] \in Seq(Frame)
        BY <1>1, <2>1, <3>1
      <4>2. QED
        BY <1>3, <3>1, <4>1, LineTail
    <3>2. CASE y # e
      <4>1. w[y] = wire[y]
        BY <1>1, <2>1, <3>2
      <4>2. QED
        BY <4>1
    <3>3. QED
      BY <3>1, <3>2
  <2>5. ASSUME NEW x \in Ends
        PROVE  Single(w, x) /\ (Idle(wire, x) => Idle(w, x))
    <3>1. Peer(x) \in Ends /\ Single(wire, x)
      BY PeerFacts DEF Inv, Exchanges
    <3>2. QED
      BY <2>4, <3>1 DEF Single, Idle
  <2>6. ASSUME NEW x \in Ends, NEW i \in 1 .. Len(w[x]), w[x][i].code = "CONFACK"
        PROVE  Granted(conf[Peer(x)], ho[Peer(x)], w[x][i].opts)
    <3>1. \E j \in 1 .. Len(wire[x]) : w[x][i] = wire[x][j]
      <4>1. CASE x = e
        <5>1. w[x] = Tail(wire[e]) /\ wire[e] \in Seq(Frame)
          BY <1>1, <2>1, <4>1
        <5>2. QED
          BY <1>3, <4>1, <5>1, LineTail
      <4>2. CASE x # e
        <5>1. w[x] = wire[x]
          BY <1>1, <2>1, <4>2
        <5>2. QED
          BY <5>1
      <4>3. QED
        BY <4>1, <4>2
    <3>2. PICK j \in 1 .. Len(wire[x]) : w[x][i] = wire[x][j]
      BY <3>1
    <3>3. wire[x][j].code = "CONFACK"
      BY <2>6, <3>2
    <3>4. Granted(conf[Peer(x)], ho[Peer(x)], wire[x][j].opts)
      BY <3>3 DEF Inv, Agreed
    <3>5. QED
      BY <3>2, <3>4
  <2>7. QED
    BY <2>3, <2>5, <2>6
<1>4. QED
  BY <1>2, <1>3 DEF Taken

\* e puts F behind what is on its way to its peer: requests if nothing of e's is
\* under way, answers if nothing of the peer's is.
LEMMA SentFacts ==
  ASSUME NEW w \in [Ends -> Seq(Frame)], NEW e \in Ends, NEW F \in Seq(Frame), NEW v,
         Single(w, e), Single(w, Peer(e)),
         One(F, Asks), No(F, Asks) \/ Idle(w, e),
         One(F, Answers), No(F, Answers) \/ Idle(w, Peer(e)),
         v = [w EXCEPT ![Peer(e)] = @ \o F]
  PROVE  /\ v \in [Ends -> Seq(Frame)]
         /\ v[e] = w[e] /\ v[Peer(e)] = w[Peer(e)] \o F
         /\ Single(v, e) /\ Single(v, Peer(e))
         /\ Idle(w, e) /\ No(F, Asks) => Idle(v, e)
         /\ Idle(w, Peer(e)) /\ No(F, Answers) => Idle(v, Peer(e))
<1> DEFINE q == Peer(e)
<1>1. q \in Ends /\ q # e /\ Peer(q) = e
  BY PeerFacts
<1> HIDE DEF q
<1>2. w[q] \in Seq(Frame) /\ w[e] \in Seq(Frame) /\ w[q] \o F \in Seq(Frame)
  BY <1>1
<1>3. v \in [Ends -> Seq(Frame)] /\ v[e] = w[e] /\ v[q] = w[q] \o F
  BY <1>1, <1>2 DEF q
<1>4. \A K : /\ No(w[q], K) /\ No(F, K) => No(v[q], K)
             /\ One(w[q], K) /\ No(F, K) => One(v[q], K)
             /\ No(w[q], K) /\ One(F, K) => One(v[q], K)
  <2> DEFINE a == w[q]
  <2>1. a \in Seq(Frame)
    BY <1>2
  <2> HIDE DEF a
  <2>2. \A K : /\ No(a, K) /\ No(F, K) => No(a \o F, K)
               /\ One(a, K) /\ No(F, K) => One(a \o F, K)
               /\ No(a, K) /\ One(F, K) => One(a \o F, K)
    BY <2>1, LineConcat
  <2>3. v[q] = a \o F
    BY <1>3 DEF a
  <2>4. QED
    BY <2>2, <2>3 DEF a
<1>5. /\ One(w[q], Asks) /\ One(w[e], Answers) /\ (No(w[q], Asks) \/ No(w[e], Answers))
      /\ One(w[e], Asks) /\ One(w[q], Answers) /\ (No(w[e], Asks) \/ No(w[q], Answers))
      /\ No(F, Asks) \/ (No(w[q], Asks) /\ No(w[e], Answers))
      /\ No(F, Answers) \/ (No(w[e], Asks) /\ No(w[q], Answers))
  BY <1>1 DEF Single, Idle, q
<1>6. Single(v, e)
  BY <1>3, <1>4, <1>5 DEF Single, q
<1>7. Single(v, q)
  BY <1>1, <1>3, <1>4, <1>5 DEF Single
<1>8. Idle(w, e) /\ No(F, Asks) => Idle(v, e)
  BY <1>3, <1>4 DEF Idle, q
<1>9. Idle(w, q) /\ No(F, Answers) => Idle(v, q)
  BY <1>1, <1>3, <1>4 DEF Idle
<1>10. QED
  BY <1>3, <1>6, <1>7, <1>8, <1>9 DEF q

\* The heart of the argument: an operation of e that turns its fsm into n and
\* sends F preserves the invariant if it meets the conditions below.
LEMMA Preserved ==
  ASSUME Inv, NEW e \in Ends, NEW w, Taken(w, e), NEW F \in Seq(Frame), NEW n, Fresh(n),
         NEW o \in Options, NEW h \in Lists, NEW q, q = Peer(e),
         wire' = [w EXCEPT ![q] = @ \o F], f' = [f EXCEPT ![e] = n],
         go' = [go EXCEPT ![e] = o], ho' = [ho EXCEPT ![e] = h], conf' = conf,
         req' \subseteq Ends, losses' \in 0 .. MaxLosses, downs' \in [Ends -> 0 .. MaxDowns],
         up' \subseteq Ends, up' \ {e} = up \ {e}, e \in up' => n.state = "OPENED",
         over' \subseteq Ends, over' \ {e} = over \ {e}, e \in over' => n.state = "INITIAL",
         One(F, Asks), No(F, Asks) \/ Idle(w, e),
         One(F, Answers), No(F, Answers) \/ (Idle(w, q) /\ ~ Idle(wire, q)),
         n.state \in Resting => Idle(w, e) /\ No(F, Asks),
         h = ho[e] \/ (Idle(w, q) /\ ~ Idle(wire, q)),
         \A i \in 1 .. Len(F) : F[i].code = "CONFACK" => Granted(conf[e], h, F[i].opts),
         n.state \in {"ACKRCVD", "OPENED"} => Granted(conf[q], ho[q], ipcp_addci(o)),
         e \notin over' /\ n.state \in Deaf /\ f[q].state \notin Deaf /\ downs'[e] = downs'[q]
           => Idle(w, e) /\ No(F, Asks),
         q \notin over /\ f[q].state \in Deaf /\ n.state \notin Deaf /\ downs'[e] = downs'[q]
           => Idle(w, q) /\ No(F, Answers),
         downs'[e] > downs'[q] => n.state \in Deaf,
         downs'[q] > downs'[e] => f[q].state \in Deaf
  PROVE  Inv'
<1>1. q \in Ends /\ q # e /\ Peer(q) = e /\ Peer(e) = q /\ Ends = {e, q}
  BY PeerFacts
<1>2. /\ w \in [Ends -> Seq(Frame)] /\ Single(w, e) /\ Single(w, q)
      /\ Idle(wire, e) => Idle(w, e)
      /\ Idle(wire, q) => Idle(w, q)
      /\ \A i \in 1 .. Len(w[e]) : w[e][i].code = "CONFACK" => Granted(conf[q], ho[q], w[e][i].opts)
      /\ \A i \in 1 .. Len(w[q]) : w[q][i].code = "CONFACK" => Granted(conf[e], ho[e], w[q][i].opts)
  BY <1>1, TakenFacts
<1>3. /\ wire' \in [Ends -> Seq(Frame)] /\ wire'[e] = w[e] /\ wire'[q] = w[q] \o F
      /\ Single(wire', e) /\ Single(wire', q)
      /\ Idle(w, e) /\ No(F, Asks) => Idle(wire', e)
      /\ Idle(w, q) /\ No(F, Answers) => Idle(wire', q)
  <2>1. /\ wire' = [w EXCEPT ![Peer(e)] = @ \o F] /\ Single(w, Peer(e))
        /\ No(F, Answers) \/ Idle(w, Peer(e))
    BY <1>2
  <2>2. /\ wire' \in [Ends -> Seq(Frame)]
        /\ wire'[e] = w[e] /\ wire'[Peer(e)] = w[Peer(e)] \o F
        /\ Single(wire', e) /\ Single(wire', Peer(e))
        /\ Idle(w, e) /\ No(F, Asks) => Idle(wire', e)
        /\ Idle(w, Peer(e)) /\ No(F, Answers) => Idle(wire', Peer(e))
    BY <1>2, <2>1, SentFacts
  <2>3. QED
    BY <1>1, <2>2
<1>4. /\ f \in [Ends -> FSM] /\ go \in [Ends -> Options] /\ ho \in [Ends -> Lists]
      /\ conf \in [Ends -> Options] /\ downs \in [Ends -> 0 .. MaxDowns]
      /\ Lives(q) /\ Exchanges(q) /\ Follows(q) /\ Agreed(q)
  BY <1>1 DEF Inv, Typed
<1>5. /\ f'[e] = n /\ f'[q] = f[q] /\ go'[e] = o /\ go'[q] = go[q]
      /\ ho'[e] = h /\ ho'[q] = ho[q]
      /\ f' \in [Ends -> FSM] /\ go' \in [Ends -> Options] /\ ho' \in [Ends -> Lists]
  BY <1>1, <1>4 DEF Fresh
<1>6. q \in up' <=> q \in up
  BY <1>1
<1>7. q \in over' <=> q \in over
  BY <1>1
<1>8. Typed'
  BY <1>3, <1>4, <1>5 DEF Typed
<1>9. Lives(e)' /\ Lives(q)'
  BY <1>4, <1>5, <1>6, <1>7 DEF Lives
<1>10. Exchanges(e)'
  <2>1. n.state \in Resting => Idle(wire', e)
    BY <1>3
  <2>2. QED
    BY <1>3, <1>5, <2>1 DEF Exchanges
<1>11. Exchanges(q)'
  <2>1. f[q].state \in Resting => Idle(wire', q)
    <3>1. CASE No(F, Answers)
      BY <1>2, <1>3, <1>4, <3>1 DEF Exchanges
    <3>2. CASE ~ No(F, Answers)
      BY <1>4, <3>2 DEF Exchanges
    <3>3. QED
      BY <3>1, <3>2
  <2>2. QED
    BY <1>3, <1>5, <2>1 DEF Exchanges
<1>12. Follows(e)' /\ Follows(q)'
  <2>1. e \notin over' /\ n.state \in Deaf /\ f[q].state \notin Deaf /\ downs'[e] = downs'[q]
          => Idle(wire', e)
    BY <1>3
  <2>2. q \notin over' /\ f[q].state \in Deaf /\ n.state \notin Deaf /\ downs'[e] = downs'[q]
          => Idle(wire', q)
    BY <1>3, <1>7
  <2>3. QED
    BY <1>1, <1>5, <2>1, <2>2 DEF Follows
<1>13. Agreed(e)'
  <2>1. \A i \in 1 .. Len(wire'[e]) :
           wire'[e][i].code = "CONFACK" => Granted(conf'[q], ho'[q], wire'[e][i].opts)
    <3>1. wire'[e] = w[e] /\ ho'[q] = ho[q] /\ conf'[q] = conf[q]
      BY <1>3, <1>5
    <3>2. \A i \in 1 .. Len(w[e]) :
             w[e][i].code = "CONFACK" => Granted(conf[q], ho[q], w[e][i].opts)
      BY <1>2
    <3>3. QED
      BY <3>1, <3>2
  <2>2. f'[e].state \in {"ACKRCVD", "OPENED"} => Granted(conf'[q], ho'[q], ipcp_addci(go'[e]))
    BY <1>5
  <2>3. QED
    BY <1>1, <2>1, <2>2 DEF Agreed
<1>14. Agreed(q)'
  <2>1. \A i \in 1 .. Len(w[q]) : w[q][i].code = "CONFACK" => Granted(conf[e], h, w[q][i].opts)
    <3>1. Idle(w, q) => \A i \in 1 .. Len(w[q]) : w[q][i].code # "CONFACK"
      BY DEF Idle, No, Answers
    <3>2. QED
      BY <1>2, <3>1
  <2>2. ASSUME NEW i \in 1 .. Len(wire'[q]), wire'[q][i].code = "CONFACK"
        PROVE  Granted(conf'[e], ho'[e], wire'[q][i].opts)
    <3> DEFINE v == w[q]
    <3>1. v \in Seq(Frame) /\ wire'[q] = v \o F
      BY <1>1, <1>2, <1>3
    <3> HIDE DEF v
    <3>2. \/ i \in 1 .. Len(v) /\ wire'[q][i] = v[i]
          \/ \E j \in 1 .. Len(F) : wire'[q][i] = F[j]
      <4>1. \A k \in 1 .. Len(v \o F) :
               \/ k \in 1 .. Len(v) /\ (v \o F)[k] = v[k]
               \/ \E j \in 1 .. Len(F) : (v \o F)[k] = F[j]
        BY <3>1, LineConcat
      <4>2. QED
        BY <3>1, <4>1
    <3>3. QED
      BY <1>5, <2>1, <2>2, <3>2 DEF v
  <2>3. f[q].state \in {"ACKRCVD", "OPENED"} => Granted(conf[e], h, ipcp_addci(go[q]))
    <3>1. f[q].state \in {"ACKRCVD", "OPENED"} => Granted(conf[e], ho[e], ipcp_addci(go[q]))
      BY <1>1, <1>4 DEF Agreed
    <3>2. f[q].state \in {"ACKRCVD", "OPENED"} => Idle(wire, q)
      BY <1>4 DEF Exchanges, Resting
    <3>3. QED
      BY <3>1, <3>2
  <2>4. f'[q].state \in {"ACKRCVD", "OPENED"} => Granted(conf'[e], ho'[e], ipcp_addci(go'[q]))
    BY <1>5, <2>3
  <2>5. QED
    BY <1>1, <2>2, <2>4 DEF Agreed
<1>15. QED
  <2>1. \A x \in Ends : (Lives(x) /\ Exchanges(x) /\ Follows(x) /\ Agreed(x))'
    BY <1>1, <1>9, <1>10, <1>11, <1>12, <1>13, <1>14
  <2>2. QED
    BY <1>8, <2>1 DEF Inv

\* The same of the codes of the packets an fsm has sent.
NoCode(w, K) == \A i \in 1 .. Len(w) : w[i] \notin K
OneCode(w, K) == \A i, j \in 1 .. Len(w) : w[i] \in K /\ w[j] \in K => i = j

\* What holds of the codes an fsm sent holds of the packets on the line.
LEMMA FramesCodes ==
  ASSUME NEW g, NEW s, NEW C, NEW w, Ran(g, s, C, w), NEW o \in Options, NEW reply \in Lists
  PROVE  /\ Frames(g, o, reply) \in Seq(Frame)
         /\ \A K : /\ NoCode(w, K) => No(Frames(g, o, reply), K)
                   /\ OneCode(w, K) => One(Frames(g, o, reply), K)
         /\ \A i \in 1 .. Len(Frames(g, o, reply)) :
               Frames(g, o, reply)[i].code = "CONFACK" =>
                  ~ NoCode(w, {"CONFACK"}) /\ Frames(g, o, reply)[i].opts = reply
<1> DEFINE F == Frames(g, o, reply)
<1>1. /\ F \in Seq(Frame) /\ Len(F) = Len(w)
      /\ \A i \in 1 .. Len(w) :
            /\ F[i].code = w[i]
            /\ w[i] \in {"CONFACK", "CONFNAK", "CONFREJ"} => F[i].opts = reply
  BY FramesFacts
<1> HIDE DEF F
<1>2. \A K : (NoCode(w, K) => No(F, K)) /\ (OneCode(w, K) => One(F, K))
  BY <1>1 DEF No, One, NoCode, OneCode
<1>3. \A i \in 1 .. Len(F) :
         F[i].code = "CONFACK" => ~ NoCode(w, {"CONFACK"}) /\ F[i].opts = reply
  BY <1>1 DEF NoCode
<1>4. QED
  BY <1>1, <1>2, <1>3 DEF F

\* One more code.
LEMMA AppendCode ==
  ASSUME NEW w \in Seq(Codes), NEW c \in Codes
  PROVE  \A K : /\ NoCode(w, K) /\ c \notin K => NoCode(Append(w, c), K)
                /\ OneCode(w, K) /\ c \notin K => OneCode(Append(w, c), K)
                /\ NoCode(w, K) => OneCode(Append(w, c), K)
<1> DEFINE a == Append(w, c)
           n == Len(w)
<1>1. /\ n \in Nat /\ Len(a) = n + 1 /\ a[n + 1] = c
      /\ \A i \in 1 .. n : a[i] = w[i]
  BY AppendProperties
<1> HIDE DEF a, n
<1>2. \A i \in 1 .. n + 1 : (i \in 1 .. n /\ a[i] = w[i]) \/ (i = n + 1 /\ a[i] = c)
  BY <1>1
<1>3. ASSUME NEW K, \A i \in 1 .. n : w[i] \notin K, c \notin K
      PROVE  \A i \in 1 .. n + 1 : a[i] \notin K
  BY <1>2, <1>3
<1>4. ASSUME NEW K, \A i, j \in 1 .. n : w[i] \in K /\ w[j] \in K => i = j, c \notin K
      PROVE  \A i, j \in 1 .. n + 1 : a[i] \in K /\ a[j] \in K => i = j
  BY <1>2, <1>4
<1>5. ASSUME NEW K, \A i \in 1 .. n : w[i] \notin K
      PROVE  \A i, j \in 1 .. n + 1 : a[i] \in K /\ a[j] \in K => i = j
  BY <1>2, <1>5
<1>6. \A K : /\ NoCode(w, K) /\ c \notin K => NoCode(a, K)
             /\ OneCode(w, K) /\ c \notin K => OneCode(a, K)
             /\ NoCode(w, K) => OneCode(a, K)
  BY <1>1, <1>3, <1>4, <1>5 DEF NoCode, OneCode, n
<1>7. QED
  BY <1>6 DEF a

\* An fsm is fresh again when its callbacks are made and its packets sent.
LEMMA FreshFacts ==
  /\ Fresh(fsm_init({}, 0)) /\ fsm_init({}, 0).state = "INITIAL"
  /\ \A g \in FSM : Fresh(Begin(g)) /\ Begin(g).state = g.state
<1>1. Fresh(fsm_init({}, 0)) /\ fsm_init({}, 0).state = "INITIAL"
  <2>1. 0 \in Ids /\ 0 \in 0 .. MaxNak /\ << >> \in Seq(Packet)
    BY FsmAssumption DEF Ids
  <2>2. QED
    BY <2>1 DEF Fresh, fsm_init, FSM, States
<1>2. ASSUME NEW g \in FSM PROVE Fresh(Begin(g)) /\ Begin(g).state = g.state
  <2> DEFINE h == [g EXCEPT !.cb = {}]
  <2>1. h \in FSM /\ h.cb = {} /\ h.state = g.state
    BY DEF FSM
  <2>2. Begin(g) = [h EXCEPT !.out = << >>] /\ << >> \in Seq(Packet)
    BY DEF Begin
  <2> HIDE DEF h
  <2>3. QED
    BY <2>1, <2>2 DEF Fresh, FSM
<1>3. QED
  BY <1>1, <1>2

\* Preserved, of the steps that Step describes: g is what an operation of fsm.c
\* leaves, whether ipcp_up finds the addresses it needs or not.
LEMMA StepKeeps ==
  ASSUME Inv, NEW e \in Ends, e \notin over, NEW q, q = Peer(e), NEW w, Taken(w, e),
         NEW g, NEW s, NEW C, NEW codes \in Seq(Codes), Ran(g, s, C, codes),
         NEW o \in Options, NEW h \in Lists, NEW reply \in Lists,
         Step(e, w, g, o, h, reply), conf' = conf,
         req' \subseteq Ends, losses' \in 0 .. MaxLosses, downs' \in [Ends -> 0 .. MaxDowns],
         "up" \in C => s = "OPENED" /\ e \notin up,
         e \in up => s = "OPENED" \/ "down" \in C,
         "down" \in C => "up" \notin C,
         OneCode(codes, Asks), NoCode(codes, Asks) \/ Idle(w, e),
         OneCode(codes, Answers), NoCode(codes, Answers) \/ (Idle(w, q) /\ ~ Idle(wire, q)),
         s \in Resting => Idle(w, e) /\ NoCode(codes, Asks),
         h = ho[e] \/ (Idle(w, q) /\ ~ Idle(wire, q)),
         NoCode(codes, {"CONFACK"}) \/ Granted(conf[e], h, reply),
         s \in {"ACKRCVD", "OPENED"} => Granted(conf[q], ho[q], ipcp_addci(o)),
         s \in Deaf /\ f[q].state \notin Deaf /\ downs'[e] = downs'[q]
           => Idle(w, e) /\ NoCode(codes, Asks),
         q \notin over /\ f[q].state \in Deaf /\ s \notin Deaf /\ downs'[e] = downs'[q]
           => Idle(w, q) /\ NoCode(codes, Answers),
         downs'[e] > downs'[q] => s \in Deaf,
         downs'[q] > downs'[e] => f[q].state \in Deaf
  PROVE  Inv'
<1> DEFINE fails == "up" \in g.cb /\ ~ Usable(e, o, h)
           last == IF fails THEN fsm_close(g) ELSE g
           F == Frames(last, o, reply)
           n == IF fails THEN fsm_init({}, 0) ELSE Begin(g)
<1>1. /\ wire' = [w EXCEPT ![q] = @ \o F] /\ f' = [f EXCEPT ![e] = n]
      /\ go' = [go EXCEPT ![e] = o] /\ ho' = [ho EXCEPT ![e] = h]
      /\ over' = IF fails THEN over \cup {e} ELSE over
      /\ up' = IF "up" \in g.cb /\ ~ fails THEN up \cup {e}
               ELSE IF "down" \in g.cb THEN up \ {e} ELSE up
  BY DEF Step
<1>2. /\ g \in FSM /\ g.state = s
      /\ "up" \in g.cb <=> "up" \in C
      /\ "down" \in g.cb <=> "down" \in C
  BY DEF Ran
<1>3. /\ q \in Ends /\ q # e /\ up \subseteq Ends /\ over \subseteq Ends
  BY PeerFacts DEF Inv, Typed
<1>4. CASE fails
  <2>1. s = "OPENED" /\ "up" \in C /\ e \notin up /\ Idle(w, e) /\ NoCode(codes, Asks)
    BY <1>2, <1>4 DEF Resting
  <2>2. Ran(last, "CLOSING", C \cup {"down"}, Append(codes, "TERMREQ"))
    BY <1>4, <2>1, CloseRan
  <2> HIDE DEF last
  <2>3. /\ F \in Seq(Frame)
        /\ \A K : /\ NoCode(Append(codes, "TERMREQ"), K) => No(F, K)
                  /\ OneCode(Append(codes, "TERMREQ"), K) => One(F, K)
        /\ \A i \in 1 .. Len(F) :
              F[i].code = "CONFACK" =>
                ~ NoCode(Append(codes, "TERMREQ"), {"CONFACK"}) /\ F[i].opts = reply
    BY <2>2, FramesCodes
  <2>4. /\ "TERMREQ" \in Codes /\ "TERMREQ" \notin Answers /\ "TERMREQ" \notin {"CONFACK"}
    BY DEF Codes, Answers
  <2>5. \A K : /\ NoCode(codes, K) /\ "TERMREQ" \notin K => NoCode(Append(codes, "TERMREQ"), K)
               /\ OneCode(codes, K) /\ "TERMREQ" \notin K => OneCode(Append(codes, "TERMREQ"), K)
               /\ NoCode(codes, K) => OneCode(Append(codes, "TERMREQ"), K)
    BY <2>4, AppendCode
  <2> HIDE DEF F
  <2>6. /\ One(F, Asks) /\ One(F, Answers)
        /\ No(F, Answers) \/ (Idle(w, q) /\ ~ Idle(wire, q))
        /\ \A i \in 1 .. Len(F) : F[i].code = "CONFACK" => Granted(conf[e], h, F[i].opts)
    BY <2>1, <2>3, <2>4, <2>5
  <2>7. n = fsm_init({}, 0)
    BY <1>4
  <2> HIDE DEF n, fails
  <2>8. Fresh(n) /\ n.state = "INITIAL"
    BY <2>7, FreshFacts
  <2>9. /\ over' = over \cup {e} /\ e \in over' /\ over' \subseteq Ends /\ over' \ {e} = over \ {e}
        /\ up' \subseteq Ends /\ up' \ {e} = up \ {e} /\ e \notin up'
    BY <1>1, <1>3, <1>4, <2>1
  <2>10. n.state \notin Resting /\ n.state \notin {"ACKRCVD", "OPENED"} /\ n.state \in Deaf
    BY <2>8 DEF Resting, Deaf
  <2>11. QED
    BY <1>1, <2>1, <2>3, <2>6, <2>8, <2>9, <2>10, Preserved
<1>5. CASE ~ fails
  <2>1. last = g /\ n = Begin(g)
    BY <1>5
  <2> HIDE DEF last
  <2>2. /\ F \in Seq(Frame)
        /\ \A K : /\ NoCode(codes, K) => No(F, K)
                  /\ OneCode(codes, K) => One(F, K)
        /\ \A i \in 1 .. Len(F) :
              F[i].code = "CONFACK" => ~ NoCode(codes, {"CONFACK"}) /\ F[i].opts = reply
    BY <2>1, FramesCodes
  <2> HIDE DEF F, n, fails
  <2>3. Fresh(n) /\ n.state = s
    BY <1>2, <2>1, FreshFacts
  <2>4. /\ over' = over /\ up' \subseteq Ends /\ up' \ {e} = up \ {e}
        /\ e \in up' => s = "OPENED"
    BY <1>1, <1>2, <1>3, <1>5
  <2>5. /\ One(F, Asks) /\ One(F, Answers)
        /\ No(F, Asks) \/ Idle(w, e)
        /\ No(F, Answers) \/ (Idle(w, q) /\ ~ Idle(wire, q))
        /\ s \in Resting => Idle(w, e) /\ No(F, Asks)
        /\ \A i \in 1 .. Len(F) : F[i].code = "CONFACK" => Granted(conf[e], h, F[i].opts)
    BY <2>2
  <2>6. /\ s \in Deaf /\ f[q].state \notin Deaf /\ downs'[e] = downs'[q]
             => Idle(w, e) /\ No(F, Asks)
        /\ q \notin over /\ f[q].state \in Deaf /\ s \notin Deaf /\ downs'[e] = downs'[q]
             => Idle(w, q) /\ No(F, Answers)
    BY <2>2
  <2>7. QED
    BY <1>1, <1>3, <2>2, <2>3, <2>4, <2>5, <2>6, Preserved
<1>6. QED
  BY <1>4, <1>5

----------------------------------------------------------------------------
(* The lists of packets and of options that occur.                         *)

\* What the lists of codes of this module hold.
LEMMA CodeLists ==
  /\ << >> \in Seq(Codes)
  /\ \A K : NoCode(<< >>, K) /\ OneCode(<< >>, K)
  /\ \A c \in Codes : <<c>> \in Seq(Codes)
  /\ \A c, K : OneCode(<<c>>, K) /\ (c \notin K => NoCode(<<c>>, K))
  /\ \A c \in Replies :
        /\ c \in Codes /\ <<"CONFREQ", c>> \in Seq(Codes)
        /\ OneCode(<<"CONFREQ", c>>, Asks) /\ OneCode(<<"CONFREQ", c>>, Answers)
        /\ c # "CONFACK" => NoCode(<<"CONFREQ", c>>, {"CONFACK"})
        /\ NoCode(<<c>>, Asks)
<1>1. << >> \in Seq(Codes) /\ \A K : NoCode(<< >>, K) /\ OneCode(<< >>, K)
  BY DEF NoCode, OneCode
<1>2. \A c \in Codes : <<c>> \in Seq(Codes)
  OBVIOUS
<1>3. ASSUME NEW c, NEW K
      PROVE  OneCode(<<c>>, K) /\ (c \notin K => NoCode(<<c>>, K))
  <2>1. Len(<<c>>) = 1 /\ <<c>>[1] = c
    OBVIOUS
  <2>2. QED
    BY <2>1 DEF NoCode, OneCode
<1>4. ASSUME NEW c \in Replies
      PROVE  /\ c \in Codes /\ <<"CONFREQ", c>> \in Seq(Codes)
             /\ OneCode(<<"CONFREQ", c>>, Asks) /\ OneCode(<<"CONFREQ", c>>, Answers)
             /\ c # "CONFACK" => NoCode(<<"CONFREQ", c>>, {"CONFACK"})
             /\ NoCode(<<c>>, Asks)
  <2>1. c \in Codes /\ c \notin Asks /\ "CONFREQ" \in Codes /\ "CONFREQ" \notin Answers
    BY DEF Replies, Codes, Asks, Answers
  <2> DEFINE w == <<"CONFREQ", c>>
  <2>2. w \in Seq(Codes) /\ Len(w) = 2 /\ w[1] = "CONFREQ" /\ w[2] = c
    BY <2>1
  <2> HIDE DEF w
  <2>3. OneCode(w, Asks) /\ OneCode(w, Answers) /\ (c # "CONFACK" => NoCode(w, {"CONFACK"}))
    BY <2>1, <2>2 DEF OneCode, NoCode
  <2>4. QED
    BY <1>3, <2>1, <2>2, <2>3 DEF w
<1>5. QED
  BY <1>1, <1>2, <1>3, <1>4

\* Option lists by their parts.
LEMMA ListFacts ==
  /\ None \in Lists
  /\ \A r \in Lists : /\ DOMAIN r \subseteq CIs
                      /\ "addr" \in DOMAIN r => r["addr"] \in Addrs
                      /\ "vj" \in DOMAIN r => r["vj"] \in VJ
<1>1. \A r \in Lists : /\ DOMAIN r \subseteq CIs
                       /\ "addr" \in DOMAIN r => r["addr"] \in Addrs
                       /\ "vj" \in DOMAIN r => r["vj"] \in VJ
  BY DEF Lists
<1>2. None \in [{} -> Addrs \cup VJ] /\ DOMAIN None = {}
  BY DEF None
<1>3. QED
  BY <1>1, <1>2 DEF Lists

\* A function with values of the right kinds is an option list.
LEMMA ListIntro ==
  ASSUME NEW D \in SUBSET CIs, NEW r, r = [c \in D |-> r[c]],
         \A c \in D : IF c = "addr" THEN r[c] \in Addrs ELSE r[c] \in VJ
  PROVE  r \in Lists
<1>1. DOMAIN r = D /\ \A c \in D : r[c] \in Addrs \cup VJ
  OBVIOUS
<1>2. r \in [D -> Addrs \cup VJ]
  BY <1>1
<1>3. /\ "addr" \in DOMAIN r => r["addr"] \in Addrs
      /\ "vj" \in DOMAIN r => r["vj"] \in VJ
  BY <1>1
<1>4. QED
  BY <1>2, <1>3 DEF Lists


\* A configuration, and the request made of one, keep their types.
LEMMA OptionTypes ==
  /\ \A c \in Options : ipcp_resetci(c) \in Options /\ ipcp_resetci(c).neg = c.neg
  /\ \A o \in Options : ipcp_addci(o) \in Lists /\ DOMAIN ipcp_addci(o) = o.neg
<1>1. ASSUME NEW c \in Options
      PROVE  ipcp_resetci(c) \in Options /\ ipcp_resetci(c).neg = c.neg
  BY DEF ipcp_resetci, Options
<1>2. ASSUME NEW o \in Options
      PROVE  ipcp_addci(o) \in Lists /\ DOMAIN ipcp_addci(o) = o.neg
  <2>1. o.neg \in SUBSET CIs /\ o.ouraddr \in Addrs /\ o.vj \in VJ
    BY DEF Options
  <2> DEFINE r == ipcp_addci(o)
  <2>2. DOMAIN r = o.neg /\ \A c \in o.neg : r[c] = IF c = "addr" THEN o.ouraddr ELSE o.vj
    BY DEF ipcp_addci, Value
  <2>3. r = [c \in o.neg |-> r[c]]
    BY DEF ipcp_addci
  <2> HIDE DEF r
  <2>4. r \in Lists
    BY <2>1, <2>2, <2>3, ListIntro
  <2>5. QED
    BY <2>2, <2>4 DEF r
<1>3. QED
  BY <1>1, <1>2

\* What ipcp_nakci and ipcp_rejci make of a Nak and of a Reject.
LEMMA AnswerTypes ==
  ASSUME NEW o \in Options, NEW r \in Lists
  PROVE  ipcp_nakci(o, r) \in Options /\ ipcp_rejci(o, r) \in Options
<1>1. /\ DOMAIN r \subseteq CIs
      /\ "addr" \in DOMAIN r => r["addr"] \in Addrs
      /\ "vj" \in DOMAIN r => r["vj"] \in VJ
  BY ListFacts
<1>2. ipcp_rejci(o, r) \in Options
  BY DEF ipcp_rejci, Options
<1>3. ipcp_nakci(o, r) \in Options
  <2> DEFINE known == "addr" \in DOMAIN r /\ o.accept_local /\ r["addr"] # 0
             fewer == r["vj"].maxslotindex < o.vj.maxslotindex
             vj == [maxslotindex |-> IF fewer THEN r["vj"].maxslotindex ELSE o.vj.maxslotindex,
                    cflag        |-> o.vj.cflag /\ r["vj"].cflag]
             N == o.neg \cup (DOMAIN r \cap {"addr"})
             A == IF known THEN r["addr"] ELSE o.ouraddr
             V == IF "vj" \in DOMAIN r \cap o.neg THEN vj ELSE o.vj
  <2>1. o.neg \in SUBSET CIs /\ o.ouraddr \in Addrs /\ o.vj \in VJ
    BY DEF Options
  <2>2. N \in SUBSET CIs /\ A \in Addrs
    BY <1>1, <2>1
  <2>3. V \in VJ
    BY <1>1, <2>1 DEF VJ
  <2>4. ipcp_nakci(o, r) = [o EXCEPT !.neg = N, !.ouraddr = A, !.vj = V]
    BY DEF ipcp_nakci
  <2> HIDE DEF N, A, V
  <2>5. QED
    BY <2>2, <2>3, <2>4 DEF Options
<1>4. QED
  BY <1>2, <1>3

\* ipcp_reqci: its reply and ipcp_hisoptions are option lists, and an Ack repeats
\* a request whose options are all granted.
LEMMA RequestTypes ==
  ASSUME NEW c \in Options, NEW r \in Lists, NEW asks, NEW tough, NEW wo, wo = ipcp_resetci(c)
  PROVE  /\ HisOptions(wo, r) \in Lists
         /\ Verdict(wo, asks, r, tough) \in Replies
         /\ Reply(wo, asks, r, tough) \in Lists
         /\ Verdict(wo, asks, r, tough) = "CONFACK"
              => Granted(c, HisOptions(wo, r), Reply(wo, asks, r, tough))
<1>1. wo \in Options
  BY OptionTypes
<1>2. wo.neg \in SUBSET CIs /\ wo.hisaddr \in Addrs /\ wo.vj \in VJ
  BY <1>1 DEF Options
<1>3. /\ DOMAIN r \subseteq CIs
      /\ "addr" \in DOMAIN r => r["addr"] \in Addrs
      /\ "vj" \in DOMAIN r => r["vj"] \in VJ
  BY ListFacts
<1>4. \A x \in DOMAIN r : x = "addr" \/ x = "vj"
  BY <1>3 DEF CIs
<1>5. HisOptions(wo, r) \in Lists
  <2> DEFINE D == DOMAIN r \ Refused(wo, r)
             h == HisOptions(wo, r)
  <2>1. D \in SUBSET CIs
    BY <1>3
  <2>2. h = [x \in D |-> h[x]] /\ \A x \in D :
           h[x] = IF x = "addr" THEN r[x] ELSE [r[x] EXCEPT !.cflag = wo.vj.cflag]
    BY DEF HisOptions
  <2>3. wo.vj.cflag \in BOOLEAN
    BY <1>2 DEF VJ
  <2>4. \A x \in D : IF x = "addr" THEN h[x] \in Addrs ELSE h[x] \in VJ
    BY <1>3, <1>4, <2>2, <2>3 DEF VJ
  <2> HIDE DEF h, D
  <2>5. QED
    BY <2>1, <2>2, <2>4, ListIntro DEF h
<1>6. Verdict(wo, asks, r, tough) \in Replies
  BY DEF Verdict, Replies
<1>7. \A x \in DOMAIN r : IF x = "addr" THEN Proposal(wo, r, x) \in Addrs
                                        ELSE Proposal(wo, r, x) \in VJ
  <2>1. "addr" \in DOMAIN r => Proposal(wo, r, "addr") \in Addrs
    BY <1>2, <1>3 DEF Proposal
  <2>2. "vj" \in DOMAIN r => Proposal(wo, r, "vj") \in VJ
    <3> SUFFICES ASSUME "vj" \in DOMAIN r PROVE Proposal(wo, r, "vj") \in VJ
      OBVIOUS
    <3> DEFINE m == IF r["vj"].maxslotindex > wo.vj.maxslotindex
                      THEN wo.vj.maxslotindex ELSE r["vj"].maxslotindex
               b == r["vj"].cflag /\ wo.vj.cflag
    <3>1. m \in 0 .. MaxSlot
      BY <1>2, <1>3 DEF VJ
    <3>2. b \in BOOLEAN
      OBVIOUS
    <3>3. Proposal(wo, r, "vj") = [maxslotindex |-> m, cflag |-> b]
      BY DEF Proposal
    <3> HIDE DEF m, b
    <3>4. QED
      BY <3>1, <3>2, <3>3 DEF VJ
  <2>3. QED
    BY <1>4, <2>1, <2>2
<1>8. Nak(wo, asks, r, tough) \in Lists
  <2> DEFINE D == Disagreed(wo, r) \cup (IF Prompts(wo, asks, r, tough) THEN {"addr"} ELSE {})
             h == Nak(wo, asks, r, tough)
  <2>1. D \in SUBSET CIs
    BY <1>3 DEF Disagreed, CIs
  <2>2. h = [x \in D |-> h[x]] /\ \A x \in D :
           h[x] = IF x \in DOMAIN r THEN Proposal(wo, r, x) ELSE wo.hisaddr
    BY DEF Nak
  <2>3. \A x \in D : x \notin DOMAIN r => x = "addr"
    BY DEF Disagreed
  <2> HIDE DEF h, D
  <2>4. \A x \in D : IF x = "addr" THEN h[x] \in Addrs ELSE h[x] \in VJ
    BY <1>2, <1>7, <2>2, <2>3
  <2>5. QED
    BY <2>1, <2>2, <2>4, ListIntro DEF h
<1>9. Restrict(r, Rejected(wo, r, tough)) \in Lists
  <2> DEFINE D == Rejected(wo, r, tough)
             h == Restrict(r, D)
  <2>1. D \subseteq DOMAIN r
    BY DEF Rejected, Refused, Disagreed
  <2>2. h = [x \in D |-> h[x]] /\ \A x \in D : h[x] = r[x]
    BY DEF Restrict
  <2>3. \A x \in D : IF x = "addr" THEN h[x] \in Addrs ELSE h[x] \in VJ
    BY <1>3, <1>4, <2>1, <2>2
  <2> HIDE DEF h, D
  <2>4. QED
    BY <1>3, <2>1, <2>2, <2>3, ListIntro DEF h, D
<1>10. Reply(wo, asks, r, tough) \in Lists
  BY <1>8, <1>9 DEF Reply
<1>11. Verdict(wo, asks, r, tough) = "CONFACK"
         => Granted(c, HisOptions(wo, r), Reply(wo, asks, r, tough))
  <2> SUFFICES ASSUME Verdict(wo, asks, r, tough) = "CONFACK"
               PROVE  Granted(c, HisOptions(wo, r), Reply(wo, asks, r, tough))
    OBVIOUS
  <2>1. Reply(wo, asks, r, tough) = r
    BY DEF Reply
  <2>2. Rejected(wo, r, tough) = {}
    BY DEF Verdict
  <2>3. Refused(wo, r) = {}
    BY <2>2 DEF Rejected
  <2>4. QED
    BY <2>1, <2>3 DEF Granted
<1>12. QED
  BY <1>5, <1>6, <1>10, <1>11


----------------------------------------------------------------------------
(* The operations that read no packet.                                     *)

\* What the invariant says of one end.
LEMMA EndFacts ==
  ASSUME Inv, NEW e \in Ends
  PROVE  /\ Fresh(f[e]) /\ f[e].state \in States
         /\ go[e] \in Options /\ ho[e] \in Lists /\ conf[e] \in Options /\ Want(e) \in Options
         /\ \A g : \A o \in Options : Got(e, g, o) \in Options
         /\ \A g : \A rq \in SUBSET Ends : Requests(e, g, rq) \in SUBSET Ends
         /\ req \in SUBSET Ends /\ losses \in 0 .. MaxLosses
         /\ downs \in [Ends -> 0 .. MaxDowns] /\ downs[e] \in Nat /\ downs[Peer(e)] \in Nat
         /\ MaxDowns \in Nat /\ downs[e] <= MaxDowns /\ downs[Peer(e)] <= MaxDowns
<1>1. /\ Fresh(f[e]) /\ f[e] \in FSM
      /\ go[e] \in Options /\ ho[e] \in Lists /\ conf[e] \in Options
      /\ req \in SUBSET Ends /\ losses \in 0 .. MaxLosses
      /\ downs \in [Ends -> 0 .. MaxDowns] /\ Peer(e) \in Ends
  BY PeerFacts DEF Inv, Typed, Lives
<1>2. Want(e) \in Options
  BY <1>1, OptionTypes DEF Want
<1>3. /\ \A g : \A o \in Options : Got(e, g, o) \in Options
      /\ \A g : \A rq \in SUBSET Ends : Requests(e, g, rq) \in SUBSET Ends
  BY <1>2 DEF Got, Requests
<1>4. MaxDowns \in Nat
  BY IpcpLinkAssumption
<1>5. QED
  BY <1>1, <1>2, <1>3, <1>4 DEF FSM

\* While an fsm hears, its peer's LCP is not ahead unless the peer is deaf, and
\* a deaf peer that is to come up has nothing under way.
LEMMA Hearing ==
  ASSUME Inv, NEW e \in Ends, NEW q, q = Peer(e), f[e].state \notin Deaf
  PROVE  /\ e \notin over
         /\ ~ (downs[e] > downs[q])
         /\ downs[q] > downs[e] => f[q].state \in Deaf
         /\ q \notin over /\ f[q].state \in Deaf /\ downs[e] = downs[q] => Idle(wire, q)
<1>1. q \in Ends /\ Peer(q) = e /\ Peer(e) = q
  BY PeerFacts
<1>2. Lives(e) /\ Follows(e) /\ Follows(q)
  BY <1>1 DEF Inv
<1>3. e \notin over
  BY <1>2 DEF Lives, Deaf
<1>4. QED
  BY <1>1, <1>2, <1>3 DEF Follows

\* Lines that are empty hold nothing of anyone's.
LEMMA EmptyIdle ==
  ASSUME NEW e \in Ends, \A p \in Ends : wire[p] = << >>
  PROVE  Idle(wire, e)
<1>1. wire[e] = << >> /\ wire[Peer(e)] = << >>
  BY PeerFacts
<1>2. QED
  BY <1>1 DEF Idle, No

\* StepKeeps, of an operation that answers nothing and does not reach up.
LEMMA ActsKeeps ==
  ASSUME Inv, NEW e \in Ends, NEW q, q = Peer(e), NEW g, Acts(e, g),
         NEW s, NEW C, NEW codes \in Seq(Codes), Ran(g, s, C, codes),
         "up" \notin C, e \in up => s = "OPENED" \/ "down" \in C,
         OneCode(codes, Asks), NoCode(codes, Answers), NoCode(codes, Asks) \/ Idle(wire, e),
         s \in Resting => Idle(wire, e) /\ NoCode(codes, Asks),
         s = "OPENED" => f[e].state = "OPENED" /\ "resetci" \notin C, s # "ACKRCVD",
         downs' \in [Ends -> 0 .. MaxDowns],
         s \in Deaf /\ f[q].state \notin Deaf => downs'[e] # downs'[q],
         q \notin over /\ f[q].state \in Deaf /\ s \notin Deaf /\ downs'[e] = downs'[q]
           => Idle(wire, q),
         downs'[e] > downs'[q] => s \in Deaf,
         downs'[q] > downs'[e] => f[q].state \in Deaf
  PROVE  Inv'
<1>1. /\ e \notin over /\ conf' = conf /\ losses' = losses
      /\ Step(e, wire, g, Got(e, g, go[e]), ho[e], None)
      /\ req' = Requests(e, g, req)
  BY DEF Acts
<1>2. /\ go[e] \in Options /\ ho[e] \in Lists /\ Got(e, g, go[e]) \in Options
      /\ req' \subseteq Ends /\ losses' \in 0 .. MaxLosses /\ None \in Lists
  BY <1>1, EndFacts, ListFacts
<1>3. OneCode(codes, Answers) /\ NoCode(codes, {"CONFACK"})
  BY DEF NoCode, OneCode, Answers
<1>4. Taken(wire, e)
  BY DEF Taken
<1>5. s \in {"ACKRCVD", "OPENED"} => Granted(conf[q], ho[q], ipcp_addci(Got(e, g, go[e])))
  <2> SUFFICES ASSUME s = "OPENED"
               PROVE  Granted(conf[q], ho[q], ipcp_addci(Got(e, g, go[e])))
    OBVIOUS
  <2>1. Got(e, g, go[e]) = go[e]
    BY DEF Got, Ran
  <2>2. Agreed(e)
    BY DEF Inv
  <2>3. QED
    BY <2>1, <2>2 DEF Agreed
<1> DEFINE o == Got(e, g, go[e])
<1> HIDE DEF o
<1>6. QED
  BY <1>1, <1>2, <1>3, <1>4, <1>5, StepKeeps

\* lcp_up: what was under way for this end has arrived or is lost.
LEMMA LowerUpKeeps ==
  ASSUME Inv, NEW e \in Ends, LowerUp(e)
  PROVE  Inv'
<1> DEFINE q == Peer(e)
           g == fsm_lowerup(f[e])
<1>1. /\ f[e].state \in Deaf /\ downs[e] = downs[q] /\ downs' = downs /\ e \notin over
      /\ f[q].state \notin Deaf \/ \A p \in Ends : wire[p] = << >>
      /\ Acts(e, g)
  BY DEF LowerUp, Acts
<1>2. Fresh(f[e]) /\ downs' \in [Ends -> 0 .. MaxDowns] /\ downs[e] \in Nat
  BY <1>1, EndFacts
<1>3. q \in Ends /\ e \notin up /\ Follows(e)
  BY <1>1, PeerFacts DEF Inv, Lives, Deaf
<1>4. Idle(wire, e)
  BY <1>1, <1>3, EmptyIdle DEF Follows
<1>5. f[q].state \in Deaf => Idle(wire, q)
  BY <1>1, <1>3, EmptyIdle
<1>6. ~ (downs'[e] > downs'[q]) /\ ~ (downs'[q] > downs'[e])
  BY <1>1, <1>2
<1>7. \/ Ran(g, "CLOSED", {}, << >>)
      \/ Ran(g, "STOPPED", {}, << >>)
      \/ Ran(g, "REQSENT", {"resetci"}, <<"CONFREQ">>)
  BY <1>1, <1>2, StartRan DEF Deaf
<1> HIDE DEF q, g
<1>8. ASSUME NEW s \in {"CLOSED", "STOPPED"}, Ran(g, s, {}, << >>) PROVE Inv'
  <2>1. << >> \in Seq(Codes) /\ OneCode(<< >>, Asks) /\ NoCode(<< >>, Asks) /\ NoCode(<< >>, Answers)
    BY CodeLists
  <2>2. s \notin Deaf /\ s # "OPENED" /\ s # "ACKRCVD"
    BY DEF Deaf
  <2>3. QED
    BY <1>1, <1>2, <1>3, <1>4, <1>5, <1>6, <1>8, <2>1, <2>2, ActsKeeps DEF q
<1>9. ASSUME Ran(g, "REQSENT", {"resetci"}, <<"CONFREQ">>) PROVE Inv'
  <2>1. <<"CONFREQ">> \in Seq(Codes) /\ OneCode(<<"CONFREQ">>, Asks) /\ NoCode(<<"CONFREQ">>, Answers)
    BY CodeLists DEF Codes, Answers
  <2>2. "REQSENT" \notin Deaf /\ "REQSENT" \notin Resting
    BY DEF Deaf, Resting
  <2>3. QED
    BY <1>1, <1>2, <1>3, <1>4, <1>5, <1>6, <1>9, <2>1, <2>2, ActsKeeps DEF q
<1>10. QED
  BY <1>7, <1>8, <1>9

\* ipcp_open, in CLOSED.
LEMMA OpenKeeps ==
  ASSUME Inv, NEW e \in Ends, Open(e)
  PROVE  Inv'
<1> DEFINE q == Peer(e)
           g == fsm_open(f[e])
<1>1. /\ f[e].state = "CLOSED" /\ downs' = downs /\ f[e].state \notin Deaf /\ Acts(e, g)
  BY DEF Open, Deaf
<1>2. Fresh(f[e]) /\ downs' \in [Ends -> 0 .. MaxDowns]
  BY <1>1, EndFacts
<1>3. /\ e \notin over /\ ~ (downs[e] > downs[q])
      /\ downs[q] > downs[e] => f[q].state \in Deaf
      /\ q \notin over /\ f[q].state \in Deaf /\ downs[e] = downs[q] => Idle(wire, q)
  BY <1>1, Hearing
<1>4. Idle(wire, e) /\ e \notin up
  BY <1>1 DEF Inv, Exchanges, Lives, Resting
<1>5. \/ Ran(g, "STOPPED", {}, << >>)
      \/ Ran(g, "REQSENT", {"resetci"}, <<"CONFREQ">>)
  BY <1>1, <1>2, StartRan
<1> HIDE DEF q, g
<1>6. ASSUME Ran(g, "STOPPED", {}, << >>) PROVE Inv'
  <2>1. << >> \in Seq(Codes) /\ OneCode(<< >>, Asks) /\ NoCode(<< >>, Asks) /\ NoCode(<< >>, Answers)
    BY CodeLists
  <2>2. "STOPPED" \notin Deaf
    BY DEF Deaf
  <2>3. QED
    BY <1>1, <1>2, <1>3, <1>4, <1>6, <2>1, <2>2, ActsKeeps DEF q
<1>7. ASSUME Ran(g, "REQSENT", {"resetci"}, <<"CONFREQ">>) PROVE Inv'
  <2>1. <<"CONFREQ">> \in Seq(Codes) /\ OneCode(<<"CONFREQ">>, Asks) /\ NoCode(<<"CONFREQ">>, Answers)
    BY CodeLists DEF Codes, Answers
  <2>2. "REQSENT" \notin Deaf /\ "REQSENT" \notin Resting
    BY DEF Deaf, Resting
  <2>3. QED
    BY <1>1, <1>2, <1>3, <1>4, <1>7, <2>1, <2>2, ActsKeeps DEF q
<1>8. QED
  BY <1>5, <1>6, <1>7

\* lcp_down: the fsm stops, and waits for its peer's LCP if it is first.
LEMMA LowerDownKeeps ==
  ASSUME Inv, NEW e \in Ends, LowerDown(e)
  PROVE  Inv'
<1> DEFINE q == Peer(e)
           g == fsm_lowerdown(f[e])
<1>1. /\ \/ downs[e] = downs[q] /\ downs[e] < MaxDowns
         \/ downs[e] < downs[q]
      /\ downs' = [downs EXCEPT ![e] = @ + 1] /\ Acts(e, g)
  BY DEF LowerDown
<1>2. /\ Fresh(f[e]) /\ downs \in [Ends -> 0 .. MaxDowns] /\ MaxDowns \in Nat
      /\ downs[e] \in Nat /\ downs[q] \in Nat /\ downs[q] <= MaxDowns
  BY EndFacts
<1>3. q \in Ends /\ q # e /\ Peer(q) = e /\ Follows(q) /\ Lives(e)
  BY PeerFacts DEF Inv
<1>4. downs[q] > downs[e] => f[q].state \in Deaf
  BY <1>3 DEF Follows
<1> HIDE DEF q, g
<1>5. downs' \in [Ends -> 0 .. MaxDowns] /\ downs'[e] = downs[e] + 1 /\ downs'[q] = downs[q]
  BY <1>1, <1>2, <1>3
<1>6. PICK s \in Deaf, C \in SUBSET {"down"} :
         Ran(g, s, C, << >>) /\ (f[e].state = "OPENED" => "down" \in C)
  BY <1>2, LowerDownRan DEF g
<1>7. << >> \in Seq(Codes) /\ OneCode(<< >>, Asks) /\ NoCode(<< >>, Asks) /\ NoCode(<< >>, Answers)
  BY CodeLists
<1>8. s \notin Resting /\ s # "OPENED" /\ s # "ACKRCVD"
  BY <1>6 DEF Deaf, Resting
<1>9. e \in up => "down" \in C
  BY <1>3, <1>6 DEF Lives
<1>10. /\ s \in Deaf /\ f[q].state \notin Deaf => downs'[e] # downs'[q]
       /\ downs'[q] > downs'[e] => f[q].state \in Deaf
  BY <1>2, <1>4, <1>5
<1>11. "up" \notin C
  OBVIOUS
<1>12. QED
  BY <1>1, <1>5, <1>6, <1>7, <1>8, <1>9, <1>10, <1>11, ActsKeeps DEF q

\* fsm_timeout repeats a request when no other can be under way.
LEMMA Timeout3sKeeps ==
  ASSUME Inv, NEW e \in Ends, Timeout3s(e)
  PROVE  Inv'
<1> DEFINE q == Peer(e)
           g == Expire(f[e])
<1>1. /\ \A p \in Ends : wire[p] = << >> /\ f[p].state \notin Deaf
      /\ downs' = downs /\ Acts(e, g)
  BY DEF Timeout3s
<1>2. Fresh(f[e]) /\ downs' \in [Ends -> 0 .. MaxDowns] /\ f[e].state \notin Deaf
  BY <1>1, EndFacts
<1>3. /\ ~ (downs[e] > downs[q]) /\ (downs[q] > downs[e] => f[q].state \in Deaf)
      /\ q \in Ends /\ f[q].state \notin Deaf
  BY <1>1, <1>2, Hearing, PeerFacts
<1>4. Idle(wire, e) /\ Lives(e)
  BY <1>1, EmptyIdle DEF Inv
<1>5. \/ Ran(g, f[e].state, {}, << >>) /\ f[e].state \in {"CLOSED", "STOPPED", "OPENED"}
      \/ \E s \in {"CLOSED", "STOPPED"} : Ran(g, s, {}, << >>) /\ f[e].state # "OPENED"
      \/ \E s \in States \ (Resting \cup Deaf), c \in {"CONFREQ", "TERMREQ"} :
             Ran(g, s, {}, <<c>>) /\ f[e].state # "OPENED"
  BY <1>2, ExpireRan
<1> HIDE DEF q, g
<1>6. ASSUME NEW s \in {"CLOSED", "STOPPED", "OPENED"}, Ran(g, s, {}, << >>),
             s = f[e].state \/ (s # "OPENED" /\ f[e].state # "OPENED")
      PROVE  Inv'
  <2>1. << >> \in Seq(Codes) /\ OneCode(<< >>, Asks) /\ NoCode(<< >>, Asks) /\ NoCode(<< >>, Answers)
    BY CodeLists
  <2>2. s \notin Deaf /\ s # "ACKRCVD" /\ (s = "OPENED" => f[e].state = "OPENED")
    BY <1>6 DEF Deaf
  <2>3. e \in up => s = "OPENED"
    BY <1>4, <1>6 DEF Lives
  <2>4. QED
    BY <1>1, <1>2, <1>3, <1>4, <1>6, <2>1, <2>2, <2>3, ActsKeeps DEF q
<1>7. ASSUME NEW s \in States \ (Resting \cup Deaf), NEW c \in {"CONFREQ", "TERMREQ"},
             Ran(g, s, {}, <<c>>), f[e].state # "OPENED"
      PROVE  Inv'
  <2>1. <<c>> \in Seq(Codes) /\ OneCode(<<c>>, Asks) /\ NoCode(<<c>>, Answers)
    BY CodeLists DEF Codes, Answers
  <2>2. s \notin Deaf /\ s \notin Resting /\ s # "ACKRCVD" /\ s # "OPENED"
    BY DEF Resting
  <2>3. e \notin up
    BY <1>4, <1>7 DEF Lives
  <2>4. QED
    BY <1>1, <1>2, <1>3, <1>4, <1>7, <2>1, <2>2, <2>3, ActsKeeps DEF q
<1>8. QED
  BY <1>5, <1>6, <1>7


----------------------------------------------------------------------------
(* The operations that read a packet.                                      *)

\* The packet that e reads was the only one of its exchange.
LEMMA ReadFacts ==
  ASSUME Inv, NEW e \in Ends, NEW q, q = Peer(e), wire[e] # << >>
  PROVE  /\ Head1(e) \in Frame /\ Taken(Rest(e), e)
         /\ \A x \in Ends : Idle(wire, x) => Idle(Rest(e), x)
         /\ Head1(e).code \in Asks => Idle(Rest(e), q) /\ ~ Idle(wire, q)
         /\ Head1(e).code \in Answers => Idle(Rest(e), e) /\ ~ Idle(wire, e)
         /\ Head1(e).code = "CONFACK" => Granted(conf[q], ho[q], Head1(e).opts)
<1>1. q \in Ends /\ q # e /\ Peer(q) = e /\ Peer(e) = q
  BY PeerFacts
<1>2. /\ wire \in [Ends -> Seq(Frame)] /\ wire[e] \in Seq(Frame)
      /\ Single(wire, e) /\ Single(wire, q) /\ Agreed(e)
  BY <1>1 DEF Inv, Typed, Exchanges
<1>3. Taken(Rest(e), e)
  BY DEF Taken
<1>4. \A x \in Ends : Idle(wire, x) => Idle(Rest(e), x)
  BY <1>3, TakenFacts
<1>5. /\ Rest(e)[e] = Tail(wire[e]) /\ Rest(e)[q] = wire[q]
  BY <1>1, <1>2 DEF Rest
<1> DEFINE w == wire[e]
<1>6. w \in Seq(Frame) /\ w # << >>
  BY <1>2
<1> HIDE DEF w
<1>7. /\ Head(w) \in Frame /\ Head(w) = w[1] /\ 1 \in 1 .. Len(w)
      /\ \A K : /\ No(w, K) => Head(w).code \notin K
                /\ One(w, K) /\ Head(w).code \in K => No(Tail(w), K)
  BY <1>6, LineTail
<1>8. /\ Head1(e) \in Frame /\ Head1(e) = wire[e][1] /\ 1 \in 1 .. Len(wire[e])
      /\ \A K : /\ No(wire[e], K) => Head1(e).code \notin K
                /\ One(wire[e], K) /\ Head1(e).code \in K => No(Rest(e)[e], K)
  BY <1>5, <1>7 DEF w, Head1
<1>9. Head1(e).code \in Asks => Idle(Rest(e), q) /\ ~ Idle(wire, q)
  BY <1>1, <1>2, <1>5, <1>8 DEF Idle, Single
<1>10. Head1(e).code \in Answers => Idle(Rest(e), e) /\ ~ Idle(wire, e)
  BY <1>1, <1>2, <1>5, <1>8 DEF Idle, Single
<1>11. Head1(e).code = "CONFACK" => Granted(conf[q], ho[q], Head1(e).opts)
  BY <1>1, <1>2, <1>8 DEF Agreed
<1>12. QED
  BY <1>3, <1>4, <1>8, <1>9, <1>10, <1>11

\* StepKeeps, of an operation that reads a packet and answers it if it asks.
LEMMA ReadKeeps ==
  ASSUME Inv, NEW e \in Ends, NEW q, q = Peer(e), wire[e] # << >>, f[e].state \notin Deaf,
         NEW g, NEW s, NEW C, NEW codes \in Seq(Codes), Ran(g, s, C, codes), s \notin Deaf,
         NEW o \in Options, NEW h \in Lists, NEW reply \in Lists,
         Step(e, Rest(e), g, o, h, reply), conf' = conf, req' \subseteq Ends,
         losses' = losses, downs' = downs,
         "up" \in C => s = "OPENED" /\ f[e].state # "OPENED",
         f[e].state = "OPENED" => "down" \in C, "down" \in C => "up" \notin C,
         OneCode(codes, Asks), NoCode(codes, Asks) \/ Idle(Rest(e), e),
         OneCode(codes, Answers), NoCode(codes, Answers) \/ Head1(e).code \in Asks,
         s \in Resting => Idle(Rest(e), e) /\ NoCode(codes, Asks),
         h = ho[e] \/ Head1(e).code \in Asks,
         NoCode(codes, {"CONFACK"}) \/ Granted(conf[e], h, reply),
         s \in {"ACKRCVD", "OPENED"} => Granted(conf[q], ho[q], ipcp_addci(o))
  PROVE  Inv'
<1>1. /\ Taken(Rest(e), e)
      /\ q \in Ends /\ (Idle(wire, q) => Idle(Rest(e), q))
      /\ Head1(e).code \in Asks => Idle(Rest(e), q) /\ ~ Idle(wire, q)
  BY ReadFacts, PeerFacts
<1>2. /\ e \notin over /\ ~ (downs[e] > downs[q])
      /\ downs[q] > downs[e] => f[q].state \in Deaf
      /\ q \notin over /\ f[q].state \in Deaf /\ downs[e] = downs[q] => Idle(wire, q)
  BY Hearing
<1>3. losses' \in 0 .. MaxLosses /\ downs' \in [Ends -> 0 .. MaxDowns]
  BY EndFacts
<1>4. e \in up => f[e].state = "OPENED"
  BY DEF Inv, Lives
<1>5. /\ "up" \in C => s = "OPENED" /\ e \notin up
      /\ e \in up => s = "OPENED" \/ "down" \in C
  BY <1>4
<1>6. /\ NoCode(codes, Answers) \/ (Idle(Rest(e), q) /\ ~ Idle(wire, q))
      /\ h = ho[e] \/ (Idle(Rest(e), q) /\ ~ Idle(wire, q))
  BY <1>1
<1>7. /\ q \notin over /\ f[q].state \in Deaf /\ s \notin Deaf /\ downs'[e] = downs'[q]
           => Idle(Rest(e), q) /\ NoCode(codes, Answers)
      /\ downs'[e] > downs'[q] => s \in Deaf
      /\ downs'[q] > downs'[e] => f[q].state \in Deaf
  BY <1>1, <1>2
<1> DEFINE w == Rest(e)
<1>8. /\ Taken(w, e) /\ Step(e, w, g, o, h, reply)
      /\ NoCode(codes, Asks) \/ Idle(w, e)
      /\ NoCode(codes, Answers) \/ (Idle(w, q) /\ ~ Idle(wire, q))
      /\ h = ho[e] \/ (Idle(w, q) /\ ~ Idle(wire, q))
      /\ s \in Resting => Idle(w, e) /\ NoCode(codes, Asks)
      /\ q \notin over /\ f[q].state \in Deaf /\ s \notin Deaf /\ downs'[e] = downs'[q]
           => Idle(w, q) /\ NoCode(codes, Answers)
  BY <1>1, <1>6, <1>7
<1> HIDE DEF w
<1>9. QED
  BY <1>2, <1>3, <1>5, <1>7, <1>8, StepKeeps

\* An answer finds an fsm that waits for it.
LEMMA AnswerFinds ==
  ASSUME Inv, NEW e \in Ends, wire[e] # << >>, f[e].state \notin Deaf,
         Head1(e).code \in Answers
  PROVE  f[e].state \in Waiting /\ Idle(Rest(e), e)
<1>1. Idle(Rest(e), e) /\ ~ Idle(wire, e)
  BY ReadFacts
<1>2. f[e].state \notin Resting /\ f[e].state \in States
  BY <1>1, EndFacts DEF Inv, Exchanges
<1>3. QED
  BY <1>1, <1>2 DEF Resting, States, Deaf, Waiting, Terminating

\* A Terminate-Request and a Terminate-Ack.
LEMMA ReceiveOtherKeeps ==
  ASSUME Inv, NEW e \in Ends, ReceiveOther(e)
  PROVE  Inv'
<1> DEFINE q == Peer(e)
           g == fsm_input(f[e], Packet1(e), "none")
           o == Got(e, g, go[e])
<1>1. /\ wire[e] # << >> /\ Head1(e).code \in {"TERMREQ", "TERMACK"} /\ f[e].state \notin Deaf
      /\ Step(e, Rest(e), g, o, ho[e], None) /\ req' = Requests(e, g, req)
      /\ conf' = conf /\ downs' = downs /\ losses' = losses
  BY DEF ReceiveOther, Listening
<1>2. /\ Fresh(f[e]) /\ o \in Options /\ ho[e] \in Lists /\ None \in Lists /\ req' \subseteq Ends
  BY <1>1, EndFacts, ListFacts
<1>3. Head1(e) \in Frame /\ (Idle(wire, e) => Idle(Rest(e), e))
  BY <1>1, ReadFacts
<1>4. Packet1(e).code = Head1(e).code /\ Packet1(e).id = Head1(e).id /\ Head1(e).id \in Ids
  BY <1>3 DEF Packet1, Frame
<1>5. CASE Head1(e).code = "TERMREQ"
  <2>1. g = fsm_rtermreq(f[e], Head1(e).id)
    BY <1>1, <1>4, <1>5 DEF fsm_input
  <2> HIDE DEF g, o
  <2>2. PICK s \in States \ Deaf, C \in SUBSET {"down"} :
           /\ Ran(g, s, C, <<"TERMACK">>)
           /\ f[e].state = "OPENED" => "down" \in C
           /\ s \in Resting => s = f[e].state /\ s # "ACKRCVD" /\ s # "OPENED"
    BY <1>1, <1>2, <1>4, <2>1, RtermreqRan
  <2>3. /\ <<"TERMACK">> \in Seq(Codes) /\ OneCode(<<"TERMACK">>, Asks)
        /\ NoCode(<<"TERMACK">>, Asks) /\ OneCode(<<"TERMACK">>, Answers)
        /\ NoCode(<<"TERMACK">>, {"CONFACK"})
    BY CodeLists DEF Codes, Asks
  <2>4. Head1(e).code \in Asks /\ "up" \notin C
    BY <1>5 DEF Asks
  <2>5. s \in Resting => Idle(Rest(e), e)
    BY <1>3, <2>2 DEF Inv, Exchanges
  <2>6. s \notin {"ACKRCVD", "OPENED"}
    BY <2>2 DEF Resting
  <2>7. QED
    BY <1>1, <1>2, <2>2, <2>3, <2>4, <2>5, <2>6, ReadKeeps
<1>6. CASE Head1(e).code = "TERMACK"
  <2>1. g = fsm_rtermack(f[e])
    BY <1>1, <1>4, <1>6 DEF fsm_input
  <2> HIDE DEF g, o
  <2>2. f[e].state \in Waiting /\ Idle(Rest(e), e)
    BY <1>1, <1>6, AnswerFinds DEF Answers
  <2>3. PICK s \in {f[e].state, "CLOSED", "STOPPED"} : Ran(g, s, {}, << >>)
    BY <1>2, <2>1, <2>2, RtermackRan
  <2>4. /\ << >> \in Seq(Codes) /\ OneCode(<< >>, Asks) /\ NoCode(<< >>, Asks)
        /\ NoCode(<< >>, Answers) /\ OneCode(<< >>, Answers) /\ NoCode(<< >>, {"CONFACK"})
    BY CodeLists
  <2>5. s \notin {"ACKRCVD", "OPENED"} /\ f[e].state # "OPENED" /\ s \notin Deaf
    BY <2>2, <2>3 DEF Waiting, Terminating, Deaf
  <2> DEFINE C == {}
  <2>6. Ran(g, s, C, << >>) /\ "up" \notin C /\ "down" \notin C
    BY <2>3
  <2> HIDE DEF C
  <2>7. QED
    BY <1>1, <1>2, <2>2, <2>4, <2>5, <2>6, ReadKeeps
<1>7. QED
  BY <1>1, <1>5, <1>6


\* An Ack, Nak or Reject of our request.
LEMMA ReceiveAnswerKeeps ==
  ASSUME Inv, NEW e \in Ends, ReceiveAnswer(e)
  PROVE  Inv'
<1> DEFINE q == Peer(e)
           r == Head1(e).opts
           code == Head1(e).code
           current == Head1(e).id = f[e].reqid
           good == CASE code = "CONFACK" -> ipcp_ackci(go[e], r)
                     [] code = "CONFNAK" -> TRUE
                     [] OTHER            -> RejGood(go[e], r)
           taken == good /\ current /\ f[e].state # "OPENED"
           o == CASE code = "CONFNAK" /\ taken -> ipcp_nakci(go[e], r)
                  [] code = "CONFREJ" /\ taken -> ipcp_rejci(go[e], r)
                  [] OTHER -> go[e]
           g == fsm_input(f[e], Packet1(e), IF good THEN "good" ELSE "bad")
           O == Got(e, g, o)
<1>1. /\ wire[e] # << >> /\ code \in Replies /\ f[e].state \notin Deaf
      /\ Step(e, Rest(e), g, O, ho[e], None) /\ req' = Requests(e, g, req)
      /\ conf' = conf /\ downs' = downs /\ losses' = losses
  BY DEF ReceiveAnswer, Listening, Replies
<1>2. /\ Head1(e) \in Frame /\ r \in Lists /\ Head1(e).id \in Ids
      /\ Packet1(e).code = code /\ Packet1(e).id = Head1(e).id
  BY <1>1, ReadFacts DEF Frame, Packet1
<1>3. code \in Answers /\ f[e].state \in Waiting /\ Idle(Rest(e), e)
  BY <1>1, AnswerFinds DEF Replies, Answers
<1>4. /\ Fresh(f[e]) /\ go[e] \in Options /\ ho[e] \in Lists /\ None \in Lists
      /\ req' \subseteq Ends
  BY <1>1, EndFacts, ListFacts
<1>5. o \in Options
  BY <1>2, <1>4, AnswerTypes
<1>6. O \in Options
  BY <1>5, EndFacts
<1>7. /\ << >> \in Seq(Codes) /\ OneCode(<< >>, Asks) /\ NoCode(<< >>, Asks)
      /\ NoCode(<< >>, Answers) /\ OneCode(<< >>, Answers) /\ NoCode(<< >>, {"CONFACK"})
  BY CodeLists
<1>8. f[e].state \notin {"ACKRCVD", "OPENED"} /\ f[e].state \notin Resting
  BY <1>3 DEF Waiting, Terminating, Resting
<1>9. CASE code = "CONFACK"
  <2> DEFINE good1 == ipcp_ackci(go[e], r)
  <2>1. good1 \in BOOLEAN /\ (good <=> good1) /\ o = go[e]
    BY <1>9 DEF ipcp_ackci
  <2>2. g = fsm_rconfack(f[e], Head1(e).id, (IF good1 THEN "good" ELSE "bad") = "good")
    BY <1>1, <1>2, <1>9, <2>1 DEF fsm_input
  <2>3. ((IF good1 THEN "good" ELSE "bad") = "good") = good1
    BY <2>1
  <2>4. good1 => Granted(conf[q], ho[q], ipcp_addci(go[e]))
    BY <1>1, <1>9, ReadFacts DEF ipcp_ackci
  <2> HIDE DEF good1, g, o, good, q
  <2>5. g = fsm_rconfack(f[e], Head1(e).id, good1)
    BY <2>2, <2>3
  <2>6. \/ Ran(g, f[e].state, {}, << >>)
        \/ good1 /\ Ran(g, "ACKRCVD", {}, << >>)
        \/ good1 /\ Ran(g, "OPENED", {"up"}, << >>)
    BY <1>2, <1>3, <1>4, <2>1, <2>5, RconfackRan
  <2>7. PICK s \in {f[e].state, "ACKRCVD", "OPENED"}, C \in SUBSET {"up"} :
           /\ Ran(g, s, C, << >>) /\ (s = f[e].state \/ good1) /\ ("up" \in C => s = "OPENED")
    BY <2>6
  <2>8. "resetci" \notin g.cb
    BY <2>7 DEF Ran
  <2>9. O = go[e]
    BY <2>1, <2>8 DEF Got
  <2> HIDE DEF O
  <2>10. s \in {"ACKRCVD", "OPENED"} => Granted(conf[q], ho[q], ipcp_addci(O))
    BY <1>8, <2>4, <2>7, <2>9
  <2>11. s \notin Deaf /\ "down" \notin C
    BY <1>1, <2>7 DEF Deaf
  <2>12. QED
    BY <1>1, <1>3, <1>4, <1>6, <1>7, <1>8, <2>7, <2>10, <2>11, ReadKeeps DEF q
<1>10. CASE code # "CONFACK"
  <2> DEFINE b == (IF good THEN "good" ELSE "bad") = "good"
  <2>1. b \in BOOLEAN
    OBVIOUS
  <2>2. g = fsm_rconfnakrej(f[e], Head1(e).id, b)
    BY <1>1, <1>2, <1>10 DEF fsm_input, Replies
  <2> HIDE DEF b, g, o, good, O
  <2>3. \/ Ran(g, f[e].state, {}, << >>)
        \/ Ran(g, f[e].state, {}, <<"CONFREQ">>)
    BY <1>2, <1>3, <1>4, <2>1, <2>2, RconfnakrejRan
  <2>4. /\ <<"CONFREQ">> \in Seq(Codes) /\ OneCode(<<"CONFREQ">>, Asks)
        /\ NoCode(<<"CONFREQ">>, Answers) /\ OneCode(<<"CONFREQ">>, Answers)
        /\ NoCode(<<"CONFREQ">>, {"CONFACK"})
    BY CodeLists DEF Codes, Answers
  <2>5. PICK codes \in Seq(Codes) :
           /\ Ran(g, f[e].state, {}, codes) /\ OneCode(codes, Asks) /\ OneCode(codes, Answers)
           /\ NoCode(codes, Answers) /\ NoCode(codes, {"CONFACK"})
    BY <1>7, <2>3, <2>4
  <2> DEFINE C == {}
             s == f[e].state
  <2>6. /\ Ran(g, s, C, codes) /\ "up" \notin C /\ "down" \notin C
        /\ s \notin Deaf /\ s \notin Resting /\ s \notin {"ACKRCVD", "OPENED"}
        /\ f[e].state # "OPENED"
    BY <1>1, <1>8, <2>5
  <2> HIDE DEF C, s
  <2>7. QED
    BY <1>1, <1>3, <1>4, <1>6, <2>5, <2>6, ReadKeeps
<1>11. QED
  BY <1>9, <1>10


\* A Configure-Request: only an Ack changes what is granted for good, and the
\* one packet of the peer's exchange becomes our reply.
LEMMA ReceiveRequestKeeps ==
  ASSUME Inv, NEW e \in Ends, ReceiveRequest(e)
  PROVE  Inv'
<1> DEFINE q == Peer(e)
           r == Head1(e).opts
           p == RconfreqPrepare(f[e])
           tough == RejectIfDisagree(p)
           asked == Requests(e, p, req)
           asks == e \in asked
           c == Verdict(Want(e), asks, r, tough)
           g == fsm_input(f[e], Packet1(e), c)
           replies == f[e].state \notin {"CLOSED"} \cup Terminating
           O == Got(e, p, go[e])
           H == HisOptions(Want(e), r)
           R == Reply(Want(e), asks, r, tough)
<1>1. /\ wire[e] # << >> /\ Head1(e).code = "CONFREQ" /\ f[e].state \notin Deaf
      /\ conf' = conf /\ downs' = downs /\ losses' = losses
  BY DEF ReceiveRequest, Listening
<1>2. /\ replies => Step(e, Rest(e), g, O, H, R) /\ (req' = asked \/ req' = asked \ {e})
      /\ ~ replies => Step(e, Rest(e), g, go[e], ho[e], None) /\ req' = req
  BY DEF ReceiveRequest
<1>3. /\ Head1(e) \in Frame /\ r \in Lists /\ Head1(e).id \in Ids
      /\ Packet1(e).code = "CONFREQ" /\ Packet1(e).id = Head1(e).id
      /\ Idle(wire, e) => Idle(Rest(e), e)
  BY <1>1, ReadFacts DEF Frame, Packet1
<1>4. /\ Fresh(f[e]) /\ go[e] \in Options /\ ho[e] \in Lists /\ None \in Lists
      /\ conf[e] \in Options /\ O \in Options /\ req \in SUBSET Ends /\ asked \in SUBSET Ends
      /\ f[e].state \in States
  BY EndFacts, ListFacts
<1>5. Want(e) = ipcp_resetci(conf[e])
  BY DEF Want
<1>6. H \in Lists /\ c \in Replies /\ R \in Lists /\ (c = "CONFACK" => Granted(conf[e], H, R))
  <2> DEFINE wo == Want(e)
             t == tough
             a == asks
  <2>1. wo = ipcp_resetci(conf[e]) /\ conf[e] \in Options /\ r \in Lists
    BY <1>3, <1>4, <1>5
  <2> HIDE DEF wo, t, a, r
  <2>2. /\ HisOptions(wo, r) \in Lists
        /\ Verdict(wo, a, r, t) \in Replies
        /\ Reply(wo, a, r, t) \in Lists
        /\ Verdict(wo, a, r, t) = "CONFACK"
             => Granted(conf[e], HisOptions(wo, r), Reply(wo, a, r, t))
    BY <2>1, RequestTypes
  <2>3. QED
    BY <2>2 DEF wo, t, a
<1>7. g = fsm_rconfreq(f[e], Head1(e).id, c)
  BY <1>1, <1>3 DEF fsm_input
<1>8. f[e].state \in {"ACKRCVD"} => O = go[e] /\ Granted(conf[q], ho[q], ipcp_addci(O))
  <2> SUFFICES ASSUME f[e].state = "ACKRCVD"
               PROVE  O = go[e] /\ Granted(conf[q], ho[q], ipcp_addci(O))
    OBVIOUS
  <2>1. p = f[e] /\ f[e].cb = {}
    BY <1>4 DEF RconfreqPrepare, Fresh
  <2>2. O = go[e]
    BY <2>1 DEF Got
  <2>3. Agreed(e)
    BY DEF Inv
  <2>4. QED
    BY <2>2, <2>3 DEF Agreed
<1>9. /\ replies => req' \subseteq Ends
      /\ ~ replies => req' \subseteq Ends
  BY <1>2, <1>4
<1>10. Head1(e).code \in Asks
  BY <1>1 DEF Asks
<1>11. f[e].state \in Resting => Idle(Rest(e), e)
  BY <1>3 DEF Inv, Exchanges
<1> HIDE DEF q, c, g, O, H, R, asked
<1>12. /\ f[e].state = "CLOSED" => Ran(g, "CLOSED", {}, <<"TERMACK">>)
       /\ f[e].state \in Terminating => Ran(g, f[e].state, {}, << >>)
       /\ f[e].state \in {"OPENED", "STOPPED"} =>
            \E s \in {"ACKSENT", "REQSENT"}, C \in SUBSET {"down", "resetci"} :
                Ran(g, s, C, <<"CONFREQ", c>>) /\ (f[e].state = "OPENED" => "down" \in C)
       /\ f[e].state \in {"REQSENT", "ACKSENT"} =>
            \E s \in {"ACKSENT", "REQSENT"} : Ran(g, s, {}, <<c>>)
       /\ f[e].state = "ACKRCVD" =>
            \/ Ran(g, "OPENED", {"up"}, <<c>>)
            \/ Ran(g, "ACKRCVD", {}, <<c>>)
  <2>1. /\ f[e].state = "CLOSED" =>
             Ran(fsm_rconfreq(f[e], Head1(e).id, c), "CLOSED", {}, <<"TERMACK">>)
        /\ f[e].state \in Terminating =>
             Ran(fsm_rconfreq(f[e], Head1(e).id, c), f[e].state, {}, << >>)
        /\ f[e].state \in {"OPENED", "STOPPED"} =>
             \E s \in {"ACKSENT", "REQSENT"}, C \in SUBSET {"down", "resetci"} :
                 /\ Ran(fsm_rconfreq(f[e], Head1(e).id, c), s, C, <<"CONFREQ", c>>)
                 /\ f[e].state = "OPENED" => "down" \in C
        /\ f[e].state \in {"REQSENT", "ACKSENT"} =>
             \E s \in {"ACKSENT", "REQSENT"} :
                 Ran(fsm_rconfreq(f[e], Head1(e).id, c), s, {}, <<c>>)
        /\ f[e].state = "ACKRCVD" =>
             \/ Ran(fsm_rconfreq(f[e], Head1(e).id, c), "OPENED", {"up"}, <<c>>)
             \/ Ran(fsm_rconfreq(f[e], Head1(e).id, c), "ACKRCVD", {}, <<c>>)
    BY <1>3, <1>4, <1>6, RconfreqRan
  <2>2. QED
    BY <1>7, <2>1
<1>13. /\ c \in Codes /\ <<c>> \in Seq(Codes) /\ <<"CONFREQ", c>> \in Seq(Codes)
       /\ OneCode(<<"CONFREQ", c>>, Asks) /\ OneCode(<<"CONFREQ", c>>, Answers)
       /\ c # "CONFACK" => NoCode(<<"CONFREQ", c>>, {"CONFACK"}) /\ NoCode(<<c>>, {"CONFACK"})
       /\ NoCode(<<c>>, Asks) /\ OneCode(<<c>>, Asks) /\ OneCode(<<c>>, Answers)
  BY <1>6, CodeLists
<1>14. CASE f[e].state = "CLOSED" \/ f[e].state \in Terminating
  <2>1. ~ replies /\ Step(e, Rest(e), g, go[e], ho[e], None) /\ req' \subseteq Ends
    BY <1>2, <1>9, <1>14
  <2>2. /\ <<"TERMACK">> \in Seq(Codes) /\ OneCode(<<"TERMACK">>, Answers)
        /\ NoCode(<<"TERMACK">>, Asks) /\ NoCode(<<"TERMACK">>, {"CONFACK"})
    BY CodeLists DEF Codes, Asks
  <2>3. /\ << >> \in Seq(Codes) /\ OneCode(<< >>, Answers)
        /\ NoCode(<< >>, Asks) /\ NoCode(<< >>, {"CONFACK"})
    BY CodeLists
  <2>4. PICK codes \in Seq(Codes) :
           /\ Ran(g, f[e].state, {}, codes) /\ OneCode(codes, Answers)
           /\ NoCode(codes, Asks) /\ NoCode(codes, {"CONFACK"})
    BY <1>12, <1>14, <2>2, <2>3
  <2>5. OneCode(codes, Asks)
    BY <2>4 DEF NoCode, OneCode
  <2> DEFINE C == {}
             s == f[e].state
  <2>6. /\ Ran(g, s, C, codes) /\ "up" \notin C /\ "down" \notin C /\ s \notin Deaf
        /\ s \in Resting => Idle(Rest(e), e)
        /\ s \notin {"ACKRCVD", "OPENED"} /\ f[e].state # "OPENED"
    BY <1>1, <1>11, <1>14, <2>4 DEF Terminating
  <2> HIDE DEF C, s
  <2>7. QED
    BY <1>1, <1>4, <1>10, <2>1, <2>4, <2>5, <2>6, ReadKeeps
<1>15. CASE f[e].state \in {"OPENED", "STOPPED"}
  <2>1. replies /\ Step(e, Rest(e), g, O, H, R) /\ req' \subseteq Ends
    BY <1>2, <1>9, <1>15 DEF Terminating
  <2>2. PICK s \in {"ACKSENT", "REQSENT"}, C \in SUBSET {"down", "resetci"} :
           Ran(g, s, C, <<"CONFREQ", c>>) /\ (f[e].state = "OPENED" => "down" \in C)
    BY <1>12, <1>15
  <2>3. /\ s \notin Deaf /\ s \notin Resting /\ s \notin {"ACKRCVD", "OPENED"} /\ "up" \notin C
        /\ Idle(Rest(e), e)
    BY <1>11, <1>15, <2>2 DEF Deaf, Resting
  <2> DEFINE codes == <<"CONFREQ", c>>
  <2>4. /\ Ran(g, s, C, codes) /\ codes \in Seq(Codes)
        /\ OneCode(codes, Asks) /\ OneCode(codes, Answers)
        /\ NoCode(codes, {"CONFACK"}) \/ Granted(conf[e], H, R)
    BY <1>6, <1>13, <2>2
  <2> HIDE DEF codes
  <2>5. QED
    BY <1>1, <1>4, <1>6, <1>10, <2>1, <2>2, <2>3, <2>4, ReadKeeps
<1>16. CASE f[e].state \in Negotiating
  <2>1. replies /\ Step(e, Rest(e), g, O, H, R) /\ req' \subseteq Ends
    BY <1>2, <1>9, <1>16 DEF Terminating, Negotiating
  <2>2. PICK s \in {"ACKSENT", "REQSENT", "ACKRCVD", "OPENED"}, C \in SUBSET {"up"} :
           /\ Ran(g, s, C, <<c>>) /\ ("up" \in C => s = "OPENED")
           /\ s \in {"ACKRCVD", "OPENED"} => f[e].state = "ACKRCVD"
    BY <1>12, <1>16 DEF Negotiating
  <2>3. /\ s \notin Deaf /\ "down" \notin C /\ f[e].state # "OPENED"
        /\ s \in Resting => Idle(Rest(e), e)
        /\ s \in {"ACKRCVD", "OPENED"} => Granted(conf[q], ho[q], ipcp_addci(O))
    BY <1>8, <1>11, <1>16, <2>2 DEF Deaf, Resting, Negotiating
  <2> DEFINE codes == <<c>>
  <2>4. /\ Ran(g, s, C, codes) /\ codes \in Seq(Codes)
        /\ OneCode(codes, Asks) /\ NoCode(codes, Asks) /\ OneCode(codes, Answers)
        /\ NoCode(codes, {"CONFACK"}) \/ Granted(conf[e], H, R)
    BY <1>6, <1>13, <2>2
  <2> HIDE DEF codes
  <2>5. QED
    BY <1>1, <1>4, <1>6, <1>10, <2>1, <2>2, <2>3, <2>4, ReadKeeps DEF q
<1>17. QED
  BY <1>1, <1>4, <1>14, <1>15, <1>16 DEF States, Negotiating, Terminating, Deaf


\* Preserved, of an end that sends nothing: a packet is lost, or the end is gone.
Silent(e, w, n) ==
    /\ wire' = w /\ f' = [f EXCEPT ![e] = n] /\ losses' \in 0 .. MaxLosses
    /\ UNCHANGED <<conf, go, ho, req, downs>>
    /\ up' \subseteq up /\ up' \ {e} = up \ {e} /\ (e \in up' => n.state = "OPENED")
    /\ over \subseteq over' /\ over' \subseteq Ends /\ over' \ {e} = over \ {e}
    /\ e \in over' => n.state = "INITIAL"

\* Such a step keeps the invariant.
LEMMA SilentKeeps ==
  ASSUME Inv, NEW e \in Ends, NEW w, Taken(w, e), NEW n, Fresh(n), Silent(e, w, n),
         n = f[e] \/ e \in over'
  PROVE  Inv'
<1> DEFINE q == Peer(e)
<1>1. q \in Ends /\ q # e /\ Peer(q) = e /\ Peer(e) = q
  BY PeerFacts
<1>2. /\ w \in [Ends -> Seq(Frame)]
      /\ Idle(wire, e) => Idle(w, e)
      /\ Idle(wire, q) => Idle(w, q)
  BY <1>1, TakenFacts
<1>3. /\ go \in [Ends -> Options] /\ ho \in [Ends -> Lists]
      /\ go[e] \in Options /\ ho[e] \in Lists /\ req' \subseteq Ends /\ up' \subseteq Ends
      /\ downs' \in [Ends -> 0 .. MaxDowns] /\ downs' = downs
  BY DEF Inv, Typed, Silent
<1>4. Exchanges(e) /\ Follows(e) /\ Follows(q) /\ Agreed(e)
  BY <1>1 DEF Inv
<1>5. go' = [go EXCEPT ![e] = go[e]] /\ ho' = [ho EXCEPT ![e] = ho[e]]
  BY <1>3 DEF Silent
<1> DEFINE F == << >>
<1>6. /\ F \in Seq(Frame) /\ \A K : No(F, K) /\ One(F, K)
      /\ \A i \in 1 .. Len(F) : F[i].code = "CONFACK" => Granted(conf[e], ho[e], F[i].opts)
  BY DEF No, One
<1>7. wire' = [w EXCEPT ![q] = @ \o F]
  <2>1. w[q] \in Seq(Frame)
    BY <1>1, <1>2
  <2>2. w[q] \o << >> = w[q]
    BY <2>1, ConcatEmptySeq
  <2>3. w = [w EXCEPT ![q] = w[q]]
    BY <1>2
  <2>4. QED
    BY <2>2, <2>3 DEF Silent
<1> HIDE DEF F
<1>8. /\ n.state \in Resting => Idle(w, e)
      /\ n.state \in {"ACKRCVD", "OPENED"} => Granted(conf[q], ho[q], ipcp_addci(go[e]))
      /\ e \notin over' /\ n.state \in Deaf /\ f[q].state \notin Deaf /\ downs'[e] = downs'[q]
           => Idle(w, e)
      /\ q \notin over /\ f[q].state \in Deaf /\ n.state \notin Deaf /\ downs'[e] = downs'[q]
           => Idle(w, q)
      /\ downs'[e] > downs'[q] => n.state \in Deaf
      /\ downs'[q] > downs'[e] => f[q].state \in Deaf
  <2>1. CASE n = f[e]
    <3>1. e \notin over' => e \notin over
      BY DEF Silent
    <3>2. QED
      BY <1>1, <1>2, <1>3, <1>4, <2>1, <3>1 DEF Exchanges, Follows, Agreed
  <2>2. CASE e \in over'
    <3>1. n.state \notin Resting /\ n.state \in Deaf /\ n.state \notin {"ACKRCVD", "OPENED"}
      BY <2>2 DEF Resting, Deaf, Silent
    <3>2. downs[q] > downs[e] => f[q].state \in Deaf
      BY <1>1, <1>4 DEF Follows
    <3>3. QED
      BY <1>3, <2>2, <3>1, <3>2
  <2>3. QED
    BY <2>1, <2>2
<1>9. F \in Seq(Frame) /\ One(F, Asks) /\ No(F, Asks) /\ One(F, Answers) /\ No(F, Answers)
  BY <1>6
<1> DEFINE o == go[e]
           h == ho[e]
<1>10. /\ o \in Options /\ h \in Lists /\ h = ho[e]
       /\ go' = [go EXCEPT ![e] = o] /\ ho' = [ho EXCEPT ![e] = h]
       /\ \A i \in 1 .. Len(F) : F[i].code = "CONFACK" => Granted(conf[e], h, F[i].opts)
       /\ n.state \in {"ACKRCVD", "OPENED"} => Granted(conf[q], ho[q], ipcp_addci(o))
  BY <1>3, <1>5, <1>6, <1>8
<1> HIDE DEF o, h
<1>11. /\ n.state \in Resting => Idle(w, e) /\ No(F, Asks)
       /\ e \notin over' /\ n.state \in Deaf /\ f[q].state \notin Deaf /\ downs'[e] = downs'[q]
            => Idle(w, e) /\ No(F, Asks)
       /\ q \notin over /\ f[q].state \in Deaf /\ n.state \notin Deaf /\ downs'[e] = downs'[q]
            => Idle(w, q) /\ No(F, Answers)
       /\ downs'[e] > downs'[q] => n.state \in Deaf
       /\ downs'[q] > downs'[e] => f[q].state \in Deaf
  BY <1>8, <1>9
<1>12. /\ req' \subseteq Ends /\ up' \subseteq Ends /\ downs' \in [Ends -> 0 .. MaxDowns]
       /\ f' = [f EXCEPT ![e] = n] /\ conf' = conf /\ losses' \in 0 .. MaxLosses
       /\ up' \ {e} = up \ {e} /\ (e \in up' => n.state = "OPENED")
       /\ over' \subseteq Ends /\ over' \ {e} = over \ {e} /\ (e \in over' => n.state = "INITIAL")
  BY <1>3 DEF Silent
<1> HIDE DEF q
<1>13. q = Peer(e)
  BY DEF q
<1>14. QED
  BY <1>7, <1>9, <1>10, <1>11, <1>12, <1>13, Preserved

\* A packet is lost on the line, or reaches an fsm that is deaf.
LEMMA LossKeeps ==
  ASSUME Inv, NEW e \in Ends, Lose(e) \/ Drop(e)
  PROVE  Inv'
<1>1. /\ wire[e] # << >> /\ wire' = Rest(e)
      /\ conf' = conf /\ f' = f /\ go' = go /\ ho' = ho /\ req' = req /\ up' = up
      /\ over' = over /\ downs' = downs
      /\ losses' = losses \/ (losses' = losses + 1 /\ losses < MaxLosses)
  BY DEF Lose, Drop, Rest
<1>2. /\ losses \in 0 .. MaxLosses /\ MaxLosses \in Nat
      /\ f \in [Ends -> FSM] /\ over \subseteq Ends /\ Lives(e)
  BY IpcpLinkAssumption DEF Inv, Typed
<1>3. losses' \in 0 .. MaxLosses
  BY <1>1, <1>2
<1>4. f' = [f EXCEPT ![e] = f[e]]
  BY <1>1, <1>2
<1>5. /\ Fresh(f[e]) /\ (e \in up' => f[e].state = "OPENED")
      /\ e \in over' => f[e].state = "INITIAL"
  BY <1>1, <1>2 DEF Lives
<1>6. Taken(Rest(e), e)
  BY <1>1 DEF Taken
<1>7. Silent(e, Rest(e), f[e])
  BY <1>1, <1>2, <1>3, <1>4, <1>5 DEF Silent
<1>8. QED
  BY <1>5, <1>6, <1>7, SilentKeeps

\* die: the end is gone.
LEMMA GoneKeeps ==
  ASSUME Inv, NEW e \in Ends, ReceiveAddressReject(e) \/ PeerGone(e)
  PROVE  Inv'
<1>1. Gone(e) /\ Taken(wire', e)
  BY DEF ReceiveAddressReject, PeerGone, Listening, Taken
<1>2. /\ f' = [f EXCEPT ![e] = fsm_init({}, 0)]
      /\ up' = up \ {e} /\ over' = over \cup {e}
      /\ conf' = conf /\ go' = go /\ ho' = ho /\ req' = req /\ downs' = downs /\ losses' = losses
  BY <1>1 DEF Gone
<1>3. losses' \in 0 .. MaxLosses /\ over \subseteq Ends
  BY <1>2 DEF Inv, Typed
<1> DEFINE n == fsm_init({}, 0)
<1>4. f' = [f EXCEPT ![e] = n] /\ Fresh(n) /\ n.state = "INITIAL"
  BY <1>2, FreshFacts
<1> HIDE DEF n
<1>5. /\ up' \subseteq up /\ up' \ {e} = up \ {e} /\ e \notin up'
      /\ over \subseteq over' /\ over' \subseteq Ends /\ over' \ {e} = over \ {e} /\ e \in over'
  BY <1>2, <1>3
<1>6. Silent(e, wire', n)
  BY <1>2, <1>3, <1>4, <1>5 DEF Silent
<1>7. QED
  BY <1>1, <1>4, <1>5, <1>6, SilentKeeps

----------------------------------------------------------------------------
(* The theorems.                                                           *)

\* The invariant holds before anything has happened.
LEMMA InitInv == Init => Inv
<1> SUFFICES ASSUME Init PROVE Inv
  OBVIOUS
<1>1. /\ conf \in [Ends -> Options] /\ {MaxLosses, MaxDowns} \subseteq Nat
  BY IpcpLinkAssumption DEF Init
<1>2. /\ f = [e \in Ends |-> fsm_init({}, 0)] /\ go = conf /\ ho = [e \in Ends |-> None]
      /\ req = {} /\ up = {} /\ over = {} /\ downs = [e \in Ends |-> 0]
      /\ wire = [e \in Ends |-> << >>] /\ losses = 0
  BY DEF Init
<1>3. Typed
  <2>1. fsm_init({}, 0) \in FSM
    BY FreshFacts DEF Fresh
  <2>2. None \in Lists /\ << >> \in Seq(Frame) /\ 0 \in 0 .. MaxDowns /\ 0 \in 0 .. MaxLosses
    BY <1>1, ListFacts
  <2>3. f \in [Ends -> FSM]
    BY <1>2, <2>1
  <2>4. QED
    BY <1>1, <1>2, <2>2, <2>3 DEF Typed
<1>4. ASSUME NEW e \in Ends
      PROVE  Lives(e) /\ Exchanges(e) /\ Follows(e) /\ Agreed(e)
  <2>1. Peer(e) \in Ends
    BY PeerFacts
  <2>2. /\ f[e] = fsm_init({}, 0) /\ f[Peer(e)] = fsm_init({}, 0)
        /\ wire[e] = << >> /\ wire[Peer(e)] = << >> /\ downs[e] = 0 /\ downs[Peer(e)] = 0
    BY <1>2, <2>1
  <2>3. /\ Fresh(f[e]) /\ f[e].state = "INITIAL" /\ f[Peer(e)].state = "INITIAL"
    BY <2>2, FreshFacts
  <2>4. Single(wire, e) /\ Idle(wire, e)
    BY <2>2 DEF Single, Idle, No, One
  <2>5. Lives(e)
    BY <1>2, <2>3 DEF Lives
  <2>6. Exchanges(e)
    BY <2>4 DEF Exchanges
  <2>7. Follows(e)
    BY <2>2, <2>3, <2>4 DEF Follows, Deaf
  <2>8. Agreed(e)
    BY <2>2, <2>3 DEF Agreed
  <2>9. QED
    BY <2>5, <2>6, <2>7, <2>8
<1>5. QED
  BY <1>3, <1>4 DEF Inv

\* Every step keeps it.
LEMMA NextInv == Inv /\ [Next]_vars => Inv'
<1> SUFFICES ASSUME Inv, [Next]_vars PROVE Inv'
  OBVIOUS
<1>1. CASE UNCHANGED vars
  <2>1. UNCHANGED <<conf, f, go, ho, req, up, over, downs, wire, losses>>
    BY <1>1 DEF vars
  <2>2. QED
    BY <2>1 DEF Inv, Typed, Lives, Exchanges, Follows, Agreed, Single, Idle
<1>2. CASE Next
  <2>1. PICK e \in Ends : LowerUp(e) \/ Open(e) \/ LowerDown(e) \/ Timeout3s(e) \/ Lose(e) \/ Deliver(e)
    BY <1>2 DEF Next
  <2>2. CASE LowerUp(e)
    BY <2>2, LowerUpKeeps
  <2>3. CASE Open(e)
    BY <2>3, OpenKeeps
  <2>4. CASE LowerDown(e)
    BY <2>4, LowerDownKeeps
  <2>5. CASE Timeout3s(e)
    BY <2>5, Timeout3sKeeps
  <2>6. CASE Lose(e) \/ Drop(e)
    BY <2>6, LossKeeps
  <2>7. CASE ReceiveRequest(e)
    BY <2>7, ReceiveRequestKeeps
  <2>8. CASE ReceiveAnswer(e)
    BY <2>8, ReceiveAnswerKeeps
  <2>9. CASE ReceiveOther(e)
    BY <2>9, ReceiveOtherKeeps
  <2>10. CASE ReceiveAddressReject(e) \/ PeerGone(e)
    BY <2>10, GoneKeeps
  <2>11. QED
    BY <2>1, <2>2, <2>3, <2>4, <2>5, <2>6, <2>7, <2>8, <2>9, <2>10 DEF Deliver
<1>3. QED
  BY <1>1, <1>2

(* At every moment at most one packet of an end's exchange is on the lines, *)
(* none at all while its fsm.c automaton rests, and a Configure-Ack on its  *)
(* way is about options its sender still grants.                            *)
THEOREM Invariant == Spec => []Inv
<1>1. QED
  BY InitInv, NextInv, PTL DEF Spec

(* The state of the two IPCPs keeps its types: fsm, gotoptions, hisoptions, *)
(* and an end that has died has no interface up.                            *)
THEOREM TypeCorrect == Spec => []TypeOK
<1>1. Inv => TypeOK
  <2> SUFFICES ASSUME Inv PROVE TypeOK
    OBVIOUS
  <2>1. up \cap over = {}
    BY DEF Inv, Typed, Lives
  <2>2. \A e \in Ends : DOMAIN ho[e] \subseteq CIs
    BY ListFacts DEF Inv, Typed
  <2>3. QED
    BY <2>1, <2>2 DEF Inv, Typed, TypeOK
<1>2. QED
  BY <1>1, Invariant, PTL

(* When both interfaces are up, each end's ipcp_hisoptions are what the     *)
(* other's ipcp_gotoptions ask for, whatever was lost, repeated after a     *)
(* timeout or cut short by LCP on the way.                                  *)
THEOREM EndsAgree == Spec => []Agreement
<1>1. Inv => Agreement
  <2> SUFFICES ASSUME Inv, up = Ends, NEW e \in Ends, NEW asked, asked = ipcp_addci(go[Peer(e)])
               PROVE  /\ DOMAIN ho[e] = DOMAIN asked
                      /\ "addr" \in DOMAIN asked => ho[e]["addr"] = go[Peer(e)].ouraddr
                      /\ "vj" \in DOMAIN asked =>
                            ho[e]["vj"].maxslotindex = asked["vj"].maxslotindex
    BY DEF Agreement
  <2> DEFINE q == Peer(e)
             wo == ipcp_resetci(conf[e])
  <2>1. q \in Ends /\ Peer(q) = e /\ go[q] \in Options
    BY PeerFacts DEF Inv, Typed
  <2>2. f[q].state = "OPENED"
    BY <2>1 DEF Inv, Lives
  <2>3. Granted(conf[e], ho[e], asked)
    BY <2>1, <2>2 DEF Inv, Agreed
  <2>4. /\ asked \in Lists /\ ho[e] = HisOptions(wo, asked) /\ Refused(wo, asked) = {}
    BY <2>3 DEF Granted
  <2> HIDE DEF wo
  <2>5. /\ DOMAIN ho[e] = DOMAIN asked
        /\ \A c \in DOMAIN asked :
              ho[e][c] = IF c = "addr" THEN asked[c] ELSE [asked[c] EXCEPT !.cflag = wo.vj.cflag]
    BY <2>4 DEF HisOptions
  <2>6. "addr" \in DOMAIN asked => ho[e]["addr"] = go[q].ouraddr
    BY <2>5 DEF ipcp_addci, Value
  <2>7. "vj" \in DOMAIN asked => asked["vj"] \in VJ
    BY <2>4, ListFacts
  <2>8. "vj" \in DOMAIN asked => ho[e]["vj"].maxslotindex = asked["vj"].maxslotindex
    BY <2>5, <2>7 DEF VJ
  <2>9. QED
    BY <2>5, <2>6, <2>8
<1>2. QED
  BY <1>1, Invariant, PTL


=============================================================================
