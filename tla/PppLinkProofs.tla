--------------------------- MODULE PppLinkProofs ---------------------------
(***************************************************************************)
(* Theorems about PppLink, for every pair of configurations, every retry   *)
(* limit, width of an id and set of magic numbers, and any number of lost  *)
(* packets, kills and restarts: two daemons that are up agree, and their   *)
(* magic numbers differ.  Once one was killed they are about daemons that  *)
(* are started again only when the packets of their last life have left    *)
(* the lines (Settled).                                                    *)
(***************************************************************************)
EXTENDS PppLink, SequenceTheorems, TLAPS

----------------------------------------------------------------------------
(* What the operations of fsm.c do, with the packets they send.            *)

\* g is an fsm in state s that has made the callbacks C, of those that matter
\* here, and sent packets with the codes w.
Ran(g, s, C, w) ==
    /\ g \in FSM /\ g.state = s
    /\ \A c \in {"up", "down", "resetci", "finished"} : c \in g.cb <=> c \in C
    /\ Len(g.out) = Len(w) /\ \A i \in 1 .. Len(w) : g.out[i].code = w[i]

\* Between two operations: all callbacks made, all packets sent.
Fresh(g) == g \in FSM /\ g.cb = {} /\ g.out = << >>

\* An operation starts with nothing called and nothing sent.
LEMMA RanStart ==
  ASSUME NEW g, Fresh(g)
  PROVE  Ran(g, g.state, {}, << >>) /\ g.state \in States
  BY DEF Fresh, Ran, FSM

\* An assignment to f->state, and a callback.
LEMMA RanGoto ==
  ASSUME NEW g, NEW s, NEW C, NEW w, Ran(g, s, C, w), NEW t \in States
  PROVE  Ran(Goto(g, t), t, C, w)
  BY DEF Ran, Goto, FSM

\* A callback that matters here is remembered.
LEMMA RanCall ==
  ASSUME NEW g, NEW s, NEW C, NEW w, Ran(g, s, C, w), NEW c \in Callbacks
  PROVE  Ran(Call(g, c), s, C \cup {c}, w)
  BY DEF Ran, Call, FSM

\* A callback that does not matter here.
LEMMA RanCallOther ==
  ASSUME NEW g, NEW s, NEW C, NEW w, Ran(g, s, C, w),
         NEW c \in {"starting", "retransmit"}
  PROVE  Ran(Call(g, c), s, C, w)
  BY DEF Ran, Call, FSM, Callbacks

\* Counters, ids and callouts.
LEMMA RanSet ==
  ASSUME NEW g, NEW s, NEW C, NEW w, Ran(g, s, C, w)
  PROVE  /\ \A n \in Int : Ran(SetRetransmits(g, n), s, C, w)
         /\ \A n \in 0 .. MaxNak : Ran(SetNakloops(g, n), s, C, w)
         /\ \A i \in Ids : Ran(SetReqid(g, i), s, C, w)
  BY DEF Ran, SetRetransmits, SetNakloops, SetReqid, FSM

\* PPP_TIMEOUT and PPP_UNTIMEOUT touch neither state nor packets.
LEMMA RanTimer ==
  ASSUME NEW g, NEW s, NEW C, NEW w, Ran(g, s, C, w)
  PROVE  Ran(Timeout(g), s, C, w) /\ Ran(Untimeout(g), s, C, w)
<1>1. /\ g.timers + 1 \in Nat
      /\ (IF g.timers > 0 THEN g.timers - 1 ELSE 0) \in Nat
  BY DEF Ran, FSM
<1>2. QED
  BY <1>1 DEF Ran, Timeout, Untimeout, FSM

\* Nor do new ids.
LEMMA RanId ==
  ASSUME NEW g, NEW s, NEW C, NEW w, Ran(g, s, C, w)
  PROVE  Ran(NewReqid(g), s, C, w)
<1>1. g.id \in Ids
  BY DEF Ran, FSM
<1>2. NextId(g.id) \in Ids
  BY <1>1, FsmAssumption DEF NextId, Ids
<1>3. Ran(IncrId(g), s, C, w) /\ IncrId(g).id \in Ids
  BY <1>2 DEF Ran, IncrId, FSM
<1>4. QED
  BY <1>3, RanSet DEF NewReqid

\* A packet is sent.
LEMMA RanSdata ==
  ASSUME NEW g, NEW s, NEW C, NEW w \in Seq(Codes), Ran(g, s, C, w),
         NEW c \in Codes, NEW i \in Ids
  PROVE  Ran(fsm_sdata(g, c, i), s, C, Append(w, c)) /\ Append(w, c) \in Seq(Codes)
<1> DEFINE p == [code |-> c, id |-> i]
           out == Append(g.out, p)
<1>1. p \in Packet /\ p.code = c
  BY DEF Packet
<1>2. fsm_sdata(g, c, i) = [g EXCEPT !.out = Append(@, p)]
  BY DEF fsm_sdata
<1> HIDE DEF p
<1>3. g.out \in Seq(Packet) /\ Len(g.out) = Len(w) /\ \A j \in 1 .. Len(w) : g.out[j].code = w[j]
  BY DEF Ran, FSM
<1>4. /\ out \in Seq(Packet) /\ Append(w, c) \in Seq(Codes)
      /\ Len(out) = Len(w) + 1 /\ Len(Append(w, c)) = Len(w) + 1 /\ Len(w) \in Nat
  BY <1>1, <1>3
<1>5. ASSUME NEW j \in 1 .. Len(w) + 1 PROVE out[j].code = Append(w, c)[j]
  <2>1. CASE j = Len(w) + 1
    BY <1>1, <1>3, <2>1
  <2>2. CASE j # Len(w) + 1
    <3>1. j \in 1 .. Len(w)
      BY <1>4, <2>2
    <3>2. out[j] = g.out[j] /\ Append(w, c)[j] = w[j]
      BY <1>1, <1>3, <3>1
    <3>3. QED
      BY <1>3, <3>1, <3>2
  <2>3. QED
    BY <2>1, <2>2
<1>6. fsm_sdata(g, c, i) = [g EXCEPT !.out = out]
  BY <1>2 DEF Ran, FSM
<1> HIDE DEF out
<1>7. QED
  BY <1>4, <1>5, <1>6 DEF Ran, FSM

\* A request is sent, fresh or again.
LEMMA RanRequest ==
  ASSUME NEW g, NEW s, NEW C, NEW w \in Seq(Codes), Ran(g, s, C, w), NEW c \in Codes
  PROVE  Ran(SendRequest(g, c), s, C, Append(w, c)) /\ Append(w, c) \in Seq(Codes)
<1>1. g.reqid \in Ids /\ g.retransmits - 1 \in Int
  BY DEF Ran, FSM
<1>2. Ran(fsm_sdata(g, c, g.reqid), s, C, Append(w, c)) /\ Append(w, c) \in Seq(Codes)
  BY <1>1, RanSdata
<1>3. Ran(SetRetransmits(fsm_sdata(g, c, g.reqid), g.retransmits - 1), s, C, Append(w, c))
  BY <1>1, <1>2, RanSet
<1>4. QED
  BY <1>2, <1>3, RanTimer DEF SendRequest

\* fsm_sconfreq resets the options unless a negotiation is going on.
LEMMA RanSconfreq ==
  ASSUME NEW g, NEW s, NEW C, NEW w \in Seq(Codes), Ran(g, s, C, w), NEW r \in BOOLEAN
  PROVE  /\ Ran(fsm_sconfreq(g, r), s,
                IF s \in Negotiating THEN C ELSE C \cup {"resetci"}, Append(w, "CONFREQ"))
         /\ Append(w, "CONFREQ") \in Seq(Codes)
<1> DEFINE a == ResetOptions(g)
           b == IF r THEN a ELSE NewReqid(SetRetransmits(a, MaxConf))
           D == IF s \in Negotiating THEN C ELSE C \cup {"resetci"}
<1>1. g.state = s
  BY DEF Ran
<1>2. Ran(a, s, D, w)
  <2>1. CASE s \in Negotiating
    BY <1>1, <2>1 DEF ResetOptions
  <2>2. CASE s \notin Negotiating
    <3>1. 0 \in 0 .. MaxNak /\ "resetci" \in Callbacks
      BY FsmAssumption DEF Callbacks
    <3>2. Ran(Call(g, "resetci"), s, C \cup {"resetci"}, w)
      BY <3>1, RanCall
    <3>3. a = SetNakloops(Call(g, "resetci"), 0)
      BY <1>1, <2>2 DEF ResetOptions
    <3>4. QED
      BY <2>2, <3>1, <3>2, <3>3, RanSet
  <2>3. QED
    BY <2>1, <2>2
<1> HIDE DEF a, D
<1>3. Ran(SetRetransmits(a, MaxConf), s, D, w)
  BY <1>2, FsmAssumption, RanSet
<1>4. Ran(b, s, D, w)
  BY <1>2, <1>3, RanId
<1>5. fsm_sconfreq(g, r) = SendRequest(b, "CONFREQ") /\ "CONFREQ" \in Codes
  BY DEF fsm_sconfreq, a, Codes
<1> HIDE DEF b
<1>6. Ran(fsm_sconfreq(g, r), s, D, Append(w, "CONFREQ")) /\ Append(w, "CONFREQ") \in Seq(Codes)
  BY <1>4, <1>5, RanRequest
<1>7. QED
  BY <1>6 DEF D

\* A new negotiation sends a request and waits in REQSENT.
LEMMA RanRenegotiate ==
  ASSUME NEW g, NEW s, NEW C, NEW w \in Seq(Codes), Ran(g, s, C, w)
  PROVE  Ran(Renegotiate(g), "REQSENT",
             IF s \in Negotiating THEN C ELSE C \cup {"resetci"}, Append(w, "CONFREQ"))
  BY RanSconfreq, RanGoto DEF Renegotiate, States

\* A Terminate-Request.
LEMMA RanTerminate ==
  ASSUME NEW g, NEW s, NEW C, NEW w \in Seq(Codes), Ran(g, s, C, w)
  PROVE  /\ Ran(SendTermReq(g), s, C, Append(w, "TERMREQ"))
         /\ Ran(StartTerminate(g), s, C, Append(w, "TERMREQ"))
<1>1. "TERMREQ" \in Codes
  BY DEF Codes
<1>2. ASSUME NEW h, Ran(h, s, C, w) PROVE Ran(SendTermReq(h), s, C, Append(w, "TERMREQ"))
  BY <1>1, <1>2, RanId, RanRequest DEF SendTermReq
<1>3. Ran(SetRetransmits(g, MaxTerm), s, C, w)
  BY FsmAssumption, RanSet
<1>4. QED
  BY <1>2, <1>3 DEF StartTerminate

----------------------------------------------------------------------------
(* The operations, on a fresh fsm.                                         *)

\* ppp_task starts an fsm that has never run: fsm_lowerup, then fsm_open.
LEMMA StartRan ==
  ASSUME NEW g, Fresh(g), g.state = "INITIAL"
  PROVE  LET h == fsm_open(fsm_lowerup(g))
         IN  Ran(h, "STOPPED", {}, << >>) \/ Ran(h, "REQSENT", {"resetci"}, <<"CONFREQ">>)
<1> DEFINE a == fsm_lowerup(g)
<1>1. Ran(g, g.state, {}, << >>)
  BY RanStart
<1>2. a = Goto(g, "CLOSED")
  BY DEF fsm_lowerup
<1>3. Ran(a, "CLOSED", {}, << >>)
  BY <1>1, <1>2, RanGoto DEF States
<1> HIDE DEF a
<1>4. Ran(Goto(a, "STOPPED"), "STOPPED", {}, << >>)
  BY <1>3, RanGoto DEF States
<1>5. Ran(Renegotiate(a), "REQSENT", {"resetci"}, <<"CONFREQ">>)
  <2>1. << >> \in Seq(Codes) /\ Append(<< >>, "CONFREQ") = <<"CONFREQ">>
    OBVIOUS
  <2>2. {} \cup {"resetci"} = {"resetci"} /\ "CLOSED" \notin Negotiating
    BY DEF Negotiating
  <2>3. Ran(Renegotiate(a), "REQSENT",
            IF "CLOSED" \in Negotiating THEN {} ELSE {} \cup {"resetci"}, Append(<< >>, "CONFREQ"))
    BY <1>3, <2>1, RanRenegotiate
  <2>4. QED
    BY <2>1, <2>2, <2>3
<1>6. a.state = "CLOSED"
  BY <1>3 DEF Ran
<1>7. fsm_open(a) = Goto(a, "STOPPED") \/ fsm_open(a) = Renegotiate(a)
  BY <1>6 DEF fsm_open
<1>8. QED
  BY <1>4, <1>5, <1>7 DEF a

\* The states in which nothing of the fsm is under way.
Resting == {"CLOSED", "STOPPED", "ACKRCVD", "OPENED"}

\* fsm_timeout: a request again, or the end of the retries.
LEMMA ExpireRan ==
  ASSUME NEW g, Fresh(g)
  PROVE  \/ Ran(Expire(g), g.state, {}, << >>) /\ g.state \notin Terminating \cup Negotiating
         \/ \E s \in {"CLOSED", "STOPPED"}, C \in SUBSET {"finished"} :
                Ran(Expire(g), s, C, << >>) /\ g.state # "OPENED"
         \/ \E s \in States \ (Resting \cup Deaf), c \in {"CONFREQ", "TERMREQ"} :
                /\ Ran(Expire(g), s, {}, <<c>>) /\ g.state # "OPENED"
                /\ s = g.state \/ s = "REQSENT"
<1> DEFINE u == Untimeout(g)
<1>1. Ran(u, g.state, {}, << >>) /\ g.state \in States
  BY RanStart, RanTimer
<1>2. u.state = g.state
  BY <1>1 DEF Ran
<1>3. Expire(g) = fsm_timeout(u)
  BY DEF Expire
<1> HIDE DEF u
<1>4. << >> \in Seq(Codes) /\ \A c : Append(<< >>, c) = <<c>>
  OBVIOUS
<1>5. ASSUME NEW s \in {"CLOSED", "STOPPED"}
      PROVE  Ran(Goto(u, s), s, {}, << >>) /\ Ran(Call(Goto(u, s), "finished"), s, {"finished"}, << >>)
  <2>1. Ran(Goto(u, s), s, {}, << >>)
    BY <1>1, RanGoto DEF States
  <2>2. Ran(Call(Goto(u, s), "finished"), s, {} \cup {"finished"}, << >>)
    BY <2>1, RanCall DEF Callbacks
  <2>3. {} \cup {"finished"} = {"finished"}
    OBVIOUS
  <2>4. QED
    BY <2>1, <2>2, <2>3
<1>6. CASE g.state \in Terminating
  <2>1. Ran(SendTermReq(u), g.state, {}, <<"TERMREQ">>)
    BY <1>1, <1>4, RanTerminate
  <2>2. \/ fsm_timeout(u) = SendTermReq(u)
        \/ fsm_timeout(u) = Call(Goto(u, "CLOSED"), "finished")
        \/ fsm_timeout(u) = Call(Goto(u, "STOPPED"), "finished")
    <3>1. CASE u.retransmits <= 0
      <4>1. fsm_timeout(u) =
              Call(Goto(u, IF u.state = "CLOSING" THEN "CLOSED" ELSE "STOPPED"), "finished")
        BY <1>2, <1>6, <3>1 DEF fsm_timeout, Terminating, Negotiating
      <4>2. QED
        BY <4>1
    <3>2. CASE ~ (u.retransmits <= 0)
      BY <1>2, <1>6, <3>2 DEF fsm_timeout, Terminating, Negotiating
    <3>3. QED
      BY <3>1, <3>2
  <2>3. g.state \in States \ (Resting \cup Deaf) /\ g.state # "OPENED"
    BY <1>1, <1>6 DEF Terminating, Resting, Deaf
  <2>4. QED
    BY <1>3, <1>5, <2>1, <2>2, <2>3
<1>7. CASE g.state \in Negotiating
  <2> DEFINE a == fsm_sconfreq(Call(u, "retransmit"), TRUE)
  <2>1. Ran(a, g.state, {}, <<"CONFREQ">>)
    <3>1. Ran(Call(u, "retransmit"), g.state, {}, << >>)
      BY <1>1, RanCallOther
    <3>2. Ran(a, g.state, IF g.state \in Negotiating THEN {} ELSE {} \cup {"resetci"},
              Append(<< >>, "CONFREQ"))
      BY <1>4, <3>1, RanSconfreq
    <3>3. QED
      BY <1>4, <1>7, <3>2
  <2>2. a.state = g.state
    BY <2>1 DEF Ran
  <2>3. \/ fsm_timeout(u) = a /\ g.state # "ACKRCVD"
        \/ fsm_timeout(u) = Goto(a, "REQSENT")
        \/ fsm_timeout(u) = Goto(u, "STOPPED")
        \/ fsm_timeout(u) = Call(Goto(u, "STOPPED"), "finished")
    <3> HIDE DEF a
    <3>1. u.retransmits > 0 \/ u.retransmits <= 0
      BY <1>1 DEF Ran, FSM
    <3>2. QED
      BY <1>2, <1>7, <2>2, <3>1 DEF fsm_timeout, Negotiating, Terminating, a
  <2> HIDE DEF a
  <2>4. Ran(Goto(a, "REQSENT"), "REQSENT", {}, <<"CONFREQ">>)
    BY <2>1, RanGoto DEF States
  <2>5. /\ "REQSENT" \in States \ (Resting \cup Deaf) /\ g.state # "OPENED"
        /\ g.state # "ACKRCVD" => g.state \in States \ (Resting \cup Deaf)
    BY <1>7 DEF Negotiating, States, Resting, Deaf
  <2>6. QED
    BY <1>3, <1>5, <2>1, <2>3, <2>4, <2>5
<1>8. CASE g.state \notin Terminating \cup Negotiating
  <2>1. fsm_timeout(u) = u
    BY <1>2, <1>8 DEF fsm_timeout
  <2>2. QED
    BY <1>1, <1>3, <1>8, <2>1
<1>9. QED
  BY <1>6, <1>7, <1>8

\* The head of fsm_rconfreq: OPENED and STOPPED start a new negotiation.
LEMMA PrepareRan ==
  ASSUME NEW g, Fresh(g), g.state \notin Deaf \cup Terminating \cup {"CLOSED"}
  PROVE  /\ g.state = "OPENED" =>
              Ran(RconfreqPrepare(g), "OPENED", {"down", "resetci"}, <<"CONFREQ">>)
         /\ g.state = "STOPPED" =>
              Ran(RconfreqPrepare(g), "REQSENT", {"resetci"}, <<"CONFREQ">>)
         /\ g.state \in Negotiating =>
              RconfreqPrepare(g) = g /\ Ran(g, g.state, {}, << >>)
<1>1. Ran(g, g.state, {}, << >>)
  BY RanStart
<1>2. /\ << >> \in Seq(Codes) /\ Append(<< >>, "CONFREQ") = <<"CONFREQ">>
      /\ {} \cup {"resetci"} = {"resetci"} /\ {} \cup {"down"} = {"down"}
      /\ {"down"} \cup {"resetci"} = {"down", "resetci"}
  OBVIOUS
<1>3. CASE g.state = "OPENED"
  <2>1. Ran(Call(g, "down"), "OPENED", {"down"}, << >>)
    <3>1. Ran(Call(g, "down"), "OPENED", {} \cup {"down"}, << >>)
      BY <1>1, <1>3, RanCall DEF Callbacks
    <3>2. QED
      BY <1>2, <3>1
  <2>2. Ran(fsm_sconfreq(Call(g, "down"), FALSE), "OPENED",
            IF "OPENED" \in Negotiating THEN {"down"} ELSE {"down"} \cup {"resetci"},
            Append(<< >>, "CONFREQ"))
    BY <1>2, <2>1, RanSconfreq
  <2>3. "OPENED" \notin Negotiating
    BY DEF Negotiating
  <2>4. RconfreqPrepare(g) = fsm_sconfreq(Call(g, "down"), FALSE)
    BY <1>3 DEF RconfreqPrepare
  <2>5. QED
    BY <1>2, <1>3, <2>2, <2>3, <2>4 DEF Negotiating
<1>4. CASE g.state = "STOPPED"
  <2>1. "STOPPED" \notin Negotiating
    BY DEF Negotiating
  <2>2. Ran(Renegotiate(g), "REQSENT",
            IF "STOPPED" \in Negotiating THEN {} ELSE {} \cup {"resetci"},
            Append(<< >>, "CONFREQ"))
    BY <1>1, <1>2, <1>4, RanRenegotiate
  <2>3. RconfreqPrepare(g) = Renegotiate(g)
    BY <1>4 DEF RconfreqPrepare
  <2>4. QED
    BY <1>2, <1>4, <2>1, <2>2, <2>3
<1>5. CASE g.state \in Negotiating
  BY <1>1, <1>5 DEF RconfreqPrepare, Negotiating
<1>6. QED
  BY <1>3, <1>4, <1>5

Replies == {"CONFACK", "CONFNAK", "CONFREJ"}

\* The reply: an Ack in ACKRCVD opens the fsm.
LEMMA ReplyRan ==
  ASSUME NEW g, NEW s \in States, NEW C, NEW w \in Seq(Codes), Ran(g, s, C, w),
         NEW c \in Replies, NEW i \in Ids
  PROVE  /\ s = "ACKRCVD" /\ c = "CONFACK" =>
              Ran(RconfreqReply(g, c, i), "OPENED", C \cup {"up"}, Append(w, c))
         /\ s = "ACKRCVD" /\ c # "CONFACK" =>
              Ran(RconfreqReply(g, c, i), "ACKRCVD", C, Append(w, c))
         /\ s # "ACKRCVD" =>
              Ran(RconfreqReply(g, c, i), IF c = "CONFACK" THEN "ACKSENT" ELSE "REQSENT",
                  C, Append(w, c))
<1> DEFINE a == fsm_sdata(g, c, i)
           b == IF c = "CONFNAK" /\ a.nakloops < MaxNak
                  THEN SetNakloops(a, a.nakloops + 1) ELSE a
<1>1. Ran(a, s, C, Append(w, c)) /\ g.state = s
  <2>1. c \in Codes
    BY DEF Replies, Codes
  <2>2. g.state = s
    BY DEF Ran
  <2>3. QED
    BY <2>1, <2>2, RanSdata
<1> HIDE DEF a
<1>2. MaxNak \in Nat /\ 0 \in 0 .. MaxNak
  BY FsmAssumption
<1>3. Ran(b, s, C, Append(w, c))
  <2>1. CASE c = "CONFNAK" /\ a.nakloops < MaxNak
    <3>1. a.nakloops + 1 \in 0 .. MaxNak
      <4>1. a.nakloops \in 0 .. MaxNak
        BY <1>1 DEF Ran, FSM
      <4>2. QED
        BY <1>2, <2>1, <4>1
    <3>2. b = SetNakloops(a, a.nakloops + 1)
      BY <2>1
    <3>3. QED
      BY <1>1, <3>1, <3>2, RanSet
  <2>2. CASE ~ (c = "CONFNAK" /\ a.nakloops < MaxNak)
    <3>1. b = a
      BY <2>2
    <3>2. QED
      BY <1>1, <3>1
  <2>3. QED
    BY <2>1, <2>2
<1> HIDE DEF b
<1>4. /\ c = "CONFACK" /\ s = "ACKRCVD" =>
            RconfreqReply(g, c, i) = SetNakloops(Call(Goto(Untimeout(a), "OPENED"), "up"), 0)
      /\ c = "CONFACK" /\ s # "ACKRCVD" =>
            RconfreqReply(g, c, i) = SetNakloops(Goto(a, "ACKSENT"), 0)
      /\ c # "CONFACK" =>
            RconfreqReply(g, c, i) = IF s = "ACKRCVD" THEN b ELSE Goto(b, "REQSENT")
  BY <1>1 DEF RconfreqReply, a, b
<1>5. CASE c = "CONFACK" /\ s = "ACKRCVD"
  <2>1. Ran(Goto(Untimeout(a), "OPENED"), "OPENED", C, Append(w, c))
    BY <1>1, RanTimer, RanGoto DEF States
  <2>2. Ran(Call(Goto(Untimeout(a), "OPENED"), "up"), "OPENED", C \cup {"up"}, Append(w, c))
    BY <2>1, RanCall DEF Callbacks
  <2>3. QED
    BY <1>2, <1>4, <1>5, <2>2, RanSet
<1>6. CASE c = "CONFACK" /\ s # "ACKRCVD"
  <2>1. Ran(Goto(a, "ACKSENT"), "ACKSENT", C, Append(w, c))
    BY <1>1, RanGoto DEF States
  <2>2. QED
    BY <1>2, <1>4, <1>6, <2>1, RanSet
<1>7. CASE c # "CONFACK"
  <2>1. Ran(Goto(b, "REQSENT"), "REQSENT", C, Append(w, c))
    BY <1>3, RanGoto DEF States
  <2>2. QED
    BY <1>3, <1>4, <1>7, <2>1
<1>8. QED
  BY <1>5, <1>6, <1>7

\* A list of two.
LEMMA TwoCodes ==
  ASSUME NEW b \in Codes, NEW c \in Codes
  PROVE  Append(<<b>>, c) = <<b, c>>
<1> DEFINE x == <<b>>
           y == <<b, c>>
<1>1. x \in Seq(Codes) /\ Len(x) = 1 /\ x[1] = b
  OBVIOUS
<1>2. y \in Seq(Codes) /\ Len(y) = 2 /\ y[1] = b /\ y[2] = c
  OBVIOUS
<1> HIDE DEF x, y
<1>3. /\ Append(x, c) \in Seq(Codes) /\ Len(Append(x, c)) = 2
      /\ Append(x, c)[1] = b /\ Append(x, c)[2] = c
  <2> DEFINE z == Append(x, c)
  <2>1. /\ z \in Seq(Codes) /\ Len(z) = Len(x) + 1
        /\ \A i \in 1 .. Len(x) : z[i] = x[i]
        /\ z[Len(x) + 1] = c
    BY <1>1, AppendProperties
  <2>2. Len(x) + 1 = 2 /\ 1 \in 1 .. Len(x)
    BY <1>1
  <2> HIDE DEF z
  <2>3. z \in Seq(Codes) /\ Len(z) = 2 /\ z[1] = b /\ z[2] = c
    BY <1>1, <2>1, <2>2
  <2>4. QED
    BY <2>3 DEF z
<1>4. \A i \in 1 .. 2 : Append(x, c)[i] = y[i]
  BY <1>2, <1>3
<1>5. Append(x, c) = y
  BY <1>2, <1>3, <1>4, SeqEqual
<1>6. QED
  BY <1>5 DEF x, y

\* A Configure-Request, in every state that hears it.
LEMMA RconfreqRan ==
  ASSUME NEW g, Fresh(g), NEW c \in Replies, NEW i \in Ids
  PROVE  LET h == fsm_rconfreq(g, i, c)
         IN  /\ g.state = "CLOSED" => Ran(h, "CLOSED", {}, <<"TERMACK">>)
             /\ g.state \in Terminating => Ran(h, g.state, {}, << >>)
             /\ g.state \in {"OPENED", "STOPPED"} =>
                  \E s \in {"ACKSENT", "REQSENT"}, C \in SUBSET {"down", "resetci"} :
                      /\ Ran(h, s, C, <<"CONFREQ", c>>)
                      /\ g.state = "OPENED" => "down" \in C
                      /\ s = "ACKSENT" => c = "CONFACK"
             /\ g.state \in {"REQSENT", "ACKSENT"} =>
                  \E s \in {"ACKSENT", "REQSENT"} :
                      Ran(h, s, {}, <<c>>) /\ (s = "ACKSENT" => c = "CONFACK")
             /\ g.state = "ACKRCVD" =>
                  \/ Ran(h, "OPENED", {"up"}, <<c>>) /\ c = "CONFACK"
                  \/ Ran(h, "ACKRCVD", {}, <<c>>)
<1> DEFINE h == fsm_rconfreq(g, i, c)
           p == RconfreqPrepare(g)
<1>1. Ran(g, g.state, {}, << >>) /\ g.state \in States /\ c \in Codes
  BY RanStart DEF Replies, Codes
<1>2. /\ << >> \in Seq(Codes) /\ <<"CONFREQ">> \in Seq(Codes)
      /\ \A x : Append(<< >>, x) = <<x>>
      /\ Append(<<"CONFREQ">>, c) = <<"CONFREQ", c>>
      /\ {} \cup {"up"} = {"up"}
  <2>1. << >> \in Seq(Codes) /\ <<"CONFREQ">> \in Seq(Codes)
    BY DEF Codes
  <2>2. \A x : Append(<< >>, x) = <<x>>
    OBVIOUS
  <2>3. Append(<<"CONFREQ">>, c) = <<"CONFREQ", c>>
    BY <1>1, TwoCodes DEF Codes
  <2>4. QED
    BY <2>1, <2>2, <2>3
<1>3. CASE g.state = "CLOSED"
  <2>1. h = fsm_sdata(g, "TERMACK", i)
    BY <1>3 DEF fsm_rconfreq, Terminating
  <2>2. Ran(h, "CLOSED", {}, Append(<< >>, "TERMACK"))
    <3>1. Ran(g, "CLOSED", {}, << >>) /\ "TERMACK" \in Codes
      BY <1>1, <1>3 DEF Codes
    <3>2. Ran(fsm_sdata(g, "TERMACK", i), "CLOSED", {}, Append(<< >>, "TERMACK"))
      BY <1>2, <3>1, RanSdata
    <3>3. QED
      BY <2>1, <3>2
  <2>3. QED
    BY <1>2, <1>3, <2>2 DEF Terminating
<1>4. CASE g.state \in Terminating
  <2>1. h = g
    BY <1>4 DEF fsm_rconfreq, Terminating
  <2>2. QED
    BY <1>1, <1>4, <2>1 DEF Terminating
<1>5. CASE g.state \notin Terminating \cup Deaf \cup {"CLOSED"}
  <2>1. h = RconfreqReply(p, c, i)
    BY <1>5 DEF fsm_rconfreq
  <2> HIDE DEF h, p
  <2>2. CASE g.state = "OPENED"
    <3>1. Ran(p, "OPENED", {"down", "resetci"}, <<"CONFREQ">>)
      BY <1>5, <2>2, PrepareRan DEF p
    <3>2. Ran(h, IF c = "CONFACK" THEN "ACKSENT" ELSE "REQSENT", {"down", "resetci"},
              Append(<<"CONFREQ">>, c))
      BY <1>2, <2>1, <3>1, ReplyRan DEF States
    <3>3. QED
      BY <1>2, <2>2, <3>2 DEF Terminating, h
  <2>3. CASE g.state = "STOPPED"
    <3>1. Ran(p, "REQSENT", {"resetci"}, <<"CONFREQ">>)
      BY <1>5, <2>3, PrepareRan DEF p
    <3>2. Ran(h, IF c = "CONFACK" THEN "ACKSENT" ELSE "REQSENT", {"resetci"},
              Append(<<"CONFREQ">>, c))
      BY <1>2, <2>1, <3>1, ReplyRan DEF States
    <3>3. \E s \in {"ACKSENT", "REQSENT"} :
             Ran(h, s, {"resetci"}, <<"CONFREQ", c>>) /\ (s = "ACKSENT" => c = "CONFACK")
      BY <1>2, <3>2
    <3>4. {"resetci"} \in SUBSET {"down", "resetci"}
      OBVIOUS
    <3>5. QED
      BY <2>3, <3>3, <3>4 DEF Terminating, h
  <2>4. CASE g.state \in {"REQSENT", "ACKSENT"}
    <3>1. Ran(p, g.state, {}, << >>)
      BY <1>5, <2>4, PrepareRan DEF p, Negotiating
    <3>2. Ran(h, IF c = "CONFACK" THEN "ACKSENT" ELSE "REQSENT", {}, Append(<< >>, c))
      BY <1>1, <1>2, <2>1, <2>4, <3>1, ReplyRan
    <3>3. QED
      BY <1>2, <2>4, <3>2 DEF Terminating, h
  <2>5. CASE g.state = "ACKRCVD"
    <3>1. Ran(p, "ACKRCVD", {}, << >>)
      BY <1>5, <2>5, PrepareRan DEF p, Negotiating
    <3>2. \/ Ran(h, "OPENED", {} \cup {"up"}, Append(<< >>, c)) /\ c = "CONFACK"
          \/ Ran(h, "ACKRCVD", {}, Append(<< >>, c))
      BY <1>2, <2>1, <3>1, ReplyRan DEF States
    <3>3. QED
      BY <1>2, <2>5, <3>2 DEF Terminating, h
  <2>6. QED
    BY <1>1, <1>5, <2>2, <2>3, <2>4, <2>5 DEF States, Deaf, Terminating
<1>6. CASE g.state \in Deaf
  BY <1>6 DEF Deaf, Terminating
<1>7. QED
  BY <1>3, <1>4, <1>5, <1>6

\* The states in which an answer can arrive.
Waiting == {"REQSENT", "ACKSENT"} \cup Terminating

\* An Ack that is the right one brings the fsm on.
LEMMA RconfackRan ==
  ASSUME NEW g, Fresh(g), g.state \in Waiting, NEW i \in Ids, NEW good \in BOOLEAN
  PROVE  LET h == fsm_rconfack(g, i, good)
         IN  \/ Ran(h, g.state, {}, << >>)
             \/ good /\ Ran(h, "ACKRCVD", {}, << >>)
             \/ good /\ Ran(h, "OPENED", {"up"}, << >>)
<1> DEFINE h == fsm_rconfack(g, i, good)
           r == SetReqid(g, NoReq)
<1>1. Ran(g, g.state, {}, << >>)
  BY RanStart
<1>2. NoReq \in Ids /\ MaxConf \in Int
  BY FsmAssumption DEF NoReq, Ids
<1>3. Ran(r, g.state, {}, << >>)
  BY <1>1, <1>2, RanSet
<1>4. CASE i # g.reqid \/ ~ good
  <2>1. h = g
    BY <1>4 DEF fsm_rconfack
  <2>2. QED
    BY <1>1, <2>1
<1>5. CASE i = g.reqid /\ good
  <2>1. r.state = g.state
    BY <1>3 DEF Ran
  <2>2. /\ g.state = "REQSENT" => h = SetRetransmits(Goto(r, "ACKRCVD"), MaxConf)
        /\ g.state = "ACKSENT" =>
             h = Call(SetRetransmits(Goto(Untimeout(r), "OPENED"), MaxConf), "up")
        /\ g.state \in Terminating => h = r
    <3> HIDE DEF r
    <3>1. h = CASE r.state \in {"CLOSED", "STOPPED"} -> fsm_sdata(r, "TERMACK", i)
                [] r.state = "REQSENT" -> SetRetransmits(Goto(r, "ACKRCVD"), MaxConf)
                [] r.state = "ACKRCVD" -> Renegotiate(r)
                [] r.state = "ACKSENT" ->
                     Call(SetRetransmits(Goto(Untimeout(r), "OPENED"), MaxConf), "up")
                [] r.state = "OPENED"  -> Renegotiate(Call(r, "down"))
                [] OTHER               -> r
      BY <1>5 DEF fsm_rconfack, r
    <3> HIDE DEF h
    <3>2. QED
      BY <2>1, <3>1 DEF Terminating
  <2> HIDE DEF r, h
  <2>3. Ran(Goto(r, "ACKRCVD"), "ACKRCVD", {}, << >>)
    BY <1>3, RanGoto DEF States
  <2>4. Ran(Goto(Untimeout(r), "OPENED"), "OPENED", {}, << >>)
    BY <1>3, RanTimer, RanGoto DEF States
  <2>5. Ran(SetRetransmits(Goto(r, "ACKRCVD"), MaxConf), "ACKRCVD", {}, << >>)
    BY <1>2, <2>3, RanSet
  <2>6. Ran(SetRetransmits(Goto(Untimeout(r), "OPENED"), MaxConf), "OPENED", {}, << >>)
    BY <1>2, <2>4, RanSet
  <2>7. Ran(Call(SetRetransmits(Goto(Untimeout(r), "OPENED"), MaxConf), "up"), "OPENED",
            {"up"}, << >>)
    <3>1. "up" \in Callbacks /\ {} \cup {"up"} = {"up"}
      BY DEF Callbacks
    <3>2. Ran(Call(SetRetransmits(Goto(Untimeout(r), "OPENED"), MaxConf), "up"), "OPENED",
              {} \cup {"up"}, << >>)
      BY <2>6, <3>1, RanCall
    <3>3. QED
      BY <3>1, <3>2
  <2>8. CASE g.state = "REQSENT"
    BY <1>5, <2>2, <2>5, <2>8 DEF h
  <2>9. CASE g.state = "ACKSENT"
    BY <1>5, <2>2, <2>7, <2>9 DEF h
  <2>10. CASE g.state \in Terminating
    BY <1>3, <2>2, <2>10 DEF h
  <2>11. QED
    BY <2>8, <2>9, <2>10 DEF Waiting
<1>6. QED
  BY <1>4, <1>5

\* A Nak or a Reject is answered by a new request, or not at all.
LEMMA RconfnakrejRan ==
  ASSUME NEW g, Fresh(g), g.state \in Waiting, NEW i \in Ids, NEW good \in BOOLEAN
  PROVE  LET h == fsm_rconfnakrej(g, i, good)
         IN  \/ Ran(h, g.state, {}, << >>)
             \/ Ran(h, g.state, {}, <<"CONFREQ">>)
<1> DEFINE h == fsm_rconfnakrej(g, i, good)
           r == SetReqid(g, NoReq)
<1>1. Ran(g, g.state, {}, << >>)
  BY RanStart
<1>2. NoReq \in Ids
  BY FsmAssumption DEF NoReq, Ids
<1>3. Ran(r, g.state, {}, << >>)
  BY <1>1, <1>2, RanSet
<1>4. CASE i # g.reqid \/ ~ good
  <2>1. h = g
    BY <1>4 DEF fsm_rconfnakrej
  <2>2. QED
    BY <1>1, <2>1
<1>5. CASE i = g.reqid /\ good
  <2>1. r.state = g.state
    BY <1>3 DEF Ran
  <2>2. h = CASE r.state \in {"CLOSED", "STOPPED"} -> fsm_sdata(r, "TERMACK", i)
              [] r.state \in {"REQSENT", "ACKSENT"} -> fsm_sconfreq(Untimeout(r), FALSE)
              [] r.state = "ACKRCVD" -> Renegotiate(r)
              [] r.state = "OPENED"  -> Renegotiate(Call(r, "down"))
              [] OTHER               -> r
    BY <1>5 DEF fsm_rconfnakrej
  <2> HIDE DEF r, h
  <2>3. CASE g.state \in {"REQSENT", "ACKSENT"}
    <3>1. h = fsm_sconfreq(Untimeout(r), FALSE)
      BY <2>1, <2>2, <2>3
    <3>2. Ran(Untimeout(r), g.state, {}, << >>)
      BY <1>3, RanTimer
    <3>3. << >> \in Seq(Codes) /\ Append(<< >>, "CONFREQ") = <<"CONFREQ">>
      OBVIOUS
    <3>4. Ran(h, g.state, IF g.state \in Negotiating THEN {} ELSE {} \cup {"resetci"},
              Append(<< >>, "CONFREQ"))
      BY <3>1, <3>2, <3>3, RanSconfreq
    <3>5. g.state \in Negotiating
      BY <2>3 DEF Negotiating
    <3>6. QED
      BY <3>3, <3>4, <3>5 DEF h
  <2>4. CASE g.state \in Terminating
    <3>1. h = r
      BY <2>1, <2>2, <2>4 DEF Terminating
    <3>2. QED
      BY <1>3, <3>1 DEF h
  <2>5. QED
    BY <2>3, <2>4 DEF Waiting
<1>6. QED
  BY <1>4, <1>5

\* A Terminate-Request is answered in every state.
LEMMA RtermreqRan ==
  ASSUME NEW g, Fresh(g), g.state \notin Deaf, NEW i \in Ids
  PROVE  \E s \in States \ Deaf, C \in SUBSET {"down"} :
             /\ Ran(fsm_rtermreq(g, i), s, C, <<"TERMACK">>) /\ s # "ACKSENT"
             /\ g.state = "OPENED" => "down" \in C
             /\ s \in Resting => s = g.state /\ s # "ACKRCVD" /\ s # "OPENED"
<1>1. Ran(g, g.state, {}, << >>) /\ g.state \in States
  BY RanStart
<1>2. /\ << >> \in Seq(Codes) /\ Append(<< >>, "TERMACK") = <<"TERMACK">> /\ "TERMACK" \in Codes
      /\ {} \cup {"down"} = {"down"}
  BY DEF Codes
<1>3. ASSUME NEW a, NEW s, NEW C, Ran(a, s, C, << >>)
      PROVE  Ran(fsm_sdata(a, "TERMACK", i), s, C, <<"TERMACK">>)
  <2>1. Ran(fsm_sdata(a, "TERMACK", i), s, C, Append(<< >>, "TERMACK"))
    BY <1>2, <1>3, RanSdata
  <2>2. QED
    BY <1>2, <2>1
<1>4. CASE g.state \in {"ACKRCVD", "ACKSENT"}
  <2>1. fsm_rtermreq(g, i) = fsm_sdata(Goto(g, "REQSENT"), "TERMACK", i)
    BY <1>4 DEF fsm_rtermreq
  <2>2. Ran(Goto(g, "REQSENT"), "REQSENT", {}, << >>)
    BY <1>1, RanGoto DEF States
  <2>3. "REQSENT" \in States \ Deaf /\ "REQSENT" \notin Resting
    BY DEF States, Deaf, Resting
  <2>4. QED
    BY <1>3, <1>4, <2>1, <2>2, <2>3
<1>5. CASE g.state = "OPENED"
  <2> DEFINE a == SetRetransmits(Call(g, "down"), 0)
  <2>1. fsm_rtermreq(g, i) = fsm_sdata(Timeout(Goto(a, "STOPPING")), "TERMACK", i)
    BY <1>5 DEF fsm_rtermreq
  <2>2. Ran(Call(g, "down"), g.state, {} \cup {"down"}, << >>)
    BY <1>1, RanCall DEF Callbacks
  <2>3. Ran(a, g.state, {"down"}, << >>)
    BY <1>2, <2>2, RanSet
  <2> HIDE DEF a
  <2>4. Ran(Timeout(Goto(a, "STOPPING")), "STOPPING", {"down"}, << >>)
    BY <2>3, RanGoto, RanTimer DEF States
  <2>5. "STOPPING" \in States \ Deaf /\ "STOPPING" \notin Resting
    BY DEF States, Deaf, Resting
  <2>6. QED
    BY <1>3, <2>1, <2>4, <2>5
<1>6. CASE g.state \notin {"ACKRCVD", "ACKSENT", "OPENED"}
  <2>1. fsm_rtermreq(g, i) = fsm_sdata(g, "TERMACK", i)
    BY <1>6 DEF fsm_rtermreq
  <2>2. g.state \in States \ Deaf
    BY <1>1
  <2>3. QED
    BY <1>1, <1>3, <1>6, <2>1, <2>2
<1>7. QED
  BY <1>4, <1>5, <1>6

\* A Terminate-Ack ends a termination.
LEMMA RtermackRan ==
  ASSUME NEW g, Fresh(g), g.state \in Waiting
  PROVE  \E s \in {g.state, "CLOSED", "STOPPED"}, C \in SUBSET {"finished"} :
             Ran(fsm_rtermack(g), s, C, << >>) /\ ("finished" \in C => s # g.state)
<1>1. Ran(g, g.state, {}, << >>)
  BY RanStart
<1>2. ASSUME NEW s \in {"CLOSED", "STOPPED"}
      PROVE  Ran(Call(Goto(g, s), "finished"), s, {"finished"}, << >>)
  <2>1. Ran(Goto(g, s), s, {}, << >>)
    BY <1>1, RanGoto DEF States
  <2>2. Ran(Call(Goto(g, s), "finished"), s, {} \cup {"finished"}, << >>)
    BY <2>1, RanCall DEF Callbacks
  <2>3. {} \cup {"finished"} = {"finished"}
    OBVIOUS
  <2>4. QED
    BY <2>2, <2>3
<1>3. CASE g.state = "CLOSING"
  BY <1>2, <1>3 DEF fsm_rtermack
<1>4. CASE g.state = "STOPPING"
  BY <1>2, <1>4 DEF fsm_rtermack
<1>5. CASE g.state \in {"REQSENT", "ACKSENT"}
  <2>1. fsm_rtermack(g) = g
    BY <1>5 DEF fsm_rtermack
  <2>2. QED
    BY <1>1, <2>1
<1>6. QED
  BY <1>3, <1>4, <1>5 DEF Waiting, Terminating

\* A Code-Reject: only ACKRCVD is left.
LEMMA RcoderejRan ==
  ASSUME NEW g, Fresh(g)
  PROVE  \/ Ran(fsm_rcoderej(g), g.state, {}, << >>) /\ g.state # "ACKRCVD"
         \/ Ran(fsm_rcoderej(g), "REQSENT", {}, << >>) /\ g.state = "ACKRCVD"
<1>1. Ran(g, g.state, {}, << >>)
  BY RanStart
<1>2. Ran(Goto(g, "REQSENT"), "REQSENT", {}, << >>)
  BY <1>1, RanGoto DEF States
<1>3. QED
  BY <1>1, <1>2 DEF fsm_rcoderej

\* die closes the fsm, which sends a Terminate-Request or nothing.
LEMMA CloseRan ==
  ASSUME NEW g, Fresh(g)
  PROVE  \E s \in States, C \in SUBSET {"down"}, w \in {<< >>, <<"TERMREQ">>} :
             Ran(fsm_close(g), s, C, w)
<1>1. Ran(g, g.state, {}, << >>) /\ g.state \in States
  BY RanStart
<1>2. << >> \in Seq(Codes) /\ Append(<< >>, "TERMREQ") = <<"TERMREQ">> /\ {} \cup {"down"} = {"down"}
  OBVIOUS
<1>3. ASSUME NEW a, NEW C \in SUBSET {"down"}, Ran(a, g.state, C, << >>)
      PROVE  Ran(Goto(StartTerminate(a), "CLOSING"), "CLOSING", C, <<"TERMREQ">>)
  <2>1. Ran(StartTerminate(a), g.state, C, Append(<< >>, "TERMREQ"))
    BY <1>2, <1>3, RanTerminate
  <2>2. Ran(StartTerminate(a), g.state, C, <<"TERMREQ">>)
    BY <1>2, <2>1
  <2>3. QED
    BY <2>2, RanGoto DEF States
<1>4. ASSUME NEW s \in {"INITIAL", "CLOSED", "CLOSING"} PROVE Ran(Goto(g, s), s, {}, << >>)
  BY <1>1, RanGoto DEF States
<1>5. CASE g.state \in Negotiating
  <2>1. fsm_close(g) = Goto(StartTerminate(Untimeout(g)), "CLOSING")
    BY <1>5 DEF fsm_close, Negotiating
  <2>2. Ran(Untimeout(g), g.state, {}, << >>)
    BY <1>1, RanTimer
  <2>3. Ran(fsm_close(g), "CLOSING", {}, <<"TERMREQ">>)
    BY <1>3, <2>1, <2>2
  <2>4. QED
    BY <2>3 DEF States
<1>6. CASE g.state = "OPENED"
  <2>1. fsm_close(g) = Goto(StartTerminate(Call(g, "down")), "CLOSING")
    BY <1>6 DEF fsm_close, Negotiating
  <2>2. Ran(Call(g, "down"), g.state, {} \cup {"down"}, << >>)
    BY <1>1, RanCall DEF Callbacks
  <2>3. Ran(fsm_close(g), "CLOSING", {"down"}, <<"TERMREQ">>)
    BY <1>2, <1>3, <2>1, <2>2
  <2>4. QED
    BY <2>3 DEF States
<1>7. CASE g.state \notin Negotiating \cup {"OPENED"}
  <2>1. \/ fsm_close(g) = g
        \/ \E s \in {"INITIAL", "CLOSED", "CLOSING"} : fsm_close(g) = Goto(g, s)
    BY <1>7 DEF fsm_close
  <2>2. \E s \in States : Ran(fsm_close(g), s, {}, << >>)
    BY <1>1, <1>4, <2>1 DEF States
  <2>3. QED
    BY <2>2
<1>8. QED
  BY <1>5, <1>6, <1>7
----------------------------------------------------------------------------
(* The option lists that occur.                                            *)

\* What the value of an option in a packet can be.
Kind(c) ==
    CASE c = "mru"         -> Nat
      [] c = "asyncmap"    -> SUBSET Chars
      [] c = "magicnumber" -> Magics
      [] OTHER             -> {"void"}
Values == Nat \cup (SUBSET Chars) \cup Magics \cup {"void"}
Lists == {r \in UNION {[D -> Values] : D \in SUBSET CIs} : \A c \in DOMAIN r : r[c] \in Kind(c)}

\* A function with values of the right kinds is an option list.
LEMMA ListIntro ==
  ASSUME NEW D \in SUBSET CIs, NEW r, r = [c \in D |-> r[c]], \A c \in D : r[c] \in Kind(c)
  PROVE  r \in Lists
<1>1. \A c : Kind(c) \subseteq Values
  BY DEF Kind, Values
<1>2. DOMAIN r = D /\ \A c \in D : r[c] \in Values
  BY <1>1
<1>3. r \in [D -> Values]
  BY <1>2
<1>4. QED
  BY <1>2, <1>3 DEF Lists

\* Option lists by their parts.
LEMMA ListFacts ==
  /\ None \in Lists
  /\ \A r \in Lists : DOMAIN r \subseteq CIs /\ r = [c \in DOMAIN r |-> r[c]]
                      /\ \A c \in DOMAIN r : r[c] \in Kind(c)
<1>1. \A r \in Lists : DOMAIN r \subseteq CIs /\ r = [c \in DOMAIN r |-> r[c]]
                       /\ \A c \in DOMAIN r : r[c] \in Kind(c)
  BY DEF Lists
<1>2. {} \in SUBSET CIs /\ None = [c \in {} |-> None[c]]
  BY DEF None
<1>3. None \in Lists
  BY <1>2, ListIntro
<1>4. QED
  BY <1>1, <1>3

\* A configuration, and the request made of one, keep their types.
LEMMA OptionTypes ==
  /\ \A o \in Options : \A m \in Magics : lcp_resetci(o, m) \in Options
  /\ \A o \in Options : lcp_addci(o) \in Lists
<1>1. ASSUME NEW o \in Options, NEW m \in Magics PROVE lcp_resetci(o, m) \in Options
  BY DEF lcp_resetci, Options
<1>2. ASSUME NEW o \in Options PROVE lcp_addci(o) \in Lists
  <2>1. o.neg \in SUBSET CIs /\ o.mru \in Nat /\ o.asyncmap \in SUBSET Chars /\ o.magicnumber \in Magics
    BY DEF Options
  <2>2. Asked(o) \in SUBSET CIs
    BY <2>1 DEF Asked
  <2>3. \A c : Value(o, c) \in Kind(c)
    BY <2>1 DEF Value, Kind
  <2> DEFINE D == Asked(o)
             r == lcp_addci(o)
  <2>4. r = [c \in D |-> r[c]] /\ \A c \in D : r[c] = Value(o, c)
    BY DEF lcp_addci
  <2>5. D \in SUBSET CIs /\ \A c \in D : r[c] \in Kind(c)
    BY <2>2, <2>3, <2>4
  <2> HIDE DEF D, r
  <2>6. r \in Lists
    BY <2>4, <2>5, ListIntro
  <2>7. QED
    BY <2>6 DEF r
<1>3. QED
  BY <1>1, <1>2

\* What lcp_nakci and lcp_rejci make of a Nak and of a Reject.
LEMMA AnswerTypes ==
  ASSUME NEW o \in Options, NEW wo, NEW r \in Lists, NEW m \in Magics
  PROVE  lcp_nakci(o, wo, r, m) \in Options /\ lcp_rejci(o, r) \in Options
<1>1. \A c \in DOMAIN r : r[c] \in Kind(c)
  BY ListFacts
<1>2. /\ "mru" \in DOMAIN r => r["mru"] \in Nat
      /\ "asyncmap" \in DOMAIN r => r["asyncmap"] \in SUBSET Chars
  BY <1>1 DEF Kind
<1>3. o.neg \in SUBSET CIs /\ o.mru \in Nat /\ o.asyncmap \in SUBSET Chars /\ o.magicnumber \in Magics
  BY DEF Options
<1>4. lcp_rejci(o, r) \in Options
  BY DEF lcp_rejci, Options
<1>5. lcp_nakci(o, wo, r, m) \in Options
  <2> DEFINE nak == DOMAIN r \cap Asked(o)
             mru_ok == "mru" \in nak /\ (r["mru"] <= wo.mru \/ r["mru"] < DefMru)
             N == o.neg \ (nak \cap (Auth \cup {"pcompression", "accompression"}))
             M == IF mru_ok THEN r["mru"] ELSE o.mru
             A == IF "asyncmap" \in nak THEN o.asyncmap \cup r["asyncmap"] ELSE o.asyncmap
             G == IF "magicnumber" \in nak THEN m ELSE o.magicnumber
  <2>1. lcp_nakci(o, wo, r, m) = [neg |-> N, mru |-> M, asyncmap |-> A, magicnumber |-> G]
    BY DEF lcp_nakci
  <2>2. N \in SUBSET CIs /\ M \in Nat
    BY <1>2, <1>3
  <2>3. A \in SUBSET Chars /\ G \in Magics
    BY <1>2, <1>3
  <2> HIDE DEF N, M, A, G
  <2>4. QED
    BY <2>1, <2>2, <2>3 DEF Options
<1>6. QED
  BY <1>4, <1>5

\* The magic number of a daemon configured as o is not the one in the list h.
MagicOK(o, h) ==
    "magicnumber" \in o.neg /\ "magicnumber" \in DOMAIN h => h["magicnumber"] # o.magicnumber

\* lcp_reqci: its reply and lcp_hisoptions are option lists; an Ack repeats the
\* request, all of whose options are granted, with a magic number that is not ours.
LEMMA RequestTypes ==
  ASSUME NEW o \in Options, NEW ao \in Options, NEW r \in Lists, NEW tough, NEW m \in Magics
  PROVE  /\ HisOptions(o, ao, r) \in Lists
         /\ Verdict(o, ao, r, tough) \in Replies
         /\ Reply(o, ao, r, tough, m) \in Lists
         /\ Verdict(o, ao, r, tough) = "CONFACK" =>
              /\ HisOptions(o, ao, r) = r /\ Reply(o, ao, r, tough, m) = r /\ MagicOK(o, r)
<1>1. DOMAIN r \subseteq CIs /\ r = [c \in DOMAIN r |-> r[c]] /\ \A c \in DOMAIN r : r[c] \in Kind(c)
  BY ListFacts
<1>2. ASSUME NEW D, D \subseteq DOMAIN r PROVE Restrict(r, D) \in Lists
  <2> DEFINE x == Restrict(r, D)
  <2>1. x = [c \in D |-> x[c]] /\ \A c \in D : x[c] = r[c]
    BY DEF Restrict
  <2>2. D \in SUBSET CIs /\ \A c \in D : x[c] \in Kind(c)
    BY <1>1, <1>2, <2>1
  <2> HIDE DEF x
  <2>3. x \in Lists
    BY <2>1, <2>2, ListIntro
  <2>4. QED
    BY <2>3 DEF x
<1>3. /\ Refused(o, ao, r) \subseteq DOMAIN r /\ Disagreed(o, ao, r) \subseteq DOMAIN r
  BY DEF Refused, Disagreed
<1>4. Rejected(o, ao, r, tough) \subseteq DOMAIN r
  BY <1>3 DEF Rejected
<1>5. HisOptions(o, ao, r) \in Lists
  BY <1>2 DEF HisOptions
<1>6. Verdict(o, ao, r, tough) \in Replies
  BY DEF Verdict, Replies
<1>7. NakBuffer(Disagreed(o, ao, r), m) \in Lists
  <2> DEFINE nak == Disagreed(o, ao, r)
             other(c) == IF c = "chap" THEN "upap" ELSE "chap"
             D == {other(c) : c \in nak \cap Auth} \cup (nak \cap {"magicnumber"})
             x == NakBuffer(nak, m)
  <2>1. D \in SUBSET CIs /\ \A c \in D : c \in {"chap", "upap", "magicnumber"}
    BY DEF CIs, Auth
  <2>2. x = [c \in D |-> x[c]] /\ \A c \in D : x[c] = IF c = "magicnumber" THEN m ELSE "void"
    BY DEF NakBuffer
  <2>3. /\ m \in Kind("magicnumber") /\ "void" \in Kind("chap") /\ "void" \in Kind("upap")
    BY DEF Kind
  <2> HIDE DEF D, x
  <2>4. \A c \in D : x[c] \in Kind(c)
    BY <2>1, <2>2, <2>3
  <2>5. x \in Lists
    BY <2>1, <2>2, <2>4, ListIntro
  <2>6. QED
    BY <2>5 DEF x
<1>8. Restrict(r, Rejected(o, ao, r, tough)) \in Lists
  BY <1>2, <1>4
<1>9. Reply(o, ao, r, tough, m) \in Lists
  BY <1>6, <1>7, <1>8 DEF Reply, Replies
<1>10. ASSUME Verdict(o, ao, r, tough) = "CONFACK"
       PROVE  HisOptions(o, ao, r) = r /\ Reply(o, ao, r, tough, m) = r /\ MagicOK(o, r)
  <2>1. Reply(o, ao, r, tough, m) = r
    BY <1>10 DEF Reply
  <2>2. Rejected(o, ao, r, tough) = {} /\ Disagreed(o, ao, r) = {}
    BY <1>10 DEF Verdict
  <2>3. Refused(o, ao, r) = {}
    BY <2>2 DEF Rejected
  <2>4. HisOptions(o, ao, r) = Restrict(r, DOMAIN r)
    BY <2>2, <2>3 DEF HisOptions
  <2>5. Restrict(r, DOMAIN r) = r
    BY <1>1 DEF Restrict
  <2>6. MagicOK(o, r)
    <3> SUFFICES ASSUME "magicnumber" \in o.neg, "magicnumber" \in DOMAIN r,
                        r["magicnumber"] = o.magicnumber
                 PROVE  FALSE
      BY DEF MagicOK
    <3>1. "magicnumber" \notin Auth
      BY DEF Auth
    <3>2. "magicnumber" \in Disagreed(o, ao, r)
      BY <2>3, <3>1 DEF Disagreed
    <3>3. QED
      BY <2>2, <3>2
  <2>7. QED
    BY <2>1, <2>4, <2>5, <2>6
<1>11. QED
  BY <1>5, <1>6, <1>9, <1>10

----------------------------------------------------------------------------
(* Packets on a line.                                                      *)

Asks == {"CONFREQ", "TERMREQ"}
Answers == {"CONFACK", "CONFNAK", "CONFREJ", "TERMACK"}

\* The line w holds no packet, or at most one, with a code of K.
No(w, K) == \A i \in 1 .. Len(w) : w[i].code \notin K
One(w, K) == \A i, j \in 1 .. Len(w) : w[i].code \in K /\ w[j].code \in K => i = j

\* What travels on a line.
Frame == [code : Codes, id : Ids, opts : Lists]

\* A packet is taken off a line.
LEMMA LineTail ==
  ASSUME NEW w \in Seq(Frame), w # << >>
  PROVE  /\ Head(w) \in Frame /\ Tail(w) \in Seq(Frame) /\ Head(w) = w[1] /\ 1 \in 1 .. Len(w)
         /\ \A i \in 1 .. Len(Tail(w)) : i + 1 \in 1 .. Len(w) /\ Tail(w)[i] = w[i + 1]
         /\ \A K : /\ No(w, K) => No(Tail(w), K) /\ Head(w).code \notin K
                   /\ One(w, K) => One(Tail(w), K)
                   /\ One(w, K) /\ Head(w).code \in K => No(Tail(w), K)
<1>1. /\ Head(w) \in Frame /\ Tail(w) \in Seq(Frame) /\ Len(Tail(w)) = Len(w) - 1
      /\ \A i \in 1 .. Len(Tail(w)) : Tail(w)[i] = w[i + 1]
  BY HeadTailProperties
<1>2. Len(w) \in Nat /\ Len(w) > 0 /\ Head(w) = w[1]
  OBVIOUS
<1> DEFINE t == Tail(w)
           n == Len(w)
<1>3. /\ n \in Nat /\ n > 0 /\ Len(t) = n - 1 /\ 1 \in 1 .. n
      /\ \A i \in 1 .. n - 1 : t[i] = w[i + 1] /\ i + 1 \in 1 .. n
  BY <1>1, <1>2
<1> HIDE DEF t, n
<1>4. ASSUME NEW K, \A i \in 1 .. n : w[i].code \notin K
      PROVE  (\A i \in 1 .. n - 1 : t[i].code \notin K) /\ w[1].code \notin K
  BY <1>3, <1>4
<1>5. ASSUME NEW K, \A i, j \in 1 .. n : w[i].code \in K /\ w[j].code \in K => i = j
      PROVE  \A i, j \in 1 .. n - 1 : t[i].code \in K /\ t[j].code \in K => i = j
  <2> SUFFICES ASSUME NEW i \in 1 .. n - 1, NEW j \in 1 .. n - 1,
                      t[i].code \in K, t[j].code \in K
               PROVE  i = j
    OBVIOUS
  <2>1. i + 1 = j + 1
    BY <1>3, <1>5
  <2>2. QED
    BY <1>3, <2>1
<1>6. ASSUME NEW K, \A i, j \in 1 .. n : w[i].code \in K /\ w[j].code \in K => i = j,
             w[1].code \in K
      PROVE  \A i \in 1 .. n - 1 : t[i].code \notin K
  <2> SUFFICES ASSUME NEW i \in 1 .. n - 1, t[i].code \in K PROVE FALSE
    OBVIOUS
  <2>1. i + 1 = 1
    BY <1>3, <1>6
  <2>2. QED
    BY <1>3, <2>1
<1>7. \A K : /\ No(w, K) => No(t, K) /\ w[1].code \notin K
             /\ One(w, K) => One(t, K)
             /\ One(w, K) /\ w[1].code \in K => No(t, K)
  BY <1>3, <1>4, <1>5, <1>6 DEF No, One, n
<1>8. QED
  BY <1>1, <1>2, <1>3, <1>7 DEF t, n

\* Packets are put behind those on a line.
LEMMA LineConcat ==
  ASSUME NEW v \in Seq(Frame), NEW w \in Seq(Frame)
  PROVE  /\ v \o w \in Seq(Frame)
         /\ \A i \in 1 .. Len(v \o w) :
               \/ i \in 1 .. Len(v) /\ (v \o w)[i] = v[i]
               \/ \E j \in 1 .. Len(w) : (v \o w)[i] = w[j]
         /\ \A K : /\ No(v, K) /\ No(w, K) => No(v \o w, K)
                   /\ One(v, K) /\ No(w, K) => One(v \o w, K)
                   /\ No(v, K) /\ One(w, K) => One(v \o w, K)
<1> DEFINE x == v \o w
           m == Len(v)
           n == Len(w)
<1>1. /\ x \in Seq(Frame) /\ Len(x) = m + n /\ m \in Nat /\ n \in Nat
      /\ \A i \in 1 .. m + n : x[i] = IF i <= m THEN v[i] ELSE w[i - m]
  BY ConcatProperties
<1> HIDE DEF x, m, n
<1>2. ASSUME NEW i \in 1 .. m + n
      PROVE  \/ i \in 1 .. m /\ x[i] = v[i]
             \/ i - m \in 1 .. n /\ x[i] = w[i - m]
  BY <1>1
<1>3. ASSUME NEW K, \A i \in 1 .. m : v[i].code \notin K, \A i \in 1 .. n : w[i].code \notin K
      PROVE  \A i \in 1 .. m + n : x[i].code \notin K
  BY <1>2, <1>3
<1>4. ASSUME NEW K, \A i, j \in 1 .. m : v[i].code \in K /\ v[j].code \in K => i = j,
             \A i \in 1 .. n : w[i].code \notin K
      PROVE  \A i, j \in 1 .. m + n : x[i].code \in K /\ x[j].code \in K => i = j
  BY <1>2, <1>4
<1>5. ASSUME NEW K, \A i \in 1 .. m : v[i].code \notin K,
             \A i, j \in 1 .. n : w[i].code \in K /\ w[j].code \in K => i = j
      PROVE  \A i, j \in 1 .. m + n : x[i].code \in K /\ x[j].code \in K => i = j
  <2> SUFFICES ASSUME NEW i \in 1 .. m + n, NEW j \in 1 .. m + n,
                      x[i].code \in K, x[j].code \in K
               PROVE  i = j
    OBVIOUS
  <2>1. i - m \in 1 .. n /\ x[i] = w[i - m] /\ j - m \in 1 .. n /\ x[j] = w[j - m]
    BY <1>2, <1>5
  <2>2. i - m = j - m
    BY <1>5, <2>1
  <2>3. QED
    BY <1>1, <2>2
<1>6. \A K : /\ No(v, K) /\ No(w, K) => No(x, K)
             /\ One(v, K) /\ No(w, K) => One(x, K)
             /\ No(v, K) /\ One(w, K) => One(x, K)
  BY <1>1, <1>3, <1>4, <1>5 DEF No, One, m, n
<1>7. \A i \in 1 .. Len(x) : \/ i \in 1 .. m /\ x[i] = v[i]
                             \/ \E j \in 1 .. n : x[i] = w[j]
  BY <1>1, <1>2
<1>8. QED
  BY <1>1, <1>6, <1>7 DEF x, m, n

\* The packets an fsm has sent, with their options.
LEMMA FramesFacts ==
  ASSUME NEW g, NEW s, NEW C, NEW w, Ran(g, s, C, w), NEW o \in Options, NEW reply \in Lists
  PROVE  /\ Frames(g, o, reply) \in Seq(Frame)
         /\ Len(Frames(g, o, reply)) = Len(w)
         /\ \A i \in 1 .. Len(w) :
               /\ Frames(g, o, reply)[i].code = w[i]
               /\ w[i] \in {"CONFACK", "CONFNAK", "CONFREJ"} =>
                     Frames(g, o, reply)[i].opts = reply
<1> DEFINE F == Frames(g, o, reply)
           n == Len(w)
           opts(c) == CASE c = "CONFREQ" -> lcp_addci(o)
                        [] c \in {"CONFACK", "CONFNAK", "CONFREJ"} -> reply
                        [] OTHER -> None
<1>1. /\ g.out \in Seq(Packet) /\ Len(g.out) = n /\ n \in Nat
      /\ \A i \in 1 .. n : g.out[i].code = w[i] /\ g.out[i] \in Packet
  BY DEF Ran, FSM
<1>2. lcp_addci(o) \in Lists /\ None \in Lists
  BY OptionTypes, ListFacts
<1>3. F = [i \in 1 .. Len(g.out) |->
             [code |-> g.out[i].code, id |-> g.out[i].id, opts |-> opts(g.out[i].code)]]
  BY DEF Frames
<1>4. \A c : opts(c) \in Lists /\ (c \in {"CONFACK", "CONFNAK", "CONFREJ"} => opts(c) = reply)
  <2>1. ASSUME NEW c, c = "CONFREQ" PROVE opts(c) = lcp_addci(o)
    BY <2>1
  <2>2. ASSUME NEW c, c \in {"CONFACK", "CONFNAK", "CONFREJ"} PROVE opts(c) = reply
    BY <2>2
  <2>3. ASSUME NEW c, c # "CONFREQ", c \notin {"CONFACK", "CONFNAK", "CONFREJ"}
        PROVE  opts(c) = None
    BY <2>3
  <2> HIDE DEF opts
  <2>4. QED
    BY <1>2, <2>1, <2>2, <2>3
<1> HIDE DEF F, opts
<1>5. \A i \in 1 .. n : F[i] = [code |-> w[i], id |-> g.out[i].id, opts |-> opts(w[i])]
                        /\ w[i] \in Codes /\ g.out[i].id \in Ids
  BY <1>1, <1>3 DEF Packet
<1>6. \A i \in 1 .. n : F[i] \in Frame /\ F[i].code = w[i] /\ F[i].opts = opts(w[i])
  <2> SUFFICES ASSUME NEW i \in 1 .. n
               PROVE  F[i] \in Frame /\ F[i].code = w[i] /\ F[i].opts = opts(w[i])
    OBVIOUS
  <2> DEFINE x == opts(w[i])
  <2>1. F[i] = [code |-> w[i], id |-> g.out[i].id, opts |-> x]
        /\ w[i] \in Codes /\ g.out[i].id \in Ids /\ x \in Lists
    BY <1>4, <1>5
  <2> HIDE DEF x
  <2>2. F[i] \in Frame /\ F[i].code = w[i] /\ F[i].opts = x
    BY <2>1 DEF Frame
  <2>3. QED
    BY <2>2 DEF x
<1>7. F \in [1 .. n -> Frame]
  BY <1>1, <1>3, <1>6
<1>8. F \in Seq(Frame) /\ Len(F) = n
  BY <1>1, <1>7
<1>9. QED
  BY <1>4, <1>6, <1>8 DEF F

----------------------------------------------------------------------------
(* The inductive invariant.                                                *)

\* Nothing of what e has asked is under way on the lines w: no request of e, no
\* answer to one.  Or there is at most one packet of these.
Idle(w, e) == No(w[Peer(e)], Asks) /\ No(w[e], Answers)
Single(w, e) ==
    /\ One(w[Peer(e)], Asks) /\ One(w[e], Answers)
    /\ No(w[Peer(e)], Asks) \/ No(w[e], Answers)

\* A daemon is started again only when no request of its last life, and no answer
\* to one, is on the lines.
Settled == [][\A e \in Ends : Start(e) => Idle(wire, e)]_vars

\* The states of an fsm whose last reply was an Ack.
Acking == {"ACKSENT", "OPENED"}

Typed ==
    /\ f \in [Ends -> FSM] /\ go \in [Ends -> Options] /\ ho \in [Ends -> Lists]
    /\ up \subseteq Ends /\ wire \in [Ends -> Seq(Frame)] /\ kills \in Nat

\* LCP is up on an OPENED fsm only.
Lives(e) == Fresh(f[e]) /\ (e \in up => f[e].state = "OPENED")

\* An fsm that rests has nothing under way, and no other has more than a packet.
\* Nothing is known of a daemon that is not running, unless none was ever killed.
Exchanges(e) ==
    f[e].state # "INITIAL" =>
        Single(wire, e) /\ (f[e].state \in Resting => Idle(wire, e))

\* A daemon that exits by itself, because LCP has finished, leaves nothing behind.
Quiet(e) == kills = 0 /\ f[e].state = "INITIAL" => Idle(wire, e)

\* While the peer stands by its last Ack, an Ack under way to e is about what the
\* peer still grants, and so was the one that brought e to ACKRCVD or OPENED.
Agreed(e) ==
    f[e].state # "INITIAL" /\ f[Peer(e)].state \in Acking =>
        /\ \A i \in 1 .. Len(wire[e]) :
              wire[e][i].code = "CONFACK" => wire[e][i].opts = ho[Peer(e)]
        /\ f[e].state \in {"ACKRCVD", "OPENED"} => ho[Peer(e)] = lcp_addci(go[e])

\* e has, or is about to read, an Ack of what it asks for now.
Has(e) ==
    \/ f[e].state \in {"ACKRCVD", "OPENED"}
    \/ \E i \in 1 .. Len(wire[e]) :
          wire[e][i].code = "CONFACK" /\ wire[e][i].opts = lcp_addci(go[e])

\* When each end has acknowledged the other, the one that did so last compared
\* the magic numbers that both still use.
Apart(e) ==
    f[e].state \in Acking /\ f[Peer(e)].state \in Acking /\ Has(e) /\ Has(Peer(e)) =>
        MagicOK(go[e], ho[e]) \/ MagicOK(go[Peer(e)], ho[Peer(e)])

Inv == Typed /\ \A e \in Ends : Lives(e) /\ Exchanges(e) /\ Quiet(e) /\ Agreed(e) /\ Apart(e)

\* There are two ends.
LEMMA PeerFacts ==
  ASSUME NEW e \in Ends
  PROVE  Peer(e) \in Ends /\ Peer(e) # e /\ Peer(Peer(e)) = e /\ Ends = {e, Peer(e)}
<1>1. PICK a \in Ends, b \in Ends : a # b /\ Ends = {a, b}
  BY LinkAssumption
<1>2. \A x \in Ends : Peer(x) \in Ends /\ Peer(x) # x
  <2> SUFFICES ASSUME NEW x \in Ends PROVE Peer(x) \in Ends /\ Peer(x) # x
    OBVIOUS
  <2>1. \E o \in Ends : o # x
    BY <1>1
  <2>2. QED
    BY <2>1 DEF Peer
<1>3. Peer(e) \in Ends /\ Peer(e) # e /\ Peer(Peer(e)) \in Ends /\ Peer(Peer(e)) # Peer(e)
  BY <1>2
<1> DEFINE q == Peer(e)
           p == Peer(q)
<1>4. q \in Ends /\ q # e /\ p \in Ends /\ p # q
  BY <1>3
<1> HIDE DEF q, p
<1>5. p = e /\ Ends = {e, q}
  BY <1>1, <1>4
<1>6. QED
  BY <1>4, <1>5 DEF q, p

\* The lines without the packet that e has read, if any.
Taken(w, e) == w = wire \/ (wire[e] # << >> /\ w = Rest(e))

\* Reading a packet leaves the lines as tidy as they were.
LEMMA TakenFacts ==
  ASSUME wire \in [Ends -> Seq(Frame)], NEW e \in Ends, NEW w, Taken(w, e)
  PROVE  /\ w \in [Ends -> Seq(Frame)]
         /\ \A x \in Ends : /\ Single(wire, x) => Single(w, x)
                            /\ Idle(wire, x) => Idle(w, x)
         /\ \A x \in Ends : \A i \in 1 .. Len(w[x]) :
               \E j \in 1 .. Len(wire[x]) : w[x][i] = wire[x][j]
<1>1. CASE w = wire
  BY <1>1
<1>2. CASE wire[e] # << >> /\ w = Rest(e)
  <2>1. w = [wire EXCEPT ![e] = Tail(wire[e])]
    BY <1>2 DEF Rest
  <2>2. Tail(wire[e]) \in Seq(Frame)
    BY <1>2, LineTail
  <2>3. w \in [Ends -> Seq(Frame)]
    BY <2>1, <2>2
  <2>4. ASSUME NEW y \in Ends, NEW K
        PROVE  (No(wire[y], K) => No(w[y], K)) /\ (One(wire[y], K) => One(w[y], K))
    <3>1. CASE y = e
      <4>1. w[y] = Tail(wire[e]) /\ wire[e] \in Seq(Frame)
        BY <2>1, <3>1
      <4>2. QED
        BY <1>2, <3>1, <4>1, LineTail
    <3>2. CASE y # e
      <4>1. w[y] = wire[y]
        BY <2>1, <3>2
      <4>2. QED
        BY <4>1
    <3>3. QED
      BY <3>1, <3>2
  <2>5. ASSUME NEW x \in Ends
        PROVE  (Single(wire, x) => Single(w, x)) /\ (Idle(wire, x) => Idle(w, x))
    <3>1. Peer(x) \in Ends
      BY PeerFacts
    <3>2. QED
      BY <2>4, <3>1 DEF Single, Idle
  <2>6. ASSUME NEW x \in Ends, NEW i \in 1 .. Len(w[x])
        PROVE  \E j \in 1 .. Len(wire[x]) : w[x][i] = wire[x][j]
    <3>1. CASE x = e
      <4>1. w[x] = Tail(wire[e]) /\ wire[e] \in Seq(Frame)
        BY <2>1, <3>1
      <4>2. QED
        BY <1>2, <3>1, <4>1, LineTail
    <3>2. CASE x # e
      <4>1. w[x] = wire[x]
        BY <2>1, <3>2
      <4>2. QED
        BY <4>1
    <3>3. QED
      BY <3>1, <3>2
  <2>7. QED
    BY <2>3, <2>5, <2>6
<1>3. QED
  BY <1>1, <1>2 DEF Taken

\* e puts F behind what is on its way to its peer.  Its own exchange stays in
\* order if it asks only when nothing of its own is under way, and the peer's if
\* it answers only when nothing of the peer's is.
LEMMA SentFacts ==
  ASSUME NEW w \in [Ends -> Seq(Frame)], NEW e \in Ends, NEW F \in Seq(Frame), NEW v,
         v = [w EXCEPT ![Peer(e)] = @ \o F]
  PROVE  /\ v \in [Ends -> Seq(Frame)] /\ v[e] = w[e] /\ v[Peer(e)] = w[Peer(e)] \o F
         /\ Single(w, e) /\ One(F, Asks) /\ (No(F, Asks) \/ Idle(w, e)) => Single(v, e)
         /\ Single(w, Peer(e)) /\ One(F, Answers) /\ (No(F, Answers) \/ Idle(w, Peer(e)))
              => Single(v, Peer(e))
         /\ Idle(w, e) /\ No(F, Asks) => Idle(v, e)
         /\ Idle(w, Peer(e)) /\ No(F, Answers) => Idle(v, Peer(e))
<1> DEFINE q == Peer(e)
<1>1. q \in Ends /\ q # e /\ Peer(q) = e /\ v = [w EXCEPT ![q] = @ \o F]
  BY PeerFacts
<1>10. Peer(e) = q
  OBVIOUS
<1> HIDE DEF q
<1>2. w[q] \in Seq(Frame) /\ w[e] \in Seq(Frame) /\ w[q] \o F \in Seq(Frame)
  BY <1>1
<1>3. v \in [Ends -> Seq(Frame)] /\ v[e] = w[e] /\ v[q] = w[q] \o F
  BY <1>1, <1>2
<1>4. \A K : /\ No(w[q], K) /\ No(F, K) => No(v[q], K)
             /\ One(w[q], K) /\ No(F, K) => One(v[q], K)
             /\ No(w[q], K) /\ One(F, K) => One(v[q], K)
  <2> DEFINE a == w[q]
  <2>1. a \in Seq(Frame)
    BY <1>2
  <2> HIDE DEF a
  <2>2. \A K : /\ No(a, K) /\ No(F, K) => No(a \o F, K)
               /\ One(a, K) /\ No(F, K) => One(a \o F, K)
               /\ No(a, K) /\ One(F, K) => One(a \o F, K)
    BY <2>1, LineConcat
  <2>3. v[q] = a \o F
    BY <1>3 DEF a
  <2>4. QED
    BY <2>2, <2>3 DEF a
<1>5. Single(w, e) /\ One(F, Asks) /\ (No(F, Asks) \/ Idle(w, e)) => Single(v, e)
  BY <1>10, <1>1, <1>3, <1>4 DEF Single, Idle
<1>6. Single(w, q) /\ One(F, Answers) /\ (No(F, Answers) \/ Idle(w, q)) => Single(v, q)
  BY <1>10, <1>1, <1>3, <1>4 DEF Single, Idle
<1>7. Idle(w, e) /\ No(F, Asks) => Idle(v, e)
  BY <1>10, <1>1, <1>3, <1>4 DEF Idle
<1>8. Idle(w, q) /\ No(F, Answers) => Idle(v, q)
  BY <1>10, <1>1, <1>3, <1>4 DEF Idle
<1>9. QED
  BY <1>10, <1>3, <1>5, <1>6, <1>7, <1>8

\* An idle exchange has no Ack under way.
LEMMA IdleNoAck ==
  ASSUME NEW w, NEW e, Idle(w, e)
  PROVE  \A i \in 1 .. Len(w[e]) : w[e][i].code # "CONFACK"
  BY DEF Idle, No, Answers

\* e stands by the Ack it sent last: it grants the same, sends no other Ack, and
\* asks for the same or has no answer under way.
Stands(e, w, F, n, o, h) ==
    /\ f[e].state \in Acking /\ h = ho[e] /\ No(F, {"CONFACK"})
    /\ o = go[e] \/ (Idle(w, e) /\ n.state # "OPENED")
    /\ n.state = "OPENED" => Has(e)

\* e has read a request of its peer, whose answer is in F: an Ack is about what e
\* grants now, and compares the magic numbers.
Grants(e, w, F, o, h) ==
    /\ f[Peer(e)].state # "INITIAL" => Idle(w, Peer(e)) /\ ~ Idle(wire, Peer(e))
    /\ \A i \in 1 .. Len(F) : F[i].code = "CONFACK" => F[i].opts = h
    /\ MagicOK(o, h)

\* The heart of the argument: an operation of e that turns its fsm into n and
\* sends F preserves the invariant if it meets the conditions below.
LEMMA Preserved ==
  ASSUME Inv, NEW e \in Ends, NEW q, q = Peer(e), NEW w, Taken(w, e), NEW F \in Seq(Frame),
         NEW n, Fresh(n), NEW o \in Options, NEW h \in Lists,
         wire' = [w EXCEPT ![q] = @ \o F], f' = [f EXCEPT ![e] = n],
         go' = [go EXCEPT ![e] = o], ho' = [ho EXCEPT ![e] = h],
         up' \subseteq Ends, up' \ {e} = up \ {e}, e \in up' => n.state = "OPENED",
         kills' \in Nat, kills' = 0 => kills = 0 /\ (No(F, Answers) \/ ~ Idle(wire, q)),
         kills' = 0 /\ n.state = "INITIAL" => Idle(w, e) /\ No(F, Asks),
         n.state # "INITIAL" =>
            /\ f[e].state # "INITIAL" \/ Idle(w, e)
            /\ One(F, Asks) /\ (No(F, Asks) \/ Idle(w, e))
            /\ n.state \in Resting => Idle(w, e) /\ No(F, Asks),
         f[q].state # "INITIAL" =>
            One(F, Answers) /\ (No(F, Answers) \/ (Idle(w, q) /\ ~ Idle(wire, q))),
         n.state \in {"ACKRCVD", "OPENED"} /\ f[q].state \in Acking => ho[q] = lcp_addci(o),
         n.state \in Acking => Stands(e, w, F, n, o, h) \/ Grants(e, w, F, o, h)
  PROVE  Inv'
<1>1. q \in Ends /\ q # e /\ Peer(q) = e /\ Peer(e) = q /\ Ends = {e, q}
  BY PeerFacts
<1>2. /\ f \in [Ends -> FSM] /\ go \in [Ends -> Options] /\ ho \in [Ends -> Lists]
      /\ wire \in [Ends -> Seq(Frame)]
      /\ Lives(q) /\ Exchanges(q) /\ Agreed(q) /\ Exchanges(e) /\ Agreed(e) /\ Apart(e)
      /\ Quiet(q)
  BY <1>1 DEF Inv, Typed
<1>3. /\ w \in [Ends -> Seq(Frame)]
      /\ Single(wire, e) => Single(w, e)
      /\ Single(wire, q) => Single(w, q)
      /\ Idle(wire, e) => Idle(w, e)
      /\ Idle(wire, q) => Idle(w, q)
      /\ \A i \in 1 .. Len(w[e]) : \E j \in 1 .. Len(wire[e]) : w[e][i] = wire[e][j]
      /\ \A i \in 1 .. Len(w[q]) : \E j \in 1 .. Len(wire[q]) : w[q][i] = wire[q][j]
  <2>1. /\ w \in [Ends -> Seq(Frame)]
        /\ \A x \in Ends : /\ Single(wire, x) => Single(w, x)
                           /\ Idle(wire, x) => Idle(w, x)
        /\ \A x \in Ends : \A i \in 1 .. Len(w[x]) :
              \E j \in 1 .. Len(wire[x]) : w[x][i] = wire[x][j]
    BY <1>2, TakenFacts
  <2>2. QED
    BY <1>1, <2>1
<1>4. /\ wire' \in [Ends -> Seq(Frame)] /\ wire'[e] = w[e] /\ wire'[q] = w[q] \o F
      /\ Single(w, e) /\ One(F, Asks) /\ (No(F, Asks) \/ Idle(w, e)) => Single(wire', e)
      /\ Single(w, q) /\ One(F, Answers) /\ (No(F, Answers) \/ Idle(w, q)) => Single(wire', q)
      /\ Idle(w, e) /\ No(F, Asks) => Idle(wire', e)
      /\ Idle(w, q) /\ No(F, Answers) => Idle(wire', q)
  <2>1. wire' = [w EXCEPT ![Peer(e)] = @ \o F]
    BY <1>1
  <2>2. /\ wire' \in [Ends -> Seq(Frame)] /\ wire'[e] = w[e] /\ wire'[Peer(e)] = w[Peer(e)] \o F
        /\ Single(w, e) /\ One(F, Asks) /\ (No(F, Asks) \/ Idle(w, e)) => Single(wire', e)
        /\ Single(w, Peer(e)) /\ One(F, Answers) /\ (No(F, Answers) \/ Idle(w, Peer(e)))
             => Single(wire', Peer(e))
        /\ Idle(w, e) /\ No(F, Asks) => Idle(wire', e)
        /\ Idle(w, Peer(e)) /\ No(F, Answers) => Idle(wire', Peer(e))
    BY <1>3, <2>1, SentFacts
  <2>3. QED
    BY <1>1, <2>2
<1>5. /\ f'[e] = n /\ f'[q] = f[q] /\ go'[e] = o /\ go'[q] = go[q]
      /\ ho'[e] = h /\ ho'[q] = ho[q]
      /\ f' \in [Ends -> FSM] /\ go' \in [Ends -> Options] /\ ho' \in [Ends -> Lists]
  BY <1>1, <1>2 DEF Fresh
<1>6. q \in up' <=> q \in up
  BY <1>1
<1>7. Typed'
  BY <1>4, <1>5 DEF Typed
<1>8. Lives(e)' /\ Lives(q)'
  BY <1>2, <1>5, <1>6 DEF Lives
<1>9. Exchanges(e)'
  <2>1. Idle(w, e) => Single(w, e)
    BY DEF Idle, Single, No, One
  <2>2. n.state # "INITIAL" => Single(wire', e) /\ (n.state \in Resting => Idle(wire', e))
    BY <1>2, <1>3, <1>4, <2>1 DEF Exchanges
  <2>3. QED
    BY <1>5, <2>2 DEF Exchanges
<1>10. Exchanges(q)'
  <2>1. f[q].state # "INITIAL" => Single(wire', q) /\ (f[q].state \in Resting => Idle(wire', q))
    BY <1>2, <1>3, <1>4 DEF Exchanges
  <2>2. QED
    BY <1>5, <2>1 DEF Exchanges
\* The Acks on their way to q were there before, or are in F.
<1>11. ASSUME NEW i \in 1 .. Len(wire'[q]), wire'[q][i].code = "CONFACK"
       PROVE  \/ \E j \in 1 .. Len(w[q]) : wire'[q][i] = w[q][j]
              \/ \E j \in 1 .. Len(F) : wire'[q][i] = F[j]
  <2> DEFINE v == w[q]
  <2>1. v \in Seq(Frame) /\ wire'[q] = v \o F
    BY <1>1, <1>3, <1>4
  <2> HIDE DEF v
  <2>2. \A k \in 1 .. Len(v \o F) :
           \/ k \in 1 .. Len(v) /\ (v \o F)[k] = v[k]
           \/ \E j \in 1 .. Len(F) : (v \o F)[k] = F[j]
    BY <2>1, LineConcat
  <2>3. QED
    BY <2>1, <2>2 DEF v
<1>12. Agreed(e)'
  <2> SUFFICES ASSUME n.state # "INITIAL", f[q].state \in Acking
               PROVE  /\ \A i \in 1 .. Len(wire'[e]) :
                            wire'[e][i].code = "CONFACK" => wire'[e][i].opts = ho[q]
                      /\ n.state \in {"ACKRCVD", "OPENED"} => ho[q] = lcp_addci(o)
    BY <1>1, <1>5 DEF Agreed
  <2>1. f[e].state # "INITIAL" =>
          \A i \in 1 .. Len(w[e]) : w[e][i].code = "CONFACK" => w[e][i].opts = ho[q]
    BY <1>1, <1>2, <1>3 DEF Agreed
  <2>2. Idle(w, e) => \A i \in 1 .. Len(w[e]) : w[e][i].code # "CONFACK"
    BY IdleNoAck
  <2>3. QED
    BY <1>4, <2>1, <2>2
<1>13. Agreed(q)'
  <2> SUFFICES ASSUME f[q].state # "INITIAL", n.state \in Acking
               PROVE  /\ \A i \in 1 .. Len(wire'[q]) :
                            wire'[q][i].code = "CONFACK" => wire'[q][i].opts = h
                      /\ f[q].state \in {"ACKRCVD", "OPENED"} => h = lcp_addci(go[q])
    BY <1>1, <1>5 DEF Agreed
  <2>1. CASE Stands(e, w, F, n, o, h)
    <3>1. /\ \A i \in 1 .. Len(wire[q]) : wire[q][i].code = "CONFACK" => wire[q][i].opts = h
          /\ f[q].state \in {"ACKRCVD", "OPENED"} => h = lcp_addci(go[q])
      BY <1>1, <1>2, <2>1 DEF Stands, Agreed
    <3>2. \A j \in 1 .. Len(F) : F[j].code # "CONFACK"
      BY <2>1 DEF Stands, No
    <3>3. ASSUME NEW i \in 1 .. Len(wire'[q]), wire'[q][i].code = "CONFACK"
          PROVE  wire'[q][i].opts = h
      <4>1. \E j \in 1 .. Len(w[q]) : wire'[q][i] = w[q][j]
        BY <1>11, <3>2, <3>3
      <4>2. \E j \in 1 .. Len(wire[q]) : wire'[q][i] = wire[q][j]
        BY <1>3, <4>1
      <4>3. QED
        BY <3>1, <3>3, <4>2
    <3>4. QED
      BY <3>1, <3>3
  <2>2. CASE Grants(e, w, F, o, h)
    <3>1. Idle(w, q) /\ ~ Idle(wire, q)
      BY <1>1, <2>2 DEF Grants
    <3>2. \A i \in 1 .. Len(w[q]) : w[q][i].code # "CONFACK"
      BY <3>1, IdleNoAck
    <3>3. f[q].state \notin {"ACKRCVD", "OPENED"}
      BY <1>2, <3>1 DEF Exchanges, Resting
    <3>4. \A i \in 1 .. Len(F) : F[i].code = "CONFACK" => F[i].opts = h
      BY <2>2 DEF Grants
    <3>5. QED
      BY <1>11, <3>2, <3>3, <3>4
  <2>3. QED
    BY <2>1, <2>2
<1>14. Apart(e)'
  <2> SUFFICES ASSUME n.state \in Acking, f[q].state \in Acking, Has(e)', Has(q)'
               PROVE  MagicOK(o, h) \/ MagicOK(go[q], ho[q])
    BY <1>1, <1>5 DEF Apart
  <2>1. CASE Grants(e, w, F, o, h)
    BY <2>1 DEF Grants
  <2>2. CASE Stands(e, w, F, n, o, h)
    <3>1. f[e].state \in Acking /\ h = ho[e] /\ \A j \in 1 .. Len(F) : F[j].code # "CONFACK"
      BY <2>2 DEF Stands, No
    <3>2. Has(q)
      <4>1. CASE f[q].state \in {"ACKRCVD", "OPENED"}
        BY <4>1 DEF Has
      <4>2. CASE f[q].state \notin {"ACKRCVD", "OPENED"}
        <5>1. PICK i \in 1 .. Len(wire'[q]) :
                 wire'[q][i].code = "CONFACK" /\ wire'[q][i].opts = lcp_addci(go[q])
          BY <1>5, <4>2 DEF Has
        <5>2. \E j \in 1 .. Len(wire[q]) : wire'[q][i] = wire[q][j]
          <6>1. \E j \in 1 .. Len(w[q]) : wire'[q][i] = w[q][j]
            BY <1>11, <3>1, <5>1
          <6>2. QED
            BY <1>3, <6>1
        <5>3. QED
          BY <5>1, <5>2 DEF Has
      <4>3. QED
        BY <4>1, <4>2
    <3>3. Has(e) /\ o = go[e]
      <4>1. CASE n.state = "OPENED"
        BY <2>2, <4>1 DEF Stands
      <4>2. CASE n.state # "OPENED"
        <5>1. n.state \notin {"ACKRCVD", "OPENED"}
          BY <4>2 DEF Acking
        <5>2. PICK i \in 1 .. Len(w[e]) : w[e][i].code = "CONFACK" /\ w[e][i].opts = lcp_addci(o)
          BY <1>4, <1>5, <5>1 DEF Has
        <5>3. ~ Idle(w, e)
          BY <5>2, IdleNoAck
        <5>4. o = go[e]
          BY <2>2, <5>3 DEF Stands
        <5>5. \E j \in 1 .. Len(wire[e]) : w[e][i] = wire[e][j]
          BY <1>3
        <5>6. Has(e)
          BY <5>2, <5>4, <5>5 DEF Has
        <5>7. QED
          BY <5>4, <5>6
      <4>3. QED
        BY <4>1, <4>2
    <3>4. QED
      BY <1>1, <1>2, <3>1, <3>2, <3>3 DEF Apart
  <2>3. QED
    BY <2>1, <2>2
<1>15. Apart(q)'
  BY <1>1, <1>14 DEF Apart
<1>16. Quiet(e)' /\ Quiet(q)'
  <2>1. kills' = 0 /\ n.state = "INITIAL" => Idle(wire', e)
    BY <1>4
  <2>2. kills' = 0 /\ f[q].state = "INITIAL" => Idle(wire', q)
    BY <1>2, <1>3, <1>4 DEF Quiet
  <2>3. QED
    BY <1>5, <2>1, <2>2 DEF Quiet
<1>17. QED
  <2>1. \A x \in Ends : (Lives(x) /\ Exchanges(x) /\ Quiet(x) /\ Agreed(x) /\ Apart(x))'
    BY <1>1, <1>8, <1>9, <1>10, <1>12, <1>13, <1>14, <1>15, <1>16
  <2>2. QED
    BY <1>7, <2>1 DEF Inv

\* The same of the codes of the packets an fsm has sent.
NoCode(w, K) == \A i \in 1 .. Len(w) : w[i] \notin K
OneCode(w, K) == \A i, j \in 1 .. Len(w) : w[i] \in K /\ w[j] \in K => i = j

\* What holds of the codes an fsm sent holds of the packets on the line.
LEMMA FramesCodes ==
  ASSUME NEW g, NEW s, NEW C, NEW w, Ran(g, s, C, w), NEW o \in Options, NEW reply \in Lists
  PROVE  /\ Frames(g, o, reply) \in Seq(Frame)
         /\ \A K : /\ NoCode(w, K) => No(Frames(g, o, reply), K)
                   /\ OneCode(w, K) => One(Frames(g, o, reply), K)
         /\ \A i \in 1 .. Len(Frames(g, o, reply)) :
               Frames(g, o, reply)[i].code = "CONFACK" =>
                  ~ NoCode(w, {"CONFACK"}) /\ Frames(g, o, reply)[i].opts = reply
<1> DEFINE F == Frames(g, o, reply)
<1>1. /\ F \in Seq(Frame) /\ Len(F) = Len(w)
      /\ \A i \in 1 .. Len(w) :
            /\ F[i].code = w[i]
            /\ w[i] \in {"CONFACK", "CONFNAK", "CONFREJ"} => F[i].opts = reply
  BY FramesFacts
<1> HIDE DEF F
<1>2. \A K : (NoCode(w, K) => No(F, K)) /\ (OneCode(w, K) => One(F, K))
  BY <1>1 DEF No, One, NoCode, OneCode
<1>3. \A i \in 1 .. Len(F) :
         F[i].code = "CONFACK" => ~ NoCode(w, {"CONFACK"}) /\ F[i].opts = reply
  BY <1>1 DEF NoCode
<1>4. QED
  BY <1>1, <1>2, <1>3 DEF F

\* An fsm is fresh again when its callbacks are made and its packets sent.
LEMMA FreshFacts ==
  /\ Fresh(fsm_init({}, 0)) /\ fsm_init({}, 0).state = "INITIAL"
  /\ \A g \in FSM : Fresh(Begin(g)) /\ Begin(g).state = g.state
<1>1. Fresh(fsm_init({}, 0)) /\ fsm_init({}, 0).state = "INITIAL"
  <2>1. 0 \in Ids /\ 0 \in 0 .. MaxNak /\ << >> \in Seq(Packet)
    BY FsmAssumption DEF Ids
  <2>2. QED
    BY <2>1 DEF Fresh, fsm_init, FSM, States
<1>2. ASSUME NEW g \in FSM PROVE Fresh(Begin(g)) /\ Begin(g).state = g.state
  <2> DEFINE h == [g EXCEPT !.cb = {}]
  <2>1. h \in FSM /\ h.cb = {} /\ h.state = g.state
    BY DEF FSM
  <2>2. Begin(g) = [h EXCEPT !.out = << >>] /\ << >> \in Seq(Packet)
    BY DEF Begin
  <2> HIDE DEF h
  <2>3. QED
    BY <2>1, <2>2 DEF Fresh, FSM
<1>3. QED
  BY <1>1, <1>2

\* What the lists of codes of this module hold.
LEMMA CodeLists ==
  /\ << >> \in Seq(Codes)
  /\ \A K : NoCode(<< >>, K) /\ OneCode(<< >>, K)
  /\ \A c \in Codes : <<c>> \in Seq(Codes)
  /\ \A c, K : OneCode(<<c>>, K) /\ (c \notin K => NoCode(<<c>>, K))
  /\ \A c \in Replies :
        /\ c \in Codes /\ <<"CONFREQ", c>> \in Seq(Codes)
        /\ OneCode(<<"CONFREQ", c>>, Asks) /\ OneCode(<<"CONFREQ", c>>, Answers)
        /\ c # "CONFACK" => NoCode(<<"CONFREQ", c>>, {"CONFACK"})
        /\ NoCode(<<c>>, Asks)
<1>1. << >> \in Seq(Codes) /\ \A K : NoCode(<< >>, K) /\ OneCode(<< >>, K)
  BY DEF NoCode, OneCode
<1>2. \A c \in Codes : <<c>> \in Seq(Codes)
  OBVIOUS
<1>3. ASSUME NEW c, NEW K
      PROVE  OneCode(<<c>>, K) /\ (c \notin K => NoCode(<<c>>, K))
  <2>1. Len(<<c>>) = 1 /\ <<c>>[1] = c
    OBVIOUS
  <2>2. QED
    BY <2>1 DEF NoCode, OneCode
<1>4. ASSUME NEW c \in Replies
      PROVE  /\ c \in Codes /\ <<"CONFREQ", c>> \in Seq(Codes)
             /\ OneCode(<<"CONFREQ", c>>, Asks) /\ OneCode(<<"CONFREQ", c>>, Answers)
             /\ c # "CONFACK" => NoCode(<<"CONFREQ", c>>, {"CONFACK"})
             /\ NoCode(<<c>>, Asks)
  <2>1. c \in Codes /\ c \notin Asks /\ "CONFREQ" \in Codes /\ "CONFREQ" \notin Answers
    BY DEF Replies, Codes, Asks, Answers
  <2> DEFINE w == <<"CONFREQ", c>>
  <2>2. w \in Seq(Codes) /\ Len(w) = 2 /\ w[1] = "CONFREQ" /\ w[2] = c
    BY <2>1
  <2> HIDE DEF w
  <2>3. OneCode(w, Asks) /\ OneCode(w, Answers) /\ (c # "CONFACK" => NoCode(w, {"CONFACK"}))
    BY <2>1, <2>2 DEF OneCode, NoCode
  <2>4. QED
    BY <1>3, <2>1, <2>2, <2>3 DEF w
<1>5. QED
  BY <1>1, <1>2, <1>3, <1>4

\* Stands and Grants, said of an fsm in state s that has sent packets with these
\* codes, its replies with the options reply.
StandsBy(e, w, codes, s, o, h) ==
    /\ f[e].state \in Acking /\ h = ho[e] /\ NoCode(codes, {"CONFACK"})
    /\ o = go[e] \/ (Idle(w, e) /\ s # "OPENED")
    /\ s = "OPENED" => Has(e)

GrantsNow(e, w, codes, o, h, reply) ==
    /\ f[Peer(e)].state # "INITIAL" => Idle(w, Peer(e)) /\ ~ Idle(wire, Peer(e))
    /\ NoCode(codes, {"CONFACK"}) \/ h = reply
    /\ MagicOK(o, h)

\* Preserved, of the steps that Step describes: g is what an operation of fsm.c
\* leaves, and the daemon exits if it has finished.
LEMMA StepKeeps ==
  ASSUME Inv, NEW e \in Ends, NEW q, q = Peer(e), NEW w, Taken(w, e),
         NEW g, NEW s, NEW C, NEW codes \in Seq(Codes), Ran(g, s, C, codes),
         NEW o \in Options, NEW h \in Lists, NEW reply \in Lists,
         Step(e, w, g, o, reply), ho' = [ho EXCEPT ![e] = h],
         "up" \in C => s = "OPENED", "down" \in C => "up" \notin C,
         e \in up => s = "OPENED" \/ "down" \in C, "finished" \in C => s # "OPENED",
         kills' = kills, NoCode(codes, Answers) \/ ~ Idle(wire, q),
         "finished" \in C \/ s = "INITIAL" => Idle(w, e) /\ NoCode(codes, Asks),
         s # "INITIAL" =>
            /\ f[e].state # "INITIAL" \/ Idle(w, e)
            /\ OneCode(codes, Asks) /\ (NoCode(codes, Asks) \/ Idle(w, e))
            /\ s \in Resting => Idle(w, e) /\ NoCode(codes, Asks),
         f[q].state # "INITIAL" =>
            OneCode(codes, Answers) /\ (NoCode(codes, Answers) \/ (Idle(w, q) /\ ~ Idle(wire, q))),
         s \in {"ACKRCVD", "OPENED"} /\ f[q].state \in Acking => ho[q] = lcp_addci(o),
         s \in Acking => StandsBy(e, w, codes, s, o, h) \/ GrantsNow(e, w, codes, o, h, reply)
  PROVE  Inv'
<1> DEFINE exits == "finished" \in g.cb
           F == Frames(g, o, reply)
           n == IF exits THEN fsm_init({}, 0) ELSE Begin(g)
           k == IF exits THEN Want[e] ELSE o
<1>1. /\ wire' = [w EXCEPT ![q] = @ \o F] /\ f' = [f EXCEPT ![e] = n]
      /\ go' = [go EXCEPT ![e] = k]
      /\ up' = IF "up" \in g.cb THEN up \cup {e} ELSE IF "down" \in g.cb THEN up \ {e} ELSE up
  BY DEF Step, Send
<1>2. /\ g \in FSM /\ g.state = s
      /\ "up" \in g.cb <=> "up" \in C
      /\ "down" \in g.cb <=> "down" \in C
      /\ exits <=> "finished" \in C
  BY DEF Ran
<1>3. q \in Ends /\ q # e /\ up \subseteq Ends /\ Want[e] \in Options
  BY PeerFacts, LinkAssumption DEF Inv, Typed
<1>4. /\ F \in Seq(Frame)
      /\ \A K : /\ NoCode(codes, K) => No(F, K)
                /\ OneCode(codes, K) => One(F, K)
      /\ \A i \in 1 .. Len(F) :
            F[i].code = "CONFACK" => ~ NoCode(codes, {"CONFACK"}) /\ F[i].opts = reply
  BY FramesCodes
<1>5. up' \subseteq Ends /\ up' \ {e} = up \ {e} /\ (e \in up' => s = "OPENED" /\ ~ exits)
  BY <1>1, <1>2, <1>3
<1>6. f[q].state # "INITIAL" =>
         One(F, Answers) /\ (No(F, Answers) \/ (Idle(w, q) /\ ~ Idle(wire, q)))
  BY <1>4
<1>7. kills' \in Nat /\ (kills' = 0 => kills = 0 /\ (No(F, Answers) \/ ~ Idle(wire, q)))
  BY <1>4 DEF Inv, Typed
<1>8. exits \/ s = "INITIAL" => Idle(w, e) /\ No(F, Asks)
  BY <1>2, <1>4
<1>9. CASE exits
  <2>1. n = fsm_init({}, 0) /\ k = Want[e] /\ Idle(w, e) /\ No(F, Asks)
    BY <1>8, <1>9
  <2> HIDE DEF F, n, k, exits
  <2>2. Fresh(n) /\ n.state = "INITIAL"
    BY <2>1, FreshFacts
  <2>3. n.state \notin {"ACKRCVD", "OPENED"} /\ n.state \notin Acking /\ k \in Options /\ e \notin up'
    BY <1>3, <1>5, <1>9, <2>1, <2>2 DEF Acking
  <2>4. QED
    BY <1>1, <1>4, <1>5, <1>6, <1>7, <2>1, <2>2, <2>3, Preserved
<1>10. CASE ~ exits
  <2>1. n = Begin(g) /\ k = o
    BY <1>10
  <2> HIDE DEF F, n, k, exits
  <2>2. Fresh(n) /\ n.state = s
    BY <1>2, <2>1, FreshFacts
  <2>3. n.state # "INITIAL" =>
            /\ f[e].state # "INITIAL" \/ Idle(w, e)
            /\ One(F, Asks) /\ (No(F, Asks) \/ Idle(w, e))
            /\ n.state \in Resting => Idle(w, e) /\ No(F, Asks)
    BY <1>4, <2>2
  <2>4. n.state \in Acking => Stands(e, w, F, n, k, h) \/ Grants(e, w, F, k, h)
    <3>1. StandsBy(e, w, codes, s, o, h) => Stands(e, w, F, n, k, h)
      BY <1>4, <2>1, <2>2 DEF StandsBy, Stands
    <3>2. GrantsNow(e, w, codes, o, h, reply) => Grants(e, w, F, k, h)
      BY <1>4, <2>1 DEF GrantsNow, Grants
    <3>3. QED
      BY <2>2, <3>1, <3>2
  <2>5. /\ n.state \in {"ACKRCVD", "OPENED"} /\ f[q].state \in Acking => ho[q] = lcp_addci(k)
        /\ k \in Options /\ (e \in up' => n.state = "OPENED")
    BY <1>5, <2>1, <2>2
  <2>6. kills' = 0 /\ n.state = "INITIAL" => Idle(w, e) /\ No(F, Asks)
    BY <1>8, <2>2
  <2>7. QED
    BY <1>1, <1>4, <1>5, <1>6, <1>7, <2>2, <2>3, <2>4, <2>5, <2>6, Preserved
<1>11. QED
  BY <1>9, <1>10

----------------------------------------------------------------------------
(* The operations that read no packet.                                     *)

\* What the invariant says of one end.
LEMMA EndFacts ==
  ASSUME Inv, NEW e \in Ends
  PROVE  /\ Fresh(f[e]) /\ f[e].state \in States
         /\ go[e] \in Options /\ ho[e] \in Lists /\ Want[e] \in Options /\ Allow[e] \in Options
         /\ \A g : \A o \in Options : Reset(e, g, o) \subseteq Options
         /\ ho = [ho EXCEPT ![e] = ho[e]]
         /\ e \in up => f[e].state = "OPENED"
<1>1. /\ Fresh(f[e]) /\ f[e] \in FSM /\ ho \in [Ends -> Lists]
      /\ go[e] \in Options /\ ho[e] \in Lists
      /\ e \in up => f[e].state = "OPENED"
  BY DEF Inv, Typed, Lives
<1>2. Want[e] \in Options /\ Allow[e] \in Options
  BY LinkAssumption
<1>3. \A g : \A o \in Options : Reset(e, g, o) \subseteq Options
  BY <1>2, OptionTypes DEF Reset
<1>4. f[e].state \in States
  BY <1>1 DEF FSM
<1>5. ho = [ho EXCEPT ![e] = ho[e]]
  BY <1>1
<1>6. QED
  BY <1>1, <1>2, <1>3, <1>4, <1>5

\* Lines that are empty hold nothing of anyone's.
LEMMA EmptyIdle ==
  ASSUME NEW e \in Ends, \A p \in Ends : wire[p] = << >>
  PROVE  Idle(wire, e)
<1>1. wire[e] = << >> /\ wire[Peer(e)] = << >>
  BY PeerFacts
<1>2. QED
  BY <1>1 DEF Idle, No

\* StepKeeps, of an operation that reads and answers nothing and has nothing of
\* its own under way.
LEMMA ActsKeeps ==
  ASSUME Inv, NEW e \in Ends, NEW g, NEW s, NEW C, NEW codes \in Seq(Codes), Ran(g, s, C, codes),
         NEW o \in Options, Step(e, wire, g, o, None), ho' = ho, kills' = kills, Idle(wire, e),
         "up" \notin C, e \in up => s = "OPENED", "finished" \in C => s # "OPENED",
         OneCode(codes, Asks), NoCode(codes, Answers), s \in Resting => NoCode(codes, Asks),
         "finished" \in C \/ s = "INITIAL" => NoCode(codes, Asks),
         s # "ACKRCVD", s \in Acking => f[e].state = s /\ o = go[e]
  PROVE  Inv'
<1> DEFINE q == Peer(e)
           h == ho[e]
<1>1. OneCode(codes, Answers) /\ NoCode(codes, {"CONFACK"})
  BY DEF NoCode, OneCode, Answers
<1>2. Taken(wire, e)
  BY DEF Taken
<1>3. h \in Lists /\ None \in Lists /\ ho' = [ho EXCEPT ![e] = h]
  BY EndFacts, ListFacts
<1>4. s \in {"ACKRCVD", "OPENED"} /\ f[q].state \in Acking => ho[q] = lcp_addci(o)
  BY DEF Inv, Agreed, Acking
<1>5. s \in Acking => StandsBy(e, wire, codes, s, o, h)
  BY <1>1 DEF StandsBy, Has
<1> HIDE DEF h, q
<1>6. q = Peer(e)
  BY DEF q
<1> DEFINE w == wire
           reply == None
<1>7. /\ Taken(w, e) /\ Step(e, w, g, o, reply) /\ reply \in Lists /\ Idle(w, e)
      /\ s \in Acking => StandsBy(e, w, codes, s, o, h)
      /\ "finished" \in C \/ s = "INITIAL" => Idle(w, e) /\ NoCode(codes, Asks)
  BY <1>2, <1>3, <1>5
<1> HIDE DEF w, reply
<1>8. /\ "up" \in C => s = "OPENED"
      /\ "down" \in C => "up" \notin C
      /\ e \in up => s = "OPENED" \/ "down" \in C
  OBVIOUS
<1>9. s # "INITIAL" =>
         /\ f[e].state # "INITIAL" \/ Idle(w, e)
         /\ OneCode(codes, Asks) /\ (NoCode(codes, Asks) \/ Idle(w, e))
         /\ s \in Resting => Idle(w, e) /\ NoCode(codes, Asks)
  BY <1>7
<1>10. f[q].state # "INITIAL" =>
         OneCode(codes, Answers) /\ (NoCode(codes, Answers) \/ (Idle(w, q) /\ ~ Idle(wire, q)))
  BY <1>1
<1>11. s \in Acking => StandsBy(e, w, codes, s, o, h) \/ GrantsNow(e, w, codes, o, h, reply)
  BY <1>7
<1>12. QED
  BY <1>3, <1>4, <1>6, <1>7, <1>8, <1>9, <1>10, <1>11, StepKeeps

\* ppp_task starts a daemon of whose last life nothing is left on the lines.
LEMMA StartKeeps ==
  ASSUME Inv, NEW e \in Ends, Start(e), Idle(wire, e)
  PROVE  Inv'
<1> DEFINE g == fsm_open(fsm_lowerup(f[e]))
<1>1. /\ f[e].state = "INITIAL" /\ ho' = ho /\ kills' = kills
      /\ \E o \in Reset(e, g, go[e]) : Step(e, wire, g, o, None)
  BY DEF Start
<1>2. Fresh(f[e]) /\ Reset(e, g, go[e]) \subseteq Options /\ e \notin up
  BY <1>1, EndFacts
<1>3. Ran(g, "STOPPED", {}, << >>) \/ Ran(g, "REQSENT", {"resetci"}, <<"CONFREQ">>)
  BY <1>1, <1>2, StartRan
<1> HIDE DEF g
<1>4. PICK o \in Options : Step(e, wire, g, o, None)
  BY <1>1, <1>2
<1>5. CASE Ran(g, "STOPPED", {}, << >>)
  <2>1. << >> \in Seq(Codes) /\ OneCode(<< >>, Asks) /\ NoCode(<< >>, Asks) /\ NoCode(<< >>, Answers)
    BY CodeLists
  <2> DEFINE s == "STOPPED"
             C == {}
             codes == << >>
  <2>2. s # "OPENED" /\ s # "ACKRCVD" /\ s \notin Acking /\ "up" \notin C /\ "finished" \notin C
    BY DEF Acking
  <2>3. /\ Ran(g, s, C, codes) /\ codes \in Seq(Codes)
        /\ OneCode(codes, Asks) /\ NoCode(codes, Asks) /\ NoCode(codes, Answers)
    BY <1>5, <2>1
  <2> HIDE DEF s, C, codes
  <2>4. QED
    BY <1>1, <1>2, <1>4, <2>2, <2>3, ActsKeeps
<1>6. CASE Ran(g, "REQSENT", {"resetci"}, <<"CONFREQ">>)
  <2>1. <<"CONFREQ">> \in Seq(Codes) /\ OneCode(<<"CONFREQ">>, Asks) /\ NoCode(<<"CONFREQ">>, Answers)
    BY CodeLists DEF Codes, Answers
  <2> DEFINE s == "REQSENT"
             C == {"resetci"}
             codes == <<"CONFREQ">>
  <2>2. /\ s \notin Resting /\ s # "OPENED" /\ s # "ACKRCVD" /\ s \notin Acking
        /\ s # "INITIAL" /\ "up" \notin C /\ "finished" \notin C
    BY DEF Acking, Resting
  <2>3. /\ Ran(g, s, C, codes) /\ codes \in Seq(Codes)
        /\ OneCode(codes, Asks) /\ NoCode(codes, Answers)
    BY <1>6, <2>1
  <2> HIDE DEF s, C, codes
  <2>4. QED
    BY <1>1, <1>2, <1>4, <2>2, <2>3, ActsKeeps
<1>7. QED
  BY <1>3, <1>5, <1>6

\* fsm_timeout repeats a request when no other can be under way, or gives up.
LEMMA Timeout3sKeeps ==
  ASSUME Inv, Prompt, NEW e \in Ends, Timeout3s(e)
  PROVE  Inv'
<1> DEFINE g == Expire(f[e])
<1>1. /\ \A p \in Ends : wire[p] = << >>
      /\ ho' = ho /\ kills' = kills
      /\ \E o \in Reset(e, g, go[e]) : Step(e, wire, g, o, None)
  BY DEF Timeout3s
<1>2. /\ Fresh(f[e]) /\ go[e] \in Options
      /\ e \in up => f[e].state = "OPENED"
  BY EndFacts
<1>3. Idle(wire, e)
  BY <1>1, EmptyIdle
<1>4. \/ Ran(g, f[e].state, {}, << >>) /\ f[e].state \notin Terminating \cup Negotiating
      \/ \E s \in {"CLOSED", "STOPPED"}, C \in SUBSET {"finished"} :
             Ran(g, s, C, << >>) /\ f[e].state # "OPENED"
      \/ \E s \in States \ (Resting \cup Deaf), c \in {"CONFREQ", "TERMREQ"} :
             /\ Ran(g, s, {}, <<c>>) /\ f[e].state # "OPENED"
             /\ s = f[e].state \/ s = "REQSENT"
  BY <1>2, ExpireRan
<1> HIDE DEF g
<1>5. "resetci" \notin g.cb
  BY <1>4 DEF Ran
<1>6. Step(e, wire, g, go[e], None)
  BY <1>1, <1>5 DEF Reset
<1>7. /\ << >> \in Seq(Codes) /\ OneCode(<< >>, Asks) /\ NoCode(<< >>, Asks) /\ NoCode(<< >>, Answers)
  BY CodeLists
<1>8. CASE Ran(g, f[e].state, {}, << >>) /\ f[e].state \notin Terminating \cup Negotiating
  <2> DEFINE s == f[e].state
             C == {}
             codes == << >>
  <2>1. /\ s = f[e].state /\ s # "ACKRCVD" /\ "up" \notin C /\ "finished" \notin C
        /\ e \in up => s = "OPENED"
    BY <1>2, <1>8 DEF Negotiating
  <2>2. /\ Ran(g, s, C, codes) /\ codes \in Seq(Codes)
        /\ OneCode(codes, Asks) /\ NoCode(codes, Asks) /\ NoCode(codes, Answers)
    BY <1>7, <1>8
  <2> HIDE DEF s, C, codes
  <2>3. QED
    BY <1>1, <1>2, <1>3, <1>6, <2>1, <2>2, ActsKeeps
<1>9. ASSUME NEW s \in {"CLOSED", "STOPPED"}, NEW C \in SUBSET {"finished"},
             Ran(g, s, C, << >>), f[e].state # "OPENED"
      PROVE  Inv'
  <2> DEFINE codes == << >>
  <2>1. /\ s # "OPENED" /\ s # "ACKRCVD" /\ s \notin Acking /\ "up" \notin C /\ e \notin up
    BY <1>2, <1>9 DEF Acking
  <2>2. /\ Ran(g, s, C, codes) /\ codes \in Seq(Codes)
        /\ OneCode(codes, Asks) /\ NoCode(codes, Asks) /\ NoCode(codes, Answers)
    BY <1>7, <1>9
  <2> HIDE DEF codes
  <2>3. QED
    BY <1>1, <1>2, <1>3, <1>6, <2>1, <2>2, ActsKeeps
<1>10. ASSUME NEW s \in States \ (Resting \cup Deaf), NEW c \in {"CONFREQ", "TERMREQ"},
              Ran(g, s, {}, <<c>>), f[e].state # "OPENED", s = f[e].state \/ s = "REQSENT"
       PROVE  Inv'
  <2> DEFINE codes == <<c>>
             C == {}
  <2>1. /\ s \notin Resting /\ s # "ACKRCVD" /\ s # "OPENED" /\ (s \in Acking => f[e].state = s)
        /\ s # "INITIAL" /\ "up" \notin C /\ "finished" \notin C /\ e \notin up
    BY <1>2, <1>10 DEF Acking, Resting, Deaf
  <2>2. /\ Ran(g, s, C, codes) /\ codes \in Seq(Codes)
        /\ OneCode(codes, Asks) /\ NoCode(codes, Answers)
    BY <1>10, CodeLists DEF Codes, Answers
  <2> HIDE DEF codes, C
  <2>3. QED
    BY <1>1, <1>2, <1>3, <1>6, <2>1, <2>2, ActsKeeps
<1>11. QED
  BY <1>4, <1>8, <1>9, <1>10

\* die: the daemon is gone, after a Terminate-Request if it was negotiating or up.
LEMMA KillKeeps ==
  ASSUME Inv, NEW e \in Ends, Kill(e)
  PROVE  Inv'
<1> DEFINE q == Peer(e)
           g == fsm_close(f[e])
           F == Frames(g, go[e], None)
           n == fsm_init({}, 0)
           o == Want[e]
           h == None
<1>1. /\ wire' = [wire EXCEPT ![q] = @ \o F] /\ f' = [f EXCEPT ![e] = n]
      /\ go' = [go EXCEPT ![e] = o] /\ ho' = [ho EXCEPT ![e] = h] /\ up' = up \ {e}
      /\ kills' = kills + 1
  BY DEF Kill, Send
<1>2. Fresh(f[e]) /\ go[e] \in Options /\ o \in Options /\ h \in Lists /\ up \subseteq Ends
  BY EndFacts, ListFacts DEF Inv, Typed
<1>3. PICK s \in States, C \in SUBSET {"down"}, codes \in {<< >>, <<"TERMREQ">>} :
         Ran(g, s, C, codes)
  BY <1>2, CloseRan
<1>4. NoCode(codes, Answers) /\ OneCode(codes, Answers)
  BY CodeLists DEF Answers
<1>5. F \in Seq(Frame) /\ No(F, Answers) /\ One(F, Answers)
  BY <1>2, <1>3, <1>4, FramesCodes
<1>6. Fresh(n) /\ n.state = "INITIAL"
  BY FreshFacts
<1>7. Taken(wire, e)
  BY DEF Taken
<1> HIDE DEF g, F, n, o, h
<1>8. n.state \notin Acking /\ n.state \notin {"ACKRCVD", "OPENED"}
  BY <1>6 DEF Acking
<1>9. /\ up' \subseteq Ends /\ up' \ {e} = up \ {e} /\ e \notin up'
      /\ kills' \in Nat /\ kills' # 0
  BY <1>1, <1>2 DEF Inv, Typed
<1> HIDE DEF q
<1>10. q = Peer(e)
  BY DEF q
<1>11. QED
  BY <1>1, <1>2, <1>5, <1>6, <1>7, <1>8, <1>9, <1>10, Preserved

\* A packet is lost on the line, or reaches a daemon that does not hear it.
LEMMA LossKeeps ==
  ASSUME Inv, NEW e \in Ends, Lose(e) \/ Drop(e)
  PROVE  Inv'
<1> DEFINE q == Peer(e)
           w == Rest(e)
           F == << >>
           n == f[e]
           o == go[e]
           h == ho[e]
<1>1. /\ wire[e] # << >> /\ wire' = w /\ f' = f /\ go' = go /\ ho' = ho /\ up' = up
      /\ kills' = kills
  BY DEF Lose, Drop, Rest
<1>2. /\ f \in [Ends -> FSM] /\ go \in [Ends -> Options] /\ ho \in [Ends -> Lists]
      /\ up \subseteq Ends /\ wire \in [Ends -> Seq(Frame)]
      /\ Lives(e) /\ Exchanges(e) /\ Quiet(e) /\ Agreed(e) /\ kills \in Nat
  BY DEF Inv, Typed
<1>3. q = Peer(e) /\ q \in Ends /\ Taken(w, e)
  BY <1>1, PeerFacts DEF Taken
<1>4. w \in [Ends -> Seq(Frame)] /\ (Idle(wire, e) => Idle(w, e))
  BY <1>2, <1>3, TakenFacts
<1>5. wire' = [w EXCEPT ![q] = @ \o F]
  <2>1. w[q] \in Seq(Frame)
    BY <1>3, <1>4
  <2>2. w[q] \o << >> = w[q]
    BY <2>1, ConcatEmptySeq
  <2>3. w = [w EXCEPT ![q] = w[q]]
    BY <1>4
  <2>4. QED
    BY <1>1, <2>2, <2>3
<1>6. F \in Seq(Frame) /\ \A K : No(F, K) /\ One(F, K)
  BY DEF No, One
<1>7. /\ f' = [f EXCEPT ![e] = n] /\ go' = [go EXCEPT ![e] = o] /\ ho' = [ho EXCEPT ![e] = h]
      /\ Fresh(n) /\ o \in Options /\ h \in Lists
  BY <1>1, <1>2 DEF Lives
<1>8. /\ up' \subseteq Ends /\ up' \ {e} = up \ {e} /\ (e \in up' => n.state = "OPENED")
  BY <1>1, <1>2 DEF Lives
<1>9. n.state # "INITIAL" => f[e].state # "INITIAL" /\ (n.state \in Resting => Idle(w, e))
  BY <1>2, <1>4 DEF Exchanges
<1>10. n.state \in {"ACKRCVD", "OPENED"} /\ f[q].state \in Acking => ho[q] = lcp_addci(o)
  BY <1>2 DEF Agreed
<1>11. n.state \in Acking => Stands(e, w, F, n, o, h)
  BY <1>6 DEF Stands, Has
<1> HIDE DEF q, w, F, n, o, h
<1>12. /\ One(F, Asks) /\ No(F, Asks) /\ One(F, Answers) /\ No(F, Answers)
  BY <1>6
<1>13. kills' \in Nat /\ (kills' = 0 => kills = 0)
  BY <1>1, <1>2
<1>14. kills' = 0 /\ n.state = "INITIAL" => Idle(w, e) /\ No(F, Asks)
  BY <1>1, <1>2, <1>4, <1>12 DEF Quiet, n
<1>15. QED
  BY <1>3, <1>5, <1>6, <1>7, <1>8, <1>9, <1>10, <1>11, <1>12, <1>13, <1>14, Preserved

----------------------------------------------------------------------------
(* The operations that read a packet.                                      *)

\* The packet that e reads was the only one of its exchange, unless the daemon
\* that it belongs to is not running.
LEMMA ReadFacts ==
  ASSUME Inv, NEW e \in Ends, NEW q, q = Peer(e), wire[e] # << >>, f[e].state # "INITIAL"
  PROVE  /\ Head1(e) \in Frame /\ Taken(Rest(e), e)
         /\ Idle(wire, e) => Idle(Rest(e), e)
         /\ Head1(e).code \in Asks =>
              ~ Idle(wire, q) /\ (f[q].state # "INITIAL" => Idle(Rest(e), q))
         /\ Head1(e).code \in Answers => Idle(Rest(e), e) /\ ~ Idle(wire, e)
         /\ Head1(e).code = "CONFACK" =>
              /\ f[q].state \in Acking => Head1(e).opts = ho[q]
              /\ Head1(e).opts = lcp_addci(go[e]) => Has(e)
<1>1. q \in Ends /\ q # e /\ Peer(q) = e /\ Peer(e) = q
  BY PeerFacts
<1>2. /\ wire \in [Ends -> Seq(Frame)] /\ wire[e] \in Seq(Frame)
      /\ Single(wire, e) /\ (f[q].state # "INITIAL" => Single(wire, q)) /\ Agreed(e)
  BY <1>1 DEF Inv, Typed, Exchanges
<1>3. Taken(Rest(e), e)
  BY DEF Taken
<1>4. Idle(wire, e) => Idle(Rest(e), e)
  BY <1>2, <1>3, TakenFacts
<1>5. /\ Rest(e)[e] = Tail(wire[e]) /\ Rest(e)[q] = wire[q]
  BY <1>1, <1>2 DEF Rest
<1> DEFINE w == wire[e]
<1>6. w \in Seq(Frame) /\ w # << >>
  BY <1>2
<1> HIDE DEF w
<1>7. /\ Head(w) \in Frame /\ Head(w) = w[1] /\ 1 \in 1 .. Len(w)
      /\ \A K : /\ No(w, K) => Head(w).code \notin K
                /\ One(w, K) /\ Head(w).code \in K => No(Tail(w), K)
  BY <1>6, LineTail
<1>8. /\ Head1(e) \in Frame /\ Head1(e) = wire[e][1] /\ 1 \in 1 .. Len(wire[e])
      /\ \A K : /\ No(wire[e], K) => Head1(e).code \notin K
                /\ One(wire[e], K) /\ Head1(e).code \in K => No(Rest(e)[e], K)
  BY <1>5, <1>7 DEF w, Head1
<1>9. Head1(e).code \in Asks =>
         ~ Idle(wire, q) /\ (f[q].state # "INITIAL" => Idle(Rest(e), q))
  BY <1>1, <1>2, <1>5, <1>8 DEF Idle, Single
<1>10. Head1(e).code \in Answers => Idle(Rest(e), e) /\ ~ Idle(wire, e)
  BY <1>1, <1>2, <1>5, <1>8 DEF Idle, Single
<1>11. Head1(e).code = "CONFACK" =>
          /\ f[q].state \in Acking => Head1(e).opts = ho[q]
          /\ Head1(e).opts = lcp_addci(go[e]) => Has(e)
  BY <1>1, <1>2, <1>8 DEF Agreed, Has
<1>12. QED
  BY <1>3, <1>4, <1>8, <1>9, <1>10, <1>11

\* e acknowledges the request it has read, with options h, if it sends an Ack.
Acks(e, codes, o, h, reply) ==
    Head1(e).code \in Asks /\ (NoCode(codes, {"CONFACK"}) \/ h = reply) /\ MagicOK(o, h)

\* What an operation that reads a packet may do to the fsm of e: it goes to s with
\* the callbacks C, sends packets with these codes, and leaves the options o and h.
Reads(e, s, C, codes, o, h, reply) ==
    /\ "up" \in C => s = "OPENED"
    /\ "down" \in C => "up" \notin C
    /\ f[e].state = "OPENED" => s = "OPENED" \/ "down" \in C
    /\ "finished" \in C => s # "OPENED" /\ Idle(Rest(e), e) /\ NoCode(codes, Asks)
    /\ s # "INITIAL" /\ OneCode(codes, Asks) /\ (NoCode(codes, Asks) \/ Idle(Rest(e), e))
    /\ s \in Resting => Idle(Rest(e), e) /\ NoCode(codes, Asks)
    /\ OneCode(codes, Answers) /\ (NoCode(codes, Answers) \/ Head1(e).code \in Asks)
    /\ s \in {"ACKRCVD", "OPENED"} /\ f[Peer(e)].state \in Acking =>
          ho[Peer(e)] = lcp_addci(o)
    /\ s \in Acking => StandsBy(e, Rest(e), codes, s, o, h) \/ Acks(e, codes, o, h, reply)

\* StepKeeps, of such an operation.
LEMMA ReadKeeps ==
  ASSUME Inv, NEW e \in Ends, wire[e] # << >>, f[e].state # "INITIAL",
         NEW g, NEW s, NEW C, NEW codes \in Seq(Codes), Ran(g, s, C, codes),
         NEW o \in Options, NEW h \in Lists, NEW reply \in Lists,
         Step(e, Rest(e), g, o, reply), ho' = [ho EXCEPT ![e] = h], kills' = kills,
         Reads(e, s, C, codes, o, h, reply)
  PROVE  Inv'
<1> DEFINE q == Peer(e)
           w == Rest(e)
<1>1. /\ Taken(w, e)
      /\ Head1(e).code \in Asks => ~ Idle(wire, q) /\ (f[q].state # "INITIAL" => Idle(w, q))
  BY ReadFacts
<1>2. e \in up => f[e].state = "OPENED"
  BY DEF Inv, Lives
<1>3. /\ "up" \in C => s = "OPENED"
      /\ "down" \in C => "up" \notin C
      /\ f[e].state = "OPENED" => s = "OPENED" \/ "down" \in C
      /\ "finished" \in C => s # "OPENED" /\ Idle(w, e) /\ NoCode(codes, Asks)
      /\ s # "INITIAL" /\ OneCode(codes, Asks) /\ (NoCode(codes, Asks) \/ Idle(w, e))
      /\ s \in Resting => Idle(w, e) /\ NoCode(codes, Asks)
      /\ OneCode(codes, Answers) /\ (NoCode(codes, Answers) \/ Head1(e).code \in Asks)
      /\ s \in {"ACKRCVD", "OPENED"} /\ f[q].state \in Acking => ho[q] = lcp_addci(o)
      /\ s \in Acking => StandsBy(e, w, codes, s, o, h) \/ Acks(e, codes, o, h, reply)
  BY DEF Reads
<1>4. q = Peer(e) /\ Step(e, w, g, o, reply)
  OBVIOUS
<1> HIDE DEF w, q
<1>5. s # "INITIAL" =>
         /\ f[e].state # "INITIAL" \/ Idle(w, e)
         /\ OneCode(codes, Asks) /\ (NoCode(codes, Asks) \/ Idle(w, e))
         /\ s \in Resting => Idle(w, e) /\ NoCode(codes, Asks)
  BY <1>3
<1>6. f[q].state # "INITIAL" =>
         OneCode(codes, Answers) /\ (NoCode(codes, Answers) \/ (Idle(w, q) /\ ~ Idle(wire, q)))
  BY <1>1, <1>3
<1>7. s \in Acking => StandsBy(e, w, codes, s, o, h) \/ GrantsNow(e, w, codes, o, h, reply)
  BY <1>1, <1>3, <1>4 DEF Acks, GrantsNow
<1>8. /\ e \in up => s = "OPENED" \/ "down" \in C
      /\ "finished" \in C => s # "OPENED"
      /\ NoCode(codes, Answers) \/ ~ Idle(wire, q)
      /\ "finished" \in C \/ s = "INITIAL" => Idle(w, e) /\ NoCode(codes, Asks)
  BY <1>1, <1>2, <1>3
<1>9. QED
  BY <1>1, <1>3, <1>4, <1>5, <1>6, <1>7, <1>8, StepKeeps

\* An answer finds an fsm that waits for it.
LEMMA AnswerFinds ==
  ASSUME Inv, NEW e \in Ends, wire[e] # << >>, f[e].state \notin Deaf,
         Head1(e).code \in Answers
  PROVE  f[e].state \in Waiting /\ Idle(Rest(e), e)
<1>1. Idle(Rest(e), e) /\ ~ Idle(wire, e) /\ f[e].state # "INITIAL"
  BY ReadFacts DEF Deaf
<1>2. f[e].state \notin Resting /\ f[e].state \in States
  BY <1>1, EndFacts DEF Inv, Exchanges
<1>3. QED
  BY <1>1, <1>2 DEF Resting, States, Deaf, Waiting, Terminating

\* A Terminate-Request, a Terminate-Ack or a Code-Reject.
LEMMA ReceiveOtherKeeps ==
  ASSUME Inv, NEW e \in Ends, ReceiveOther(e)
  PROVE  Inv'
<1> DEFINE q == Peer(e)
           g == fsm_input(f[e], Packet1(e), "none")
           h == ho[e]
           reply == None
<1>1. /\ wire[e] # << >> /\ Head1(e).code \in {"TERMREQ", "TERMACK", "CODEREJ"}
      /\ f[e].state \notin Deaf /\ f[e].state # "INITIAL"
      /\ \E x \in Reset(e, g, go[e]) : Step(e, Rest(e), g, x, reply)
      /\ ho' = ho /\ kills' = kills
  BY DEF ReceiveOther, Listening, Deaf
<1>2. /\ Fresh(f[e]) /\ f[e].state \in States /\ go[e] \in Options /\ h \in Lists /\ reply \in Lists
      /\ Reset(e, g, go[e]) \subseteq Options /\ ho' = [ho EXCEPT ![e] = h]
  BY <1>1, EndFacts, ListFacts
<1>3. Head1(e) \in Frame /\ (Idle(wire, e) => Idle(Rest(e), e))
  BY <1>1, ReadFacts
<1>4. Packet1(e).code = Head1(e).code /\ Packet1(e).id = Head1(e).id /\ Head1(e).id \in Ids
  BY <1>3 DEF Packet1, Frame
<1>5. f[e].state \in Resting => Idle(Rest(e), e)
  BY <1>1, <1>3 DEF Inv, Exchanges
<1>6. /\ << >> \in Seq(Codes) /\ OneCode(<< >>, Asks) /\ NoCode(<< >>, Asks)
      /\ NoCode(<< >>, Answers) /\ OneCode(<< >>, Answers) /\ NoCode(<< >>, {"CONFACK"})
  BY CodeLists
<1>7. /\ q = Peer(e) /\ h = ho[e] /\ Agreed(e)
  BY DEF Inv
<1>8. CASE Head1(e).code = "TERMREQ"
  <2>1. g = fsm_rtermreq(f[e], Head1(e).id)
    BY <1>1, <1>4, <1>8 DEF fsm_input
  <2> HIDE DEF g, h, q, reply
  <2>2. PICK s \in States \ Deaf, C \in SUBSET {"down"} :
           /\ Ran(g, s, C, <<"TERMACK">>) /\ s # "ACKSENT"
           /\ f[e].state = "OPENED" => "down" \in C
           /\ s \in Resting => s = f[e].state /\ s # "ACKRCVD" /\ s # "OPENED"
    BY <1>1, <1>2, <1>4, <2>1, RtermreqRan
  <2>3. PICK o \in Options : Step(e, Rest(e), g, o, reply)
    BY <1>1, <1>2
  <2> DEFINE codes == <<"TERMACK">>
  <2>4. /\ Ran(g, s, C, codes) /\ codes \in Seq(Codes)
        /\ OneCode(codes, Asks) /\ NoCode(codes, Asks) /\ OneCode(codes, Answers)
    BY <2>2, CodeLists DEF Codes, Asks
  <2> HIDE DEF codes
  <2>5. Head1(e).code \in Asks /\ "up" \notin C /\ "finished" \notin C
    BY <1>8 DEF Asks
  <2>6. s \in Resting => Idle(Rest(e), e) /\ NoCode(codes, Asks)
    BY <1>5, <2>2, <2>4
  <2>7. s \notin {"ACKRCVD", "OPENED"} /\ s \notin Acking /\ s # "INITIAL"
    BY <2>2 DEF Resting, Acking, Deaf
  <2>8. Reads(e, s, C, codes, o, h, reply)
    BY <2>2, <2>4, <2>5, <2>6, <2>7 DEF Reads
  <2>9. QED
    BY <1>1, <1>2, <2>3, <2>4, <2>8, ReadKeeps
<1>9. CASE Head1(e).code = "TERMACK"
  <2>1. g = fsm_rtermack(f[e])
    BY <1>1, <1>4, <1>9 DEF fsm_input
  <2> HIDE DEF g, h, q, reply
  <2>2. f[e].state \in Waiting /\ Idle(Rest(e), e)
    BY <1>1, <1>9, AnswerFinds DEF Answers
  <2>3. PICK s \in {f[e].state, "CLOSED", "STOPPED"}, C \in SUBSET {"finished"} :
           Ran(g, s, C, << >>) /\ ("finished" \in C => s # f[e].state)
    BY <1>2, <2>1, <2>2, RtermackRan
  <2>4. Step(e, Rest(e), g, go[e], reply)
    <3>1. "resetci" \notin g.cb
      BY <2>3 DEF Ran
    <3>2. QED
      BY <1>1, <3>1 DEF Reset
  <2>5. /\ s \notin {"ACKRCVD", "OPENED"} /\ f[e].state # "OPENED" /\ s # "INITIAL"
        /\ s \in Acking => f[e].state \in Acking
    BY <2>2, <2>3 DEF Waiting, Terminating, Acking
  <2> DEFINE codes == << >>
             o == go[e]
  <2>6. s \in Acking => StandsBy(e, Rest(e), codes, s, o, h)
    BY <1>6, <1>7, <2>5 DEF StandsBy
  <2>7. /\ Ran(g, s, C, codes) /\ codes \in Seq(Codes) /\ o \in Options
        /\ OneCode(codes, Asks) /\ NoCode(codes, Asks) /\ OneCode(codes, Answers)
        /\ NoCode(codes, Answers) /\ Step(e, Rest(e), g, o, reply)
    BY <1>2, <1>6, <2>3, <2>4
  <2> HIDE DEF codes, o
  <2>8. "up" \notin C /\ "down" \notin C
    OBVIOUS
  <2>9. Reads(e, s, C, codes, o, h, reply)
    BY <2>2, <2>5, <2>6, <2>7, <2>8 DEF Reads
  <2>10. QED
    BY <1>1, <1>2, <2>7, <2>9, ReadKeeps
<1>10. CASE Head1(e).code = "CODEREJ"
  <2>1. g = fsm_rcoderej(f[e])
    BY <1>1, <1>4, <1>10 DEF fsm_input
  <2> HIDE DEF g, h, q, reply
  <2>2. PICK s \in {f[e].state, "REQSENT"} : Ran(g, s, {}, << >>) /\ s # "ACKRCVD"
                                             /\ (s = f[e].state \/ f[e].state = "ACKRCVD")
    BY <1>2, <2>1, RcoderejRan
  <2>3. Step(e, Rest(e), g, go[e], reply)
    <3>1. "resetci" \notin g.cb
      BY <2>2 DEF Ran
    <3>2. QED
      BY <1>1, <3>1 DEF Reset
  <2> DEFINE codes == << >>
             o == go[e]
             C == {}
  <2>4. /\ s \in {"ACKRCVD", "OPENED"} /\ f[q].state \in Acking => ho[q] = lcp_addci(o)
        /\ s \in Acking => StandsBy(e, Rest(e), codes, s, o, h)
    BY <1>1, <1>6, <1>7, <2>2 DEF Agreed, StandsBy, Has, Acking
  <2>5. /\ Ran(g, s, C, codes) /\ codes \in Seq(Codes) /\ o \in Options
        /\ OneCode(codes, Asks) /\ NoCode(codes, Asks) /\ OneCode(codes, Answers)
        /\ NoCode(codes, Answers) /\ Step(e, Rest(e), g, o, reply)
        /\ "up" \notin C /\ "down" \notin C /\ "finished" \notin C
    BY <1>2, <1>6, <2>2, <2>3
  <2>6. (f[e].state = "OPENED" => s = "OPENED") /\ s # "INITIAL"
    BY <1>1, <2>2
  <2> HIDE DEF codes, o, C
  <2>7. s \in Resting => Idle(Rest(e), e) /\ NoCode(codes, Asks)
    BY <1>5, <2>2, <2>5 DEF Resting
  <2>8. Reads(e, s, C, codes, o, h, reply)
    BY <2>4, <2>5, <2>6, <2>7 DEF Reads, q
  <2>9. QED
    BY <1>1, <1>2, <2>5, <2>8, ReadKeeps
<1>11. QED
  BY <1>1, <1>8, <1>9, <1>10

\* An Ack, Nak or Reject of our request.
LEMMA ReceiveAnswerKeeps ==
  ASSUME Inv, NEW e \in Ends, ReceiveAnswer(e)
  PROVE  Inv'
<1> DEFINE q == Peer(e)
           r == Head1(e).opts
           code == Head1(e).code
           good == CASE code = "CONFACK" -> lcp_ackci(go[e], r)
                     [] code = "CONFNAK" -> NakGood(go[e], r)
                     [] OTHER            -> RejGood(go[e], r)
           taken == good /\ Head1(e).id = f[e].reqid /\ f[e].state # "OPENED"
           g == fsm_input(f[e], Packet1(e), IF good THEN "good" ELSE "bad")
           O(m) == CASE code = "CONFNAK" /\ taken -> lcp_nakci(go[e], Want[e], r, m)
                     [] code = "CONFREJ" /\ taken -> lcp_rejci(go[e], r)
                     [] OTHER -> go[e]
           h == ho[e]
           reply == None
<1>1. /\ wire[e] # << >> /\ code \in Replies /\ f[e].state \notin Deaf /\ f[e].state # "INITIAL"
      /\ \E m \in Magics : \E x \in Reset(e, g, O(m)) : Step(e, Rest(e), g, x, reply)
      /\ ho' = ho /\ kills' = kills
  BY DEF ReceiveAnswer, Listening, Replies, Deaf
<1>2. /\ Head1(e) \in Frame /\ r \in Lists /\ Head1(e).id \in Ids
      /\ Packet1(e).code = code /\ Packet1(e).id = Head1(e).id
  BY <1>1, ReadFacts DEF Frame, Packet1
<1>3. code \in Answers /\ f[e].state \in Waiting /\ Idle(Rest(e), e)
  BY <1>1, AnswerFinds DEF Replies, Answers
<1>4. /\ Fresh(f[e]) /\ go[e] \in Options /\ h \in Lists /\ reply \in Lists
      /\ h = ho[e] /\ ho' = [ho EXCEPT ![e] = h]
  BY <1>1, EndFacts, ListFacts
<1>5. /\ << >> \in Seq(Codes) /\ OneCode(<< >>, Asks) /\ NoCode(<< >>, Asks)
      /\ NoCode(<< >>, Answers) /\ OneCode(<< >>, Answers) /\ NoCode(<< >>, {"CONFACK"})
  BY CodeLists
<1>6. /\ f[e].state \notin {"ACKRCVD", "OPENED"} /\ f[e].state \notin Resting
      /\ f[e].state # "OPENED"
  BY <1>3 DEF Waiting, Terminating, Resting
<1>7. CASE code = "CONFACK"
  <2> DEFINE b == lcp_ackci(go[e], r)
  <2>1. b \in BOOLEAN /\ (good <=> b) /\ \A m \in Magics : O(m) = go[e]
    BY <1>7 DEF lcp_ackci
  <2>2. g = fsm_rconfack(f[e], Head1(e).id, (IF b THEN "good" ELSE "bad") = "good")
    BY <1>1, <1>2, <1>7, <2>1 DEF fsm_input
  <2>3. ((IF b THEN "good" ELSE "bad") = "good") = b
    BY <2>1
  <2>4. b => Has(e) /\ (f[q].state \in Acking => ho[q] = lcp_addci(go[e]))
    BY <1>1, <1>7, ReadFacts DEF lcp_ackci
  <2> HIDE DEF b, g, O, good, h, reply, q
  <2>5. g = fsm_rconfack(f[e], Head1(e).id, b)
    BY <2>2, <2>3
  <2>6. \/ Ran(g, f[e].state, {}, << >>)
        \/ b /\ Ran(g, "ACKRCVD", {}, << >>)
        \/ b /\ Ran(g, "OPENED", {"up"}, << >>)
    BY <1>2, <1>3, <1>4, <2>1, <2>5, RconfackRan
  <2>7. g.state = "OPENED" => f[e].state = "ACKSENT" \/ f[e].state = "OPENED"
    <3>1. f[e].state \in {"REQSENT", "ACKSENT", "CLOSING", "STOPPING"}
      BY <1>3 DEF Waiting, Terminating
    <3>2. QED
      BY <2>5, <3>1 DEF fsm_rconfack, Goto, SetReqid, SetRetransmits, Untimeout, Call
  <2>8. PICK s \in {f[e].state, "ACKRCVD", "OPENED"}, C \in SUBSET {"up"} :
           Ran(g, s, C, << >>) /\ (s = f[e].state \/ b) /\ ("up" \in C => s = "OPENED")
    BY <2>6
  <2>9. Step(e, Rest(e), g, go[e], reply)
    <3>1. "resetci" \notin g.cb
      BY <2>8 DEF Ran
    <3>2. QED
      BY <1>1, <2>1, <3>1 DEF Reset
  <2> DEFINE codes == << >>
             o == go[e]
  <2>10. s \in {"ACKRCVD", "OPENED"} /\ f[Peer(e)].state \in Acking => ho[Peer(e)] = lcp_addci(o)
    BY <1>6, <2>4, <2>8 DEF q
  <2>11. s \in Acking => StandsBy(e, Rest(e), codes, s, o, h)
    <3>1. s = "OPENED" => f[e].state = "ACKSENT" /\ Has(e)
      BY <1>6, <2>4, <2>7, <2>8 DEF Ran
    <3>2. s = "ACKSENT" => f[e].state = "ACKSENT"
      BY <2>8
    <3>3. QED
      BY <1>4, <1>5, <3>1, <3>2 DEF StandsBy, Acking
  <2>12. /\ Ran(g, s, C, codes) /\ codes \in Seq(Codes) /\ o \in Options
         /\ OneCode(codes, Asks) /\ NoCode(codes, Asks) /\ OneCode(codes, Answers)
         /\ NoCode(codes, Answers) /\ Step(e, Rest(e), g, o, reply)
    BY <1>4, <1>5, <2>8, <2>9
  <2> HIDE DEF codes, o
  <2>13. "down" \notin C /\ "finished" \notin C /\ s # "INITIAL"
    BY <1>1
  <2>14. Reads(e, s, C, codes, o, h, reply)
    BY <1>3, <1>6, <2>8, <2>10, <2>11, <2>12, <2>13 DEF Reads
  <2>15. QED
    BY <1>1, <1>4, <2>12, <2>14, ReadKeeps
<1>8. CASE code # "CONFACK"
  <2> DEFINE b == (IF good THEN "good" ELSE "bad") = "good"
  <2>1. b \in BOOLEAN
    OBVIOUS
  <2>2. g = fsm_rconfnakrej(f[e], Head1(e).id, b)
    BY <1>1, <1>2, <1>8 DEF fsm_input, Replies
  <2>3. \A m \in Magics : O(m) \in Options
    BY <1>2, <1>4, AnswerTypes
  <2> HIDE DEF b, g, O, good, h, reply, q
  <2>4. PICK o \in Options : Step(e, Rest(e), g, o, reply)
    <3>1. \A m \in Magics : Reset(e, g, O(m)) \subseteq Options
      BY <2>3, EndFacts
    <3>2. QED
      BY <1>1, <3>1
  <2>5. \/ Ran(g, f[e].state, {}, << >>)
        \/ Ran(g, f[e].state, {}, <<"CONFREQ">>)
    BY <1>2, <1>3, <1>4, <2>1, <2>2, RconfnakrejRan
  <2>6. /\ <<"CONFREQ">> \in Seq(Codes) /\ OneCode(<<"CONFREQ">>, Asks)
        /\ NoCode(<<"CONFREQ">>, Answers) /\ OneCode(<<"CONFREQ">>, Answers)
        /\ NoCode(<<"CONFREQ">>, {"CONFACK"})
    BY CodeLists DEF Codes, Answers
  <2>7. PICK codes \in Seq(Codes) :
           /\ Ran(g, f[e].state, {}, codes) /\ OneCode(codes, Asks) /\ OneCode(codes, Answers)
           /\ NoCode(codes, Answers) /\ NoCode(codes, {"CONFACK"})
    BY <1>5, <2>5, <2>6
  <2> DEFINE C == {}
             s == f[e].state
  <2>8. /\ Ran(g, s, C, codes) /\ "up" \notin C /\ "down" \notin C /\ "finished" \notin C
        /\ s \notin Resting /\ s \notin {"ACKRCVD", "OPENED"}
        /\ s = f[e].state /\ f[e].state # "OPENED" /\ s # "INITIAL"
    BY <1>1, <1>6, <2>7
  <2> HIDE DEF C, s
  <2>9. s \in Acking => StandsBy(e, Rest(e), codes, s, o, h)
    BY <1>3, <1>4, <2>7, <2>8 DEF StandsBy
  <2>10. Reads(e, s, C, codes, o, h, reply)
    BY <1>3, <2>7, <2>8, <2>9 DEF Reads
  <2>11. QED
    BY <1>1, <1>4, <2>4, <2>8, <2>10, ReadKeeps
<1>9. QED
  BY <1>7, <1>8

\* A Configure-Request: an fsm that sends an Ack grants what the packet asks for
\* and has seen that its magic number is not its own.
LEMMA ReceiveRequestKeeps ==
  ASSUME Inv, NEW e \in Ends, ReceiveRequest(e)
  PROVE  Inv'
<1> DEFINE r == Head1(e).opts
           p == RconfreqPrepare(f[e])
           tough == RejectIfDisagree(p)
           ao == Allow[e]
           replies == f[e].state \notin {"CLOSED"} \cup Terminating
<1>1. /\ wire[e] # << >> /\ Head1(e).code = "CONFREQ" /\ f[e].state \notin Deaf
      /\ f[e].state # "INITIAL" /\ kills' = kills
  BY DEF ReceiveRequest, Listening, Deaf
<1>2. PICK o \in Reset(e, p, go[e]), m \in Magics :
         LET c == Verdict(o, ao, r, tough)
             g == fsm_input(f[e], Packet1(e), c)
         IN  /\ Step(e, Rest(e), g, IF replies THEN o ELSE go[e], Reply(o, ao, r, tough, m))
             /\ ho' = IF replies THEN [ho EXCEPT ![e] = HisOptions(o, ao, r)] ELSE ho
  BY DEF ReceiveRequest
<1> DEFINE c == Verdict(o, ao, r, tough)
           g == fsm_input(f[e], Packet1(e), c)
           R == Reply(o, ao, r, tough, m)
           H == HisOptions(o, ao, r)
<1>3. /\ Head1(e) \in Frame /\ r \in Lists /\ Head1(e).id \in Ids
      /\ Packet1(e).code = "CONFREQ" /\ Packet1(e).id = Head1(e).id
      /\ Idle(wire, e) => Idle(Rest(e), e)
  BY <1>1, ReadFacts DEF Frame, Packet1
<1>4. /\ Fresh(f[e]) /\ f[e].state \in States /\ go[e] \in Options /\ ho[e] \in Lists
      /\ ao \in Options /\ o \in Options /\ ho = [ho EXCEPT ![e] = ho[e]]
  BY EndFacts
<1>5. /\ H \in Lists /\ c \in Replies /\ R \in Lists
      /\ c = "CONFACK" => H = R /\ MagicOK(o, H)
  <2> DEFINE t == tough
             a == ao
             x == r
  <2>1. a \in Options /\ x \in Lists
    BY <1>3, <1>4
  <2> HIDE DEF t, a, x
  <2>2. /\ HisOptions(o, a, x) \in Lists
        /\ Verdict(o, a, x, t) \in Replies
        /\ Reply(o, a, x, t, m) \in Lists
        /\ Verdict(o, a, x, t) = "CONFACK" =>
             /\ HisOptions(o, a, x) = x /\ Reply(o, a, x, t, m) = x /\ MagicOK(o, x)
    BY <1>4, <2>1, RequestTypes
  <2>3. QED
    BY <2>2 DEF t, a, x
<1>6. g = fsm_rconfreq(f[e], Head1(e).id, c)
  BY <1>1, <1>3 DEF fsm_input
<1>7. /\ replies => Step(e, Rest(e), g, o, R) /\ ho' = [ho EXCEPT ![e] = H]
      /\ ~ replies => Step(e, Rest(e), g, go[e], R) /\ ho' = ho
  BY <1>2
<1>8. f[e].state \in Negotiating => o = go[e]
  <2> SUFFICES ASSUME f[e].state \in Negotiating PROVE o = go[e]
    OBVIOUS
  <2>1. p = f[e] /\ f[e].cb = {}
    BY <1>4 DEF RconfreqPrepare, Fresh, Negotiating
  <2>2. QED
    BY <2>1 DEF Reset
<1>9. Head1(e).code \in Asks
  BY <1>1 DEF Asks
<1>10. f[e].state \in Resting => Idle(Rest(e), e)
  BY <1>1, <1>3 DEF Inv, Exchanges
<1> HIDE DEF c, g, R, H
<1>11. LET h == fsm_rconfreq(f[e], Head1(e).id, c)
       IN  /\ f[e].state = "CLOSED" => Ran(h, "CLOSED", {}, <<"TERMACK">>)
           /\ f[e].state \in Terminating => Ran(h, f[e].state, {}, << >>)
           /\ f[e].state \in {"OPENED", "STOPPED"} =>
                \E s \in {"ACKSENT", "REQSENT"}, C \in SUBSET {"down", "resetci"} :
                    /\ Ran(h, s, C, <<"CONFREQ", c>>)
                    /\ f[e].state = "OPENED" => "down" \in C
                    /\ s = "ACKSENT" => c = "CONFACK"
           /\ f[e].state \in {"REQSENT", "ACKSENT"} =>
                \E s \in {"ACKSENT", "REQSENT"} :
                    Ran(h, s, {}, <<c>>) /\ (s = "ACKSENT" => c = "CONFACK")
           /\ f[e].state = "ACKRCVD" =>
                \/ Ran(h, "OPENED", {"up"}, <<c>>) /\ c = "CONFACK"
                \/ Ran(h, "ACKRCVD", {}, <<c>>)
  <2>1. Head1(e).id \in Ids /\ c \in Replies /\ Fresh(f[e])
    BY <1>3, <1>4, <1>5
  <2>2. QED
    BY <2>1, RconfreqRan
<1>12. /\ c \in Codes /\ <<c>> \in Seq(Codes) /\ <<"CONFREQ", c>> \in Seq(Codes)
       /\ OneCode(<<"CONFREQ", c>>, Asks) /\ OneCode(<<"CONFREQ", c>>, Answers)
       /\ NoCode(<<c>>, Asks) /\ OneCode(<<c>>, Asks) /\ OneCode(<<c>>, Answers)
  BY <1>5, CodeLists
<1>13. CASE f[e].state = "CLOSED" \/ f[e].state \in Terminating
  <2>1. Step(e, Rest(e), g, go[e], R) /\ ho' = ho
    BY <1>7, <1>13
  <2>2. /\ <<"TERMACK">> \in Seq(Codes) /\ OneCode(<<"TERMACK">>, Answers)
        /\ NoCode(<<"TERMACK">>, Asks)
    BY CodeLists DEF Codes, Asks
  <2>3. << >> \in Seq(Codes) /\ OneCode(<< >>, Answers) /\ NoCode(<< >>, Asks)
    BY CodeLists
  <2>4. PICK codes \in Seq(Codes) :
           Ran(g, f[e].state, {}, codes) /\ OneCode(codes, Answers) /\ NoCode(codes, Asks)
    BY <1>6, <1>11, <1>13, <2>2, <2>3
  <2>5. OneCode(codes, Asks)
    BY <2>4 DEF NoCode, OneCode
  <2> DEFINE C == {}
             s == f[e].state
             h == ho[e]
             k == go[e]
  <2>6. /\ Ran(g, s, C, codes) /\ "up" \notin C /\ "down" \notin C /\ "finished" \notin C
        /\ s \in Resting => Idle(Rest(e), e)
        /\ s \notin {"ACKRCVD", "OPENED"} /\ s \notin Acking /\ f[e].state # "OPENED"
        /\ s # "INITIAL"
    BY <1>10, <1>13, <2>4 DEF Terminating, Acking
  <2>7. Step(e, Rest(e), g, k, R) /\ ho' = [ho EXCEPT ![e] = h] /\ k \in Options /\ h \in Lists
    BY <1>4, <2>1
  <2> HIDE DEF C, s, h, k
  <2>8. Reads(e, s, C, codes, k, h, R)
    BY <1>9, <2>4, <2>5, <2>6 DEF Reads
  <2>9. QED
    BY <1>1, <1>5, <2>4, <2>6, <2>7, <2>8, ReadKeeps
<1>14. CASE f[e].state \in {"OPENED", "STOPPED"}
  <2>1. Step(e, Rest(e), g, o, R) /\ ho' = [ho EXCEPT ![e] = H]
    BY <1>7, <1>14 DEF Terminating
  <2>2. PICK s \in {"ACKSENT", "REQSENT"}, C \in SUBSET {"down", "resetci"} :
           /\ Ran(g, s, C, <<"CONFREQ", c>>)
           /\ f[e].state = "OPENED" => "down" \in C
           /\ s = "ACKSENT" => c = "CONFACK"
    BY <1>6, <1>11, <1>14
  <2>3. /\ s \notin Resting /\ s \notin {"ACKRCVD", "OPENED"} /\ "up" \notin C /\ "finished" \notin C
        /\ Idle(Rest(e), e)
    BY <1>10, <1>14, <2>2 DEF Resting
  <2> DEFINE codes == <<"CONFREQ", c>>
  <2>4. /\ Ran(g, s, C, codes) /\ codes \in Seq(Codes)
        /\ OneCode(codes, Asks) /\ OneCode(codes, Answers)
    BY <1>12, <2>2
  <2> HIDE DEF codes
  <2>5. s \in Acking => Acks(e, codes, o, H, R)
    BY <1>5, <1>9, <2>2 DEF Acks, Acking
  <2>6. Reads(e, s, C, codes, o, H, R)
    BY <1>9, <2>2, <2>3, <2>4, <2>5 DEF Reads
  <2>7. QED
    BY <1>1, <1>4, <1>5, <2>1, <2>4, <2>6, ReadKeeps
<1>15. CASE f[e].state \in Negotiating
  <2>1. Step(e, Rest(e), g, o, R) /\ ho' = [ho EXCEPT ![e] = H]
    BY <1>7, <1>15 DEF Terminating, Negotiating
  <2>2. PICK s \in {"ACKSENT", "REQSENT", "ACKRCVD", "OPENED"}, C \in SUBSET {"up"} :
           /\ Ran(g, s, C, <<c>>) /\ ("up" \in C => s = "OPENED")
           /\ s \in {"ACKRCVD", "OPENED"} => f[e].state = "ACKRCVD"
           /\ s \in {"ACKSENT", "OPENED"} => c = "CONFACK"
    BY <1>6, <1>11, <1>15 DEF Negotiating
  <2>3. /\ "down" \notin C /\ "finished" \notin C /\ f[e].state # "OPENED"
        /\ s \in Resting => Idle(Rest(e), e)
    BY <1>10, <1>15, <2>2 DEF Resting, Negotiating
  <2>4. s \in {"ACKRCVD", "OPENED"} /\ f[Peer(e)].state \in Acking => ho[Peer(e)] = lcp_addci(o)
    BY <1>8, <1>15, <2>2 DEF Inv, Agreed
  <2> DEFINE codes == <<c>>
  <2>5. /\ Ran(g, s, C, codes) /\ codes \in Seq(Codes)
        /\ OneCode(codes, Asks) /\ NoCode(codes, Asks) /\ OneCode(codes, Answers)
    BY <1>12, <2>2
  <2> HIDE DEF codes
  <2>6. s \in Acking => Acks(e, codes, o, H, R)
    BY <1>5, <1>9, <2>2 DEF Acks, Acking
  <2>7. Reads(e, s, C, codes, o, H, R)
    BY <1>9, <2>2, <2>3, <2>4, <2>5, <2>6 DEF Reads
  <2>8. QED
    BY <1>1, <1>4, <1>5, <2>1, <2>5, <2>7, ReadKeeps
<1>16. QED
  BY <1>1, <1>4, <1>13, <1>14, <1>15 DEF States, Negotiating, Terminating, Deaf

----------------------------------------------------------------------------
(* The theorems.                                                           *)

\* The invariant holds before anything has happened.
LEMMA InitInv == Init => Inv
<1> SUFFICES ASSUME Init PROVE Inv
  OBVIOUS
<1>1. /\ f = [e \in Ends |-> fsm_init({}, 0)] /\ go = Want /\ ho = [e \in Ends |-> None]
      /\ up = {} /\ wire = [e \in Ends |-> << >>] /\ Want \in [Ends -> Options]
      /\ kills = 0
  BY LinkAssumption DEF Init
<1>2. Typed
  <2>1. fsm_init({}, 0) \in FSM
    BY FreshFacts DEF Fresh
  <2>2. None \in Lists /\ << >> \in Seq(Frame)
    BY ListFacts
  <2>3. f \in [Ends -> FSM]
    BY <1>1, <2>1
  <2>4. QED
    BY <1>1, <2>2, <2>3 DEF Typed
<1>3. ASSUME NEW e \in Ends
      PROVE  Lives(e) /\ Exchanges(e) /\ Quiet(e) /\ Agreed(e) /\ Apart(e)
  <2>1. f[e] = fsm_init({}, 0) /\ \A x \in Ends : wire[x] = << >>
    BY <1>1
  <2>2. Fresh(f[e]) /\ f[e].state = "INITIAL" /\ Idle(wire, e)
    BY <2>1, FreshFacts, EmptyIdle
  <2>3. QED
    BY <1>1, <2>2 DEF Lives, Exchanges, Quiet, Agreed, Apart, Acking
<1>4. QED
  BY <1>2, <1>3 DEF Inv

\* Every step keeps it, if callouts are slow and a daemon is not started too soon.
LEMMA NextInv ==
  ASSUME Prompt, Inv, [Next]_vars, [\A e \in Ends : Start(e) => Idle(wire, e)]_vars
  PROVE  Inv'
<1>1. CASE UNCHANGED vars
  <2>1. UNCHANGED <<f, go, ho, up, wire, kills>>
    BY <1>1 DEF vars
  <2>2. QED
    BY <2>1 DEF Inv, Typed, Lives, Exchanges, Quiet, Agreed, Apart, Has, Single, Idle
<1>2. CASE Next /\ \A e \in Ends : Start(e) => Idle(wire, e)
  <2>1. PICK e \in Ends : Start(e) \/ Kill(e) \/ Timeout3s(e) \/ Lose(e) \/ Deliver(e)
    BY <1>2 DEF Next
  <2>2. CASE Start(e)
    BY <1>2, <2>2, StartKeeps
  <2>3. CASE Kill(e)
    BY <2>3, KillKeeps
  <2>4. CASE Timeout3s(e)
    BY <2>4, Timeout3sKeeps
  <2>5. CASE Lose(e) \/ Drop(e)
    BY <2>5, LossKeeps
  <2>6. CASE ReceiveRequest(e)
    BY <2>6, ReceiveRequestKeeps
  <2>7. CASE ReceiveAnswer(e)
    BY <2>7, ReceiveAnswerKeeps
  <2>8. CASE ReceiveOther(e)
    BY <2>8, ReceiveOtherKeeps
  <2>9. QED
    BY <2>1, <2>2, <2>3, <2>4, <2>5, <2>6, <2>7, <2>8 DEF Deliver
<1>3. QED
  BY <1>1, <1>2

\* Two ends that are up under the invariant agree.
LEMMA InvAgreement == Inv => Agreement
<1> SUFFICES ASSUME Inv, up = Ends, NEW e \in Ends PROVE ho[e] = lcp_addci(go[Peer(e)])
  BY DEF Agreement
<1> DEFINE q == Peer(e)
<1>1. q \in Ends /\ Peer(q) = e
  BY PeerFacts
<1>2. f[e].state = "OPENED" /\ f[q].state = "OPENED" /\ Agreed(q)
  BY <1>1 DEF Inv, Lives
<1>3. QED
  BY <1>1, <1>2 DEF Agreed, Acking

\* And the one that acknowledged last has seen that their magic numbers differ.
LEMMA InvMagicDiffers == Inv => MagicDiffers
<1> SUFFICES ASSUME Inv, up = Ends, \A x \in Ends : "magicnumber" \in Asked(go[x]),
                    NEW e \in Ends
             PROVE  go[e].magicnumber # go[Peer(e)].magicnumber
  BY DEF MagicDiffers
<1> DEFINE q == Peer(e)
<1>1. q \in Ends /\ Peer(q) = e
  BY PeerFacts
<1>2. f[e].state = "OPENED" /\ f[q].state = "OPENED" /\ Agreed(e) /\ Agreed(q) /\ Apart(e)
  BY <1>1 DEF Inv, Lives
<1>3. ho[e] = lcp_addci(go[q]) /\ ho[q] = lcp_addci(go[e])
  BY <1>1, <1>2 DEF Agreed, Acking
<1>4. MagicOK(go[e], ho[e]) \/ MagicOK(go[q], ho[q])
  BY <1>2 DEF Apart, Has, Acking
<1>5. \A x \in Ends :
         /\ "magicnumber" \in go[x].neg /\ "magicnumber" \in DOMAIN lcp_addci(go[x])
         /\ lcp_addci(go[x])["magicnumber"] = go[x].magicnumber
  BY DEF Asked, lcp_addci, Value
<1>6. QED
  BY <1>1, <1>3, <1>4, <1>5 DEF MagicOK

(* If no callout expires while a packet is on a line, and a daemon is       *)
(* started again only when nothing of its last life is, then at every       *)
(* moment at most one packet of an exchange is on the lines, a              *)
(* Configure-Ack on its way is about options its sender still grants, and   *)
(* the end that acknowledged last has compared the magic numbers.           *)
THEOREM Invariant ==
  ASSUME Prompt
  PROVE  Spec /\ Settled => []Inv
<1>1. Inv /\ [Next]_vars /\ [\A e \in Ends : Start(e) => Idle(wire, e)]_vars => Inv'
  BY NextInv
<1>2. QED
  BY <1>1, InitInv, PTL DEF Spec, Settled

(* Under the same conditions, when both LCPs are up each end's              *)
(* lcp_hisoptions are what the other's lcp_gotoptions ask for, whatever was *)
(* lost, repeated after a timeout, renegotiated or cut short by a kill.     *)
THEOREM EndsAgree ==
  ASSUME Prompt
  PROVE  Spec /\ Settled => []Agreement
<1>1. QED
  BY InvAgreement, Invariant, PTL

(* And when both ends have negotiated a magic number, lcp_reqci has made    *)
(* sure that the two numbers differ, although each end may have drawn a new *)
(* one after the other had looked.                                          *)
THEOREM MagicsDiffer ==
  ASSUME Prompt
  PROVE  Spec /\ Settled => []MagicDiffers
<1>1. QED
  BY InvMagicDiffers, Invariant, PTL

(* Only a kill leaves packets of a life behind: until the first one, LCP    *)
(* may finish and start again as often as it likes, and the two ends agree  *)
(* and differ in their magic numbers whenever both are up.                  *)
THEOREM UnkilledAgree ==
  ASSUME Prompt
  PROVE  Spec => [](kills = 0 => Agreement /\ MagicDiffers)
<1> DEFINE I == kills \in Nat /\ (kills = 0 => Inv)
<1>1. Init => I
  BY InitInv DEF Inv, Typed, Init
<1>2. I /\ [Next]_vars => I'
  <2> SUFFICES ASSUME I, [Next]_vars PROVE I'
    OBVIOUS
  <2>1. kills' = kills \/ kills' = kills + 1
    BY DEF Next, Start, Kill, Timeout3s, Lose, Deliver, Drop, ReceiveRequest, ReceiveAnswer,
           ReceiveOther, vars
  <2>2. kills' \in Nat /\ (kills' = 0 => kills = 0)
    BY <2>1
  <2>3. ASSUME kills = 0 PROVE Inv'
    <3>1. Inv
      BY <2>3
    <3>2. \A e \in Ends : Start(e) => Idle(wire, e)
      BY <2>3, <3>1 DEF Inv, Quiet, Start
    <3>3. QED
      BY <3>1, <3>2, NextInv
  <2>4. QED
    BY <2>2, <2>3
<1>3. I => (kills = 0 => Agreement /\ MagicDiffers)
  BY InvAgreement, InvMagicDiffers
<1>4. QED
  BY <1>1, <1>2, <1>3, PTL DEF Spec

=============================================================================
