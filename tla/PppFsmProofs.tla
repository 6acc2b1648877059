--------------------------- MODULE PppFsmProofs ---------------------------
(* Theorems about PppFsm, for every id width, retry limit and flag set. *)
EXTENDS PppFsm, TLAPS

----------------------------------------------------------------------------
(* What the building blocks of fsm.c do to the fields of a record.         *)

(* Incrementing an id, as ++f->id does, stays within a u_char. *)
LEMMA NextIdType == ASSUME NEW i \in Ids PROVE NextId(i) \in Ids
  BY FsmAssumption DEF NextId, Ids

(* Starting an operation empties cb and out and changes nothing else of the fsm. *)
LEMMA BeginFacts ==
  ASSUME NEW g \in FSM
  PROVE  /\ Begin(g) \in FSM
         /\ Begin(g).state = g.state /\ Begin(g).timers = g.timers
         /\ Begin(g).retransmits = g.retransmits /\ Begin(g).flags = g.flags
         /\ Begin(g).reqid = g.reqid
         /\ Begin(g).cb = {} /\ Begin(g).out = << >>
<1> DEFINE h == [g EXCEPT !.cb = {}]
<1>1. /\ h \in FSM /\ h.cb = {} /\ h.state = g.state /\ h.timers = g.timers
      /\ h.retransmits = g.retransmits /\ h.flags = g.flags /\ h.reqid = g.reqid
  BY DEF FSM
<1>2. Begin(g) = [h EXCEPT !.out = << >>]
  BY DEF Begin
<1>3. << >> \in Seq(Packet)
  OBVIOUS
<1> HIDE DEF h
<1>4. QED
  BY <1>1, <1>2, <1>3 DEF FSM

(* Two records with the same output have sent the same packet codes. *)
LEMMA SameOut ==
  ASSUME NEW g, NEW h, g.out = h.out
  PROVE  \A k : Sent(g, k) <=> Sent(h, k)
  BY DEF Sent

(* An assignment to f->state changes the state only. *)
LEMMA GotoFacts ==
  ASSUME NEW g \in FSM, NEW s \in States
  PROVE  /\ Goto(g, s) \in FSM
         /\ Goto(g, s).state = s
         /\ Goto(g, s).timers = g.timers
         /\ Goto(g, s).retransmits = g.retransmits
         /\ Goto(g, s).flags = g.flags
         /\ Goto(g, s).nakloops = g.nakloops
         /\ Goto(g, s).cb = g.cb
         /\ \A k : Sent(Goto(g, s), k) <=> Sent(g, k)
<1>1. /\ Goto(g, s) \in FSM
      /\ Goto(g, s).state = s
      /\ Goto(g, s).timers = g.timers
      /\ Goto(g, s).retransmits = g.retransmits
      /\ Goto(g, s).flags = g.flags
      /\ Goto(g, s).nakloops = g.nakloops
      /\ Goto(g, s).cb = g.cb
      /\ Goto(g, s).out = g.out
  BY DEF Goto, FSM
<1>2. QED
  BY <1>1, SameOut

(* A callback is recorded in cb and changes no field of the fsm. *)
LEMMA CallFacts ==
  ASSUME NEW g \in FSM, NEW c \in Callbacks
  PROVE  /\ Call(g, c) \in FSM
         /\ Call(g, c).state = g.state
         /\ Call(g, c).timers = g.timers
         /\ Call(g, c).retransmits = g.retransmits
         /\ Call(g, c).flags = g.flags
         /\ Call(g, c).nakloops = g.nakloops
         /\ Call(g, c).cb = g.cb \cup {c}
         /\ \A k : Sent(Call(g, c), k) <=> Sent(g, k)
<1>1. /\ Call(g, c) \in FSM
      /\ Call(g, c).state = g.state
      /\ Call(g, c).timers = g.timers
      /\ Call(g, c).retransmits = g.retransmits
      /\ Call(g, c).flags = g.flags
      /\ Call(g, c).nakloops = g.nakloops
      /\ Call(g, c).cb = g.cb \cup {c}
      /\ Call(g, c).out = g.out
  BY DEF Call, FSM
<1>2. QED
  BY <1>1, SameOut

(* An assignment to f->retransmits changes that counter only. *)
LEMMA SetRetransmitsFacts ==
  ASSUME NEW g \in FSM, NEW n \in Int
  PROVE  /\ SetRetransmits(g, n) \in FSM
         /\ SetRetransmits(g, n).state = g.state
         /\ SetRetransmits(g, n).timers = g.timers
         /\ SetRetransmits(g, n).retransmits = n
         /\ SetRetransmits(g, n).flags = g.flags
         /\ SetRetransmits(g, n).nakloops = g.nakloops
         /\ SetRetransmits(g, n).cb = g.cb
         /\ \A k : Sent(SetRetransmits(g, n), k) <=> Sent(g, k)
<1>1. /\ SetRetransmits(g, n) \in FSM
      /\ SetRetransmits(g, n).state = g.state
      /\ SetRetransmits(g, n).timers = g.timers
      /\ SetRetransmits(g, n).retransmits = n
      /\ SetRetransmits(g, n).flags = g.flags
      /\ SetRetransmits(g, n).nakloops = g.nakloops
      /\ SetRetransmits(g, n).cb = g.cb
      /\ SetRetransmits(g, n).out = g.out
  BY DEF SetRetransmits, FSM
<1>2. QED
  BY <1>1, SameOut

(* An assignment to f->nakloops changes that counter only. *)
LEMMA SetNakloopsFacts ==
  ASSUME NEW g \in FSM, NEW n \in 0 .. MaxNak
  PROVE  /\ SetNakloops(g, n) \in FSM
         /\ SetNakloops(g, n).state = g.state
         /\ SetNakloops(g, n).timers = g.timers
         /\ SetNakloops(g, n).retransmits = g.retransmits
         /\ SetNakloops(g, n).flags = g.flags
         /\ SetNakloops(g, n).nakloops = n
         /\ SetNakloops(g, n).cb = g.cb
         /\ \A k : Sent(SetNakloops(g, n), k) <=> Sent(g, k)
<1>1. /\ SetNakloops(g, n) \in FSM
      /\ SetNakloops(g, n).state = g.state
      /\ SetNakloops(g, n).timers = g.timers
      /\ SetNakloops(g, n).retransmits = g.retransmits
      /\ SetNakloops(g, n).flags = g.flags
      /\ SetNakloops(g, n).nakloops = n
      /\ SetNakloops(g, n).cb = g.cb
      /\ SetNakloops(g, n).out = g.out
  BY DEF SetNakloops, FSM
<1>2. QED
  BY <1>1, SameOut

(* An assignment to f->reqid changes that id only. *)
LEMMA SetReqidFacts ==
  ASSUME NEW g \in FSM, NEW i \in Ids
  PROVE  /\ SetReqid(g, i) \in FSM
         /\ SetReqid(g, i).state = g.state
         /\ SetReqid(g, i).timers = g.timers
         /\ SetReqid(g, i).retransmits = g.retransmits
         /\ SetReqid(g, i).flags = g.flags
         /\ SetReqid(g, i).nakloops = g.nakloops
         /\ SetReqid(g, i).cb = g.cb
         /\ \A k : Sent(SetReqid(g, i), k) <=> Sent(g, k)
<1>1. /\ SetReqid(g, i) \in FSM
      /\ SetReqid(g, i).state = g.state
      /\ SetReqid(g, i).timers = g.timers
      /\ SetReqid(g, i).retransmits = g.retransmits
      /\ SetReqid(g, i).flags = g.flags
      /\ SetReqid(g, i).nakloops = g.nakloops
      /\ SetReqid(g, i).cb = g.cb
      /\ SetReqid(g, i).out = g.out
  BY DEF SetReqid, FSM
<1>2. QED
  BY <1>1, SameOut

(* ++f->id changes f->id only. *)
LEMMA IncrIdFacts ==
  ASSUME NEW g \in FSM
  PROVE  /\ IncrId(g) \in FSM
         /\ IncrId(g).state = g.state
         /\ IncrId(g).timers = g.timers
         /\ IncrId(g).retransmits = g.retransmits
         /\ IncrId(g).flags = g.flags
         /\ IncrId(g).nakloops = g.nakloops
         /\ IncrId(g).cb = g.cb
         /\ \A k : Sent(IncrId(g), k) <=> Sent(g, k)
<1>0. NextId(g.id) \in Ids
  BY NextIdType DEF FSM
<1>1. /\ IncrId(g) \in FSM
      /\ IncrId(g).state = g.state
      /\ IncrId(g).timers = g.timers
      /\ IncrId(g).retransmits = g.retransmits
      /\ IncrId(g).flags = g.flags
      /\ IncrId(g).nakloops = g.nakloops
      /\ IncrId(g).cb = g.cb
      /\ IncrId(g).out = g.out
  BY <1>0 DEF IncrId, FSM
<1>2. QED
  BY <1>1, SameOut

(* PPP_TIMEOUT adds one callout and changes nothing else. *)
LEMMA TimeoutFacts ==
  ASSUME NEW g \in FSM
  PROVE  /\ Timeout(g) \in FSM
         /\ Timeout(g).state = g.state
         /\ Timeout(g).timers = g.timers + 1
         /\ Timeout(g).retransmits = g.retransmits
         /\ Timeout(g).flags = g.flags
         /\ Timeout(g).nakloops = g.nakloops
         /\ Timeout(g).cb = g.cb
         /\ \A k : Sent(Timeout(g), k) <=> Sent(g, k)
<1>1. /\ Timeout(g) \in FSM
      /\ Timeout(g).state = g.state
      /\ Timeout(g).timers = g.timers + 1
      /\ Timeout(g).retransmits = g.retransmits
      /\ Timeout(g).flags = g.flags
      /\ Timeout(g).nakloops = g.nakloops
      /\ Timeout(g).cb = g.cb
      /\ Timeout(g).out = g.out
  BY DEF Timeout, FSM
<1>2. QED
  BY <1>1, SameOut

(* PPP_UNTIMEOUT takes away one callout if there is one, and nothing else. *)
LEMMA UntimeoutFacts ==
  ASSUME NEW g \in FSM
  PROVE  /\ Untimeout(g) \in FSM
         /\ Untimeout(g).state = g.state
         /\ Untimeout(g).timers = IF g.timers > 0 THEN g.timers - 1 ELSE 0
         /\ Untimeout(g).retransmits = g.retransmits
         /\ Untimeout(g).flags = g.flags
         /\ Untimeout(g).nakloops = g.nakloops
         /\ Untimeout(g).cb = g.cb
         /\ \A k : Sent(Untimeout(g), k) <=> Sent(g, k)
<1>1. /\ Untimeout(g) \in FSM
      /\ Untimeout(g).state = g.state
      /\ Untimeout(g).timers = IF g.timers > 0 THEN g.timers - 1 ELSE 0
      /\ Untimeout(g).retransmits = g.retransmits
      /\ Untimeout(g).flags = g.flags
      /\ Untimeout(g).nakloops = g.nakloops
      /\ Untimeout(g).cb = g.cb
      /\ Untimeout(g).out = g.out
  BY DEF Untimeout, FSM
<1>2. QED
  BY <1>1, SameOut

(* f->reqid = ++f->id leaves state, counters and callouts alone. *)
LEMMA NewReqidFacts ==
  ASSUME NEW g \in FSM
  PROVE  /\ NewReqid(g) \in FSM
         /\ NewReqid(g).state = g.state /\ NewReqid(g).timers = g.timers
         /\ NewReqid(g).retransmits = g.retransmits
         /\ NewReqid(g).cb = g.cb
         /\ \A k : Sent(NewReqid(g), k) <=> Sent(g, k)
<1>1. IncrId(g).id \in Ids
  BY IncrIdFacts DEF FSM
<1>2. QED
  BY <1>1, IncrIdFacts, SetReqidFacts DEF NewReqid

(* fsm_sdata appends one packet to the output and changes nothing else. *)
LEMMA SdataFacts ==
  ASSUME NEW g \in FSM, NEW c \in Codes, NEW i \in Ids
  PROVE  /\ fsm_sdata(g, c, i) \in FSM
         /\ fsm_sdata(g, c, i).state = g.state
         /\ fsm_sdata(g, c, i).timers = g.timers
         /\ fsm_sdata(g, c, i).retransmits = g.retransmits
         /\ fsm_sdata(g, c, i).flags = g.flags
         /\ fsm_sdata(g, c, i).nakloops = g.nakloops
         /\ fsm_sdata(g, c, i).cb = g.cb
         /\ \A k : Sent(fsm_sdata(g, c, i), k) <=> Sent(g, k) \/ k = c
<1> DEFINE p == [code |-> c, id |-> i]
<1>1. p \in Packet /\ p.code = c
  BY DEF Packet
<1>2. g.out \in Seq(Packet)
  BY DEF FSM
<1> HIDE DEF p
<1>3. Append(g.out, p) \in Seq(Packet)
  BY <1>1, <1>2
<1>4. fsm_sdata(g, c, i) = [g EXCEPT !.out = Append(g.out, p)]
  BY DEF fsm_sdata, p
<1>5. /\ fsm_sdata(g, c, i) \in FSM
      /\ fsm_sdata(g, c, i).out = Append(g.out, p)
      /\ fsm_sdata(g, c, i).state = g.state
      /\ fsm_sdata(g, c, i).timers = g.timers
      /\ fsm_sdata(g, c, i).retransmits = g.retransmits
      /\ fsm_sdata(g, c, i).flags = g.flags
      /\ fsm_sdata(g, c, i).nakloops = g.nakloops
      /\ fsm_sdata(g, c, i).cb = g.cb
  BY <1>3, <1>4 DEF FSM
<1>6. ASSUME NEW k
      PROVE  Sent(fsm_sdata(g, c, i), k) <=> Sent(g, k) \/ k = c
  <2> DEFINE o == Append(g.out, p)
  <2>1. /\ Len(o) = Len(g.out) + 1 /\ Len(g.out) \in Nat
        /\ o[Len(g.out) + 1] = p
        /\ \A n \in 1 .. Len(g.out) : o[n] = g.out[n]
    BY <1>1, <1>2
  <2>2. Sent(fsm_sdata(g, c, i), k) <=> \E n \in 1 .. Len(o) : o[n].code = k
    BY <1>5 DEF Sent
  <2> HIDE DEF o
  <2>3. ASSUME NEW n \in 1 .. Len(o), o[n].code = k
        PROVE  (\E m \in 1 .. Len(g.out) : g.out[m].code = k) \/ k = c
    <3>1. CASE n = Len(g.out) + 1
      BY <1>1, <2>1, <2>3, <3>1
    <3>2. CASE n # Len(g.out) + 1
      <4>1. n \in 1 .. Len(g.out)
        BY <2>1, <3>2
      <4>2. QED
        BY <2>1, <2>3, <4>1
    <3>3. QED
      BY <3>1, <3>2
  <2>4. ASSUME NEW m \in 1 .. Len(g.out), g.out[m].code = k
        PROVE  \E n \in 1 .. Len(o) : o[n].code = k
    <3>1. m \in 1 .. Len(o) /\ o[m].code = k
      BY <2>1, <2>4
    <3>2. QED
      BY <3>1
  <2>5. ASSUME k = c PROVE \E n \in 1 .. Len(o) : o[n].code = k
    <3>1. Len(g.out) + 1 \in 1 .. Len(o) /\ o[Len(g.out) + 1].code = k
      BY <1>1, <2>1, <2>5
    <3>2. QED
      BY <3>1
  <2>6. QED
    BY <2>2, <2>3, <2>4, <2>5 DEF Sent
<1>7. QED
  BY <1>5, <1>6

(* Sending a request uses up one transmission and adds one callout. *)
LEMMA SendRequestFacts ==
  ASSUME NEW g \in FSM, NEW c \in Codes
  PROVE  /\ SendRequest(g, c) \in FSM
         /\ SendRequest(g, c).state = g.state
         /\ SendRequest(g, c).timers = g.timers + 1
         /\ SendRequest(g, c).retransmits = g.retransmits - 1
         /\ SendRequest(g, c).cb = g.cb
         /\ \A k : Sent(SendRequest(g, c), k) <=> Sent(g, k) \/ k = c
<1>1. g.reqid \in Ids /\ g.retransmits - 1 \in Int
  BY DEF FSM
<1> DEFINE a == fsm_sdata(g, c, g.reqid)
           b == SetRetransmits(a, g.retransmits - 1)
<1>2. /\ a \in FSM /\ a.state = g.state /\ a.timers = g.timers /\ a.cb = g.cb
      /\ \A k : Sent(a, k) <=> Sent(g, k) \/ k = c
  BY <1>1, SdataFacts
<1>3. SendRequest(g, c) = Timeout(b)
  BY DEF SendRequest
<1> HIDE DEF a
<1>4. /\ b \in FSM /\ b.state = g.state /\ b.timers = g.timers /\ b.cb = g.cb
      /\ b.retransmits = g.retransmits - 1
      /\ \A k : Sent(b, k) <=> Sent(a, k)
  BY <1>1, <1>2, SetRetransmitsFacts
<1> HIDE DEF b
<1>5. QED
  BY <1>2, <1>3, <1>4, TimeoutFacts

(* fsm_sconfreq sends one Configure-Request and leaves the state alone; it refills
   the retry counter unless it is a retransmission. *)
LEMMA SconfreqFacts ==
  ASSUME NEW g \in FSM, NEW r \in BOOLEAN
  PROVE  /\ fsm_sconfreq(g, r) \in FSM
         /\ fsm_sconfreq(g, r).state = g.state
         /\ fsm_sconfreq(g, r).timers = g.timers + 1
         /\ fsm_sconfreq(g, r).retransmits =
               (IF r THEN g.retransmits ELSE MaxConf) - 1
         /\ g.cb \subseteq fsm_sconfreq(g, r).cb
         /\ fsm_sconfreq(g, r).cb \subseteq g.cb \cup {"resetci"}
         /\ \A k : Sent(fsm_sconfreq(g, r), k) <=> Sent(g, k) \/ k = "CONFREQ"
<1> DEFINE a == ResetOptions(g)
           b == IF r THEN a ELSE NewReqid(SetRetransmits(a, MaxConf))
<1>1. /\ a \in FSM /\ a.state = g.state /\ a.timers = g.timers
      /\ a.retransmits = g.retransmits
      /\ g.cb \subseteq a.cb /\ a.cb \subseteq g.cb \cup {"resetci"}
      /\ \A k : Sent(a, k) <=> Sent(g, k)
  <2>1. CASE g.state \in Negotiating
    BY <2>1 DEF ResetOptions
  <2>2. CASE g.state \notin Negotiating
    <3>1. 0 \in 0 .. MaxNak /\ "resetci" \in Callbacks
      BY FsmAssumption DEF Callbacks
    <3>2. QED
      BY <2>2, <3>1, CallFacts, SetNakloopsFacts DEF ResetOptions
  <2>3. QED
    BY <2>1, <2>2
<1> HIDE DEF a
<1>2. /\ b \in FSM /\ b.state = a.state /\ b.timers = a.timers /\ b.cb = a.cb
      /\ b.retransmits = IF r THEN a.retransmits ELSE MaxConf
      /\ \A k : Sent(b, k) <=> Sent(a, k)
  BY <1>1, FsmAssumption, SetRetransmitsFacts, NewReqidFacts
<1>3. fsm_sconfreq(g, r) = SendRequest(b, "CONFREQ") /\ "CONFREQ" \in Codes
  BY DEF fsm_sconfreq, a, Codes
<1> HIDE DEF b
<1>4. QED
  BY <1>1, <1>2, <1>3, SendRequestFacts

(* A new Configure-Request that moves the fsm to REQSENT. *)
LEMMA RenegotiateFacts ==
  ASSUME NEW g \in FSM
  PROVE  /\ Renegotiate(g) \in FSM
         /\ Renegotiate(g).state = "REQSENT"
         /\ Renegotiate(g).timers = g.timers + 1
         /\ Renegotiate(g).retransmits = MaxConf - 1
         /\ g.cb \subseteq Renegotiate(g).cb
         /\ Renegotiate(g).cb \subseteq g.cb \cup {"resetci"}
         /\ \A k : Sent(Renegotiate(g), k) <=> Sent(g, k) \/ k = "CONFREQ"
<1>1. "REQSENT" \in States
  BY DEF States
<1> DEFINE a == fsm_sconfreq(g, FALSE)
<1>2. /\ a \in FSM /\ a.timers = g.timers + 1 /\ a.retransmits = MaxConf - 1
      /\ g.cb \subseteq a.cb /\ a.cb \subseteq g.cb \cup {"resetci"}
      /\ \A k : Sent(a, k) <=> Sent(g, k) \/ k = "CONFREQ"
  BY SconfreqFacts
<1>3. Renegotiate(g) = Goto(a, "REQSENT")
  BY DEF Renegotiate
<1> HIDE DEF a
<1>4. QED
  BY <1>1, <1>2, <1>3, GotoFacts

(* A fresh Terminate-Request: one transmission used up, one more callout. *)
LEMMA TermReqFacts ==
  ASSUME NEW g \in FSM
  PROVE  /\ SendTermReq(g) \in FSM
         /\ SendTermReq(g).state = g.state
         /\ SendTermReq(g).timers = g.timers + 1
         /\ SendTermReq(g).retransmits = g.retransmits - 1
         /\ SendTermReq(g).cb = g.cb
         /\ \A k : Sent(SendTermReq(g), k) <=> Sent(g, k) \/ k = "TERMREQ"
<1>1. "TERMREQ" \in Codes
  BY DEF Codes
<1> DEFINE a == NewReqid(g)
<1>2. /\ a \in FSM /\ a.state = g.state /\ a.timers = g.timers
      /\ a.retransmits = g.retransmits /\ a.cb = g.cb
      /\ \A k : Sent(a, k) <=> Sent(g, k)
  BY NewReqidFacts
<1>3. SendTermReq(g) = SendRequest(a, "TERMREQ")
  BY DEF SendTermReq
<1> HIDE DEF a
<1>4. QED
  BY <1>1, <1>2, <1>3, SendRequestFacts

(* Starting termination refills the counter from maxtermtransmits and sends a
   Terminate-Request. *)
LEMMA StartTerminateFacts ==
  ASSUME NEW g \in FSM
  PROVE  /\ StartTerminate(g) \in FSM
         /\ StartTerminate(g).timers = g.timers + 1
         /\ StartTerminate(g).retransmits = MaxTerm - 1
         /\ StartTerminate(g).cb = g.cb
         /\ \A k : Sent(StartTerminate(g), k) <=> Sent(g, k) \/ k = "TERMREQ"
<1> DEFINE a == SetRetransmits(g, MaxTerm)
<1>1. /\ a \in FSM /\ a.timers = g.timers /\ a.retransmits = MaxTerm
      /\ a.cb = g.cb
      /\ \A k : Sent(a, k) <=> Sent(g, k)
  BY FsmAssumption, SetRetransmitsFacts
<1>2. StartTerminate(g) = SendTermReq(a)
  BY DEF StartTerminate
<1> HIDE DEF a
<1>3. QED
  BY <1>1, <1>2, TermReqFacts

----------------------------------------------------------------------------
(* The inductive invariant.  UpMeansAgreed needs what the two half-way     *)
(* states stand for; BoundedRetries needs the budget that retransmits is.  *)

HalfwayAgreed ==
    /\ f.state = "ACKRCVD" => "mine" \in agreed
    /\ f.state = "ACKSENT" => "his" \in agreed

RetryBudget ==
    /\ f.state \in Negotiating => quiet + f.retransmits <= MaxConf
    /\ f.state \in Terminating => quiet + f.retransmits <= MaxTerm

IInv == /\ TypeOK /\ ActiveHasTimer /\ UpMeansAgreed /\ BoundedRetries
        /\ HalfwayAgreed /\ RetryBudget

(* What an operation left behind, as far as the invariant can tell.        *)
Outcome(h, state, timers, retransmits, cb, codes) ==
    /\ h \in FSM
    /\ h.state = state /\ h.timers = timers /\ h.retransmits = retransmits
    /\ \A c \in {"up", "down"} : c \in h.cb <=> c \in cb
    /\ \A k : Sent(h, k) <=> k \in codes

(* An operation that has done nothing yet updates the outcome so far as its Facts lemma says. *)
LEMMA BeginOutcome ==
  ASSUME NEW g \in FSM
  PROVE  Outcome(Begin(g), g.state, g.timers, g.retransmits, {}, {})
<1>1. \A k : ~ Sent(Begin(g), k)
  BY BeginFacts DEF Sent
<1>2. QED
  BY <1>1, BeginFacts DEF Outcome

(* An assignment to f->state updates the outcome so far as its Facts lemma says. *)
LEMMA GotoOutcome ==
  ASSUME NEW g, NEW s, NEW t, NEW r, NEW cb, NEW codes,
         Outcome(g, s, t, r, cb, codes), NEW z \in States
  PROVE  Outcome(Goto(g, z), z, t, r, cb, codes)
  BY GotoFacts DEF Outcome

(* A callback updates the outcome so far as its Facts lemma says. *)
LEMMA CallOutcome ==
  ASSUME NEW g, NEW s, NEW t, NEW r, NEW cb, NEW codes,
         Outcome(g, s, t, r, cb, codes), NEW c \in Callbacks,
         NEW cb2, cb2 = cb \cup {c}
  PROVE  Outcome(Call(g, c), s, t, r, cb2, codes)
  BY CallFacts DEF Outcome

(* An assignment to f->retransmits updates the outcome so far as its Facts lemma says. *)
LEMMA SetRetransmitsOutcome ==
  ASSUME NEW g, NEW s, NEW t, NEW r, NEW cb, NEW codes,
         Outcome(g, s, t, r, cb, codes), NEW n \in Int
  PROVE  Outcome(SetRetransmits(g, n), s, t, n, cb, codes)
  BY SetRetransmitsFacts DEF Outcome

(* An assignment to f->nakloops updates the outcome so far as its Facts lemma says. *)
LEMMA SetNakloopsOutcome ==
  ASSUME NEW g, NEW s, NEW t, NEW r, NEW cb, NEW codes,
         Outcome(g, s, t, r, cb, codes), NEW n \in 0 .. MaxNak
  PROVE  Outcome(SetNakloops(g, n), s, t, r, cb, codes)
  BY SetNakloopsFacts DEF Outcome

(* An assignment to f->reqid updates the outcome so far as its Facts lemma says. *)
LEMMA SetReqidOutcome ==
  ASSUME NEW g, NEW s, NEW t, NEW r, NEW cb, NEW codes,
         Outcome(g, s, t, r, cb, codes), NEW i \in Ids
  PROVE  Outcome(SetReqid(g, i), s, t, r, cb, codes)
  BY SetReqidFacts DEF Outcome

(* ++f->id updates the outcome so far as its Facts lemma says. *)
LEMMA IncrIdOutcome ==
  ASSUME NEW g, NEW s, NEW t, NEW r, NEW cb, NEW codes,
         Outcome(g, s, t, r, cb, codes)
  PROVE  Outcome(IncrId(g), s, t, r, cb, codes)
  BY IncrIdFacts DEF Outcome

(* PPP_TIMEOUT updates the outcome so far as its Facts lemma says. *)
LEMMA TimeoutOutcome ==
  ASSUME NEW g, NEW s, NEW t, NEW r, NEW cb, NEW codes,
         Outcome(g, s, t, r, cb, codes),
         NEW t2, t2 = t + 1
  PROVE  Outcome(Timeout(g), s, t2, r, cb, codes)
  BY TimeoutFacts DEF Outcome

(* PPP_UNTIMEOUT updates the outcome so far as its Facts lemma says. *)
LEMMA UntimeoutOutcome ==
  ASSUME NEW g, NEW s, NEW t, NEW r, NEW cb, NEW codes,
         Outcome(g, s, t, r, cb, codes),
         NEW t2, t2 = IF t > 0 THEN t - 1 ELSE 0
  PROVE  Outcome(Untimeout(g), s, t2, r, cb, codes)
  BY UntimeoutFacts DEF Outcome

(* fsm_sdata updates the outcome so far as its Facts lemma says. *)
LEMMA SdataOutcome ==
  ASSUME NEW g, NEW s, NEW t, NEW r, NEW cb, NEW codes,
         Outcome(g, s, t, r, cb, codes), NEW c \in Codes, NEW i \in Ids,
         NEW codes2, codes2 = codes \cup {c}
  PROVE  Outcome(fsm_sdata(g, c, i), s, t, r, cb, codes2)
  BY SdataFacts DEF Outcome

NewRequest(g) == fsm_sconfreq(g, FALSE)

(* A new Configure-Request updates the outcome so far as its Facts lemma says. *)
LEMMA NewRequestOutcome ==
  ASSUME NEW g, NEW s, NEW t, NEW r, NEW cb, NEW codes,
         Outcome(g, s, t, r, cb, codes),
         NEW codes2, codes2 = codes \cup {"CONFREQ"},
         NEW t2, t2 = t + 1
  PROVE  Outcome(NewRequest(g), s, t2, MaxConf - 1, cb, codes2)
<1> DEFINE b == fsm_sconfreq(g, FALSE)
<1>1. /\ b \in FSM /\ b.state = g.state /\ b.timers = g.timers + 1
      /\ b.retransmits = MaxConf - 1
      /\ g.cb \subseteq b.cb /\ b.cb \subseteq g.cb \cup {"resetci"}
      /\ \A k : Sent(b, k) <=> Sent(g, k) \/ k = "CONFREQ"
  BY SconfreqFacts DEF Outcome
<1> HIDE DEF b
<1>2. Outcome(b, s, t2, MaxConf - 1, cb, codes2)
  BY <1>1 DEF Outcome
<1>3. QED
  BY <1>2 DEF b, NewRequest

(* A new Configure-Request and REQSENT updates the outcome so far as its Facts lemma says. *)
LEMMA RenegotiateOutcome ==
  ASSUME NEW g, NEW s, NEW t, NEW r, NEW cb, NEW codes,
         Outcome(g, s, t, r, cb, codes),
         NEW codes2, codes2 = codes \cup {"CONFREQ"},
         NEW t2, t2 = t + 1
  PROVE  Outcome(Renegotiate(g), "REQSENT", t2, MaxConf - 1, cb, codes2)
  BY RenegotiateFacts DEF Outcome

(* A Terminate-Request updates the outcome so far as its Facts lemma says. *)
LEMMA TermReqOutcome ==
  ASSUME NEW g, NEW s, NEW t, NEW r, NEW cb, NEW codes,
         Outcome(g, s, t, r, cb, codes),
         NEW codes2, codes2 = codes \cup {"TERMREQ"},
         NEW t2, t2 = t + 1,
         NEW r2, r2 = r - 1
  PROVE  Outcome(SendTermReq(g), s, t2, r2, cb, codes2)
  BY TermReqFacts DEF Outcome

(* The start of termination updates the outcome so far as its Facts lemma says. *)
LEMMA StartTerminateOutcome ==
  ASSUME NEW g, NEW s, NEW t, NEW r, NEW cb, NEW codes,
         Outcome(g, s, t, r, cb, codes), NEW z \in States,
         NEW codes2, codes2 = codes \cup {"TERMREQ"},
         NEW t2, t2 = t + 1
  PROVE  Outcome(Goto(StartTerminate(g), z), z, t2, MaxTerm - 1, cb, codes2)
  BY StartTerminateFacts, GotoFacts DEF Outcome

(* The history after such an outcome, and what the invariant asks of it.   *)
MineAfter(state, cb, codes, acked) ==
    /\ "CONFREQ" \notin codes
    /\ \/ acked
       \/ /\ "mine" \in agreed /\ "down" \notin cb
          /\ "TERMACK" \notin codes /\ state \notin Deaf

HisAfter(state, cb, codes) ==
    \/ "CONFACK" \in codes
    \/ /\ "his" \in agreed /\ "down" \notin cb
       /\ "TERMACK" \notin codes /\ state \notin Deaf
       /\ "CONFNAK" \notin codes /\ "CONFREJ" \notin codes

QuietAfter(codes, timeout) ==
    (IF timeout THEN quiet ELSE 0)
      + (IF "CONFREQ" \in codes \/ "TERMREQ" \in codes THEN 1 ELSE 0)

Keeps(state, timers, retransmits, cb, codes, acked, timeout) ==
    /\ state \in Negotiating \cup Terminating => timers > 0
    /\ retransmits >= 0
    /\ QuietAfter(codes, timeout) <= IF MaxConf > MaxTerm THEN MaxConf ELSE MaxTerm
    /\ state \in Negotiating => QuietAfter(codes, timeout) + retransmits <= MaxConf
    /\ state \in Terminating => QuietAfter(codes, timeout) + retransmits <= MaxTerm
    /\ state = "ACKRCVD" => MineAfter(state, cb, codes, acked)
    /\ state = "ACKSENT" => HisAfter(state, cb, codes)
    /\ \/ "up" \in cb
       \/ "down" \notin cb /\ told = "up"
       => /\ state = "OPENED" /\ MineAfter(state, cb, codes, acked)
          /\ HisAfter(state, cb, codes)

(* The heart of the argument: an operation preserves IInv if its outcome (the state,
   callouts, counter, callbacks and packets it leaves) meets the conditions below. *)
LEMMA Preserved ==
  ASSUME IInv, NEW h, NEW s, NEW t, NEW r, NEW cb, NEW codes,
         NEW acked \in BOOLEAN, NEW timeout \in BOOLEAN,
         Outcome(h, s, t, r, cb, codes), Step(h, acked, timeout),
         Keeps(s, t, r, cb, codes, acked, timeout)
  PROVE  IInv'
<1>1. f' \in FSM /\ f' = h
  BY DEF Outcome, Step
<1>2. /\ f'.state = s /\ f'.timers = t /\ f'.retransmits = r
  BY <1>1 DEF Outcome
<1>3. told' = IF "up" \in cb THEN "up" ELSE IF "down" \in cb THEN "down" ELSE told
  BY DEF Outcome, Step
<1>4. Over(h) <=> "down" \in cb \/ "TERMACK" \in codes \/ s \in Deaf
  BY DEF Outcome, Over
<1>5. "mine" \in agreed' <=> MineAfter(s, cb, codes, acked)
  <2>1. "mine" \in agreed' <=> MineStands(h, acked)
    BY DEF Step
  <2>2. QED
    BY <1>4, <2>1 DEF MineStands, Outcome, MineAfter
<1>6. "his" \in agreed' <=> HisAfter(s, cb, codes)
  <2>1. "his" \in agreed' <=> HisStands(h)
    BY DEF Step
  <2>2. QED
    BY <1>4, <2>1 DEF HisStands, Outcome, HisAfter
<1>7. quiet' = QuietAfter(codes, timeout)
  <2>1. Requests(h) <=> "CONFREQ" \in codes \/ "TERMREQ" \in codes
    BY DEF Outcome, Requests
  <2>2. quiet' = (IF timeout THEN quiet ELSE 0) + (IF Requests(h) THEN 1 ELSE 0)
    BY DEF Step
  <2>3. QED
    BY <2>1, <2>2 DEF QuietAfter
<1>8. TypeOK'
  <2>1. told' \in {"up", "down"}
    BY <1>3 DEF IInv, TypeOK
  <2>2. agreed' \subseteq {"mine", "his"}
    BY DEF Step
  <2>3. quiet' \in Nat
    BY <1>7 DEF IInv, TypeOK, QuietAfter
  <2>4. QED
    BY <1>1, <2>1, <2>2, <2>3 DEF TypeOK
<1>9. ActiveHasTimer'
  BY <1>2 DEF ActiveHasTimer, Keeps
<1>10. BoundedRetries'
  BY <1>2, <1>7 DEF BoundedRetries, Keeps
<1>11. RetryBudget'
  BY <1>2, <1>7 DEF RetryBudget, Keeps
<1>12. HalfwayAgreed'
  BY <1>2, <1>5, <1>6 DEF HalfwayAgreed, Keeps
<1>13. UpMeansAgreed'
  <2>1. SUFFICES ASSUME told' = "up"
                 PROVE  f'.state = "OPENED" /\ agreed' = {"mine", "his"}
    BY DEF UpMeansAgreed
  <2>2. \/ "up" \in cb
        \/ "down" \notin cb /\ told = "up"
    BY <1>3, <2>1
  <2>3. f'.state = "OPENED" /\ "mine" \in agreed' /\ "his" \in agreed'
    BY <1>2, <1>5, <1>6, <2>2 DEF Keeps
  <2>4. QED
    BY <1>8, <2>3 DEF TypeOK
<1>14. QED
  BY <1>8, <1>9, <1>10, <1>11, <1>12, <1>13 DEF IInv

(* The facts of IInv that the cases below compute with.                    *)
LEMMA InvFacts ==
  ASSUME IInv
  PROVE  /\ f \in FSM /\ f.state \in States /\ f.timers \in Nat
         /\ f.retransmits \in Nat /\ f.reqid \in Ids /\ quiet \in Nat
         /\ f.state \in Negotiating \cup Terminating => f.timers > 0
         /\ quiet <= IF MaxConf > MaxTerm THEN MaxConf ELSE MaxTerm
         /\ f.state \in Negotiating => quiet + f.retransmits <= MaxConf
         /\ f.state \in Terminating => quiet + f.retransmits <= MaxTerm
         /\ f.state = "ACKRCVD" => "mine" \in agreed
         /\ f.state = "ACKSENT" => "his" \in agreed
         /\ told = "up" => /\ f.state = "OPENED"
                           /\ "mine" \in agreed /\ "his" \in agreed
         /\ Outcome(Begin(f), f.state, f.timers, f.retransmits, {}, {})
<1>1. f \in FSM /\ quiet \in Nat
  BY DEF IInv, TypeOK
<1>2. f.state \in States /\ f.timers \in Nat /\ f.retransmits \in Int /\ f.reqid \in Ids
  BY <1>1 DEF FSM
<1>3. f.retransmits \in Nat
  BY <1>2 DEF IInv, BoundedRetries
<1>4. Outcome(Begin(f), f.state, f.timers, f.retransmits, {}, {})
  BY <1>1, BeginOutcome
<1>5. QED
  BY <1>1, <1>2, <1>3, <1>4
  DEF IInv, ActiveHasTimer, UpMeansAgreed, BoundedRetries, HalfwayAgreed, RetryBudget

(* fsm_lowerup preserves IInv. *)
LEMMA LowerUpStep ==
  ASSUME IInv, LowerUp PROVE IInv'
<1> DEFINE g == Begin(f)
           h == fsm_lowerup(g)
<1>1. /\ IInv /\ Step(h, FALSE, FALSE)
      /\ f.state \in States /\ f.timers \in Nat
      /\ f.retransmits \in Nat /\ quiet \in Nat
      /\ f.state \in Negotiating \cup Terminating => f.timers > 0
      /\ quiet <= IF MaxConf > MaxTerm THEN MaxConf ELSE MaxTerm
      /\ f.state \in Negotiating => quiet + f.retransmits <= MaxConf
      /\ f.state \in Terminating => quiet + f.retransmits <= MaxTerm
      /\ f.state = "ACKRCVD" => "mine" \in agreed
      /\ f.state = "ACKSENT" => "his" \in agreed
      /\ told = "up" => /\ f.state = "OPENED"
                        /\ "mine" \in agreed /\ "his" \in agreed
      /\ Outcome(g, f.state, f.timers, f.retransmits, {}, {}) /\ g.state = f.state
  BY InvFacts DEF LowerUp, Outcome
<1> HIDE DEF g
<1>2. CASE f.state = "INITIAL"
  <2>1. h = Goto(g, "CLOSED")
    BY <1>1, <1>2 DEF fsm_lowerup
  <2> HIDE DEF h
  <2>2. Outcome(Goto(g, "CLOSED"), "CLOSED", f.timers, f.retransmits, {}, {})
    BY <1>1, GotoOutcome DEF States
  <2>3. Keeps("CLOSED", f.timers, f.retransmits, {}, {}, FALSE, FALSE)
    BY <1>1, <1>2, FsmAssumption
    DEF Keeps, QuietAfter, MineAfter, HisAfter, Negotiating, Terminating, Deaf
  <2>4. QED
    BY <1>1, <2>1, <2>2, <2>3, Preserved
<1>3. CASE f.state = "STARTING" /\ "SILENT" \in g.flags
  <2>1. h = Goto(g, "STOPPED")
    BY <1>1, <1>3 DEF fsm_lowerup
  <2> HIDE DEF h
  <2>2. Outcome(Goto(g, "STOPPED"), "STOPPED", f.timers, f.retransmits, {}, {})
    BY <1>1, GotoOutcome DEF States
  <2>3. Keeps("STOPPED", f.timers, f.retransmits, {}, {}, FALSE, FALSE)
    BY <1>1, <1>3, FsmAssumption
    DEF Keeps, QuietAfter, MineAfter, HisAfter, Negotiating, Terminating, Deaf
  <2>4. QED
    BY <1>1, <2>1, <2>2, <2>3, Preserved
<1>4. CASE f.state = "STARTING" /\ "SILENT" \notin g.flags
  <2>1. h = Renegotiate(g)
    BY <1>1, <1>4 DEF fsm_lowerup
  <2> HIDE DEF h
  <2>2. Outcome(Renegotiate(g), "REQSENT", f.timers + 1, MaxConf - 1, {}, {"CONFREQ"})
    BY <1>1, RenegotiateOutcome
  <2>3. Keeps("REQSENT", f.timers + 1, MaxConf - 1, {}, {"CONFREQ"}, FALSE, FALSE)
    BY <1>1, <1>4, FsmAssumption
    DEF Keeps, QuietAfter, MineAfter, HisAfter, Negotiating, Terminating, Deaf
  <2>4. QED
    BY <1>1, <2>1, <2>2, <2>3, Preserved
<1>5. CASE f.state \notin {"INITIAL", "STARTING"}
  <2>1. h = g
    BY <1>1, <1>5 DEF fsm_lowerup
  <2> HIDE DEF h
  <2>2. Keeps(f.state, f.timers, f.retransmits, {}, {}, FALSE, FALSE)
    BY <1>1, <1>5, FsmAssumption
    DEF Keeps, QuietAfter, MineAfter, HisAfter, Negotiating, Terminating, Deaf
  <2>3. QED
    BY <1>1, <2>1, <1>1, <2>2, Preserved
<1>6. QED
  BY <1>1, <1>2, <1>3, <1>4, <1>5 DEF States

(* fsm_lowerdown preserves IInv. *)
LEMMA LowerDownStep ==
  ASSUME IInv, LowerDown PROVE IInv'
<1> DEFINE g == Begin(f)
           h == fsm_lowerdown(g)
<1>1. /\ IInv /\ Step(h, FALSE, FALSE)
      /\ f.state \in States /\ f.timers \in Nat
      /\ f.retransmits \in Nat /\ quiet \in Nat
      /\ f.state \in Negotiating \cup Terminating => f.timers > 0
      /\ quiet <= IF MaxConf > MaxTerm THEN MaxConf ELSE MaxTerm
      /\ f.state \in Negotiating => quiet + f.retransmits <= MaxConf
      /\ f.state \in Terminating => quiet + f.retransmits <= MaxTerm
      /\ f.state = "ACKRCVD" => "mine" \in agreed
      /\ f.state = "ACKSENT" => "his" \in agreed
      /\ told = "up" => /\ f.state = "OPENED"
                        /\ "mine" \in agreed /\ "his" \in agreed
      /\ Outcome(g, f.state, f.timers, f.retransmits, {}, {}) /\ g.state = f.state
  BY InvFacts DEF LowerDown, Outcome
<1> HIDE DEF g
<1>2. CASE f.state = "CLOSED"
  <2>1. h = Goto(g, "INITIAL")
    BY <1>1, <1>2 DEF fsm_lowerdown, Negotiating
  <2> HIDE DEF h
  <2>2. Outcome(Goto(g, "INITIAL"), "INITIAL", f.timers, f.retransmits, {}, {})
    BY <1>1, GotoOutcome DEF States
  <2>3. Keeps("INITIAL", f.timers, f.retransmits, {}, {}, FALSE, FALSE)
    BY <1>1, <1>2, FsmAssumption
    DEF Keeps, QuietAfter, MineAfter, HisAfter, Negotiating, Terminating, Deaf
  <2>4. QED
    BY <1>1, <2>1, <2>2, <2>3, Preserved
<1>3. CASE f.state = "STOPPED"
  <2>1. h = Call(Goto(g, "STARTING"), "starting")
    BY <1>1, <1>3 DEF fsm_lowerdown, Negotiating
  <2> HIDE DEF h
  <2>2. Outcome(Goto(g, "STARTING"), "STARTING", f.timers, f.retransmits, {}, {})
    BY <1>1, GotoOutcome DEF States
  <2>3. Outcome(Call(Goto(g, "STARTING"), "starting"), "STARTING", f.timers, f.retransmits,
                {"starting"}, {})
    BY <1>1, <2>2, CallOutcome DEF Callbacks
  <2>4. Keeps("STARTING", f.timers, f.retransmits, {"starting"}, {}, FALSE, FALSE)
    BY <1>1, <1>3, FsmAssumption
    DEF Keeps, QuietAfter, MineAfter, HisAfter, Negotiating, Terminating, Deaf
  <2>5. QED
    BY <1>1, <2>1, <2>3, <2>4, Preserved
<1>4. CASE f.state = "CLOSING"
  <2>1. h = Untimeout(Goto(g, "INITIAL"))
    BY <1>1, <1>4 DEF fsm_lowerdown, Negotiating
  <2> HIDE DEF h
  <2>2. Outcome(Goto(g, "INITIAL"), "INITIAL", f.timers, f.retransmits, {}, {})
    BY <1>1, GotoOutcome DEF States
  <2>3. Outcome(Untimeout(Goto(g, "INITIAL")), "INITIAL",
                (IF f.timers > 0 THEN f.timers - 1 ELSE 0), f.retransmits, {}, {})
    BY <1>1, <2>2, UntimeoutOutcome
  <2>4. Keeps("INITIAL", (IF f.timers > 0 THEN f.timers - 1 ELSE 0), f.retransmits, {}, {},
              FALSE, FALSE)
    BY <1>1, <1>4, FsmAssumption
    DEF Keeps, QuietAfter, MineAfter, HisAfter, Negotiating, Terminating, Deaf
  <2>5. QED
    BY <1>1, <2>1, <2>3, <2>4, Preserved
<1>5. CASE f.state \in Negotiating \cup {"STOPPING"}
  <2>1. h = Untimeout(Goto(g, "STARTING"))
    BY <1>1, <1>5 DEF fsm_lowerdown, Negotiating
  <2> HIDE DEF h
  <2>2. Outcome(Goto(g, "STARTING"), "STARTING", f.timers, f.retransmits, {}, {})
    BY <1>1, GotoOutcome DEF States
  <2>3. Outcome(Untimeout(Goto(g, "STARTING")), "STARTING",
                (IF f.timers > 0 THEN f.timers - 1 ELSE 0), f.retransmits, {}, {})
    BY <1>1, <2>2, UntimeoutOutcome
  <2>4. Keeps("STARTING", (IF f.timers > 0 THEN f.timers - 1 ELSE 0), f.retransmits, {}, {},
              FALSE, FALSE)
    BY <1>1, <1>5, FsmAssumption
    DEF Keeps, QuietAfter, MineAfter, HisAfter, Negotiating, Terminating, Deaf
  <2>5. QED
    BY <1>1, <2>1, <2>3, <2>4, Preserved
<1>6. CASE f.state = "OPENED"
  <2>1. h = Goto(Call(g, "down"), "STARTING")
    BY <1>1, <1>6 DEF fsm_lowerdown, Negotiating
  <2> HIDE DEF h
  <2>2. Outcome(Call(g, "down"), f.state, f.timers, f.retransmits, {"down"}, {})
    BY <1>1, CallOutcome DEF Callbacks
  <2>3. Outcome(Goto(Call(g, "down"), "STARTING"), "STARTING", f.timers, f.retransmits,
                {"down"}, {})
    BY <1>1, <2>2, GotoOutcome DEF States
  <2>4. Keeps("STARTING", f.timers, f.retransmits, {"down"}, {}, FALSE, FALSE)
    BY <1>1, <1>6, FsmAssumption
    DEF Keeps, QuietAfter, MineAfter, HisAfter, Negotiating, Terminating, Deaf
  <2>5. QED
    BY <1>1, <2>1, <2>3, <2>4, Preserved
<1>7. CASE f.state \in {"INITIAL", "STARTING"}
  <2>1. h = g
    BY <1>1, <1>7 DEF fsm_lowerdown, Negotiating
  <2> HIDE DEF h
  <2>2. Keeps(f.state, f.timers, f.retransmits, {}, {}, FALSE, FALSE)
    BY <1>1, <1>7, FsmAssumption
    DEF Keeps, QuietAfter, MineAfter, HisAfter, Negotiating, Terminating, Deaf
  <2>3. QED
    BY <1>1, <2>1, <1>1, <2>2, Preserved
<1>8. QED
  BY <1>1, <1>2, <1>3, <1>4, <1>5, <1>6, <1>7 DEF States, Negotiating

(* fsm_close preserves IInv. *)
LEMMA CloseStep ==
  ASSUME IInv, Close PROVE IInv'
<1> DEFINE g == Begin(f)
           h == fsm_close(g)
<1>1. /\ IInv /\ Step(h, FALSE, FALSE)
      /\ f.state \in States /\ f.timers \in Nat
      /\ f.retransmits \in Nat /\ quiet \in Nat
      /\ f.state \in Negotiating \cup Terminating => f.timers > 0
      /\ quiet <= IF MaxConf > MaxTerm THEN MaxConf ELSE MaxTerm
      /\ f.state \in Negotiating => quiet + f.retransmits <= MaxConf
      /\ f.state \in Terminating => quiet + f.retransmits <= MaxTerm
      /\ f.state = "ACKRCVD" => "mine" \in agreed
      /\ f.state = "ACKSENT" => "his" \in agreed
      /\ told = "up" => /\ f.state = "OPENED"
                        /\ "mine" \in agreed /\ "his" \in agreed
      /\ Outcome(g, f.state, f.timers, f.retransmits, {}, {}) /\ g.state = f.state
  BY InvFacts DEF Close, Outcome
<1> HIDE DEF g
<1>2. CASE f.state = "STARTING"
  <2>1. h = Goto(g, "INITIAL")
    BY <1>1, <1>2 DEF fsm_close, Negotiating
  <2> HIDE DEF h
  <2>2. Outcome(Goto(g, "INITIAL"), "INITIAL", f.timers, f.retransmits, {}, {})
    BY <1>1, GotoOutcome DEF States
  <2>3. Keeps("INITIAL", f.timers, f.retransmits, {}, {}, FALSE, FALSE)
    BY <1>1, <1>2, FsmAssumption
    DEF Keeps, QuietAfter, MineAfter, HisAfter, Negotiating, Terminating, Deaf
  <2>4. QED
    BY <1>1, <2>1, <2>2, <2>3, Preserved
<1>3. CASE f.state = "STOPPED"
  <2>1. h = Goto(g, "CLOSED")
    BY <1>1, <1>3 DEF fsm_close, Negotiating
  <2> HIDE DEF h
  <2>2. Outcome(Goto(g, "CLOSED"), "CLOSED", f.timers, f.retransmits, {}, {})
    BY <1>1, GotoOutcome DEF States
  <2>3. Keeps("CLOSED", f.timers, f.retransmits, {}, {}, FALSE, FALSE)
    BY <1>1, <1>3, FsmAssumption
    DEF Keeps, QuietAfter, MineAfter, HisAfter, Negotiating, Terminating, Deaf
  <2>4. QED
    BY <1>1, <2>1, <2>2, <2>3, Preserved
<1>4. CASE f.state = "STOPPING"
  <2>1. h = Goto(g, "CLOSING")
    BY <1>1, <1>4 DEF fsm_close, Negotiating
  <2> HIDE DEF h
  <2>2. Outcome(Goto(g, "CLOSING"), "CLOSING", f.timers, f.retransmits, {}, {})
    BY <1>1, GotoOutcome DEF States
  <2>3. Keeps("CLOSING", f.timers, f.retransmits, {}, {}, FALSE, FALSE)
    BY <1>1, <1>4, FsmAssumption
    DEF Keeps, QuietAfter, MineAfter, HisAfter, Negotiating, Terminating, Deaf
  <2>4. QED
    BY <1>1, <2>1, <2>2, <2>3, Preserved
<1>5. CASE f.state \in Negotiating
  <2>1. h = Goto(StartTerminate(Untimeout(g)), "CLOSING")
    BY <1>1, <1>5 DEF fsm_close, Negotiating
  <2> HIDE DEF h
  <2>2. Outcome(Untimeout(g), f.state, (IF f.timers > 0 THEN f.timers - 1 ELSE 0),
                f.retransmits, {}, {})
    BY <1>1, UntimeoutOutcome
  <2>3. Outcome(Goto(StartTerminate(Untimeout(g)), "CLOSING"), "CLOSING",
                (IF f.timers > 0 THEN f.timers - 1 ELSE 0) + 1, MaxTerm - 1, {},
                {"TERMREQ"})
    BY <1>1, <2>2, StartTerminateOutcome DEF States
  <2>4. Keeps("CLOSING", (IF f.timers > 0 THEN f.timers - 1 ELSE 0) + 1, MaxTerm - 1, {},
              {"TERMREQ"}, FALSE, FALSE)
    BY <1>1, <1>5, FsmAssumption
    DEF Keeps, QuietAfter, MineAfter, HisAfter, Negotiating, Terminating, Deaf
  <2>5. QED
    BY <1>1, <2>1, <2>3, <2>4, Preserved
<1>6. CASE f.state = "OPENED"
  <2>1. h = Goto(StartTerminate(Call(g, "down")), "CLOSING")
    BY <1>1, <1>6 DEF fsm_close, Negotiating
  <2> HIDE DEF h
  <2>2. Outcome(Call(g, "down"), f.state, f.timers, f.retransmits, {"down"}, {})
    BY <1>1, CallOutcome DEF Callbacks
  <2>3. Outcome(Goto(StartTerminate(Call(g, "down")), "CLOSING"), "CLOSING", f.timers + 1,
                MaxTerm - 1, {"down"}, {"TERMREQ"})
    BY <1>1, <2>2, StartTerminateOutcome DEF States
  <2>4. Keeps("CLOSING", f.timers + 1, MaxTerm - 1, {"down"}, {"TERMREQ"}, FALSE, FALSE)
    BY <1>1, <1>6, FsmAssumption
    DEF Keeps, QuietAfter, MineAfter, HisAfter, Negotiating, Terminating, Deaf
  <2>5. QED
    BY <1>1, <2>1, <2>3, <2>4, Preserved
<1>7. CASE f.state \in {"INITIAL", "CLOSED", "CLOSING"}
  <2>1. h = g
    BY <1>1, <1>7 DEF fsm_close, Negotiating
  <2> HIDE DEF h
  <2>2. Keeps(f.state, f.timers, f.retransmits, {}, {}, FALSE, FALSE)
    BY <1>1, <1>7, FsmAssumption
    DEF Keeps, QuietAfter, MineAfter, HisAfter, Negotiating, Terminating, Deaf
  <2>3. QED
    BY <1>1, <2>1, <1>1, <2>2, Preserved
<1>8. QED
  BY <1>1, <1>2, <1>3, <1>4, <1>5, <1>6, <1>7 DEF States, Negotiating

(* fsm_protreject preserves IInv. *)
LEMMA ProtRejectStep ==
  ASSUME IInv, ProtReject PROVE IInv'
<1> DEFINE g == Begin(f)
           h == fsm_protreject(g)
<1>1. /\ IInv /\ Step(h, FALSE, FALSE)
      /\ f.state \in States /\ f.timers \in Nat
      /\ f.retransmits \in Nat /\ quiet \in Nat
      /\ f.state \in Negotiating \cup Terminating => f.timers > 0
      /\ quiet <= IF MaxConf > MaxTerm THEN MaxConf ELSE MaxTerm
      /\ f.state \in Negotiating => quiet + f.retransmits <= MaxConf
      /\ f.state \in Terminating => quiet + f.retransmits <= MaxTerm
      /\ f.state = "ACKRCVD" => "mine" \in agreed
      /\ f.state = "ACKSENT" => "his" \in agreed
      /\ told = "up" => /\ f.state = "OPENED"
                        /\ "mine" \in agreed /\ "his" \in agreed
      /\ Outcome(g, f.state, f.timers, f.retransmits, {}, {}) /\ g.state = f.state
  BY InvFacts DEF ProtReject, Outcome
<1> HIDE DEF g
<1>2. CASE f.state = "CLOSING"
  <2>1. h = Call(Goto(Untimeout(g), "CLOSED"), "finished")
    BY <1>1, <1>2 DEF fsm_protreject, Negotiating
  <2> HIDE DEF h
  <2>2. Outcome(Untimeout(g), f.state, (IF f.timers > 0 THEN f.timers - 1 ELSE 0),
                f.retransmits, {}, {})
    BY <1>1, UntimeoutOutcome
  <2>3. Outcome(Goto(Untimeout(g), "CLOSED"), "CLOSED",
                (IF f.timers > 0 THEN f.timers - 1 ELSE 0), f.retransmits, {}, {})
    BY <1>1, <2>2, GotoOutcome DEF States
  <2>4. Outcome(Call(Goto(Untimeout(g), "CLOSED"), "finished"), "CLOSED",
                (IF f.timers > 0 THEN f.timers - 1 ELSE 0), f.retransmits, {"finished"}, {})
    BY <1>1, <2>3, CallOutcome DEF Callbacks
  <2>5. Keeps("CLOSED", (IF f.timers > 0 THEN f.timers - 1 ELSE 0), f.retransmits,
              {"finished"}, {}, FALSE, FALSE)
    BY <1>1, <1>2, FsmAssumption
    DEF Keeps, QuietAfter, MineAfter, HisAfter, Negotiating, Terminating, Deaf
  <2>6. QED
    BY <1>1, <2>1, <2>4, <2>5, Preserved
<1>3. CASE f.state = "CLOSED"
  <2>1. h = Call(g, "finished")
    BY <1>1, <1>3 DEF fsm_protreject, Negotiating
  <2> HIDE DEF h
  <2>2. Outcome(Call(g, "finished"), f.state, f.timers, f.retransmits, {"finished"}, {})
    BY <1>1, CallOutcome DEF Callbacks
  <2>3. Keeps(f.state, f.timers, f.retransmits, {"finished"}, {}, FALSE, FALSE)
    BY <1>1, <1>3, FsmAssumption
    DEF Keeps, QuietAfter, MineAfter, HisAfter, Negotiating, Terminating, Deaf
  <2>4. QED
    BY <1>1, <2>1, <2>2, <2>3, Preserved
<1>4. CASE f.state \in Negotiating \cup {"STOPPING"}
  <2>1. h = Call(Goto(Untimeout(g), "STOPPED"), "finished")
    BY <1>1, <1>4 DEF fsm_protreject, Negotiating
  <2> HIDE DEF h
  <2>2. Outcome(Untimeout(g), f.state, (IF f.timers > 0 THEN f.timers - 1 ELSE 0),
                f.retransmits, {}, {})
    BY <1>1, UntimeoutOutcome
  <2>3. Outcome(Goto(Untimeout(g), "STOPPED"), "STOPPED",
                (IF f.timers > 0 THEN f.timers - 1 ELSE 0), f.retransmits, {}, {})
    BY <1>1, <2>2, GotoOutcome DEF States
  <2>4. Outcome(Call(Goto(Untimeout(g), "STOPPED"), "finished"), "STOPPED",
                (IF f.timers > 0 THEN f.timers - 1 ELSE 0), f.retransmits, {"finished"}, {})
    BY <1>1, <2>3, CallOutcome DEF Callbacks
  <2>5. Keeps("STOPPED", (IF f.timers > 0 THEN f.timers - 1 ELSE 0), f.retransmits,
              {"finished"}, {}, FALSE, FALSE)
    BY <1>1, <1>4, FsmAssumption
    DEF Keeps, QuietAfter, MineAfter, HisAfter, Negotiating, Terminating, Deaf
  <2>6. QED
    BY <1>1, <2>1, <2>4, <2>5, Preserved
<1>5. CASE f.state = "STOPPED"
  <2>1. h = Call(g, "finished")
    BY <1>1, <1>5 DEF fsm_protreject, Negotiating
  <2> HIDE DEF h
  <2>2. Outcome(Call(g, "finished"), f.state, f.timers, f.retransmits, {"finished"}, {})
    BY <1>1, CallOutcome DEF Callbacks
  <2>3. Keeps(f.state, f.timers, f.retransmits, {"finished"}, {}, FALSE, FALSE)
    BY <1>1, <1>5, FsmAssumption
    DEF Keeps, QuietAfter, MineAfter, HisAfter, Negotiating, Terminating, Deaf
  <2>4. QED
    BY <1>1, <2>1, <2>2, <2>3, Preserved
<1>6. CASE f.state = "OPENED"
  <2>1. h = Goto(StartTerminate(Call(g, "down")), "STOPPING")
    BY <1>1, <1>6 DEF fsm_protreject, Negotiating
  <2> HIDE DEF h
  <2>2. Outcome(Call(g, "down"), f.state, f.timers, f.retransmits, {"down"}, {})
    BY <1>1, CallOutcome DEF Callbacks
  <2>3. Outcome(Goto(StartTerminate(Call(g, "down")), "STOPPING"), "STOPPING", f.timers + 1,
                MaxTerm - 1, {"down"}, {"TERMREQ"})
    BY <1>1, <2>2, StartTerminateOutcome DEF States
  <2>4. Keeps("STOPPING", f.timers + 1, MaxTerm - 1, {"down"}, {"TERMREQ"}, FALSE, FALSE)
    BY <1>1, <1>6, FsmAssumption
    DEF Keeps, QuietAfter, MineAfter, HisAfter, Negotiating, Terminating, Deaf
  <2>5. QED
    BY <1>1, <2>1, <2>3, <2>4, Preserved
<1>7. CASE f.state \in {"INITIAL", "STARTING"}
  <2>1. h = g
    BY <1>1, <1>7 DEF fsm_protreject, Negotiating
  <2> HIDE DEF h
  <2>2. Keeps(f.state, f.timers, f.retransmits, {}, {}, FALSE, FALSE)
    BY <1>1, <1>7, FsmAssumption
    DEF Keeps, QuietAfter, MineAfter, HisAfter, Negotiating, Terminating, Deaf
  <2>3. QED
    BY <1>1, <2>1, <1>1, <2>2, Preserved
<1>8. QED
  BY <1>1, <1>2, <1>3, <1>4, <1>5, <1>6, <1>7 DEF States, Negotiating

(* What fsm_lowerdown leaves behind in OPENED, STOPPED and STOPPING, the states in
   which fsm_open restarts. *)
LEMMA LowerDownOutcome ==
  ASSUME NEW g, NEW s \in {"STOPPED", "STOPPING", "OPENED"}, NEW t \in Nat, NEW r,
         Outcome(g, s, t, r, {}, {})
  PROVE  \E t2 \in Nat, cb \in {{}, {"down"}, {"starting"}} :
            /\ s = "OPENED" => cb = {"down"}
            /\ Outcome(fsm_lowerdown(g), "STARTING", t2, r, cb, {})
<1>1. g.state = s
  BY DEF Outcome
<1>2. CASE s = "STOPPED"
  <2>1. fsm_lowerdown(g) = Call(Goto(g, "STARTING"), "starting")
    BY <1>1, <1>2 DEF fsm_lowerdown, Negotiating
  <2>2. Outcome(Goto(g, "STARTING"), "STARTING", t, r, {}, {})
    BY GotoOutcome DEF States
  <2>3. Outcome(Call(Goto(g, "STARTING"), "starting"), "STARTING", t, r, {"starting"}, {})
    BY <2>2, CallOutcome DEF Callbacks
  <2>4. QED
    BY <1>2, <2>1, <2>3
<1>3. CASE s = "STOPPING"
  <2>1. fsm_lowerdown(g) = Untimeout(Goto(g, "STARTING"))
    BY <1>1, <1>3 DEF fsm_lowerdown, Negotiating
  <2>2. Outcome(Goto(g, "STARTING"), "STARTING", t, r, {}, {})
    BY GotoOutcome DEF States
  <2>3. Outcome(Untimeout(Goto(g, "STARTING")), "STARTING",
                (IF t > 0 THEN t - 1 ELSE 0), r, {}, {})
    BY <2>2, UntimeoutOutcome
  <2>4. (IF t > 0 THEN t - 1 ELSE 0) \in Nat
    OBVIOUS
  <2>5. QED
    BY <1>3, <2>1, <2>3, <2>4
<1>4. CASE s = "OPENED"
  <2>1. fsm_lowerdown(g) = Goto(Call(g, "down"), "STARTING")
    BY <1>1, <1>4 DEF fsm_lowerdown, Negotiating
  <2>2. Outcome(Call(g, "down"), s, t, r, {"down"}, {})
    BY CallOutcome DEF Callbacks
  <2>3. Outcome(Goto(Call(g, "down"), "STARTING"), "STARTING", t, r, {"down"}, {})
    BY <2>2, GotoOutcome DEF States
  <2>4. QED
    BY <1>4, <2>1, <2>3
<1>5. QED
  BY <1>2, <1>3, <1>4

(* What the down and up of OPT_RESTART leave behind. *)
LEMMA RestartOutcome ==
  ASSUME NEW g, NEW s \in {"STOPPED", "STOPPING", "OPENED"}, NEW t \in Nat, NEW r,
         Outcome(g, s, t, r, {}, {}), "RESTART" \in g.flags
  PROVE  \E t2 \in Nat, cb \in {{}, {"down"}, {"starting"}} :
            /\ s = "OPENED" => cb = {"down"}
            /\ \/ Outcome(Restart(g), "STOPPED", t2, r, cb, {})
               \/ Outcome(Restart(g), "REQSENT", t2 + 1, MaxConf - 1, cb, {"CONFREQ"})
<1> DEFINE a == fsm_lowerdown(g)
<1>1. PICK t2 \in Nat, cb \in {{}, {"down"}, {"starting"}} :
            /\ s = "OPENED" => cb = {"down"}
            /\ Outcome(a, "STARTING", t2, r, cb, {})
  BY LowerDownOutcome
<1>2. Restart(g) = fsm_lowerup(a)
  BY DEF Restart
<1> HIDE DEF a
<1>3. a.state = "STARTING"
  BY <1>1 DEF Outcome
<1>4. CASE "SILENT" \in a.flags
  <2>1. Restart(g) = Goto(a, "STOPPED")
    BY <1>2, <1>3, <1>4 DEF fsm_lowerup
  <2>2. Outcome(Goto(a, "STOPPED"), "STOPPED", t2, r, cb, {})
    BY <1>1, GotoOutcome DEF States
  <2>3. QED
    BY <1>1, <2>1, <2>2
<1>5. CASE "SILENT" \notin a.flags
  <2>1. Restart(g) = Renegotiate(a)
    BY <1>2, <1>3, <1>5 DEF fsm_lowerup
  <2>2. Outcome(Renegotiate(a), "REQSENT", t2 + 1, MaxConf - 1, cb, {"CONFREQ"})
    BY <1>1, RenegotiateOutcome
  <2>3. QED
    BY <1>1, <2>1, <2>2
<1>6. QED
  BY <1>4, <1>5

(* fsm_open preserves IInv. *)
LEMMA OpenStep ==
  ASSUME IInv, Open PROVE IInv'
<1> DEFINE g == Begin(f)
           h == fsm_open(g)
<1>1. /\ IInv /\ Step(h, FALSE, FALSE)
      /\ f.state \in States /\ f.timers \in Nat
      /\ f.retransmits \in Nat /\ quiet \in Nat
      /\ f.state \in Negotiating \cup Terminating => f.timers > 0
      /\ quiet <= IF MaxConf > MaxTerm THEN MaxConf ELSE MaxTerm
      /\ f.state \in Negotiating => quiet + f.retransmits <= MaxConf
      /\ f.state \in Terminating => quiet + f.retransmits <= MaxTerm
      /\ f.state = "ACKRCVD" => "mine" \in agreed
      /\ f.state = "ACKSENT" => "his" \in agreed
      /\ told = "up" => /\ f.state = "OPENED"
                        /\ "mine" \in agreed /\ "his" \in agreed
      /\ Outcome(g, f.state, f.timers, f.retransmits, {}, {}) /\ g.state = f.state
  BY InvFacts DEF Open, Outcome
<1> HIDE DEF g
<1>2. CASE f.state = "INITIAL"
  <2>1. h = Call(Goto(g, "STARTING"), "starting")
    BY <1>1, <1>2 DEF fsm_open
  <2> HIDE DEF h
  <2>2. Outcome(Goto(g, "STARTING"), "STARTING", f.timers, f.retransmits, {}, {})
    BY <1>1, GotoOutcome DEF States
  <2>3. Outcome(Call(Goto(g, "STARTING"), "starting"), "STARTING", f.timers, f.retransmits,
                {"starting"}, {})
    BY <1>1, <2>2, CallOutcome DEF Callbacks
  <2>4. Keeps("STARTING", f.timers, f.retransmits, {"starting"}, {}, FALSE, FALSE)
    BY <1>1, <1>2, FsmAssumption
    DEF Keeps, QuietAfter, MineAfter, HisAfter, Negotiating, Terminating, Deaf
  <2>5. QED
    BY <1>1, <2>1, <2>3, <2>4, Preserved
<1>3. CASE f.state = "CLOSED" /\ "SILENT" \in g.flags
  <2>1. h = Goto(g, "STOPPED")
    BY <1>1, <1>3 DEF fsm_open
  <2> HIDE DEF h
  <2>2. Outcome(Goto(g, "STOPPED"), "STOPPED", f.timers, f.retransmits, {}, {})
    BY <1>1, GotoOutcome DEF States
  <2>3. Keeps("STOPPED", f.timers, f.retransmits, {}, {}, FALSE, FALSE)
    BY <1>1, <1>3, FsmAssumption
    DEF Keeps, QuietAfter, MineAfter, HisAfter, Negotiating, Terminating, Deaf
  <2>4. QED
    BY <1>1, <2>1, <2>2, <2>3, Preserved
<1>4. CASE f.state = "CLOSED" /\ "SILENT" \notin g.flags
  <2>1. h = Renegotiate(g)
    BY <1>1, <1>4 DEF fsm_open
  <2> HIDE DEF h
  <2>2. Outcome(Renegotiate(g), "REQSENT", f.timers + 1, MaxConf - 1, {}, {"CONFREQ"})
    BY <1>1, RenegotiateOutcome
  <2>3. Keeps("REQSENT", f.timers + 1, MaxConf - 1, {}, {"CONFREQ"}, FALSE, FALSE)
    BY <1>1, <1>4, FsmAssumption
    DEF Keeps, QuietAfter, MineAfter, HisAfter, Negotiating, Terminating, Deaf
  <2>4. QED
    BY <1>1, <2>1, <2>2, <2>3, Preserved
<1>5. CASE f.state \in {"STARTING", "STOPPING"} \cup Negotiating
  <2>1. h = g
    BY <1>1, <1>5 DEF fsm_open, Negotiating
  <2> HIDE DEF h
  <2>2. Keeps(f.state, f.timers, f.retransmits, {}, {}, FALSE, FALSE)
    BY <1>1, <1>5, FsmAssumption
    DEF Keeps, QuietAfter, MineAfter, HisAfter, Negotiating, Terminating, Deaf
  <2>3. QED
    BY <1>1, <2>1, <1>1, <2>2, Preserved
<1>6. CASE f.state \in {"CLOSING", "STOPPED", "OPENED"}
  <2> DEFINE a == IF f.state = "CLOSING" THEN Goto(g, "STOPPING") ELSE g
             s == IF f.state = "CLOSING" THEN "STOPPING" ELSE f.state
  <2>1. h = Restart(a)
    BY <1>1, <1>6 DEF fsm_open
  <2>2. Outcome(a, s, f.timers, f.retransmits, {}, {})
    BY <1>1, <1>6, GotoOutcome DEF States
  <2> HIDE DEF h, a
  <2>3. CASE "RESTART" \notin a.flags
    <3>1. Outcome(h, s, f.timers, f.retransmits, {}, {})
      BY <2>1, <2>2, <2>3 DEF Restart
    <3>2. Keeps(s, f.timers, f.retransmits, {}, {}, FALSE, FALSE)
      BY <1>1, <1>6, FsmAssumption
      DEF Keeps, QuietAfter, MineAfter, HisAfter, Negotiating, Terminating, Deaf
    <3>3. QED
      BY <1>1, <3>1, <3>2, Preserved
  <2>4. CASE "RESTART" \in a.flags
    <3>1. s \in {"STOPPED", "STOPPING", "OPENED"} /\ (s = "OPENED" <=> f.state = "OPENED")
      BY <1>6
    <3> HIDE DEF s
    <3>2. PICK t2 \in Nat, cb \in {{}, {"down"}, {"starting"}} :
             /\ s = "OPENED" => cb = {"down"}
             /\ \/ Outcome(Restart(a), "STOPPED", t2, f.retransmits, cb, {})
                \/ Outcome(Restart(a), "REQSENT", t2 + 1, MaxConf - 1, cb, {"CONFREQ"})
      BY <1>1, <2>2, <2>4, <3>1, RestartOutcome
    <3>3. /\ Keeps("STOPPED", t2, f.retransmits, cb, {}, FALSE, FALSE)
          /\ Keeps("REQSENT", t2 + 1, MaxConf - 1, cb, {"CONFREQ"}, FALSE, FALSE)
      <4>1. /\ f.state = "OPENED" => cb = {"down"}
            /\ cb \in {{}, {"down"}, {"starting"}} /\ t2 \in Nat
        BY <3>1, <3>2
      <4>2. Keeps("STOPPED", t2, f.retransmits, cb, {}, FALSE, FALSE)
        BY <1>1, <1>6, <4>1, FsmAssumption
        DEF Keeps, QuietAfter, MineAfter, HisAfter, Negotiating, Terminating, Deaf
      <4>3. Keeps("REQSENT", t2 + 1, MaxConf - 1, cb, {"CONFREQ"}, FALSE, FALSE)
        BY <1>1, <1>6, <4>1, FsmAssumption
        DEF Keeps, QuietAfter, MineAfter, HisAfter, Negotiating, Terminating, Deaf
      <4>4. QED
        BY <4>2, <4>3
    <3>4. QED
      BY <1>1, <2>1, <3>2, <3>3, Preserved
  <2>5. QED
    BY <2>3, <2>4
<1>7. QED
  BY <1>1, <1>2, <1>3, <1>4, <1>5, <1>6 DEF States, Negotiating

(* fsm_timeout, run from its callout, preserves IInv. *)
LEMMA ExpiryStep ==
  ASSUME IInv, Expiry PROVE IInv'
<1> DEFINE t == f.timers - 1
           g == Untimeout(Begin(f))
           h == fsm_timeout(g)
<1>1. /\ IInv /\ Step(h, FALSE, TRUE)
      /\ f.state \in States /\ t \in Nat
      /\ f.retransmits \in Nat /\ quiet \in Nat
      /\ quiet <= IF MaxConf > MaxTerm THEN MaxConf ELSE MaxTerm
      /\ f.state \in Negotiating => quiet + f.retransmits <= MaxConf
      /\ f.state \in Terminating => quiet + f.retransmits <= MaxTerm
      /\ f.state = "ACKRCVD" => "mine" \in agreed
      /\ f.state = "ACKSENT" => "his" \in agreed
      /\ told = "up" => /\ f.state = "OPENED"
                        /\ "mine" \in agreed /\ "his" \in agreed
      /\ Outcome(g, f.state, t, f.retransmits, {}, {})
      /\ g.state = f.state /\ g.retransmits = f.retransmits
  <2>1. Outcome(g, f.state, (IF f.timers > 0 THEN f.timers - 1 ELSE 0), f.retransmits,
                {}, {})
    BY InvFacts, UntimeoutOutcome
  <2>2. Outcome(g, f.state, t, f.retransmits, {}, {})
    BY <2>1, InvFacts DEF Expiry
  <2>3. g.state = f.state /\ g.retransmits = f.retransmits
    BY <2>1 DEF Outcome
  <2>4. t \in Nat
    BY InvFacts DEF Expiry
  <2>5. Step(h, FALSE, TRUE)
    BY DEF Expiry, Expire
  <2> HIDE DEF t, h, g
  <2>6. QED
    BY <2>2, <2>3, <2>4, <2>5, InvFacts
<1> HIDE DEF g, t
<1>2. CASE f.state = "CLOSING" /\ f.retransmits <= 0
  <2>1. h = Call(Goto(g, "CLOSED"), "finished")
    BY <1>1, <1>2 DEF fsm_timeout, Negotiating, Terminating
  <2> HIDE DEF h
  <2>2. Outcome(Goto(g, "CLOSED"), "CLOSED", t, f.retransmits, {}, {})
    BY <1>1, GotoOutcome DEF States
  <2>3. Outcome(Call(Goto(g, "CLOSED"), "finished"), "CLOSED", t, f.retransmits,
                {"finished"}, {})
    BY <1>1, <2>2, CallOutcome DEF Callbacks
  <2>4. Keeps("CLOSED", t, f.retransmits, {"finished"}, {}, FALSE, TRUE)
    BY <1>1, <1>2, FsmAssumption
    DEF Keeps, QuietAfter, MineAfter, HisAfter, Negotiating, Terminating, Deaf
  <2>5. QED
    BY <1>1, <2>1, <2>3, <2>4, Preserved
<1>3. CASE f.state = "STOPPING" /\ f.retransmits <= 0
  <2>1. h = Call(Goto(g, "STOPPED"), "finished")
    BY <1>1, <1>3 DEF fsm_timeout, Negotiating, Terminating
  <2> HIDE DEF h
  <2>2. Outcome(Goto(g, "STOPPED"), "STOPPED", t, f.retransmits, {}, {})
    BY <1>1, GotoOutcome DEF States
  <2>3. Outcome(Call(Goto(g, "STOPPED"), "finished"), "STOPPED", t, f.retransmits,
                {"finished"}, {})
    BY <1>1, <2>2, CallOutcome DEF Callbacks
  <2>4. Keeps("STOPPED", t, f.retransmits, {"finished"}, {}, FALSE, TRUE)
    BY <1>1, <1>3, FsmAssumption
    DEF Keeps, QuietAfter, MineAfter, HisAfter, Negotiating, Terminating, Deaf
  <2>5. QED
    BY <1>1, <2>1, <2>3, <2>4, Preserved
<1>4. CASE f.state \in Terminating /\ ~ (f.retransmits <= 0)
  <2>1. h = SendTermReq(g)
    BY <1>1, <1>4 DEF fsm_timeout, Negotiating, Terminating
  <2> HIDE DEF h
  <2>2. Outcome(SendTermReq(g), f.state, t + 1, f.retransmits - 1, {}, {"TERMREQ"})
    BY <1>1, TermReqOutcome
  <2>3. Keeps(f.state, t + 1, f.retransmits - 1, {}, {"TERMREQ"}, FALSE, TRUE)
    BY <1>1, <1>4, FsmAssumption
    DEF Keeps, QuietAfter, MineAfter, HisAfter, Negotiating, Terminating, Deaf
  <2>4. QED
    BY <1>1, <2>1, <2>2, <2>3, Preserved
<1>5. CASE f.state \in Negotiating /\ f.retransmits <= 0 /\ "PASSIVE" \in g.flags
  <2>1. h = Goto(g, "STOPPED")
    BY <1>1, <1>5 DEF fsm_timeout, Negotiating, Terminating
  <2> HIDE DEF h
  <2>2. Outcome(Goto(g, "STOPPED"), "STOPPED", t, f.retransmits, {}, {})
    BY <1>1, GotoOutcome DEF States
  <2>3. Keeps("STOPPED", t, f.retransmits, {}, {}, FALSE, TRUE)
    BY <1>1, <1>5, FsmAssumption
    DEF Keeps, QuietAfter, MineAfter, HisAfter, Negotiating, Terminating, Deaf
  <2>4. QED
    BY <1>1, <2>1, <2>2, <2>3, Preserved
<1>6. CASE f.state \in Negotiating /\ f.retransmits <= 0 /\ "PASSIVE" \notin g.flags
  <2>1. h = Call(Goto(g, "STOPPED"), "finished")
    BY <1>1, <1>6 DEF fsm_timeout, Negotiating, Terminating
  <2> HIDE DEF h
  <2>2. Outcome(Goto(g, "STOPPED"), "STOPPED", t, f.retransmits, {}, {})
    BY <1>1, GotoOutcome DEF States
  <2>3. Outcome(Call(Goto(g, "STOPPED"), "finished"), "STOPPED", t, f.retransmits,
                {"finished"}, {})
    BY <1>1, <2>2, CallOutcome DEF Callbacks
  <2>4. Keeps("STOPPED", t, f.retransmits, {"finished"}, {}, FALSE, TRUE)
    BY <1>1, <1>6, FsmAssumption
    DEF Keeps, QuietAfter, MineAfter, HisAfter, Negotiating, Terminating, Deaf
  <2>5. QED
    BY <1>1, <2>1, <2>3, <2>4, Preserved
<1>7. CASE f.state \in Negotiating /\ ~ (f.retransmits <= 0)
  <2> DEFINE a == Call(g, "retransmit")
             b == fsm_sconfreq(a, TRUE)
  <2>1. h = IF b.state = "ACKRCVD" THEN Goto(b, "REQSENT") ELSE b
    BY <1>1, <1>7 DEF fsm_timeout, Negotiating, Terminating
  <2>2. Outcome(a, f.state, t, f.retransmits, {"retransmit"}, {})
    BY <1>1, CallOutcome DEF Callbacks
  <2> HIDE DEF h, a
  <2>3. /\ b \in FSM /\ b.state = a.state /\ b.timers = a.timers + 1
        /\ b.retransmits = a.retransmits - 1
        /\ a.cb \subseteq b.cb /\ b.cb \subseteq a.cb \cup {"resetci"}
        /\ \A k : Sent(b, k) <=> Sent(a, k) \/ k = "CONFREQ"
    BY <2>2, SconfreqFacts DEF Outcome
  <2> HIDE DEF b
  <2>4. /\ Outcome(b, f.state, t + 1, f.retransmits - 1,
                   {"retransmit"}, {"CONFREQ"})
        /\ b.state = f.state
    BY <2>2, <2>3 DEF Outcome
  <2>5. CASE f.state = "ACKRCVD"
    <3>1. Outcome(h, "REQSENT", t + 1, f.retransmits - 1,
                  {"retransmit"}, {"CONFREQ"})
      BY <2>1, <2>4, <2>5, GotoOutcome DEF States
    <3>2. Keeps("REQSENT", t + 1, f.retransmits - 1,
                {"retransmit"}, {"CONFREQ"}, FALSE, TRUE)
      BY <1>1, <1>7, <2>5, FsmAssumption
      DEF Keeps, QuietAfter, MineAfter, HisAfter, Negotiating, Terminating, Deaf
    <3>3. QED
      BY <1>1, <3>1, <3>2, Preserved
  <2>6. CASE f.state # "ACKRCVD"
    <3>1. h = b
      BY <2>1, <2>4, <2>6
    <3>2. Keeps(f.state, t + 1, f.retransmits - 1,
                {"retransmit"}, {"CONFREQ"}, FALSE, TRUE)
      BY <1>1, <1>7, <2>6, FsmAssumption
      DEF Keeps, QuietAfter, MineAfter, HisAfter, Negotiating, Terminating, Deaf
    <3>3. QED
      BY <1>1, <2>4, <3>1, <3>2, Preserved
  <2>7. QED
    BY <2>5, <2>6
<1>8. CASE f.state \in {"INITIAL", "STARTING", "CLOSED", "STOPPED", "OPENED"}
  <2>1. h = g
    BY <1>1, <1>8 DEF fsm_timeout, Negotiating, Terminating
  <2> HIDE DEF h
  <2>2. Keeps(f.state, t, f.retransmits, {}, {}, FALSE, TRUE)
    BY <1>1, <1>8, FsmAssumption
    DEF Keeps, QuietAfter, MineAfter, HisAfter, Negotiating, Terminating, Deaf
  <2>3. QED
    BY <1>1, <2>1, <1>1, <2>2, Preserved
<1>9. QED
  BY <1>1, <1>2, <1>3, <1>4, <1>5, <1>6, <1>7, <1>8 DEF States, Negotiating, Terminating

(* fsm_rtermreq preserves IInv. *)
LEMMA RtermreqStep ==
  ASSUME IInv, f.state \notin Deaf, NEW id \in Ids,
         Step(fsm_rtermreq(Begin(f), id), FALSE, FALSE)
  PROVE  IInv'
<1> DEFINE g == Begin(f)
           h == fsm_rtermreq(g, id)
<1>1. /\ IInv /\ Step(h, FALSE, FALSE) /\ f.state \notin Deaf
      /\ f.state \in States /\ f.timers \in Nat
      /\ f.retransmits \in Nat /\ quiet \in Nat
      /\ f.state \in Negotiating \cup Terminating => f.timers > 0
      /\ f.state \in Negotiating => quiet + f.retransmits <= MaxConf
      /\ f.state \in Terminating => quiet + f.retransmits <= MaxTerm
      /\ f.state = "ACKRCVD" => "mine" \in agreed
      /\ f.state = "ACKSENT" => "his" \in agreed
      /\ told = "up" => /\ f.state = "OPENED"
                        /\ "mine" \in agreed /\ "his" \in agreed
      /\ Outcome(g, f.state, f.timers, f.retransmits, {}, {}) /\ g.state = f.state
      /\ g \in FSM
  BY InvFacts DEF Outcome
<1> HIDE DEF g
<1>2. CASE f.state \in {"ACKRCVD", "ACKSENT"}
  <2>1. h = fsm_sdata(Goto(g, "REQSENT"), "TERMACK", id)
    BY <1>1, <1>2 DEF fsm_rtermreq
  <2> HIDE DEF h
  <2>2. Outcome(Goto(g, "REQSENT"), "REQSENT", f.timers, f.retransmits, {}, {})
    BY <1>1, GotoOutcome DEF States
  <2>3. Outcome(fsm_sdata(Goto(g, "REQSENT"), "TERMACK", id), "REQSENT", f.timers,
                f.retransmits, {}, {"TERMACK"})
    BY <1>1, <2>2, SdataOutcome DEF Codes
  <2>4. Keeps("REQSENT", f.timers, f.retransmits, {}, {"TERMACK"}, FALSE, FALSE)
    BY <1>1, <1>2, FsmAssumption
    DEF Keeps, QuietAfter, MineAfter, HisAfter, Negotiating, Terminating, Deaf
  <2>5. QED
    BY <1>1, <2>1, <2>3, <2>4, Preserved
<1>3. CASE f.state = "OPENED"
  <2>1. h = fsm_sdata(Timeout(Goto(SetRetransmits(Call(g, "down"), 0), "STOPPING")),
                      "TERMACK", id)
    BY <1>1, <1>3 DEF fsm_rtermreq
  <2> HIDE DEF h
  <2>2. Outcome(Call(g, "down"), f.state, f.timers, f.retransmits, {"down"}, {})
    BY <1>1, CallOutcome DEF Callbacks
  <2>3. Outcome(SetRetransmits(Call(g, "down"), 0), f.state, f.timers, 0, {"down"}, {})
    BY <1>1, <2>2, SetRetransmitsOutcome
  <2>4. Outcome(Goto(SetRetransmits(Call(g, "down"), 0), "STOPPING"), "STOPPING", f.timers,
                0, {"down"}, {})
    BY <1>1, <2>3, GotoOutcome DEF States
  <2>5. Outcome(Timeout(Goto(SetRetransmits(Call(g, "down"), 0), "STOPPING")), "STOPPING",
                f.timers + 1, 0, {"down"}, {})
    BY <1>1, <2>4, TimeoutOutcome
  <2>6. Outcome(fsm_sdata(Timeout(Goto(SetRetransmits(Call(g, "down"), 0), "STOPPING")), "TERMACK", id), "STOPPING", f.timers + 1, 0, {"down"}, {"TERMACK"})
    BY <1>1, <2>5, SdataOutcome DEF Codes
  <2>7. Keeps("STOPPING", f.timers + 1, 0, {"down"}, {"TERMACK"}, FALSE, FALSE)
    BY <1>1, <1>3, FsmAssumption
    DEF Keeps, QuietAfter, MineAfter, HisAfter, Negotiating, Terminating, Deaf
  <2>8. QED
    BY <1>1, <2>1, <2>6, <2>7, Preserved
<1>4. CASE f.state \in {"CLOSED", "STOPPED", "CLOSING", "STOPPING", "REQSENT"}
  <2>1. h = fsm_sdata(g, "TERMACK", id)
    BY <1>1, <1>4 DEF fsm_rtermreq
  <2> HIDE DEF h
  <2>2. Outcome(fsm_sdata(g, "TERMACK", id), f.state, f.timers, f.retransmits, {},
                {"TERMACK"})
    BY <1>1, SdataOutcome DEF Codes
  <2>3. Keeps(f.state, f.timers, f.retransmits, {}, {"TERMACK"}, FALSE, FALSE)
    BY <1>1, <1>4, FsmAssumption
    DEF Keeps, QuietAfter, MineAfter, HisAfter, Negotiating, Terminating, Deaf
  <2>4. QED
    BY <1>1, <2>1, <2>2, <2>3, Preserved
<1>5. QED
  BY <1>1, <1>2, <1>3, <1>4 DEF States, Deaf

(* fsm_rtermack preserves IInv. *)
LEMMA RtermackStep ==
  ASSUME IInv, f.state \notin Deaf,
         Step(fsm_rtermack(Begin(f)), FALSE, FALSE)
  PROVE  IInv'
<1> DEFINE g == Begin(f)
           h == fsm_rtermack(g)
<1>1. /\ IInv /\ Step(h, FALSE, FALSE) /\ f.state \notin Deaf
      /\ f.state \in States /\ f.timers \in Nat
      /\ f.retransmits \in Nat /\ quiet \in Nat
      /\ f.state \in Negotiating \cup Terminating => f.timers > 0
      /\ f.state \in Negotiating => quiet + f.retransmits <= MaxConf
      /\ f.state \in Terminating => quiet + f.retransmits <= MaxTerm
      /\ f.state = "ACKRCVD" => "mine" \in agreed
      /\ f.state = "ACKSENT" => "his" \in agreed
      /\ told = "up" => /\ f.state = "OPENED"
                        /\ "mine" \in agreed /\ "his" \in agreed
      /\ Outcome(g, f.state, f.timers, f.retransmits, {}, {}) /\ g.state = f.state
      /\ g \in FSM
  BY InvFacts DEF Outcome
<1> HIDE DEF g
<1>2. CASE f.state = "CLOSING"
  <2>1. h = Call(Goto(g, "CLOSED"), "finished")
    BY <1>1, <1>2 DEF fsm_rtermack, NewRequest
  <2> HIDE DEF h
  <2>2. Outcome(Goto(g, "CLOSED"), "CLOSED", f.timers, f.retransmits, {}, {})
    BY <1>1, GotoOutcome DEF States
  <2>3. Outcome(Call(Goto(g, "CLOSED"), "finished"), "CLOSED", f.timers, f.retransmits,
                {"finished"}, {})
    BY <1>1, <2>2, CallOutcome DEF Callbacks
  <2>4. Keeps("CLOSED", f.timers, f.retransmits, {"finished"}, {}, FALSE, FALSE)
    BY <1>1, <1>2, FsmAssumption
    DEF Keeps, QuietAfter, MineAfter, HisAfter, Negotiating, Terminating, Deaf
  <2>5. QED
    BY <1>1, <2>1, <2>3, <2>4, Preserved
<1>3. CASE f.state = "STOPPING"
  <2>1. h = Call(Goto(g, "STOPPED"), "finished")
    BY <1>1, <1>3 DEF fsm_rtermack, NewRequest
  <2> HIDE DEF h
  <2>2. Outcome(Goto(g, "STOPPED"), "STOPPED", f.timers, f.retransmits, {}, {})
    BY <1>1, GotoOutcome DEF States
  <2>3. Outcome(Call(Goto(g, "STOPPED"), "finished"), "STOPPED", f.timers, f.retransmits,
                {"finished"}, {})
    BY <1>1, <2>2, CallOutcome DEF Callbacks
  <2>4. Keeps("STOPPED", f.timers, f.retransmits, {"finished"}, {}, FALSE, FALSE)
    BY <1>1, <1>3, FsmAssumption
    DEF Keeps, QuietAfter, MineAfter, HisAfter, Negotiating, Terminating, Deaf
  <2>5. QED
    BY <1>1, <2>1, <2>3, <2>4, Preserved
<1>4. CASE f.state = "ACKRCVD"
  <2>1. h = Goto(g, "REQSENT")
    BY <1>1, <1>4 DEF fsm_rtermack, NewRequest
  <2> HIDE DEF h
  <2>2. Outcome(Goto(g, "REQSENT"), "REQSENT", f.timers, f.retransmits, {}, {})
    BY <1>1, GotoOutcome DEF States
  <2>3. Keeps("REQSENT", f.timers, f.retransmits, {}, {}, FALSE, FALSE)
    BY <1>1, <1>4, FsmAssumption
    DEF Keeps, QuietAfter, MineAfter, HisAfter, Negotiating, Terminating, Deaf
  <2>4. QED
    BY <1>1, <2>1, <2>2, <2>3, Preserved
<1>5. CASE f.state = "OPENED"
  <2>1. h = NewRequest(Call(g, "down"))
    BY <1>1, <1>5 DEF fsm_rtermack, NewRequest
  <2> HIDE DEF h
  <2>2. Outcome(Call(g, "down"), f.state, f.timers, f.retransmits, {"down"}, {})
    BY <1>1, CallOutcome DEF Callbacks
  <2>3. Outcome(NewRequest(Call(g, "down")), f.state, f.timers + 1, MaxConf - 1, {"down"},
                {"CONFREQ"})
    BY <1>1, <2>2, NewRequestOutcome
  <2>4. Keeps(f.state, f.timers + 1, MaxConf - 1, {"down"}, {"CONFREQ"}, FALSE, FALSE)
    BY <1>1, <1>5, FsmAssumption
    DEF Keeps, QuietAfter, MineAfter, HisAfter, Negotiating, Terminating, Deaf
  <2>5. QED
    BY <1>1, <2>1, <2>3, <2>4, Preserved
<1>6. CASE f.state \in {"CLOSED", "STOPPED", "REQSENT", "ACKSENT"}
  <2>1. h = g
    BY <1>1, <1>6 DEF fsm_rtermack, NewRequest
  <2> HIDE DEF h
  <2>2. Keeps(f.state, f.timers, f.retransmits, {}, {}, FALSE, FALSE)
    BY <1>1, <1>6, FsmAssumption
    DEF Keeps, QuietAfter, MineAfter, HisAfter, Negotiating, Terminating, Deaf
  <2>3. QED
    BY <1>1, <2>1, <1>1, <2>2, Preserved
<1>7. QED
  BY <1>1, <1>2, <1>3, <1>4, <1>5, <1>6 DEF States, Deaf

(* fsm_rcoderej preserves IInv. *)
LEMMA RcoderejStep ==
  ASSUME IInv, f.state \notin Deaf,
         Step(fsm_rcoderej(Begin(f)), FALSE, FALSE)
  PROVE  IInv'
<1> DEFINE g == Begin(f)
           h == fsm_rcoderej(g)
<1>1. /\ IInv /\ Step(h, FALSE, FALSE) /\ f.state \notin Deaf
      /\ f.state \in States /\ f.timers \in Nat
      /\ f.retransmits \in Nat /\ quiet \in Nat
      /\ f.state \in Negotiating \cup Terminating => f.timers > 0
      /\ f.state \in Negotiating => quiet + f.retransmits <= MaxConf
      /\ f.state \in Terminating => quiet + f.retransmits <= MaxTerm
      /\ f.state = "ACKRCVD" => "mine" \in agreed
      /\ f.state = "ACKSENT" => "his" \in agreed
      /\ told = "up" => /\ f.state = "OPENED"
                        /\ "mine" \in agreed /\ "his" \in agreed
      /\ Outcome(g, f.state, f.timers, f.retransmits, {}, {}) /\ g.state = f.state
      /\ g \in FSM
  BY InvFacts DEF Outcome
<1> HIDE DEF g
<1>2. CASE f.state = "ACKRCVD"
  <2>1. h = Goto(g, "REQSENT")
    BY <1>1, <1>2 DEF fsm_rcoderej
  <2> HIDE DEF h
  <2>2. Outcome(Goto(g, "REQSENT"), "REQSENT", f.timers, f.retransmits, {}, {})
    BY <1>1, GotoOutcome DEF States
  <2>3. Keeps("REQSENT", f.timers, f.retransmits, {}, {}, FALSE, FALSE)
    BY <1>1, <1>2, FsmAssumption
    DEF Keeps, QuietAfter, MineAfter, HisAfter, Negotiating, Terminating, Deaf
  <2>4. QED
    BY <1>1, <2>1, <2>2, <2>3, Preserved
<1>3. CASE f.state # "ACKRCVD"
  <2>1. h = g
    BY <1>1, <1>3 DEF fsm_rcoderej
  <2> HIDE DEF h
  <2>2. Keeps(f.state, f.timers, f.retransmits, {}, {}, FALSE, FALSE)
    BY <1>1, <1>3, FsmAssumption
    DEF Keeps, QuietAfter, MineAfter, HisAfter, Negotiating, Terminating, Deaf
  <2>3. QED
    BY <1>1, <2>1, <1>1, <2>2, Preserved
<1>4. QED
  BY <1>1, <1>2, <1>3 DEF States

(* The answer to an unknown code preserves IInv. *)
LEMMA UnknownCodeStep ==
  ASSUME IInv, f.state \notin Deaf,
         Step(UnknownCode(Begin(f)), FALSE, FALSE)
  PROVE  IInv'
<1> DEFINE g == Begin(f)
           h == UnknownCode(g)
<1>1. /\ IInv /\ Step(h, FALSE, FALSE) /\ f.state \notin Deaf
      /\ f.state \in States /\ f.timers \in Nat
      /\ f.retransmits \in Nat /\ quiet \in Nat
      /\ f.state \in Negotiating \cup Terminating => f.timers > 0
      /\ f.state \in Negotiating => quiet + f.retransmits <= MaxConf
      /\ f.state \in Terminating => quiet + f.retransmits <= MaxTerm
      /\ f.state = "ACKRCVD" => "mine" \in agreed
      /\ f.state = "ACKSENT" => "his" \in agreed
      /\ told = "up" => /\ f.state = "OPENED"
                        /\ "mine" \in agreed /\ "his" \in agreed
      /\ Outcome(g, f.state, f.timers, f.retransmits, {}, {}) /\ g.state = f.state
      /\ g \in FSM
  BY InvFacts DEF Outcome
<1> HIDE DEF g
<1>2. IncrId(g).id \in Ids
  BY <1>1, IncrIdFacts DEF FSM
<1>3. CASE TRUE
  <2>1. h = fsm_sdata(IncrId(g), "CODEREJ", IncrId(g).id)
    BY <1>1, <1>3 DEF UnknownCode
  <2> HIDE DEF h
  <2>2. Outcome(IncrId(g), f.state, f.timers, f.retransmits, {}, {})
    BY <1>1, IncrIdOutcome
  <2>3. Outcome(fsm_sdata(IncrId(g), "CODEREJ", IncrId(g).id), f.state, f.timers,
                f.retransmits, {}, {"CODEREJ"})
    BY <1>1, <2>2, <1>2, SdataOutcome DEF Codes
  <2>4. Keeps(f.state, f.timers, f.retransmits, {}, {"CODEREJ"}, FALSE, FALSE)
    BY <1>1, <1>3, FsmAssumption
    DEF Keeps, QuietAfter, MineAfter, HisAfter, Negotiating, Terminating, Deaf
  <2>5. QED
    BY <1>1, <2>1, <2>3, <2>4, Preserved
<1>4. QED
  BY <1>1, <1>3 DEF States

(* fsm_rconfack preserves IInv. *)
LEMMA RconfackStep ==
  ASSUME IInv, f.state \notin Deaf, NEW id \in Ids, id = f.reqid,
         Step(fsm_rconfack(Begin(f), id, TRUE), TRUE, FALSE)
  PROVE  IInv'
<1> DEFINE g == Begin(f)
           h == fsm_rconfack(g, id, TRUE)
<1>1. /\ IInv /\ Step(h, TRUE, FALSE) /\ f.state \notin Deaf
      /\ f.state \in States /\ f.timers \in Nat
      /\ f.retransmits \in Nat /\ quiet \in Nat
      /\ f.state \in Negotiating \cup Terminating => f.timers > 0
      /\ f.state \in Negotiating => quiet + f.retransmits <= MaxConf
      /\ f.state \in Terminating => quiet + f.retransmits <= MaxTerm
      /\ f.state = "ACKRCVD" => "mine" \in agreed
      /\ f.state = "ACKSENT" => "his" \in agreed
      /\ told = "up" => /\ f.state = "OPENED"
                        /\ "mine" \in agreed /\ "his" \in agreed
      /\ Outcome(g, f.state, f.timers, f.retransmits, {}, {}) /\ g.state = f.state
      /\ g \in FSM /\ g.reqid = f.reqid /\ id = f.reqid
  BY InvFacts, BeginFacts DEF Outcome
<1> HIDE DEF g
<1> DEFINE a == SetReqid(g, NoReq)
<1>2. Outcome(a, f.state, f.timers, f.retransmits, {}, {}) /\ a.state = f.state
  <2>1. NoReq \in Ids
    BY FsmAssumption DEF NoReq, Ids
  <2>2. Outcome(a, f.state, f.timers, f.retransmits, {}, {})
    BY <1>1, <2>1, SetReqidOutcome
  <2>3. QED
    BY <2>2 DEF Outcome
<1>3. h = CASE f.state \in {"CLOSED", "STOPPED"} -> fsm_sdata(a, "TERMACK", id)
            [] f.state = "REQSENT" -> SetRetransmits(Goto(a, "ACKRCVD"), MaxConf)
            [] f.state = "ACKRCVD" -> Renegotiate(a)
            [] f.state = "ACKSENT" ->
                 Call(SetRetransmits(Goto(Untimeout(a), "OPENED"), MaxConf), "up")
            [] f.state = "OPENED"  -> Renegotiate(Call(a, "down"))
            [] OTHER               -> a
  BY <1>1, <1>2 DEF fsm_rconfack, NewRequest, Negotiating, Terminating
<1> HIDE DEF a, h
<1>4. CASE f.state \in {"CLOSED", "STOPPED"}
  <2>1. h = fsm_sdata(a, "TERMACK", id)
    BY <1>1, <1>2, <1>3, <1>4
  <2>2. Outcome(fsm_sdata(a, "TERMACK", id), f.state, f.timers, f.retransmits, {},
                {"TERMACK"})
    BY <1>1, <1>2, SdataOutcome DEF Codes
  <2>3. Keeps(f.state, f.timers, f.retransmits, {}, {"TERMACK"}, TRUE, FALSE)
    BY <1>1, <1>4, FsmAssumption
    DEF Keeps, QuietAfter, MineAfter, HisAfter, Negotiating, Terminating, Deaf
  <2>4. QED
    BY <1>1, <2>1, <2>2, <2>3, Preserved
<1>5. CASE f.state = "REQSENT"
  <2>1. h = SetRetransmits(Goto(a, "ACKRCVD"), MaxConf)
    BY <1>1, <1>2, <1>3, <1>5
  <2>2. Outcome(Goto(a, "ACKRCVD"), "ACKRCVD", f.timers, f.retransmits, {}, {})
    BY <1>1, <1>2, GotoOutcome DEF States
  <2>3. Outcome(SetRetransmits(Goto(a, "ACKRCVD"), MaxConf), "ACKRCVD", f.timers, MaxConf,
                {}, {})
    BY <1>1, <2>2, FsmAssumption, SetRetransmitsOutcome
  <2>4. Keeps("ACKRCVD", f.timers, MaxConf, {}, {}, TRUE, FALSE)
    BY <1>1, <1>5, FsmAssumption
    DEF Keeps, QuietAfter, MineAfter, HisAfter, Negotiating, Terminating, Deaf
  <2>5. QED
    BY <1>1, <2>1, <2>3, <2>4, Preserved
<1>6. CASE f.state = "ACKRCVD"
  <2>1. h = Renegotiate(a)
    BY <1>1, <1>2, <1>3, <1>6
  <2>2. Outcome(Renegotiate(a), "REQSENT", f.timers + 1, MaxConf - 1, {}, {"CONFREQ"})
    BY <1>1, <1>2, RenegotiateOutcome
  <2>3. Keeps("REQSENT", f.timers + 1, MaxConf - 1, {}, {"CONFREQ"}, TRUE, FALSE)
    BY <1>1, <1>6, FsmAssumption
    DEF Keeps, QuietAfter, MineAfter, HisAfter, Negotiating, Terminating, Deaf
  <2>4. QED
    BY <1>1, <2>1, <2>2, <2>3, Preserved
<1>7. CASE f.state = "ACKSENT"
  <2>1. h = Call(SetRetransmits(Goto(Untimeout(a), "OPENED"), MaxConf), "up")
    BY <1>1, <1>2, <1>3, <1>7
  <2>2. Outcome(Untimeout(a), f.state, (IF f.timers > 0 THEN f.timers - 1 ELSE 0),
                f.retransmits, {}, {})
    BY <1>1, <1>2, UntimeoutOutcome
  <2>3. Outcome(Goto(Untimeout(a), "OPENED"), "OPENED",
                (IF f.timers > 0 THEN f.timers - 1 ELSE 0), f.retransmits, {}, {})
    BY <1>1, <2>2, GotoOutcome DEF States
  <2>4. Outcome(SetRetransmits(Goto(Untimeout(a), "OPENED"), MaxConf), "OPENED",
                (IF f.timers > 0 THEN f.timers - 1 ELSE 0), MaxConf, {}, {})
    BY <1>1, <2>3, FsmAssumption, SetRetransmitsOutcome
  <2>5. Outcome(Call(SetRetransmits(Goto(Untimeout(a), "OPENED"), MaxConf), "up"), "OPENED",
                (IF f.timers > 0 THEN f.timers - 1 ELSE 0), MaxConf, {"up"}, {})
    BY <1>1, <2>4, CallOutcome DEF Callbacks
  <2>6. Keeps("OPENED", (IF f.timers > 0 THEN f.timers - 1 ELSE 0), MaxConf, {"up"}, {},
              TRUE, FALSE)
    BY <1>1, <1>7, FsmAssumption
    DEF Keeps, QuietAfter, MineAfter, HisAfter, Negotiating, Terminating, Deaf
  <2>7. QED
    BY <1>1, <2>1, <2>5, <2>6, Preserved
<1>8. CASE f.state = "OPENED"
  <2>1. h = Renegotiate(Call(a, "down"))
    BY <1>1, <1>2, <1>3, <1>8
  <2>2. Outcome(Call(a, "down"), f.state, f.timers, f.retransmits, {"down"}, {})
    BY <1>1, <1>2, CallOutcome DEF Callbacks
  <2>3. Outcome(Renegotiate(Call(a, "down")), "REQSENT", f.timers + 1, MaxConf - 1,
                {"down"}, {"CONFREQ"})
    BY <1>1, <2>2, RenegotiateOutcome
  <2>4. Keeps("REQSENT", f.timers + 1, MaxConf - 1, {"down"}, {"CONFREQ"}, TRUE, FALSE)
    BY <1>1, <1>8, FsmAssumption
    DEF Keeps, QuietAfter, MineAfter, HisAfter, Negotiating, Terminating, Deaf
  <2>5. QED
    BY <1>1, <2>1, <2>3, <2>4, Preserved
<1>9. CASE f.state \in Terminating
  <2>1. h = a
    BY <1>1, <1>2, <1>3, <1>9 DEF Terminating
  <2>2. Keeps(f.state, f.timers, f.retransmits, {}, {}, TRUE, FALSE)
    BY <1>1, <1>9, FsmAssumption
    DEF Keeps, QuietAfter, MineAfter, HisAfter, Negotiating, Terminating, Deaf
  <2>3. QED
    BY <1>1, <1>2, <2>1, <2>2, Preserved
<1>10. QED
  BY <1>1, <1>4, <1>5, <1>6, <1>7, <1>8, <1>9 DEF States, Deaf, Terminating

(* fsm_rconfnakrej preserves IInv. *)
LEMMA RconfnakrejStep ==
  ASSUME IInv, f.state \notin Deaf, NEW id \in Ids, id = f.reqid,
         Step(fsm_rconfnakrej(Begin(f), id, TRUE), FALSE, FALSE)
  PROVE  IInv'
<1> DEFINE g == Begin(f)
           h == fsm_rconfnakrej(g, id, TRUE)
<1>1. /\ IInv /\ Step(h, FALSE, FALSE) /\ f.state \notin Deaf
      /\ f.state \in States /\ f.timers \in Nat
      /\ f.retransmits \in Nat /\ quiet \in Nat
      /\ f.state \in Negotiating \cup Terminating => f.timers > 0
      /\ f.state \in Negotiating => quiet + f.retransmits <= MaxConf
      /\ f.state \in Terminating => quiet + f.retransmits <= MaxTerm
      /\ f.state = "ACKRCVD" => "mine" \in agreed
      /\ f.state = "ACKSENT" => "his" \in agreed
      /\ told = "up" => /\ f.state = "OPENED"
                        /\ "mine" \in agreed /\ "his" \in agreed
      /\ Outcome(g, f.state, f.timers, f.retransmits, {}, {}) /\ g.state = f.state
      /\ g \in FSM /\ g.reqid = f.reqid /\ id = f.reqid
  BY InvFacts, BeginFacts DEF Outcome
<1> HIDE DEF g
<1> DEFINE a == SetReqid(g, NoReq)
<1>2. Outcome(a, f.state, f.timers, f.retransmits, {}, {}) /\ a.state = f.state
  <2>1. NoReq \in Ids
    BY FsmAssumption DEF NoReq, Ids
  <2>2. Outcome(a, f.state, f.timers, f.retransmits, {}, {})
    BY <1>1, <2>1, SetReqidOutcome
  <2>3. QED
    BY <2>2 DEF Outcome
<1>3. h = CASE f.state \in {"CLOSED", "STOPPED"} -> fsm_sdata(a, "TERMACK", id)
            [] f.state \in {"REQSENT", "ACKSENT"} -> NewRequest(Untimeout(a))
            [] f.state = "ACKRCVD" -> Renegotiate(a)
            [] f.state = "OPENED"  -> Renegotiate(Call(a, "down"))
            [] OTHER               -> a
  BY <1>1, <1>2 DEF fsm_rconfnakrej, NewRequest, Negotiating, Terminating
<1> HIDE DEF a, h
<1>4. CASE f.state \in {"CLOSED", "STOPPED"}
  <2>1. h = fsm_sdata(a, "TERMACK", id)
    BY <1>1, <1>2, <1>3, <1>4
  <2>2. Outcome(fsm_sdata(a, "TERMACK", id), f.state, f.timers, f.retransmits, {},
                {"TERMACK"})
    BY <1>1, <1>2, SdataOutcome DEF Codes
  <2>3. Keeps(f.state, f.timers, f.retransmits, {}, {"TERMACK"}, FALSE, FALSE)
    BY <1>1, <1>4, FsmAssumption
    DEF Keeps, QuietAfter, MineAfter, HisAfter, Negotiating, Terminating, Deaf
  <2>4. QED
    BY <1>1, <2>1, <2>2, <2>3, Preserved
<1>5. CASE f.state \in {"REQSENT", "ACKSENT"}
  <2>1. h = NewRequest(Untimeout(a))
    BY <1>1, <1>2, <1>3, <1>5
  <2>2. Outcome(Untimeout(a), f.state, (IF f.timers > 0 THEN f.timers - 1 ELSE 0),
                f.retransmits, {}, {})
    BY <1>1, <1>2, UntimeoutOutcome
  <2>3. Outcome(NewRequest(Untimeout(a)), f.state,
                (IF f.timers > 0 THEN f.timers - 1 ELSE 0) + 1, MaxConf - 1, {},
                {"CONFREQ"})
    BY <1>1, <2>2, NewRequestOutcome
  <2>4. Keeps(f.state, (IF f.timers > 0 THEN f.timers - 1 ELSE 0) + 1, MaxConf - 1, {},
              {"CONFREQ"}, FALSE, FALSE)
    BY <1>1, <1>5, FsmAssumption
    DEF Keeps, QuietAfter, MineAfter, HisAfter, Negotiating, Terminating, Deaf
  <2>5. QED
    BY <1>1, <2>1, <2>3, <2>4, Preserved
<1>6. CASE f.state = "ACKRCVD"
  <2>1. h = Renegotiate(a)
    BY <1>1, <1>2, <1>3, <1>6
  <2>2. Outcome(Renegotiate(a), "REQSENT", f.timers + 1, MaxConf - 1, {}, {"CONFREQ"})
    BY <1>1, <1>2, RenegotiateOutcome
  <2>3. Keeps("REQSENT", f.timers + 1, MaxConf - 1, {}, {"CONFREQ"}, FALSE, FALSE)
    BY <1>1, <1>6, FsmAssumption
    DEF Keeps, QuietAfter, MineAfter, HisAfter, Negotiating, Terminating, Deaf
  <2>4. QED
    BY <1>1, <2>1, <2>2, <2>3, Preserved
<1>7. CASE f.state = "OPENED"
  <2>1. h = Renegotiate(Call(a, "down"))
    BY <1>1, <1>2, <1>3, <1>7
  <2>2. Outcome(Call(a, "down"), f.state, f.timers, f.retransmits, {"down"}, {})
    BY <1>1, <1>2, CallOutcome DEF Callbacks
  <2>3. Outcome(Renegotiate(Call(a, "down")), "REQSENT", f.timers + 1, MaxConf - 1,
                {"down"}, {"CONFREQ"})
    BY <1>1, <2>2, RenegotiateOutcome
  <2>4. Keeps("REQSENT", f.timers + 1, MaxConf - 1, {"down"}, {"CONFREQ"}, FALSE, FALSE)
    BY <1>1, <1>7, FsmAssumption
    DEF Keeps, QuietAfter, MineAfter, HisAfter, Negotiating, Terminating, Deaf
  <2>5. QED
    BY <1>1, <2>1, <2>3, <2>4, Preserved
<1>8. CASE f.state \in Terminating
  <2>1. h = a
    BY <1>1, <1>2, <1>3, <1>8 DEF Terminating
  <2>2. Keeps(f.state, f.timers, f.retransmits, {}, {}, FALSE, FALSE)
    BY <1>1, <1>8, FsmAssumption
    DEF Keeps, QuietAfter, MineAfter, HisAfter, Negotiating, Terminating, Deaf
  <2>3. QED
    BY <1>1, <1>2, <2>1, <2>2, Preserved
<1>9. QED
  BY <1>1, <1>4, <1>5, <1>6, <1>7, <1>8 DEF States, Deaf, Terminating

(* What the reply to a Configure-Request leaves behind, once fsm_rconfreq has
   prepared it. *)
LEMMA ReplyOutcome ==
  ASSUME NEW a, NEW s, NEW t \in Nat, NEW r, NEW cb, NEW codes, NEW id \in Ids,
         NEW code \in {"CONFACK", "CONFNAK", "CONFREJ"},
         Outcome(a, s, t, r, cb, codes)
  PROVE  /\ code = "CONFACK" /\ s = "ACKRCVD" =>
                Outcome(RconfreqReply(a, code, id), "OPENED", IF t > 0 THEN t - 1 ELSE 0, r,
                        cb \cup {"up"}, codes \cup {code})
         /\ code = "CONFACK" /\ s # "ACKRCVD" =>
                Outcome(RconfreqReply(a, code, id), "ACKSENT", t, r, cb, codes \cup {code})
         /\ code # "CONFACK" /\ s = "ACKRCVD" =>
                Outcome(RconfreqReply(a, code, id), "ACKRCVD", t, r, cb, codes \cup {code})
         /\ code # "CONFACK" /\ s # "ACKRCVD" =>
                Outcome(RconfreqReply(a, code, id), "REQSENT", t, r, cb, codes \cup {code})
<1> DEFINE g == fsm_sdata(a, code, id)
           h == IF code = "CONFNAK" /\ g.nakloops < MaxNak
                  THEN SetNakloops(g, g.nakloops + 1) ELSE g
           k == RconfreqReply(a, code, id)
<1>1. a \in FSM /\ a.state = s
  BY DEF Outcome
<1>2. Outcome(g, s, t, r, cb, codes \cup {code})
  BY SdataOutcome DEF Codes
<1>3. g \in FSM /\ g.nakloops \in 0 .. MaxNak
  <2>1. g \in FSM
    BY <1>2 DEF Outcome
  <2> HIDE DEF g
  <2>2. QED
    BY <2>1 DEF FSM
<1>4. 0 \in 0 .. MaxNak
  BY FsmAssumption
<1>5. CASE code = "CONFACK" /\ s = "ACKRCVD"
  <2>1. k = SetNakloops(Call(Goto(Untimeout(g), "OPENED"), "up"), 0)
    BY <1>1, <1>5 DEF RconfreqReply
  <2> HIDE DEF g, k
  <2>2. Outcome(Untimeout(g), s, IF t > 0 THEN t - 1 ELSE 0, r, cb, codes \cup {code})
    BY <1>2, UntimeoutOutcome
  <2>3. Outcome(Goto(Untimeout(g), "OPENED"), "OPENED", IF t > 0 THEN t - 1 ELSE 0, r,
                cb, codes \cup {code})
    BY <2>2, GotoOutcome DEF States
  <2>4. Outcome(Call(Goto(Untimeout(g), "OPENED"), "up"), "OPENED",
                IF t > 0 THEN t - 1 ELSE 0, r, cb \cup {"up"}, codes \cup {code})
    BY <2>3, CallOutcome DEF Callbacks
  <2>5. Outcome(k, "OPENED", IF t > 0 THEN t - 1 ELSE 0, r, cb \cup {"up"},
                codes \cup {code})
    BY <1>4, <2>1, <2>4, SetNakloopsOutcome
  <2>6. QED
    BY <1>5, <2>5 DEF k
<1>6. CASE code = "CONFACK" /\ s # "ACKRCVD"
  <2>1. k = SetNakloops(Goto(g, "ACKSENT"), 0)
    BY <1>1, <1>6 DEF RconfreqReply
  <2> HIDE DEF g, k
  <2>2. Outcome(Goto(g, "ACKSENT"), "ACKSENT", t, r, cb, codes \cup {code})
    BY <1>2, GotoOutcome DEF States
  <2>3. Outcome(k, "ACKSENT", t, r, cb, codes \cup {code})
    BY <1>4, <2>1, <2>2, SetNakloopsOutcome
  <2>4. QED
    BY <1>6, <2>3 DEF k
<1>7. CASE code # "CONFACK"
  <2>1. k = IF s = "ACKRCVD" THEN h ELSE Goto(h, "REQSENT")
    BY <1>1, <1>7 DEF RconfreqReply
  <2>2. Outcome(h, s, t, r, cb, codes \cup {code})
    <3> HIDE DEF g
    <3>1. CASE code = "CONFNAK" /\ g.nakloops < MaxNak
      <4>1. g.nakloops + 1 \in 0 .. MaxNak
        BY <1>3, <3>1, FsmAssumption
      <4>2. Outcome(SetNakloops(g, g.nakloops + 1), s, t, r, cb, codes \cup {code})
        BY <1>2, <4>1, SetNakloopsOutcome
      <4>3. QED
        BY <3>1, <4>2
    <3>2. CASE ~ (code = "CONFNAK" /\ g.nakloops < MaxNak)
      BY <1>2, <3>2
    <3>3. QED
      BY <3>1, <3>2
  <2> HIDE DEF g, h, k
  <2>3. Outcome(Goto(h, "REQSENT"), "REQSENT", t, r, cb, codes \cup {code})
    BY <2>2, GotoOutcome DEF States
  <2>4. QED
    BY <1>7, <2>1, <2>2, <2>3 DEF k
<1>8. QED
  BY <1>5, <1>6, <1>7

(* fsm_rconfreq preserves IInv. *)
LEMMA RconfreqStep ==
  ASSUME IInv, f.state \notin Deaf, NEW id \in Ids,
         NEW code \in {"CONFACK", "CONFNAK", "CONFREJ"},
         Step(fsm_rconfreq(Begin(f), id, code), FALSE, FALSE)
  PROVE  IInv'
<1> DEFINE g == Begin(f)
           h == fsm_rconfreq(g, id, code)
<1>1. /\ IInv /\ Step(h, FALSE, FALSE) /\ f.state \notin Deaf
      /\ f.state \in States /\ f.timers \in Nat
      /\ f.retransmits \in Nat /\ quiet \in Nat
      /\ f.state \in Negotiating \cup Terminating => f.timers > 0
      /\ f.state \in Negotiating => quiet + f.retransmits <= MaxConf
      /\ f.state \in Terminating => quiet + f.retransmits <= MaxTerm
      /\ f.state = "ACKRCVD" => "mine" \in agreed
      /\ f.state = "ACKSENT" => "his" \in agreed
      /\ told = "up" => /\ f.state = "OPENED"
                        /\ "mine" \in agreed /\ "his" \in agreed
      /\ Outcome(g, f.state, f.timers, f.retransmits, {}, {}) /\ g.state = f.state
      /\ g \in FSM
  BY InvFacts DEF Outcome
<1> HIDE DEF g
<1>2. CASE f.state = "CLOSED"
  <2>1. h = fsm_sdata(g, "TERMACK", id)
    BY <1>1, <1>2 DEF fsm_rconfreq, Terminating
  <2> HIDE DEF h
  <2>2. Outcome(fsm_sdata(g, "TERMACK", id), f.state, f.timers, f.retransmits, {},
                {"TERMACK"})
    BY <1>1, SdataOutcome DEF Codes
  <2>3. Keeps(f.state, f.timers, f.retransmits, {}, {"TERMACK"}, FALSE, FALSE)
    BY <1>1, <1>2, FsmAssumption
    DEF Keeps, QuietAfter, MineAfter, HisAfter, Negotiating, Terminating, Deaf
  <2>4. QED
    BY <1>1, <2>1, <2>2, <2>3, Preserved
<1>3. CASE f.state \in Terminating
  <2>1. h = g
    BY <1>1, <1>3 DEF fsm_rconfreq, Terminating
  <2> HIDE DEF h
  <2>2. Keeps(f.state, f.timers, f.retransmits, {}, {}, FALSE, FALSE)
    BY <1>1, <1>3, FsmAssumption
    DEF Keeps, QuietAfter, MineAfter, HisAfter, Negotiating, Terminating, Deaf
  <2>3. QED
    BY <1>1, <2>1, <1>1, <2>2, Preserved
<1>4. CASE f.state = "OPENED"
  <2> DEFINE a == NewRequest(Call(g, "down"))
  <2>1. h = RconfreqReply(a, code, id)
    BY <1>1, <1>4 DEF fsm_rconfreq, RconfreqPrepare, Terminating, Negotiating, NewRequest
  <2>2. Outcome(Call(g, "down"), f.state, f.timers, f.retransmits, {"down"}, {})
    BY <1>1, CallOutcome DEF Callbacks
  <2>3. Outcome(a, f.state, f.timers + 1, MaxConf - 1, {"down"}, {"CONFREQ"})
    BY <1>1, <2>2, NewRequestOutcome
  <2> HIDE DEF h, a
  <2>4. f.timers + 1 \in Nat
    BY <1>1
  <2>5. CASE code = "CONFACK"
    <3>1. Outcome(RconfreqReply(a, code, id), "ACKSENT", f.timers + 1, MaxConf - 1,
                  {"down"}, {"CONFREQ"} \cup {code})
      BY <1>4, <2>3, <2>4, <2>5, ReplyOutcome
    <3>2. Keeps("ACKSENT", f.timers + 1, MaxConf - 1, {"down"}, {"CONFREQ"} \cup {code},
                FALSE, FALSE)
      BY <1>1, <1>4, <2>5, FsmAssumption
      DEF Keeps, QuietAfter, MineAfter, HisAfter, Negotiating, Terminating, Deaf
    <3>3. QED
      BY <1>1, <2>1, <3>1, <3>2, Preserved
  <2>6. CASE code # "CONFACK"
    <3>1. Outcome(RconfreqReply(a, code, id), "REQSENT", f.timers + 1, MaxConf - 1,
                  {"down"}, {"CONFREQ"} \cup {code})
      BY <1>4, <2>3, <2>4, <2>6, ReplyOutcome
    <3>2. Keeps("REQSENT", f.timers + 1, MaxConf - 1, {"down"}, {"CONFREQ"} \cup {code},
                FALSE, FALSE)
      BY <1>1, <1>4, <2>6, FsmAssumption
      DEF Keeps, QuietAfter, MineAfter, HisAfter, Negotiating, Terminating, Deaf
    <3>3. QED
      BY <1>1, <2>1, <3>1, <3>2, Preserved
  <2>7. QED
    BY <2>5, <2>6
<1>5. CASE f.state = "STOPPED"
  <2> DEFINE a == Renegotiate(g)
  <2>1. h = RconfreqReply(a, code, id)
    BY <1>1, <1>5 DEF fsm_rconfreq, RconfreqPrepare, Terminating, Negotiating, NewRequest
  <2>2. Outcome(a, "REQSENT", f.timers + 1, MaxConf - 1, {}, {"CONFREQ"})
    BY <1>1, RenegotiateOutcome
  <2> HIDE DEF h, a
  <2>3. f.timers + 1 \in Nat
    BY <1>1
  <2>4. CASE code = "CONFACK"
    <3>1. Outcome(RconfreqReply(a, code, id), "ACKSENT", f.timers + 1, MaxConf - 1, {},
                  {"CONFREQ"} \cup {code})
      <4>1. "REQSENT" # "ACKRCVD"
        OBVIOUS
      <4>2. code = "CONFACK" /\ "REQSENT" # "ACKRCVD" =>
               Outcome(RconfreqReply(a, code, id), "ACKSENT", f.timers + 1, MaxConf - 1, {}, {"CONFREQ"} \cup {code})
        BY <2>2, <2>3, ReplyOutcome
      <4>3. QED
        BY <2>4, <4>1, <4>2
    <3>2. Keeps("ACKSENT", f.timers + 1, MaxConf - 1, {}, {"CONFREQ"} \cup {code}, FALSE,
                FALSE)
      BY <1>1, <1>5, <2>4, FsmAssumption
      DEF Keeps, QuietAfter, MineAfter, HisAfter, Negotiating, Terminating, Deaf
    <3>3. QED
      BY <1>1, <2>1, <3>1, <3>2, Preserved
  <2>5. CASE code # "CONFACK"
    <3>1. Outcome(RconfreqReply(a, code, id), "REQSENT", f.timers + 1, MaxConf - 1, {},
                  {"CONFREQ"} \cup {code})
      BY <2>2, <2>3, <2>5, ReplyOutcome
    <3>2. Keeps("REQSENT", f.timers + 1, MaxConf - 1, {}, {"CONFREQ"} \cup {code}, FALSE,
                FALSE)
      BY <1>1, <1>5, <2>5, FsmAssumption
      DEF Keeps, QuietAfter, MineAfter, HisAfter, Negotiating, Terminating, Deaf
    <3>3. QED
      BY <1>1, <2>1, <3>1, <3>2, Preserved
  <2>6. QED
    BY <2>4, <2>5
<1>6. CASE f.state \in {"REQSENT", "ACKSENT"}
  <2> DEFINE a == g
  <2>1. h = RconfreqReply(a, code, id)
    BY <1>1, <1>6 DEF fsm_rconfreq, RconfreqPrepare, Terminating, Negotiating, NewRequest
  <2>2. Outcome(a, f.state, f.timers, f.retransmits, {}, {})
    BY <1>1
  <2> HIDE DEF h, a
  <2>3. f.timers \in Nat
    BY <1>1
  <2>4. CASE code = "CONFACK"
    <3>1. Outcome(RconfreqReply(a, code, id), "ACKSENT", f.timers, f.retransmits, {},
                  {} \cup {code})
      BY <1>6, <2>2, <2>3, <2>4, ReplyOutcome
    <3>2. Keeps("ACKSENT", f.timers, f.retransmits, {}, {} \cup {code}, FALSE, FALSE)
      BY <1>1, <1>6, <2>4, FsmAssumption
      DEF Keeps, QuietAfter, MineAfter, HisAfter, Negotiating, Terminating, Deaf
    <3>3. QED
      BY <1>1, <2>1, <3>1, <3>2, Preserved
  <2>5. CASE code # "CONFACK"
    <3>1. Outcome(RconfreqReply(a, code, id), "REQSENT", f.timers, f.retransmits, {},
                  {} \cup {code})
      BY <1>6, <2>2, <2>3, <2>5, ReplyOutcome
    <3>2. Keeps("REQSENT", f.timers, f.retransmits, {}, {} \cup {code}, FALSE, FALSE)
      BY <1>1, <1>6, <2>5, FsmAssumption
      DEF Keeps, QuietAfter, MineAfter, HisAfter, Negotiating, Terminating, Deaf
    <3>3. QED
      BY <1>1, <2>1, <3>1, <3>2, Preserved
  <2>6. QED
    BY <2>4, <2>5
<1>7. CASE f.state = "ACKRCVD"
  <2> DEFINE a == g
  <2>1. h = RconfreqReply(a, code, id)
    BY <1>1, <1>7 DEF fsm_rconfreq, RconfreqPrepare, Terminating, Negotiating, NewRequest
  <2>2. Outcome(a, f.state, f.timers, f.retransmits, {}, {})
    BY <1>1
  <2> HIDE DEF h, a
  <2>3. f.timers \in Nat
    BY <1>1
  <2>4. CASE code = "CONFACK"
    <3>1. Outcome(RconfreqReply(a, code, id), "OPENED",
                  (IF f.timers > 0 THEN f.timers - 1 ELSE 0), f.retransmits, {} \cup {"up"},
                  {} \cup {code})
      BY <1>7, <2>2, <2>3, <2>4, ReplyOutcome
    <3>2. Keeps("OPENED", (IF f.timers > 0 THEN f.timers - 1 ELSE 0), f.retransmits,
                {} \cup {"up"}, {} \cup {code}, FALSE, FALSE)
      BY <1>1, <1>7, <2>4, FsmAssumption
      DEF Keeps, QuietAfter, MineAfter, HisAfter, Negotiating, Terminating, Deaf
    <3>3. QED
      BY <1>1, <2>1, <3>1, <3>2, Preserved
  <2>5. CASE code # "CONFACK"
    <3>1. Outcome(RconfreqReply(a, code, id), "ACKRCVD", f.timers, f.retransmits, {},
                  {} \cup {code})
      BY <1>7, <2>2, <2>3, <2>5, ReplyOutcome
    <3>2. Keeps("ACKRCVD", f.timers, f.retransmits, {}, {} \cup {code}, FALSE, FALSE)
      BY <1>1, <1>7, <2>5, FsmAssumption
      DEF Keeps, QuietAfter, MineAfter, HisAfter, Negotiating, Terminating, Deaf
    <3>3. QED
      BY <1>1, <2>1, <3>1, <3>2, Preserved
  <2>6. QED
    BY <2>4, <2>5
<1>8. QED
  BY <1>1, <1>2, <1>3, <1>4, <1>5, <1>6, <1>7 DEF States, Deaf, Terminating

(* fsm_input, with any packet, preserves IInv. *)
LEMMA ReceiveStep ==
  ASSUME IInv, Receive PROVE IInv'
<1>0. PICK code \in InCodes, id \in Ids :
         \E verdict \in Verdicts(code) : Input(code, id, verdict)
  BY DEF Receive
<1>1. PICK verdict \in Verdicts(code) : Input(code, id, verdict)
  BY <1>0
<1> DEFINE g == Begin(f)
           p == [code |-> code, id |-> id]
           acked == /\ code = "CONFACK" /\ id = f.reqid /\ verdict = "good"
                    /\ f.state \notin Deaf
<1>2. Step(fsm_input(g, p, verdict), acked, FALSE) /\ acked \in BOOLEAN
  BY <1>1 DEF Input
<1>3. /\ g.state = f.state /\ g.reqid = f.reqid /\ p.code = code /\ p.id = id
      /\ Outcome(g, f.state, f.timers, f.retransmits, {}, {})
  BY InvFacts, BeginFacts
<1> HIDE DEF g, p
<1>4. ASSUME fsm_input(g, p, verdict) = g, acked = FALSE PROVE IInv'
  <2>1. Keeps(f.state, f.timers, f.retransmits, {}, {}, FALSE, FALSE)
    BY InvFacts, FsmAssumption
    DEF Keeps, QuietAfter, MineAfter, HisAfter, Negotiating, Terminating, Deaf
  <2>2. Step(g, FALSE, FALSE)
    BY <1>2, <1>4
  <2>3. QED
    BY <1>3, <2>1, <2>2, Preserved
<1>5. CASE f.state \in Deaf
  <2>1. fsm_input(g, p, verdict) = g
    BY <1>3, <1>5 DEF fsm_input
  <2>2. QED
    BY <1>4, <1>5, <2>1
<1>6. CASE f.state \notin Deaf /\ code = "CONFREQ"
  <2>1. fsm_input(g, p, verdict) = fsm_rconfreq(g, id, verdict)
    BY <1>3, <1>6 DEF fsm_input
  <2>2. verdict \in {"CONFACK", "CONFNAK", "CONFREJ"}
    BY <1>1, <1>6 DEF Verdicts
  <2>3. acked = FALSE
    BY <1>6
  <2>4. Step(fsm_rconfreq(g, id, verdict), FALSE, FALSE)
    BY <1>2, <2>1, <2>3
  <2>5. QED
    BY <1>1, <1>6, <2>2, <2>4, RconfreqStep DEF g
<1>7. CASE f.state \notin Deaf /\ code = "CONFACK"
  <2>1. fsm_input(g, p, verdict) = fsm_rconfack(g, id, verdict = "good")
    BY <1>3, <1>7 DEF fsm_input
  <2>2. CASE id = f.reqid /\ verdict = "good"
    <3>1. acked = TRUE /\ (verdict = "good") = TRUE
      BY <1>7, <2>2
    <3>2. Step(fsm_rconfack(g, id, TRUE), TRUE, FALSE)
      BY <1>2, <2>1, <3>1
    <3>3. QED
      BY <1>1, <1>7, <2>2, <3>2, RconfackStep DEF g
  <2>3. CASE ~ (id = f.reqid /\ verdict = "good")
    <3>1. acked = FALSE /\ fsm_input(g, p, verdict) = g
      BY <1>3, <2>1, <2>3 DEF fsm_rconfack
    <3>2. QED
      BY <1>4, <3>1
  <2>4. QED
    BY <2>2, <2>3
<1>8. CASE f.state \notin Deaf /\ code \in {"CONFNAK", "CONFREJ"}
  <2>1. fsm_input(g, p, verdict) = fsm_rconfnakrej(g, id, verdict = "good")
    BY <1>3, <1>8 DEF fsm_input
  <2>2. acked = FALSE
    BY <1>8
  <2>3. CASE id = f.reqid /\ verdict = "good"
    <3>1. (verdict = "good") = TRUE
      BY <2>3
    <3>2. Step(fsm_rconfnakrej(g, id, TRUE), FALSE, FALSE)
      BY <1>2, <2>1, <2>2, <3>1
    <3>3. QED
      BY <1>1, <1>8, <2>3, <3>2, RconfnakrejStep DEF g
  <2>4. CASE ~ (id = f.reqid /\ verdict = "good")
    <3>1. fsm_input(g, p, verdict) = g
      BY <1>3, <2>1, <2>4 DEF fsm_rconfnakrej
    <3>2. QED
      BY <1>4, <2>2, <3>1
  <2>5. QED
    BY <2>3, <2>4
<1>9. CASE f.state \notin Deaf /\ code \in {"TERMREQ", "TERMACK", "CODEREJ", "UNKNOWN"}
  <2>1. /\ acked = FALSE
        /\ fsm_input(g, p, verdict) =
              CASE code = "TERMREQ" -> fsm_rtermreq(g, id)
                [] code = "TERMACK" -> fsm_rtermack(g)
                [] code = "CODEREJ" -> fsm_rcoderej(g)
                [] OTHER            -> UnknownCode(g)
    BY <1>3, <1>9 DEF fsm_input
  <2>2. CASE code = "TERMREQ"
    BY <1>1, <1>2, <1>9, <2>1, <2>2, RtermreqStep DEF g
  <2>3. CASE code = "TERMACK"
    BY <1>2, <1>9, <2>1, <2>3, RtermackStep DEF g
  <2>4. CASE code = "CODEREJ"
    BY <1>2, <1>9, <2>1, <2>4, RcoderejStep DEF g
  <2>5. CASE code = "UNKNOWN"
    BY <1>2, <1>9, <2>1, <2>5, UnknownCodeStep DEF g
  <2>6. QED
    BY <1>9, <2>2, <2>3, <2>4, <2>5
<1>10. QED
  BY <1>1, <1>5, <1>6, <1>7, <1>8, <1>9 DEF InCodes, Codes

----------------------------------------------------------------------------
(* fsm_init establishes IInv. *)
LEMMA InitInv == Init => IInv
<1> SUFFICES ASSUME Init PROVE IInv
  OBVIOUS
<1>2. PICK flags \in FlagSets, id \in Ids : f = fsm_init(flags, id)
  BY DEF Init
<1>3. /\ f.state = "INITIAL" /\ f.timers = 0 /\ f.retransmits = 0
      /\ told = "down" /\ agreed = {} /\ quiet = 0
  BY <1>2 DEF Init, fsm_init
<1>4. f \in FSM
  <2>1. flags \in SUBSET Flags /\ 0 \in Ids /\ 0 \in 0 .. MaxNak
    BY SpecAssumption, FsmAssumption DEF Ids
  <2>2. << >> \in Seq(Packet) /\ "INITIAL" \in States
    BY DEF States
  <2>3. QED
    BY <1>2, <2>1, <2>2 DEF fsm_init, FSM
<1>5. QED
  BY <1>3, <1>4, FsmAssumption
  DEF IInv, TypeOK, ActiveHasTimer, UpMeansAgreed, BoundedRetries, HalfwayAgreed,
      RetryBudget, Negotiating, Terminating

(* Every step preserves IInv. *)
LEMMA NextInv == IInv /\ [Next]_vars => IInv'
<1> SUFFICES ASSUME IInv, [Next]_vars PROVE IInv'
  OBVIOUS
<1>2. CASE Next
  BY <1>2, LowerUpStep, LowerDownStep, OpenStep, CloseStep, ProtRejectStep,
     ExpiryStep, ReceiveStep DEF Next
<1>3. CASE UNCHANGED vars
  BY <1>3 DEF vars, IInv, TypeOK, ActiveHasTimer, UpMeansAgreed, BoundedRetries,
     HalfwayAgreed, RetryBudget
<1>4. QED
  BY <1>2, <1>3

(* The inductive invariant of one automaton of fsm.c holds in every reachable state. *)
THEOREM Invariance == Spec => []IInv
<1>1. Init => IInv
  BY InitInv
<1>2. IInv /\ [Next]_vars => IInv'
  BY NextInv
<1>3. QED
  BY <1>1, <1>2, PTL DEF Spec

(* Every field of the fsm keeps the range of its C type: in particular ids *)
(* stay in a u_char, and nakloops and timers never go negative.            *)
THEOREM TypeCorrect == Spec => []TypeOK
<1>1. IInv => TypeOK
  BY DEF IInv
<1>2. QED
  BY <1>1, Invariance, PTL

(* A request outstanding always has an fsm_timeout callout behind it.      *)
THEOREM ActiveAlwaysHasTimer == Spec => []ActiveHasTimer
<1>1. IInv => ActiveHasTimer
  BY DEF IInv
<1>2. QED
  BY <1>1, Invariance, PTL

(* The up callback means that both Configure-Acks of this negotiation      *)
(* stand, whatever the peer sends and however its ids are reused.          *)
THEOREM UpAlwaysMeansAgreed == Spec => []UpMeansAgreed
<1>1. IInv => UpMeansAgreed
  BY DEF IInv
<1>2. QED
  BY <1>1, Invariance, PTL

(* However many callouts are pending, a silent peer is sent no more than   *)
(* the configured number of requests.                                      *)
THEOREM RetriesAlwaysBounded == Spec => []BoundedRetries
<1>1. IInv => BoundedRetries
  BY DEF IInv
<1>2. QED
  BY <1>1, Invariance, PTL
============================================================================
