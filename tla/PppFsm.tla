------------------------------ MODULE PppFsm ------------------------------
(***************************************************************************)
(* One control-protocol automaton (fsm.c) in the most general environment: *)
(* a lower layer that comes and goes, an administrator that opens and      *)
(* closes, a peer that may send any packet with any id, and callouts that  *)
(* expire.  LCP and IPCP are both instances of this code.                  *)
(*                                                                         *)
(* Three history variables record what the callbacks and packets have told  *)
(* the upper layers and the peer; no action reads them.                    *)
(***************************************************************************)
EXTENDS PppFsmOps

CONSTANTS
    FlagSets,  \* the values f->flags is given by lcp_open and ipcp_init
    MaxTimers  \* bound: callouts of one fsm pending at once

ASSUME SpecAssumption == FlagSets \subseteq SUBSET Flags /\ MaxTimers \in Nat

VARIABLES
    f,        \* the fsm structure
    told,     \* the last of up and down that the upper layers were called with
    agreed,   \* "mine": the peer has acked the last Configure-Request we sent;
              \* "his": we answered the peer's last one with an ack
    quiet     \* requests sent since anything but a timeout last happened

vars == <<f, told, agreed, quiet>>

----------------------------------------------------------------------------
Sent(g, code) == \E i \in 1 .. Len(g.out) : g.out[i].code = code

Init ==
    /\ \E flags \in FlagSets, id \in Ids : f = fsm_init(flags, id)
    /\ told = "down" /\ agreed = {} /\ quiet = 0

\* The acks that stand once an operation has left g behind; acked says that it
\* accepted a Configure-Ack.  The end of a session revokes both.
Over(g) == "down" \in g.cb \/ Sent(g, "TERMACK") \/ g.state \in Deaf

MineStands(g, acked) ==
    ~ Sent(g, "CONFREQ") /\ (acked \/ ("mine" \in agreed /\ ~ Over(g)))

HisStands(g) ==
    \/ Sent(g, "CONFACK")
    \/ "his" \in agreed /\ ~ Over(g) /\ ~ Sent(g, "CONFNAK") /\ ~ Sent(g, "CONFREJ")

Requests(g) == Sent(g, "CONFREQ") \/ Sent(g, "TERMREQ")

Step(g, acked, timeout) ==
    /\ g.timers <= MaxTimers
    /\ f' = g
    /\ told' = IF "up" \in g.cb THEN "up" ELSE IF "down" \in g.cb THEN "down" ELSE told
    /\ agreed' = (IF MineStands(g, acked) THEN {"mine"} ELSE {})
                   \cup (IF HisStands(g) THEN {"his"} ELSE {})
    /\ quiet' = (IF timeout THEN quiet ELSE 0) + (IF Requests(g) THEN 1 ELSE 0)

LowerUp    == Step(fsm_lowerup(Begin(f)), FALSE, FALSE)
LowerDown  == Step(fsm_lowerdown(Begin(f)), FALSE, FALSE)
Open       == Step(fsm_open(Begin(f)), FALSE, FALSE)
Close      == Step(fsm_close(Begin(f)), FALSE, FALSE)
ProtReject == Step(fsm_protreject(Begin(f)), FALSE, FALSE)

Expiry ==
    /\ f.timers > 0
    /\ Step(Expire(Begin(f)), FALSE, TRUE)

Input(code, id, verdict) ==
    LET acked == /\ code = "CONFACK" /\ id = f.reqid /\ verdict = "good"
                 /\ f.state \notin Deaf
    IN  Step(fsm_input(Begin(f), [code |-> code, id |-> id], verdict), acked, FALSE)

Receive ==
    \E code \in InCodes, id \in Ids :
        \E verdict \in Verdicts(code) : Input(code, id, verdict)

Next == \/ LowerUp \/ LowerDown \/ Open \/ Close \/ ProtReject
        \/ Expiry \/ Receive

Spec == Init /\ [][Next]_vars

\* alrm() runs every callout whose time has come.
LiveSpec == Spec /\ WF_vars(Expiry)

----------------------------------------------------------------------------
(* Every field keeps the range its C type and use give it. *)
TypeOK ==
    /\ f \in FSM
    /\ told \in {"up", "down"}
    /\ agreed \subseteq {"mine", "his"}
    /\ quiet \in Nat

(* fsm.c never waits for an answer without a callout that will wake it up:  *)
(* in every state that has a request outstanding fsm_timeout is queued,     *)
(* whatever order of cancels and re-arms led there.                         *)
ActiveHasTimer == f.state \in Negotiating \cup Terminating => f.timers > 0

(* The upper layers are told "up" only while the fsm is OPENED, the peer    *)
(* has acknowledged the last configuration we asked for and we acknowledged *)
(* the last one it asked for (the two Configure-Acks of ACKRCVD, ACKSENT).  *)
UpMeansAgreed == told = "up" => f.state = "OPENED" /\ agreed = {"mine", "his"}

(* With nothing but timeouts happening, at most maxconfreqtransmits         *)
(* Configure-Requests or maxtermtransmits Terminate-Requests are sent, even *)
(* when several callouts share the one counter f->retransmits.              *)
BoundedRetries ==
    /\ f.retransmits >= 0
    /\ quiet <= IF MaxConf > MaxTerm THEN MaxConf ELSE MaxTerm

(* When only timeouts remain, the automaton gives up: it ends in a state    *)
(* that waits for nothing.                                                  *)
GivesUp ==
    <>[][Expiry]_vars
        => <>[](f.state \notin Negotiating \cup Terminating)
============================================================================
