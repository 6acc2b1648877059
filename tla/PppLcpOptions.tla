--------------------------- MODULE PppLcpOptions ---------------------------
(***************************************************************************)
(* LCP option negotiation (src/vxworks_test/netinet/ppp/lcp.c): what the   *)
(* *ci callbacks put into Configure packets and take out of them.          *)
(*                                                                         *)
(* An options record has the set neg of options to negotiate (the neg_*    *)
(* bits) and the values of the three that have one.  The option list of a  *)
(* packet is a function from the options in it to their values; the code   *)
(* emits and expects them in one fixed order, so the order carries nothing. *)
(* LQR is never negotiated by this code ("no LQR implementation yet").     *)
(***************************************************************************)
EXTENDS Integers, Functions

CONSTANTS
    Magics,    \* what magic() may return
    Chars,     \* the control characters an asyncmap may escape
    MinMru,    \* MINMRU
    DefMru     \* DEFMRU

ASSUME OptionsAssumption == MinMru \in Nat /\ DefMru \in Nat /\ MinMru <= DefMru

Auth == {"chap", "upap"}
CIs == Auth \cup {"mru", "asyncmap", "magicnumber", "pcompression", "accompression"}

Options == [neg : SUBSET CIs, mru : Nat, asyncmap : SUBSET Chars, magicnumber : Magics]

Value(o, c) ==
    CASE c = "mru"         -> o.mru
      [] c = "asyncmap"    -> o.asyncmap
      [] c = "magicnumber" -> o.magicnumber
      [] OTHER             -> "void"

\* Only one of CHAP and UPAP is asked for, even if either will do.
Asked(go) == IF "chap" \in go.neg THEN go.neg \ {"upap"} ELSE go.neg

lcp_resetci(wo, magic) == [wo EXCEPT !.magicnumber = magic]

lcp_addci(go) == [c \in Asked(go) |-> Value(go, c)]

----------------------------------------------------------------------------
\* The peer's answers.  Each has a test (the packet is good) and a result.

lcp_ackci(go, r) == r = lcp_addci(go)

NakGood(go, r) ==
    \A c \in DOMAIN r \ Asked(go) :
        c \notin go.neg /\ (c \in Auth => go.neg \cap Auth = {})

lcp_nakci(go, wo, r, magic) ==
    LET nak == DOMAIN r \cap Asked(go)
        mru_ok == "mru" \in nak /\ (r["mru"] <= wo.mru \/ r["mru"] < DefMru)
    IN  [neg         |-> go.neg \ (nak \cap (Auth \cup {"pcompression", "accompression"})),
         mru         |-> IF mru_ok THEN r["mru"] ELSE go.mru,
         asyncmap    |-> IF "asyncmap" \in nak THEN go.asyncmap \cup r["asyncmap"]
                                               ELSE go.asyncmap,
         magicnumber |-> IF "magicnumber" \in nak THEN magic ELSE go.magicnumber]

\* Mutant of RejGood: rejecting only some of the options is taken as bad.
RejGoodAll(go, r) ==
    DOMAIN r = Asked(go) /\ \A c \in DOMAIN r : r[c] = Value(go, c)

RejGood(go, r) ==
    DOMAIN r \subseteq Asked(go) /\ \A c \in DOMAIN r : r[c] = Value(go, c)

\* Mutant of lcp_rejci: a rejected option is asked for again.
RejKeeps(go, r) == go

lcp_rejci(go, r) == [go EXCEPT !.neg = @ \ DOMAIN r]

----------------------------------------------------------------------------
\* lcp_reqci: the answer to the peer's request r.

\* Options we will not have at all.
Refused(go, ao, r) ==
    {c \in DOMAIN r :
        CASE c \in Auth          -> ao.neg \cap Auth = {}
          [] c = "magicnumber"   -> c \notin ao.neg \cup go.neg
          [] OTHER               -> c \notin ao.neg}

\* Mutant of Disagreed: equal magic numbers are accepted.
DisagreedNotMagic(go, ao, r) ==
    {c \in DOMAIN r \ Refused(go, ao, r) :
        CASE c = "mru"         -> r[c] < MinMru
          [] c = "asyncmap"    -> ~ ao.asyncmap \subseteq r[c]
          [] c \in Auth        -> c \notin ao.neg
          [] OTHER             -> FALSE}

\* Options we want with another value.
Disagreed(go, ao, r) ==
    {c \in DOMAIN r \ Refused(go, ao, r) :
        CASE c = "mru"         -> r[c] < MinMru
          [] c = "asyncmap"    -> ~ ao.asyncmap \subseteq r[c]
          [] c \in Auth        -> c \notin ao.neg
          [] c = "magicnumber" -> c \in go.neg /\ r[c] = go.magicnumber
          [] OTHER             -> FALSE}

\* tough: reject_if_disagree.  A looped-back line is never rejected.
Rejected(go, ao, r, tough) ==
    Refused(go, ao, r)
        \cup (IF tough THEN Disagreed(go, ao, r) \ {"magicnumber"} ELSE {})

\* Mutant of Verdict: a Nak of one option does not make the answer a Nak.
NakForgotten(go, ao, r, tough) ==
    IF Rejected(go, ao, r, tough) # {} THEN "CONFREJ" ELSE "CONFACK"

Verdict(go, ao, r, tough) ==
    CASE Rejected(go, ao, r, tough) # {} -> "CONFREJ"
      [] Rejected(go, ao, r, tough) = {} /\ Disagreed(go, ao, r) # {} -> "CONFNAK"
      [] OTHER -> "CONFACK"

\* nak_buffer: the other authentication protocol, another magic number.  The
\* hints for the MRU and the asyncmap are written over the request instead.
NakBuffer(nak, magic) ==
    LET other(c) == IF c = "chap" THEN "upap" ELSE "chap"
        hints == {other(c) : c \in nak \cap Auth} \cup (nak \cap {"magicnumber"})
    IN  [c \in hints |-> IF c = "magicnumber" THEN magic ELSE "void"]

Reply(go, ao, r, tough, magic) ==
    CASE Verdict(go, ao, r, tough) = "CONFREJ" -> Restrict(r, Rejected(go, ao, r, tough))
      [] Verdict(go, ao, r, tough) = "CONFNAK" -> NakBuffer(Disagreed(go, ao, r), magic)
      [] OTHER -> r

\* lcp_hisoptions: what we agreed to in r.
HisOptions(go, ao, r) ==
    Restrict(r, DOMAIN r \ (Refused(go, ao, r) \cup Disagreed(go, ao, r)))
============================================================================
