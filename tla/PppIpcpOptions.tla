--------------------------- MODULE PppIpcpOptions ---------------------------
(***************************************************************************)
(* IPCP option negotiation (src/vxworks_test/netinet/ppp/ipcp.c): addresses *)
(* and Van Jacobson compression.                                           *)
(*                                                                         *)
(* A configuration wo is ipcp_wantoptions; options.c sets the fields of    *)
(* ipcp_allowoptions that it sets together with those.  Address 0 is none. *)
(* The option list of a packet is a function from options to values.       *)
(*                                                                         *)
(* The old forms of the options are left out: ipcp_addci turns to them only *)
(* after a Reject, by when ipcp_cilen has left no room for them, so daemons *)
(* of this code never send one to each other.                              *)
(***************************************************************************)
EXTENDS Integers, Functions

CONSTANTS
    Addrs,     \* the addresses in use, 0 included
    MaxSlot    \* bound: MAX_STATES - 1

ASSUME IpcpAssumption == Addrs \subseteq Nat /\ 0 \in Addrs /\ MaxSlot \in Nat

CIs == {"addr", "vj"}
VJ == [maxslotindex : 0 .. MaxSlot, cflag : BOOLEAN]

Options == [neg : SUBSET CIs, ouraddr : Addrs, hisaddr : Addrs,
            accept_local : BOOLEAN, accept_remote : BOOLEAN, vj : VJ]

Value(o, c) == IF c = "addr" THEN o.ouraddr ELSE o.vj

\* Only addresses that are known can be insisted on.
ipcp_resetci(wo) ==
    [wo EXCEPT !.accept_local = @ \/ wo.ouraddr = 0,
               !.accept_remote = @ \/ wo.hisaddr = 0]

ipcp_addci(go) == [c \in go.neg |-> Value(go, c)]

----------------------------------------------------------------------------
\* The peer's answers to our request.

ipcp_ackci(go, r) == r = ipcp_addci(go)

\* A Nak of an address that was not asked for makes us ask for it; one of
\* compression does not.
ipcp_nakci(go, r) ==
    LET known == "addr" \in DOMAIN r /\ go.accept_local /\ r["addr"] # 0
        fewer == r["vj"].maxslotindex < go.vj.maxslotindex
        vj == [maxslotindex |-> IF fewer THEN r["vj"].maxslotindex ELSE go.vj.maxslotindex,
               cflag        |-> go.vj.cflag /\ r["vj"].cflag]
    IN  [go EXCEPT !.neg     = @ \cup (DOMAIN r \cap {"addr"}),
                   !.ouraddr = IF known THEN r["addr"] ELSE @,
                   !.vj      = IF "vj" \in DOMAIN r \cap go.neg THEN vj ELSE @]

\* A Reject of the address ends the link (die) before anything is compared.
RejectsAddress(go, r) == "addr" \in DOMAIN r \cap go.neg

RejGood(go, r) == DOMAIN r \subseteq go.neg /\ \A c \in DOMAIN r : r[c] = Value(go, c)

ipcp_rejci(go, r) == [go EXCEPT !.neg = @ \ DOMAIN r]

----------------------------------------------------------------------------
\* ipcp_reqci: the answer to the peer's request r.

Refused(wo, r) == DOMAIN r \ wo.neg

\* The value we would have instead.
Proposal(wo, r, c) ==
    IF c = "addr"
      THEN IF r[c] = 0 \/ ~ wo.accept_remote THEN wo.hisaddr ELSE r[c]
      ELSE [maxslotindex |-> IF r[c].maxslotindex > wo.vj.maxslotindex
                               THEN wo.vj.maxslotindex ELSE r[c].maxslotindex,
            cflag |-> r[c].cflag /\ wo.vj.cflag]

\* Mutant of Disagreed: an address that is not ours to give is accepted.
DisagreedVjOnly(wo, r) ==
    {c \in (DOMAIN r \cap wo.neg) \ {"addr"} : Proposal(wo, r, c) # r[c]}

Disagreed(wo, r) == {c \in DOMAIN r \cap wo.neg : Proposal(wo, r, c) # r[c]}

Rejected(wo, r, tough) == Refused(wo, r) \cup (IF tough THEN Disagreed(wo, r) ELSE {})

\* The peer sent no address and we want one (req_addr).
Prompts(wo, req, r, tough) ==
    req /\ "addr" \notin DOMAIN r /\ ~ tough /\ Rejected(wo, r, tough) = {}

Verdict(wo, req, r, tough) ==
    CASE Rejected(wo, r, tough) # {} -> "CONFREJ"
      [] Rejected(wo, r, tough) = {}
           /\ (Disagreed(wo, r) # {} \/ Prompts(wo, req, r, tough)) -> "CONFNAK"
      [] OTHER -> "CONFACK"

Nak(wo, req, r, tough) ==
    [c \in Disagreed(wo, r) \cup (IF Prompts(wo, req, r, tough) THEN {"addr"} ELSE {}) |->
        IF c \in DOMAIN r THEN Proposal(wo, r, c) ELSE wo.hisaddr]

Reply(wo, req, r, tough) ==
    CASE Verdict(wo, req, r, tough) = "CONFREJ" -> Restrict(r, Rejected(wo, r, tough))
      [] Verdict(wo, req, r, tough) = "CONFNAK" -> Nak(wo, req, r, tough)
      [] OTHER -> r

\* req_addr afterwards: it is asked for once, if that is all there is to say.
ReqAddr(wo, req, r, tough) ==
    req /\ ~ (Prompts(wo, req, r, tough) /\ Disagreed(wo, r) = {})

\* Mutant of HisOptions: the number of slots is our own too.
OwnSlots(wo, r) ==
    [c \in DOMAIN r \ Refused(wo, r) |-> IF c = "addr" THEN r[c] ELSE wo.vj]

\* ipcp_hisoptions.  The flag for connection ids is our own, whatever r says.
HisOptions(wo, r) ==
    [c \in DOMAIN r \ Refused(wo, r) |->
        IF c = "addr" THEN r[c] ELSE [r[c] EXCEPT !.cflag = wo.vj.cflag]]

\* ipcp_up: the peer's address, which is the configured one if it sent none.
Remote(wo, ho) == IF "addr" \in DOMAIN ho THEN ho["addr"] ELSE wo.hisaddr
============================================================================
