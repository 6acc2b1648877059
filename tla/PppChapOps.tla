---------------------------- MODULE PppChapOps ----------------------------
(***************************************************************************)
(* CHAP (src/vxworks_test/netinet/ppp/chap.c): the client that answers the *)
(* peer's challenges and the server that challenges the peer, one operator *)
(* per C function, from a chap_state record to the record it leaves.       *)
(*                                                                         *)
(* chal, resp and rech count the pending callouts of ChapChallengeTimeout, *)
(* ChapResponseTimeout and ChapRechallenge.  said is what the operation    *)
(* reported to auth.c; what auth.c does with it does not depend on the     *)
(* changes the operation makes to the CHAP state after the call.  typed is *)
(* the sides whose digest type has ever been set.  Hashes and ids are      *)
(* abstracted to the outcome of comparing them.                            *)
(***************************************************************************)
EXTENDS Integers

CONSTANTS
    MaxChal,       \* CHAP_DEFTRANSMITS
    Rechallenge    \* chal_interval # 0

ASSUME ChapAssumption == MaxChal \in Nat \ {0} /\ Rechallenge \in BOOLEAN

ClientStates == {"INITIAL", "CLOSED", "PENDING", "LISTEN", "RESPONSE", "OPEN"}
ServerStates == {"INITIAL", "CLOSED", "PENDING", "INITIAL_CHAL", "OPEN",
                 "RECHALLENGE", "BADAUTH"}
Challenging == {"INITIAL_CHAL", "RECHALLENGE"}
Reports == {"peer_success", "peer_fail", "withpeer_success"}

CHAP == [client : ClientStates, server : ServerStates, transmits : 0 .. MaxChal,
         chal : Nat, resp : Nat, rech : Nat, typed : SUBSET {"client", "server"},
         said : SUBSET Reports]

ChapInit == [client |-> "INITIAL", server |-> "INITIAL", transmits |-> 0,
             chal |-> 0, resp |-> 0, rech |-> 0, typed |-> {}, said |-> {}]

\* ppp_untimeout drops one matching callout, if there is one.
Cancel(n) == IF n > 0 THEN n - 1 ELSE 0

Say(c, r) == [c EXCEPT !.said = @ \cup {r}]
Client(c, s) == [c EXCEPT !.client = s]
Server(c, s) == [c EXCEPT !.server = s]

ChapSendChallenge(c) == [c EXCEPT !.chal = @ + 1, !.transmits = @ + 1]
ChapGenChallenge(c) == [c EXCEPT !.transmits = 0]
Challenge(c, s) == Server(ChapSendChallenge(ChapGenChallenge(c)), s)
ChapSendResponse(c) == [Client(c, "RESPONSE") EXCEPT !.resp = @ + 1]
Typed(c, side) == [c EXCEPT !.typed = @ \cup {side}]
ArmRechallenge(c) == IF Rechallenge THEN [c EXCEPT !.rech = @ + 1] ELSE c

----------------------------------------------------------------------------
ChapAuthWithPeer(c) ==
    Client(Typed(c, "client"),
           IF c.client \in {"INITIAL", "PENDING"} THEN "PENDING" ELSE "LISTEN")

ChapAuthPeer(c) ==
    LET k == Typed(c, "server")
    IN  IF k.server \in {"INITIAL", "PENDING"} THEN Server(k, "PENDING")
                                               ELSE Challenge(k, "INITIAL_CHAL")

ChapLowerUp(c) ==
    LET k == CASE c.client = "INITIAL" -> Client(c, "CLOSED")
               [] c.client = "PENDING" -> Client(c, "LISTEN")
               [] OTHER                -> c
    IN  CASE k.server = "INITIAL" -> Server(k, "CLOSED")
          [] k.server = "PENDING" -> Challenge(k, "INITIAL_CHAL")
          [] OTHER                -> k

\* Mutant of ChapLowerDown: the challenge's callout stays queued.
LowerDownKeepsChal(c) ==
    [c EXCEPT
        !.rech = IF c.server = "OPEN" /\ Rechallenge THEN Cancel(@) ELSE @,
        !.resp = IF c.client = "RESPONSE" THEN Cancel(@) ELSE @,
        !.client = "INITIAL", !.server = "INITIAL"]

ChapLowerDown(c) ==
    [c EXCEPT
        !.chal = IF c.server \in Challenging THEN Cancel(@) ELSE @,
        !.rech = IF c.server = "OPEN" /\ Rechallenge THEN Cancel(@) ELSE @,
        !.resp = IF c.client = "RESPONSE" THEN Cancel(@) ELSE @,
        !.client = "INITIAL", !.server = "INITIAL"]

ChapProtocolReject(c) ==
    ChapLowerDown(IF c.server \in {"INITIAL", "CLOSED"} THEN c
                                                        ELSE Say(c, "peer_fail"))

----------------------------------------------------------------------------
\* Callouts; the expired one has left the list.

ChapChallengeTimeout(c) ==
    LET k == [c EXCEPT !.chal = Cancel(@)]
    IN  CASE k.server \notin Challenging  -> k
          [] k.server \in Challenging /\ k.transmits >= MaxChal ->
                Say(Server(k, "BADAUTH"), "peer_fail")
          [] OTHER -> ChapSendChallenge(k)

ChapResponseTimeout(c) ==
    LET k == [c EXCEPT !.resp = Cancel(@)]
    IN  IF k.client # "RESPONSE" THEN k ELSE ChapSendResponse(k)

ChapRechallenge(c) ==
    LET k == [c EXCEPT !.rech = Cancel(@)]
    IN  IF k.server # "OPEN" THEN k
                             ELSE ArmRechallenge(Challenge(k, "RECHALLENGE"))

----------------------------------------------------------------------------
\* Packets.  matches: the id is that of the last challenge sent; good: the
\* secret is known and the two hashes are equal.  A side in state INITIAL also
\* takes packets, but without a digest type it has no hash to send or to find good.

ChapReceiveChallenge(c) ==
    LET k == IF c.client = "RESPONSE" THEN [c EXCEPT !.resp = Cancel(@)] ELSE c
    IN  IF c.client \in {"CLOSED", "PENDING"} \/ "client" \notin c.typed
          THEN c ELSE ChapSendResponse(k)

ChapReceiveResponse(c, matches, good) ==
    LET k == [c EXCEPT !.chal = Cancel(@)]
        s == IF c.server = "INITIAL_CHAL" THEN Say(k, "peer_success") ELSE k
    IN  IF c.server \in {"CLOSED", "PENDING", "OPEN", "BADAUTH"} \/ ~ matches THEN c
        ELSE IF good /\ "server" \in c.typed THEN ArmRechallenge(Server(s, "OPEN"))
        ELSE Say(Server(k, "BADAUTH"), "peer_fail")

ChapReceiveSuccess(c) ==
    IF c.client # "RESPONSE" THEN c
    ELSE Say(Client([c EXCEPT !.resp = Cancel(@)], "OPEN"), "withpeer_success")

ChapReceiveFailure(c) ==
    IF c.client # "RESPONSE" THEN c ELSE [c EXCEPT !.resp = Cancel(@)]
============================================================================
