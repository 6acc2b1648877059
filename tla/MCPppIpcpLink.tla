--------------------------- MODULE MCPppIpcpLink ---------------------------
(* Small instances of PppIpcpLink for TLC. *)
EXTENDS PppIpcpLink

CONSTANTS A, B

MCEnds == {A, B}

Conf(neg, our, his, local, remote, slots, cid) ==
    [neg |-> neg, ouraddr |-> our, hisaddr |-> his, accept_local |-> local,
     accept_remote |-> remote, vj |-> [maxslotindex |-> slots, cflag |-> cid]]

\* A: the server, with addresses for both ends or without one for the peer, that
\* may insist; few slots, or no addresses to negotiate.
ServerConfs ==
    {Conf(CIs, 1, his, FALSE, remote, 0, TRUE) : his \in {0, 2}, remote \in BOOLEAN}
        \cup {Conf({"vj"}, 1, 2, FALSE, FALSE, 1, TRUE)}

\* B: a client with an address of its own, which it may give up, or with none.
ClientConfs ==
    {Conf(neg, our, 1, local, FALSE, 1, TRUE) :
        neg \in {CIs, {"addr"}}, our \in {0, 3}, local \in BOOLEAN}
        \cup {Conf({}, 2, 1, FALSE, FALSE, 1, TRUE)}

MCConfs == {[e \in MCEnds |-> IF e = A THEN s ELSE c] : s \in ServerConfs, c \in ClientConfs}

\* B is configured with no_vjccomp.
VjConfs == {[e \in MCEnds |-> IF e = A THEN Conf(CIs, 1, 2, FALSE, FALSE, 1, TRUE)
                                       ELSE Conf(CIs, 2, 1, FALSE, FALSE, 1, FALSE)]}
============================================================================
