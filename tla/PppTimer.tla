------------------------------ MODULE PppTimer ------------------------------
(***************************************************************************)
(* What the callout list of pppLib.c promises: a function queued for s     *)
(* seconds runs s seconds later unless it is cancelled before.             *)
(***************************************************************************)
EXTENDS Integers, Bags

CONSTANTS
    Funcs,      \* the (c_func, c_arg) pairs in use
    MaxDelay    \* bound: the longest delay asked for

VARIABLE pending   \* the bag of <<function, seconds to go>>

Init == pending = EmptyBag

Queue(f, s) == pending' = pending (+) SetToBag({<<f, s>>})

\* The earliest of f's callouts is dropped; one that is due can no longer be.
Cancel(f) ==
    \E s \in 1 .. MaxDelay :
        /\ BagIn(<<f, s>>, pending)
        /\ \A t \in 1 .. s - 1 : ~ BagIn(<<f, t>>, pending)
        /\ pending' = pending (-) SetToBag({<<f, s>>})

\* A second passes; it cannot while something is due.
Tick ==
    /\ \A p \in BagToSet(pending) : p[2] > 0
    /\ pending' = [q \in {<<p[1], p[2] - 1>> : p \in BagToSet(pending)} |->
                     pending[<<q[1], q[2] + 1>>]]

Run(f) ==
    /\ BagIn(<<f, 0>>, pending)
    /\ pending' = pending (-) SetToBag({<<f, 0>>})

Next ==
    \/ Tick
    \/ \E f \in Funcs : Cancel(f) \/ Run(f) \/ \E s \in 1 .. MaxDelay : Queue(f, s)

Spec == Init /\ [][Next]_pending
============================================================================
