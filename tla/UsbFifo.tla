------------------------------ MODULE UsbFifo ------------------------------
(***************************************************************************)
(* What a message queue of usbQueueLib promises its users: messages come   *)
(* out once, in the order they went in, never more than depth at a time;   *)
(* a put that is refused leaves no trace, and nothing is taken from a      *)
(* queue that has been destroyed.                                          *)
(***************************************************************************)
EXTENDS Integers, Sequences

CONSTANTS Producers, Consumers, Depth, NoMsg

VARIABLES
    open,   \* the queue has not been destroyed
    fifo,   \* the messages in the queue, oldest first
    sent,   \* how many puts of each producer have been accepted
    got     \* the message each consumer got last

fvars == <<open, fifo, sent, got>>

Init ==
    /\ open = TRUE /\ fifo = << >>
    /\ sent = [p \in Producers |-> 0] /\ got = [c \in Consumers |-> NoMsg]

Put(p) ==
    /\ open /\ Len(fifo) < Depth
    /\ fifo' = Append(fifo, <<p, sent[p] + 1>>)
    /\ sent' = [sent EXCEPT ![p] = @ + 1]
    /\ UNCHANGED <<open, got>>

Get(c) ==
    /\ open /\ fifo # << >>
    /\ got' = [got EXCEPT ![c] = Head(fifo)]
    /\ fifo' = Tail(fifo)
    /\ UNCHANGED <<open, sent>>

Destroy == open /\ open' = FALSE /\ fifo' = << >> /\ UNCHANGED <<sent, got>>

Next ==
    \/ \E p \in Producers : Put(p)
    \/ \E c \in Consumers : Get(c)
    \/ Destroy

Spec == Init /\ [][Next]_fvars
=============================================================================
