------------------------------ MODULE UsbQueue ------------------------------
(***************************************************************************)
(* usbQueueLib (src/target/src/usb/target/usbQueueLib.c): a ring of        *)
(* messages, a counting semaphore for its used slots, one for its free     *)
(* slots, and a mutex.  Any number of tasks put and get; each put and get  *)
(* is split where another task can run.  ossLib's semaphores are those of  *)
(* the VxWorks kernel.                                                     *)
(***************************************************************************)
EXTENDS Integers, Sequences, FiniteSets

CONSTANTS
    Producers, Consumers,   \* the tasks that put and the tasks that get
    Depth,                  \* the depth given to usbQueueCreate
    MaxPuts,                \* bound: the messages each producer has to put
    NoTask, NoMsg           \* the mutex is free; a slot never written

Tasks == Producers \cup Consumers

ASSUME QueueAssumption ==
    /\ Depth \in Nat \ {0} /\ MaxPuts \in Nat
    /\ IsFiniteSet(Producers) /\ IsFiniteSet(Consumers)
    /\ Producers \cap Consumers = {} /\ NoTask \notin Tasks
    /\ NoMsg \notin Producers \X Nat

VARIABLES
    alive,      \* usbQueueDestroy has not been called
    messages,   \* the ring
    in, out,    \* next slot to write, next slot to read
    inUse,      \* semaphore: messages that can be taken
    empty,      \* semaphore: slots that can be written
    mutex,      \* its owner
    pc,         \* where each task is in usbQueuePut or usbQueueGet; it waits for its
                \* semaphore at "take" (OSS_BLOCK) or at "try" (a time limit)
    sent,       \* the puts of each producer that have returned OK
    pMsg        \* what each consumer's last get copied out

vars == <<alive, messages, in, out, inUse, empty, mutex, pc, sent, pMsg>>

Slots == 0 .. Depth - 1

Steps == {"idle", "take", "try", "lock", "copy", "advance", "give", "release"}

\* usbQueueCreate, which refuses a depth below 1.
Init ==
    /\ alive = TRUE
    /\ messages = [i \in Slots |-> NoMsg] /\ in = 0 /\ out = 0
    /\ inUse = 0 /\ empty = Depth /\ mutex = NoTask
    /\ pc = [t \in Tasks |-> "idle"] 
    /\ sent = [p \in Producers |-> 0] /\ pMsg = [c \in Consumers |-> NoMsg]

Goto(t, from, to) == pc[t] = from /\ pc' = [pc EXCEPT ![t] = to]

\* A producer puts its next message, a consumer gets one.
Call(t) ==
    /\ alive
    /\ t \in Producers => sent[t] < MaxPuts
    /\ \E wait \in {"take", "try"} : Goto(t, "idle", wait)
    /\ UNCHANGED <<alive, messages, in, out, inUse, empty, mutex, sent, pMsg>>

\* OSS_SEM_TAKE of empty by a put, of inUse by a get.
TakeSem(t) ==
    /\ alive /\ \E wait \in {"take", "try"} : Goto(t, wait, "lock")
    /\ IF t \in Producers THEN empty > 0 /\ empty' = empty - 1 /\ UNCHANGED inUse
       ELSE inUse > 0 /\ inUse' = inUse - 1 /\ UNCHANGED empty
    /\ UNCHANGED <<alive, messages, in, out, mutex, sent, pMsg>>

\* The semaphore was not to be had in time, or has been deleted:
\* S_usbQueueLib_Q_NOT_AVAILABLE.
NotAvailable(t) ==
    /\ \/ ~alive /\ \E wait \in {"take", "try"} : Goto(t, wait, "idle")
       \/ (IF t \in Producers THEN empty ELSE inUse) = 0 /\ Goto(t, "try", "idle")
    /\ UNCHANGED <<alive, messages, in, out, inUse, empty, mutex, sent, pMsg>>

\* Mutant of Lock: the ring is changed without the mutex.
NoLock(t) ==
    /\ Goto(t, "lock", "copy")
    /\ UNCHANGED <<alive, messages, in, out, inUse, empty, mutex, sent, pMsg>>

\* OSS_MUTEX_TAKE
Lock(t) ==
    /\ mutex = NoTask /\ mutex' = t
    /\ Goto(t, "lock", "copy")
    /\ UNCHANGED <<alive, messages, in, out, inUse, empty, sent, pMsg>>

Copy(t) ==
    /\ Goto(t, "copy", "advance")
    /\ IF t \in Producers
       THEN messages' = [messages EXCEPT ![in] = <<t, sent[t] + 1>>] /\ UNCHANGED pMsg
       ELSE pMsg' = [pMsg EXCEPT ![t] = messages[out]] /\ UNCHANGED messages
    /\ UNCHANGED <<alive, in, out, inUse, empty, mutex, sent>>

\* Mutant of Wrap: the index wraps one slot late.
WrapLate(i) == IF i > Depth THEN 0 ELSE i

\* if (++in == max) in = 0;
Wrap(i) == IF i = Depth THEN 0 ELSE i

Advance(t) ==
    /\ Goto(t, "advance", "give")
    /\ IF t \in Producers THEN in' = Wrap(in + 1) /\ UNCHANGED out
       ELSE out' = Wrap(out + 1) /\ UNCHANGED in
    /\ UNCHANGED <<alive, messages, inUse, empty, mutex, sent, pMsg>>

\* Mutant of Give: readers are only woken when the queue was empty.
GiveFirst(t) ==
    /\ Goto(t, "give", "release")
    /\ IF t \in Producers
       THEN inUse' = (IF inUse = 0 THEN 1 ELSE inUse) /\ UNCHANGED empty
       ELSE empty' = empty + 1 /\ UNCHANGED inUse
    /\ UNCHANGED <<alive, messages, in, out, mutex, sent, pMsg>>

\* Mutant of Give: a get does not give its slot back.
GiveNoSlot(t) ==
    /\ Goto(t, "give", "release")
    /\ inUse' = inUse + (IF t \in Producers THEN 1 ELSE 0)
    /\ UNCHANGED <<alive, messages, in, out, empty, mutex, sent, pMsg>>

\* OSS_SEM_GIVE of inUse by a put, of empty by a get.
Give(t) ==
    /\ Goto(t, "give", "release")
    /\ IF t \in Producers THEN inUse' = inUse + 1 /\ UNCHANGED empty
       ELSE empty' = empty + 1 /\ UNCHANGED inUse
    /\ UNCHANGED <<alive, messages, in, out, mutex, sent, pMsg>>

\* OSS_MUTEX_RELEASE, and the call returns OK.
Release(t) ==
    /\ Goto(t, "release", "idle")
    /\ mutex' = NoTask
    /\ sent' = IF t \in Producers THEN [sent EXCEPT ![t] = @ + 1] ELSE sent
    /\ UNCHANGED <<alive, messages, in, out, inUse, empty, pMsg>>

\* usbQueueDestroy.  Its caller sees to it that no task is past its semaphore;
\* tasks may be waiting for one.
Destroy ==
    /\ alive /\ alive' = FALSE
    /\ \A t \in Tasks : pc[t] \in {"idle", "take", "try"}
    /\ UNCHANGED <<messages, in, out, inUse, empty, mutex, pc, sent, pMsg>>

Step(t) ==
    \/ TakeSem(t) \/ NotAvailable(t) \/ Lock(t) \/ Copy(t)
    \/ Advance(t) \/ Give(t) \/ Release(t)

Next == Destroy \/ \E t \in Tasks : Call(t) \/ Step(t)

Spec == Init /\ [][Next]_vars

\* A task that can run does; the semaphores are SEM_Q_FIFO, so one that waits
\* for a semaphore that is given again and again gets it; and the readers of a
\* queue read it in a loop.
Fairness ==
    /\ \A t \in Tasks : WF_vars(Step(t)) /\ SF_vars(TakeSem(t)) /\ SF_vars(Lock(t))
    /\ \A c \in Consumers : WF_vars(Call(c))

LiveSpec == Spec /\ Fairness

----------------------------------------------------------------------------
At(S, where) == {t \in S : pc[t] \in where}

\* The first message that no get has copied, and how many there are.
First == IF At(Consumers, {"advance"}) = {} THEN out ELSE Wrap(out + 1)

Stored ==
    inUse + Cardinality(At(Consumers, {"lock", "copy"}))
          + Cardinality(At(Producers, {"advance", "give"}))

Queued == [i \in 1 .. Stored |-> messages[(First + i - 1) % Depth]]

Accepted == [p \in Producers |->
    sent[p] + IF pc[p] \in {"advance", "give", "release"} THEN 1 ELSE 0]

Fifo == INSTANCE UsbFifo WITH
    open <- alive,
    fifo <- IF alive THEN Queued ELSE << >>,
    sent <- Accepted,
    got <- pMsg

----------------------------------------------------------------------------
\* Every variable of the queue keeps its type; neither semaphore counts more
\* than there are slots.
TypeOK ==
    /\ alive \in BOOLEAN
    /\ messages \in [Slots -> (Producers \X (1 .. MaxPuts)) \cup {NoMsg}]
    /\ in \in Slots /\ out \in Slots
    /\ inUse \in 0 .. Depth /\ empty \in 0 .. Depth
    /\ mutex \in Tasks \cup {NoTask}
    /\ pc \in [Tasks -> Steps]
    /\ sent \in [Producers -> 0 .. MaxPuts]
    /\ pMsg \in [Consumers -> (Producers \X (1 .. MaxPuts)) \cup {NoMsg}]

\* usbQueuePut and usbQueueGet on a ring shared by several writers and readers
\* act as one first-in first-out queue of the depth asked for: no message is
\* lost, doubled, torn or overtaken, and a put that returns an error put nothing.
IsFifo == Fifo!Spec

\* A put that is accepted gives inUse whatever the tasks around it do: its
\* message reaches a reader, unless the queue is destroyed.
Delivered ==
    \A p \in Producers, k \in 1 .. MaxPuts :
        (pc[p] = "release" /\ sent[p] = k - 1) ~> (~alive \/ \E c \in Consumers : pMsg[c] = <<p, k>>)

\* A usbQueuePut that waits for a slot returns, with OSS_BLOCK too: gets give
\* their slots back, and usbQueueDestroy releases those that still wait.
PutReturns == \A p \in Producers : (pc[p] = "take") ~> (pc[p] = "idle")
=============================================================================
