--------------------------- MODULE UsbQueueProofs ---------------------------
(***************************************************************************)
(* Theorems about UsbQueue, for any number of writers and readers and any  *)
(* depth: its types, and that it implements UsbFifo.                       *)
(***************************************************************************)
EXTENDS UsbQueue, FiniteSetTheorems, SequenceTheorems, TLAPS

\* How many of the tasks in S the program counters f have at these places.
Count(f, S, where) == Cardinality({t \in S : f[t] \in where})

Locked == {"copy", "advance", "give", "release"}

\* The mutex of usbQueuePut and usbQueueGet is held by the one task that is
\* between OSS_MUTEX_TAKE and OSS_MUTEX_RELEASE.
Exclusion == \A t \in Tasks : pc[t] \in Locked <=> mutex = t

\* The puts that hold a slot they have not written, or one they have written and
\* not announced; the gets that hold a message they have not copied, or a slot
\* they have not given back.
Writing == Count(pc, Producers, {"lock", "copy"})
Written == Count(pc, Producers, {"advance", "give"})
Reading == Count(pc, Consumers, {"lock", "copy"})
Read    == Count(pc, Consumers, {"advance", "give"})

\* Each slot is free (counted in empty), stored, held by a put that has yet to
\* write it, or by a get that has yet to give it back.
SlotsCounted == Stored + empty + Writing + Read = Depth

\* The messages a put has made visible to the index in.
Behind == Stored - IF At(Producers, {"advance"}) = {} THEN 0 ELSE 1

\* in is the slot behind the last stored message.
InBehindStored == in = (First + Behind) % Depth

\* usbQueueDestroy leaves no task inside the ring.
DestroyedIdle == alive \/ \A t \in Tasks : pc[t] \in {"idle", "take", "try"}

\* A put is only called for a message the producer still has.
PutsBounded == \A p \in Producers : pc[p] # "idle" => sent[p] < MaxPuts

Inv ==
    /\ TypeOK /\ Exclusion /\ SlotsCounted /\ InBehindStored
    /\ DestroyedIdle /\ PutsBounded

----------------------------------------------------------------------------
(* Counting tasks and slots.                                               *)

(* Finitely many tasks are anywhere. *)
LEMMA CountType ==
  ASSUME NEW f, NEW S \in SUBSET Tasks, NEW where
  PROVE  IsFiniteSet({t \in S : f[t] \in where}) /\ Count(f, S, where) \in Nat
<1>1. IsFiniteSet(Tasks)
  BY QueueAssumption, FS_Union DEF Tasks
<1>2. {t \in S : f[t] \in where} \subseteq Tasks
  OBVIOUS
<1>3. QED
  BY <1>1, <1>2, FS_Subset, FS_CardinalityType DEF Count

(* When one task goes on, the tasks at a set of places lose it or gain it. *)
LEMMA CountMoves ==
  ASSUME NEW t \in Tasks, \A u \in Tasks \ {t} : pc'[u] = pc[u],
         NEW S \in SUBSET Tasks, NEW where
  PROVE  /\ t \notin S => Count(pc', S, where) = Count(pc, S, where)
         /\ t \in S =>
              /\ Count(pc', S, where) = Count(pc, S, where) + (IF pc'[t] \in where THEN 1 ELSE 0)
                                                        - (IF pc[t] \in where THEN 1 ELSE 0)
              /\ pc[t] \in where => Count(pc, S, where) > 0
<1> DEFINE A == {u \in S : pc[u] \in where}
           B == {u \in S : pc'[u] \in where}
<1>1. IsFiniteSet(A) /\ Cardinality(A) \in Nat
  BY CountType DEF Count
<1>2. \A u \in S : u # t => pc'[u] = pc[u]
  OBVIOUS
<1>3. /\ \A u \in S : u \in B <=> pc'[u] \in where
      /\ \A u \in S : u \in A <=> pc[u] \in where
      /\ A \subseteq S /\ B \subseteq S
  OBVIOUS
<1> HIDE DEF A, B
<1>4. ASSUME \/ t \notin S
             \/ pc[t] \in where /\ pc'[t] \in where
             \/ pc[t] \notin where /\ pc'[t] \notin where
      PROVE  A = B
  <2>1. \A u \in S : u \in A <=> u \in B
    BY <1>2, <1>3, <1>4
  <2>2. QED
    BY <2>1, <1>3
<1>5. ASSUME t \in S, pc[t] \notin where, pc'[t] \in where
      PROVE  Cardinality(B) = Cardinality(A) + 1
  <2>1. \A u \in S : u \in B <=> (u \in A \/ u = t)
    BY <1>2, <1>3, <1>5
  <2>2. B = A \cup {t} /\ t \notin A
    BY <2>1, <1>3, <1>5
  <2>3. QED
    BY <2>2, <1>1, FS_AddElement
<1>6. ASSUME t \in S, pc[t] \in where, pc'[t] \notin where
      PROVE  Cardinality(B) = Cardinality(A) - 1
  <2>1. \A u \in S : u \in B <=> (u \in A /\ u # t)
    BY <1>2, <1>3, <1>6
  <2>2. B = A \ {t} /\ t \in A
    BY <2>1, <1>3, <1>6
  <2>3. QED
    BY <2>2, <1>1, FS_RemoveElement
<1>7. ASSUME t \in S, pc[t] \in where PROVE Cardinality(A) > 0
  <2>1. Cardinality(A) # 0
    BY <1>1, <1>3, <1>7, FS_EmptySet
  <2>2. QED
    BY <2>1, <1>1
<1>8. t \notin S => Cardinality(B) = Cardinality(A)
  BY <1>4
<1>9. t \in S => Cardinality(B) = Cardinality(A) + (IF pc'[t] \in where THEN 1 ELSE 0)
                                               - (IF pc[t] \in where THEN 1 ELSE 0)
  BY <1>1, <1>4, <1>5, <1>6
<1>10. QED
  BY <1>7, <1>8, <1>9 DEF Count, A, B

(* An index advanced by at most the depth wraps at most once. *)
LEMMA WrapMod ==
  ASSUME NEW i \in Slots, NEW k \in 0 .. Depth
  PROVE  /\ (i + k) % Depth \in Slots
         /\ (i + k) % Depth = IF i + k < Depth THEN i + k ELSE i + k - Depth
  BY QueueAssumption DEF Slots

(* Taking the first of k + 1 places away, or adding a last one, wraps like the  *)
(* index does.                                                                 *)
LEMMA WrapNext ==
  ASSUME NEW i \in Slots, NEW k \in 0 .. Depth - 1
  PROVE  /\ Wrap(i + 1) \in Slots
         /\ (Wrap(i + 1) + k) % Depth = (i + (k + 1)) % Depth
         /\ Wrap(((i + k) % Depth) + 1) = (i + (k + 1)) % Depth
<1>1. Wrap(i + 1) \in Slots /\ k \in 0 .. Depth /\ k + 1 \in 0 .. Depth
  BY QueueAssumption DEF Wrap, Slots
<1>2. /\ (Wrap(i + 1) + k) % Depth =
             IF Wrap(i + 1) + k < Depth THEN Wrap(i + 1) + k ELSE Wrap(i + 1) + k - Depth
      /\ (i + (k + 1)) % Depth = IF i + (k + 1) < Depth THEN i + (k + 1) ELSE i + (k + 1) - Depth
      /\ (i + k) % Depth = IF i + k < Depth THEN i + k ELSE i + k - Depth
  BY <1>1, WrapMod
<1> DEFINE a == (Wrap(i + 1) + k) % Depth
           b == (i + (k + 1)) % Depth
           c == (i + k) % Depth
<1> HIDE DEF a, b, c
<1>3. a = b /\ Wrap(c + 1) = b
  <2>1. /\ a = IF Wrap(i + 1) + k < Depth THEN Wrap(i + 1) + k ELSE Wrap(i + 1) + k - Depth
        /\ b = IF i + (k + 1) < Depth THEN i + (k + 1) ELSE i + (k + 1) - Depth
        /\ c = IF i + k < Depth THEN i + k ELSE i + k - Depth
    BY <1>2 DEF a, b, c
  <2>2. QED
    BY <2>1, QueueAssumption DEF Wrap, Slots
<1>4. QED
  BY <1>1, <1>3 DEF a, b, c

(* Stored in terms of the four counts. *)
LEMMA StoredCounts ==
  /\ Stored = inUse + Reading + Written
  /\ Stored' = inUse' + Reading' + Written'
  BY DEF Stored, Reading, Written, Count, At

(* The four counts are numbers. *)
LEMMA CountsType ==
  /\ Writing \in Nat /\ Written \in Nat /\ Reading \in Nat /\ Read \in Nat
  /\ Writing' \in Nat /\ Written' \in Nat /\ Reading' \in Nat /\ Read' \in Nat
<1>1. Producers \in SUBSET Tasks /\ Consumers \in SUBSET Tasks
  BY DEF Tasks
<1>2. QED
  BY <1>1, CountType DEF Writing, Written, Reading, Read

(* What one step of a task does to the four counts. *)
LEMMA Moved ==
  ASSUME NEW t \in Tasks, \A u \in Tasks \ {t} : pc'[u] = pc[u]
  PROVE  /\ Writing \in Nat /\ Written \in Nat /\ Reading \in Nat /\ Read \in Nat
         /\ t \in Producers =>
              /\ t \notin Consumers /\ Reading' = Reading /\ Read' = Read
              /\ Writing' = Writing + (IF pc'[t] \in {"lock", "copy"} THEN 1 ELSE 0)
                                   - (IF pc[t] \in {"lock", "copy"} THEN 1 ELSE 0)
              /\ Written' = Written + (IF pc'[t] \in {"advance", "give"} THEN 1 ELSE 0)
                                   - (IF pc[t] \in {"advance", "give"} THEN 1 ELSE 0)
              /\ pc[t] \in {"lock", "copy"} => Writing > 0
              /\ pc[t] \in {"advance", "give"} => Written > 0
         /\ t \notin Producers =>
              /\ t \in Consumers /\ Writing' = Writing /\ Written' = Written
              /\ Reading' = Reading + (IF pc'[t] \in {"lock", "copy"} THEN 1 ELSE 0)
                                   - (IF pc[t] \in {"lock", "copy"} THEN 1 ELSE 0)
              /\ Read' = Read + (IF pc'[t] \in {"advance", "give"} THEN 1 ELSE 0)
                             - (IF pc[t] \in {"advance", "give"} THEN 1 ELSE 0)
              /\ pc[t] \in {"lock", "copy"} => Reading > 0
              /\ pc[t] \in {"advance", "give"} => Read > 0
<1>1. /\ Producers \in SUBSET Tasks /\ Consumers \in SUBSET Tasks
      /\ t \in Producers <=> t \notin Consumers
  BY QueueAssumption DEF Tasks
<1>2. Writing \in Nat /\ Written \in Nat /\ Reading \in Nat /\ Read \in Nat
  BY CountsType
<1>3. CASE t \in Producers
  <2>1. Reading' = Reading /\ Read' = Read
    BY <1>1, <1>3, CountMoves DEF Reading, Read
  <2>2. /\ Writing' = Writing + (IF pc'[t] \in {"lock", "copy"} THEN 1 ELSE 0)
                             - (IF pc[t] \in {"lock", "copy"} THEN 1 ELSE 0)
        /\ pc[t] \in {"lock", "copy"} => Writing > 0
    BY <1>1, <1>2, <1>3, CountMoves DEF Writing
  <2>3. /\ Written' = Written + (IF pc'[t] \in {"advance", "give"} THEN 1 ELSE 0)
                             - (IF pc[t] \in {"advance", "give"} THEN 1 ELSE 0)
        /\ pc[t] \in {"advance", "give"} => Written > 0
    BY <1>1, <1>2, <1>3, CountMoves DEF Written
  <2>4. QED
    BY <1>1, <1>2, <1>3, <2>1, <2>2, <2>3
<1>4. CASE t \notin Producers
  <2>1. Writing' = Writing /\ Written' = Written
    BY <1>1, <1>4, CountMoves DEF Writing, Written
  <2>2. /\ Reading' = Reading + (IF pc'[t] \in {"lock", "copy"} THEN 1 ELSE 0)
                             - (IF pc[t] \in {"lock", "copy"} THEN 1 ELSE 0)
        /\ pc[t] \in {"lock", "copy"} => Reading > 0
    BY <1>1, <1>2, <1>4, CountMoves DEF Reading
  <2>3. /\ Read' = Read + (IF pc'[t] \in {"advance", "give"} THEN 1 ELSE 0)
                       - (IF pc[t] \in {"advance", "give"} THEN 1 ELSE 0)
        /\ pc[t] \in {"advance", "give"} => Read > 0
    BY <1>1, <1>2, <1>4, CountMoves DEF Read
  <2>4. QED
    BY <1>1, <1>2, <1>4, <2>1, <2>2, <2>3
<1>5. QED
  BY <1>3, <1>4

(* A task that neither comes to nor leaves "advance" leaves First and the      *)
(* producer there, if any, as they are.                                       *)
LEMMA AdvanceSame ==
  ASSUME NEW t \in Tasks, \A u \in Tasks \ {t} : pc'[u] = pc[u],
         pc[t] # "advance", pc'[t] # "advance", NEW S \in SUBSET Tasks
  PROVE  At(S, {"advance"})' = At(S, {"advance"})
  BY DEF At

(* Under the mutex, no other task is at "advance". *)
LEMMA AdvanceAlone ==
  ASSUME Exclusion, NEW t \in Tasks, pc[t] \in Locked, NEW S \in SUBSET Tasks
  PROVE  At(S, {"advance"}) = {} <=> ~(t \in S /\ pc[t] = "advance")
<1>1. \A u \in Tasks : pc[u] = "advance" => u = t
  BY DEF Exclusion, Locked
<1>2. QED
  BY <1>1 DEF At

(* What a step from one place to the next does to the program counters. *)
LEMMA GotoFacts ==
  ASSUME TypeOK, NEW t \in Tasks, NEW from, NEW to \in Steps, Goto(t, from, to)
  PROVE  /\ pc[t] = from /\ pc'[t] = to
         /\ \A u \in Tasks \ {t} : pc'[u] = pc[u]
         /\ pc' \in [Tasks -> Steps]
  BY DEF TypeOK, Goto

(* The mutex excludes in the next state too. *)
LEMMA ExclusionStep ==
  ASSUME Inv, NEW t \in Tasks, \A u \in Tasks \ {t} : pc'[u] = pc[u],
         \/ (pc[t] \in Locked <=> pc'[t] \in Locked) /\ mutex' = mutex
         \/ pc[t] \notin Locked /\ pc'[t] \in Locked /\ mutex = NoTask /\ mutex' = t
         \/ pc[t] \in Locked /\ pc'[t] \notin Locked /\ mutex' = NoTask
  PROVE  Exclusion'
  BY QueueAssumption DEF Inv, Exclusion

----------------------------------------------------------------------------
(* What the steps of a put and a get do to the ring.                       *)

(* The steps that neither copy a message nor move an index. *)
Quiet(t) == Call(t) \/ TakeSem(t) \/ NotAvailable(t) \/ Lock(t) \/ Give(t) \/ Release(t)

(* They leave the stored messages where they are, the slots accounted for, and *)
(* each semaphore within the depth.                                           *)
LEMMA QuietStep ==
  ASSUME Inv, NEW t \in Tasks, Quiet(t)
  PROVE  /\ Stored' = Stored /\ First' = First /\ Behind' = Behind
         /\ SlotsCounted' /\ InBehindStored'
         /\ inUse' \in 0 .. Depth /\ empty' \in 0 .. Depth
         /\ \A u \in Tasks \ {t} : pc'[u] = pc[u]
         /\ pc' \in [Tasks -> Steps]
         /\ pc[t] \notin {"copy", "advance"} /\ pc'[t] # "advance"
         /\ messages' = messages /\ in' = in /\ out' = out /\ pMsg' = pMsg /\ alive' = alive
<1> USE DEF Inv
<1>0. Producers \in SUBSET Tasks /\ Consumers \in SUBSET Tasks
  BY DEF Tasks
<1>1. /\ messages' = messages /\ in' = in /\ out' = out /\ pMsg' = pMsg /\ alive' = alive
      /\ \E from \in Steps \ {"copy", "advance"}, to \in Steps \ {"advance"} : Goto(t, from, to)
  BY DEF Quiet, Call, TakeSem, NotAvailable, Lock, Give, Release, Steps
<1>2. /\ \A u \in Tasks \ {t} : pc'[u] = pc[u]
      /\ pc' \in [Tasks -> Steps]
      /\ pc[t] \notin {"copy", "advance"} /\ pc'[t] # "advance"
  BY <1>1, GotoFacts
<1>3. /\ Stored' = Stored
      /\ Stored' + empty' + Writing' + Read' = Stored + empty + Writing + Read
      /\ inUse' \in Nat /\ empty' \in Nat
  <2>1. inUse \in Nat /\ empty \in Nat
    BY QueueAssumption DEF TypeOK
  <2>2. Stored = inUse + Reading + Written /\ Stored' = inUse' + Reading' + Written'
    BY StoredCounts
  <2>3. ASSUME NEW from \in Steps, NEW to \in Steps, Goto(t, from, to)
        PROVE  pc[t] = from /\ pc'[t] = to
    BY <2>3, GotoFacts
  <2>4. CASE Call(t)
    <3>1. pc[t] = "idle" /\ pc'[t] \in {"take", "try"} /\ inUse' = inUse /\ empty' = empty
      BY <2>3, <2>4 DEF Call, Steps
    <3>2. QED
      BY <1>2, <2>1, <2>2, <3>1, Moved
  <2>5. CASE TakeSem(t)
    <3>1. /\ pc[t] \in {"take", "try"} /\ pc'[t] = "lock"
          /\ t \in Producers => empty > 0 /\ empty' = empty - 1 /\ inUse' = inUse
          /\ t \notin Producers => inUse > 0 /\ inUse' = inUse - 1 /\ empty' = empty
      BY <2>3, <2>5 DEF TakeSem, Steps
    <3>2. QED
      BY <1>2, <2>1, <2>2, <3>1, Moved
  <2>6. CASE NotAvailable(t)
    <3>1. pc[t] \in {"take", "try"} /\ pc'[t] = "idle" /\ inUse' = inUse /\ empty' = empty
      BY <2>3, <2>6 DEF NotAvailable, Steps
    <3>2. QED
      BY <1>2, <2>1, <2>2, <3>1, Moved
  <2>7. CASE Lock(t)
    <3>1. pc[t] = "lock" /\ pc'[t] = "copy" /\ inUse' = inUse /\ empty' = empty
      BY <2>3, <2>7 DEF Lock, Steps
    <3>2. QED
      BY <1>2, <2>1, <2>2, <3>1, Moved
  <2>8. CASE Give(t)
    <3>1. /\ pc[t] = "give" /\ pc'[t] = "release"
          /\ t \in Producers => inUse' = inUse + 1 /\ empty' = empty
          /\ t \notin Producers => empty' = empty + 1 /\ inUse' = inUse
      BY <2>3, <2>8 DEF Give, Steps
    <3>2. CASE t \in Producers
      BY <1>2, <2>1, <2>2, <3>1, <3>2, Moved
    <3>3. CASE t \notin Producers
      BY <1>2, <2>1, <2>2, <3>1, <3>3, Moved
    <3>4. QED
      BY <3>2, <3>3
  <2>9. CASE Release(t)
    <3>1. pc[t] = "release" /\ pc'[t] = "idle" /\ inUse' = inUse /\ empty' = empty
      BY <2>3, <2>9 DEF Release, Steps
    <3>2. QED
      BY <1>2, <2>1, <2>2, <3>1, Moved
  <2>10. QED
    BY <2>4, <2>5, <2>6, <2>7, <2>8, <2>9 DEF Quiet
<1>4. SlotsCounted'
  BY <1>3 DEF SlotsCounted
<1>5. inUse' \in 0 .. Depth /\ empty' \in 0 .. Depth
  <2>1. (inUse' + Reading' + Written') + empty' + Writing' + Read' = Depth
    BY <1>4, StoredCounts DEF SlotsCounted
  <2>2. /\ Writing' \in Nat /\ Written' \in Nat /\ Reading' \in Nat /\ Read' \in Nat
        /\ inUse' \in Nat /\ empty' \in Nat /\ Depth \in Nat
    BY <1>3, CountsType, QueueAssumption
  <2>3. ASSUME NEW a \in Nat, NEW b \in Nat, NEW c \in Nat, NEW d \in Nat, NEW e \in Nat,
               NEW f \in Nat, NEW n \in Nat, (a + b + c) + d + e + f = n
        PROVE  a \in 0 .. n /\ d \in 0 .. n
    BY <2>3
  <2>4. QED
    BY <2>1, <2>2, <2>3
<1>6. First' = First /\ Behind' = Behind
  BY <1>0, <1>1, <1>2, <1>3, AdvanceSame DEF First, Behind
<1>7. InBehindStored'
  BY <1>1, <1>6 DEF InBehindStored
<1>8. QED
  BY <1>1, <1>2, <1>3, <1>4, <1>5, <1>6, <1>7

(* Stored is a number of slots. *)
LEMMA StoredType ==
  ASSUME Inv
  PROVE  /\ Stored \in 0 .. Depth
         /\ Writing > 0 => Stored < Depth
         /\ First \in Slots
<1>1. Stored \in 0 .. Depth /\ (Writing > 0 => Stored < Depth)
  BY QueueAssumption, StoredCounts, CountsType DEF Inv, TypeOK, SlotsCounted
<1>2. First \in Slots
  BY QueueAssumption DEF Inv, TypeOK, First, Wrap, Slots
<1>3. QED
  BY <1>1, <1>2

(* A put copies its message into the slot behind the stored ones, which is free; *)
(* a get copies the first stored one.                                           *)
LEMMA CopyStep ==
  ASSUME Inv, NEW t \in Tasks, Copy(t)
  PROVE  /\ First = out /\ in = (out + Stored) % Depth
         /\ t \in Producers => Stored < Depth /\ Stored' = Stored + 1 /\ First' = out
         /\ t \notin Producers => Stored > 0 /\ Stored' = Stored - 1 /\ First' = Wrap(out + 1)
         /\ SlotsCounted' /\ InBehindStored'
         /\ pc[t] = "copy" /\ pc'[t] = "advance"
         /\ \A u \in Tasks \ {t} : pc'[u] = pc[u]
         /\ pc' \in [Tasks -> Steps]
<1> USE DEF Inv
<1>0. /\ Producers \in SUBSET Tasks /\ Consumers \in SUBSET Tasks
      /\ t \in Producers <=> t \notin Consumers
  BY QueueAssumption DEF Tasks
<1>1. /\ pc[t] = "copy" /\ pc'[t] = "advance"
      /\ \A u \in Tasks \ {t} : pc'[u] = pc[u]
      /\ pc' \in [Tasks -> Steps]
      /\ in' = in /\ out' = out /\ inUse' = inUse /\ empty' = empty
  BY GotoFacts DEF Copy, Steps
<1>2. At(Producers, {"advance"}) = {} /\ At(Consumers, {"advance"}) = {}
  BY <1>0, <1>1, AdvanceAlone DEF Locked
<1>3. /\ At(Producers, {"advance"})' = {} <=> t \notin Producers
      /\ At(Consumers, {"advance"})' = {} <=> t \in Producers
  BY <1>0, <1>1, <1>2 DEF At
<1>4. First = out /\ Behind = Stored
  BY <1>2, StoredType DEF First, Behind
<1>5. in = (out + Stored) % Depth
  BY <1>4 DEF InBehindStored
<1>6. /\ t \in Producers => Stored < Depth /\ Stored' = Stored + 1
      /\ t \notin Producers => Stored > 0 /\ Stored' = Stored - 1
      /\ Stored' + empty' + Writing' + Read' = Stored + empty + Writing + Read
  <2>1. /\ Stored = inUse + Reading + Written /\ Stored' = inUse + Reading' + Written'
        /\ inUse \in Nat /\ empty \in Nat /\ empty' = empty
    BY <1>1, StoredCounts, QueueAssumption DEF TypeOK
  <2>2. CASE t \in Producers
    BY <1>1, <2>1, <2>2, Moved, StoredType
  <2>3. CASE t \notin Producers
    <3>1. /\ Writing' = Writing /\ Written' = Written /\ Reading > 0
          /\ Reading' = Reading - 1 /\ Read' = Read + 1
      BY <1>1, <2>3, Moved
    <3>2. QED
      BY <2>1, <2>3, <3>1, CountsType
  <2>4. QED
    BY <2>2, <2>3
<1>7. SlotsCounted'
  BY <1>6 DEF SlotsCounted
<1>8. First' = IF t \in Producers THEN out ELSE Wrap(out + 1)
  BY <1>1, <1>3 DEF First, Wrap
<1>9. InBehindStored'
  <2>1. Behind' = IF t \in Producers THEN Stored ELSE Stored - 1
    BY <1>3, <1>6, StoredType DEF Behind
  <2>2. CASE t \in Producers
    BY <1>1, <1>5, <1>8, <2>1, <2>2 DEF InBehindStored
  <2>3. CASE t \notin Producers
    <3>1. out \in Slots /\ Stored - 1 \in 0 .. Depth - 1 /\ (Stored - 1) + 1 = Stored
      BY <1>6, <2>3, StoredType, QueueAssumption DEF TypeOK
    <3>2. (Wrap(out + 1) + (Stored - 1)) % Depth = (out + Stored) % Depth
      BY <3>1, WrapNext
    <3>3. QED
      BY <1>1, <1>5, <1>8, <2>1, <2>3, <3>2 DEF InBehindStored
  <2>4. QED
    BY <2>2, <2>3
<1>10. QED
  BY <1>1, <1>4, <1>5, <1>6, <1>7, <1>8, <1>9

(* Moving an index leaves the stored messages as they are. *)
LEMMA AdvanceStep ==
  ASSUME Inv, NEW t \in Tasks, Advance(t)
  PROVE  /\ Stored' = Stored /\ First' = First
         /\ SlotsCounted' /\ InBehindStored'
         /\ pc[t] = "advance" /\ pc'[t] = "give"
         /\ \A u \in Tasks \ {t} : pc'[u] = pc[u]
         /\ pc' \in [Tasks -> Steps]
         /\ in' \in Slots /\ out' \in Slots
<1> USE DEF Inv
<1>0. /\ Producers \in SUBSET Tasks /\ Consumers \in SUBSET Tasks
      /\ t \in Producers <=> t \notin Consumers
  BY QueueAssumption DEF Tasks
<1>1. /\ pc[t] = "advance" /\ pc'[t] = "give"
      /\ \A u \in Tasks \ {t} : pc'[u] = pc[u]
      /\ pc' \in [Tasks -> Steps]
      /\ inUse' = inUse /\ empty' = empty
      /\ t \in Producers => in' = Wrap(in + 1) /\ out' = out
      /\ t \notin Producers => in' = in /\ out' = Wrap(out + 1)
  BY GotoFacts DEF Advance, Steps
<1>2. /\ in \in Slots /\ out \in Slots /\ in' \in Slots /\ out' \in Slots
  BY <1>1, QueueAssumption DEF TypeOK, Wrap, Slots
<1>3. /\ At(Producers, {"advance"}) = {} <=> t \notin Producers
      /\ At(Consumers, {"advance"}) = {} <=> t \in Producers
  BY <1>0, <1>1, AdvanceAlone DEF Locked
<1>4. At(Producers, {"advance"})' = {} /\ At(Consumers, {"advance"})' = {}
  <2>1. \A u \in Tasks : pc[u] = "advance" => u = t
    BY <1>1 DEF Exclusion, Locked
  <2>2. QED
    BY <1>0, <1>1, <2>1 DEF At
<1>5. /\ Stored' = Stored /\ (t \in Producers => Stored > 0)
      /\ Stored' + empty' + Writing' + Read' = Stored + empty + Writing + Read
  <2>1. /\ Stored = inUse + Reading + Written /\ Stored' = inUse + Reading' + Written'
        /\ inUse \in Nat /\ empty \in Nat /\ empty' = empty
    BY <1>1, StoredCounts, QueueAssumption DEF TypeOK
  <2>2. CASE t \in Producers
    BY <1>1, <2>1, <2>2, Moved
  <2>3. CASE t \notin Producers
    BY <1>1, <2>1, <2>3, Moved
  <2>4. QED
    BY <2>2, <2>3
<1>6. SlotsCounted'
  BY <1>5 DEF SlotsCounted
<1>7. First' = First
  BY <1>1, <1>3, <1>4 DEF First
<1>8. InBehindStored'
  <2>1. Behind' = Stored /\ Behind = IF t \in Producers THEN Stored - 1 ELSE Stored
    BY <1>3, <1>4, <1>5, StoredType DEF Behind
  <2>2. in = (First + Behind) % Depth
    BY DEF InBehindStored
  <2>3. CASE t \in Producers
    <3>1. First \in Slots /\ Stored - 1 \in 0 .. Depth - 1 /\ (Stored - 1) + 1 = Stored
      BY <1>5, <2>3, StoredType, QueueAssumption
    <3>2. Wrap(((First + (Stored - 1)) % Depth) + 1) = (First + Stored) % Depth
      BY <3>1, WrapNext
    <3>3. QED
      BY <1>1, <1>5, <1>7, <2>1, <2>2, <2>3, <3>2 DEF InBehindStored
  <2>4. CASE t \notin Producers
    BY <1>1, <1>5, <1>7, <2>1, <2>2, <2>4 DEF InBehindStored
  <2>5. QED
    BY <2>3, <2>4
<1>9. QED
  BY <1>1, <1>2, <1>5, <1>6, <1>7, <1>8

----------------------------------------------------------------------------
(* The inductive invariant.                                                *)

(* usbQueueCreate makes an empty ring, all its slots free. *)
LEMMA InitInv == Init => Inv
<1> SUFFICES ASSUME Init PROVE Inv
  OBVIOUS
<1>1. TypeOK
  BY QueueAssumption DEF Init, TypeOK, Slots, Steps
<1>2. Exclusion /\ DestroyedIdle /\ PutsBounded
  BY QueueAssumption DEF Init, Exclusion, DestroyedIdle, PutsBounded, Locked, Tasks
<1>3. \A S \in SUBSET Tasks : \A where : "idle" \notin where => {t \in S : pc[t] \in where} = {}
  BY DEF Init
<1>4. Producers \in SUBSET Tasks /\ Consumers \in SUBSET Tasks
  BY DEF Tasks
<1>5. Writing = 0 /\ Written = 0 /\ Reading = 0 /\ Read = 0
  BY <1>3, <1>4, FS_EmptySet DEF Writing, Written, Reading, Read, Count
<1>6. Stored = 0
  BY <1>5, StoredCounts DEF Init
<1>7. SlotsCounted
  BY <1>5, <1>6, QueueAssumption DEF SlotsCounted, Init
<1>8. At(Producers, {"advance"}) = {} /\ At(Consumers, {"advance"}) = {}
  BY <1>3, <1>4 DEF At
<1>9. First = 0 /\ Behind = 0
  <2>1. First = out /\ Behind = Stored - 0
    BY <1>8 DEF First, Behind
  <2>2. out = 0
    BY DEF Init
  <2>3. QED
    BY <1>6, <2>1, <2>2
<1>10. InBehindStored
  BY <1>9, QueueAssumption, WrapMod DEF InBehindStored, Init, Slots
<1>11. QED
  BY <1>1, <1>2, <1>7, <1>10 DEF Inv

(* Every step keeps it. *)
LEMMA NextInv == Inv /\ [Next]_vars => Inv'
<1> SUFFICES ASSUME Inv, [Next]_vars PROVE Inv'
  OBVIOUS
<1> USE DEF Inv
<1>1. ASSUME NEW t \in Tasks, Quiet(t) PROVE Inv'
  <2>0. /\ SlotsCounted' /\ InBehindStored'
        /\ inUse' \in 0 .. Depth /\ empty' \in 0 .. Depth
        /\ \A u \in Tasks \ {t} : pc'[u] = pc[u]
        /\ pc' \in [Tasks -> Steps]
        /\ messages' = messages /\ in' = in /\ out' = out /\ pMsg' = pMsg /\ alive' = alive
    BY <1>1, QuietStep
  <2>1. /\ \/ pc[t] = "idle" /\ pc'[t] \in {"take", "try"} /\ mutex' = mutex /\ alive
           \/ pc[t] \in {"take", "try"} /\ pc'[t] = "lock" /\ mutex' = mutex /\ alive
           \/ pc[t] \in {"take", "try"} /\ pc'[t] = "idle" /\ mutex' = mutex
           \/ pc[t] = "lock" /\ pc'[t] = "copy" /\ mutex = NoTask /\ mutex' = t
           \/ pc[t] = "give" /\ pc'[t] = "release" /\ mutex' = mutex
           \/ pc[t] = "release" /\ pc'[t] = "idle" /\ mutex' = NoTask
        /\ sent' = IF pc[t] = "release" /\ t \in Producers THEN [sent EXCEPT ![t] = @ + 1] ELSE sent
        /\ pc[t] = "idle" /\ t \in Producers => sent[t] < MaxPuts
    <3>1. ASSUME NEW from \in Steps, NEW to \in Steps, Goto(t, from, to)
          PROVE  pc[t] = from /\ pc'[t] = to
      BY <3>1, GotoFacts
    <3>2. CASE Call(t)
      BY <3>1, <3>2 DEF Call, Steps
    <3>3. CASE TakeSem(t)
      BY <3>1, <3>3 DEF TakeSem, Steps
    <3>4. CASE NotAvailable(t)
      BY <3>1, <3>4 DEF NotAvailable, Steps
    <3>5. CASE Lock(t)
      BY <3>1, <3>5 DEF Lock, Steps
    <3>6. CASE Give(t)
      BY <3>1, <3>6 DEF Give, Steps
    <3>7. CASE Release(t)
      BY <3>1, <3>7 DEF Release, Steps
    <3>8. QED
      BY <1>1, <3>2, <3>3, <3>4, <3>5, <3>6, <3>7 DEF Quiet
  <2>2. sent' \in [Producers -> 0 .. MaxPuts]
    BY <2>1, QueueAssumption DEF TypeOK, PutsBounded
  <2>3. mutex' \in Tasks \cup {NoTask}
    BY <2>1 DEF TypeOK
  <2>4. TypeOK'
    BY <2>0, <2>2, <2>3 DEF TypeOK
  <2>5. Exclusion'
    BY <2>0, <2>1, ExclusionStep DEF Locked
  <2>6. DestroyedIdle'
    BY <2>0, <2>1 DEF DestroyedIdle
  <2>7. PutsBounded'
    <3> SUFFICES ASSUME NEW p \in Producers, pc'[p] # "idle" PROVE sent'[p] < MaxPuts
      BY DEF PutsBounded
    <3>1. CASE p = t
      BY <2>1, <3>1 DEF PutsBounded
    <3>2. CASE p # t
      <4>1. pc'[p] = pc[p] /\ sent'[p] = sent[p]
        BY <2>0, <2>1, <3>2 DEF Tasks, TypeOK
      <4>2. QED
        BY <4>1 DEF PutsBounded
    <3>3. QED
      BY <3>1, <3>2
  <2>8. QED
    BY <2>0, <2>4, <2>5, <2>6, <2>7
<1>2. ASSUME NEW t \in Tasks, Copy(t) PROVE Inv'
  <2>0. /\ SlotsCounted' /\ InBehindStored'
        /\ pc[t] = "copy" /\ pc'[t] = "advance"
        /\ \A u \in Tasks \ {t} : pc'[u] = pc[u]
        /\ pc' \in [Tasks -> Steps]
    BY <1>2, CopyStep
  <2>1. /\ alive' = alive /\ in' = in /\ out' = out /\ inUse' = inUse /\ empty' = empty
        /\ mutex' = mutex /\ sent' = sent
    BY <1>2 DEF Copy
  <2>2. messages' \in [Slots -> (Producers \X (1 .. MaxPuts)) \cup {NoMsg}]
    <3>1. CASE t \in Producers
      <4>1. sent[t] + 1 \in 1 .. MaxPuts
        BY <2>0, <3>1, QueueAssumption DEF PutsBounded, TypeOK
      <4>2. <<t, sent[t] + 1>> \in Producers \X (1 .. MaxPuts)
        BY <3>1, <4>1
      <4>3. messages' = [messages EXCEPT ![in] = <<t, sent[t] + 1>>]
        BY <1>2, <3>1 DEF Copy
      <4>4. QED
        BY <4>2, <4>3 DEF TypeOK
    <3>2. CASE t \notin Producers
      BY <1>2, <3>2 DEF Copy, TypeOK
    <3>3. QED
      BY <3>1, <3>2
  <2>3. pMsg' \in [Consumers -> (Producers \X (1 .. MaxPuts)) \cup {NoMsg}]
    BY <1>2 DEF Copy, TypeOK
  <2>4. TypeOK'
    BY <2>0, <2>1, <2>2, <2>3 DEF TypeOK
  <2>5. Exclusion'
    BY <2>0, <2>1, ExclusionStep DEF Locked
  <2>6. DestroyedIdle'
    BY <2>0, <2>1 DEF DestroyedIdle
  <2>7. PutsBounded'
    BY <2>0, <2>1 DEF PutsBounded, Tasks
  <2>8. QED
    BY <2>0, <2>4, <2>5, <2>6, <2>7
<1>3. ASSUME NEW t \in Tasks, Advance(t) PROVE Inv'
  <2>0. /\ SlotsCounted' /\ InBehindStored'
        /\ pc[t] = "advance" /\ pc'[t] = "give"
        /\ \A u \in Tasks \ {t} : pc'[u] = pc[u]
        /\ pc' \in [Tasks -> Steps]
        /\ in' \in Slots /\ out' \in Slots
    BY <1>3, AdvanceStep
  <2>1. /\ alive' = alive /\ messages' = messages /\ inUse' = inUse /\ empty' = empty
        /\ mutex' = mutex /\ sent' = sent /\ pMsg' = pMsg
    BY <1>3 DEF Advance
  <2>2. TypeOK'
    BY <2>0, <2>1 DEF TypeOK
  <2>3. Exclusion'
    BY <2>0, <2>1, ExclusionStep DEF Locked
  <2>4. DestroyedIdle'
    BY <2>0, <2>1 DEF DestroyedIdle
  <2>5. PutsBounded'
    BY <2>0, <2>1 DEF PutsBounded, Tasks
  <2>6. QED
    BY <2>0, <2>2, <2>3, <2>4, <2>5
<1>4. CASE Destroy
  BY <1>4 DEF Destroy, TypeOK, Exclusion, SlotsCounted, InBehindStored, DestroyedIdle, PutsBounded,
     Stored, Behind, First, Writing, Read, Count, At
<1>5. CASE UNCHANGED vars
  BY <1>5 DEF vars, TypeOK, Exclusion, SlotsCounted, InBehindStored, DestroyedIdle, PutsBounded,
     Stored, Behind, First, Writing, Read, Count, At
<1>6. QED
  BY <1>1, <1>2, <1>3, <1>4, <1>5 DEF Next, Step, Quiet

(* Inv holds in every state of the queue. *)
THEOREM Invariant == Spec => []Inv
  BY InitInv, NextInv, PTL DEF Spec

(* The variables of usbQueueLib keep their types; neither semaphore ever counts  *)
(* more than the depth, for any number of tasks and any depth.                  *)
THEOREM TypeCorrect == Spec => []TypeOK
<1>1. Inv => TypeOK
  BY DEF Inv
<1>2. QED
  BY <1>1, Invariant, PTL

----------------------------------------------------------------------------
(* The ring as a sequence.                                                 *)

Messages == (Producers \X (1 .. MaxPuts)) \cup {NoMsg}

\* The n messages of ring m from slot f on.
Ring(m, f, n) == [i \in 1 .. n |-> m[(f + i - 1) % Depth]]

(* A function on 1 .. n is a sequence of length n. *)
LEMMA FunctionIsSeq ==
  ASSUME NEW S, NEW n \in Nat, NEW f \in [1 .. n -> S]
  PROVE  f \in Seq(S) /\ Len(f) = n
  BY SeqDef

(* The messages of the ring are a sequence. *)
LEMMA RingSeq ==
  ASSUME NEW m \in [Slots -> Messages], NEW f \in Slots, NEW n \in 0 .. Depth
  PROVE  /\ Ring(m, f, n) \in Seq(Messages) /\ Len(Ring(m, f, n)) = n
         /\ \A i \in 1 .. n : /\ (f + (i - 1)) % Depth \in Slots
                             /\ Ring(m, f, n)[i] = m[(f + (i - 1)) % Depth]
<1>1. \A i \in 1 .. n : i - 1 \in 0 .. Depth /\ f + i - 1 = f + (i - 1)
  BY QueueAssumption DEF Slots
<1>2. \A i \in 1 .. n : (f + (i - 1)) % Depth \in Slots
  BY <1>1, WrapMod
<1>3. Ring(m, f, n) = [i \in 1 .. n |-> m[(f + (i - 1)) % Depth]]
  BY <1>1 DEF Ring
<1>4. Ring(m, f, n) \in [1 .. n -> Messages]
  BY <1>2, <1>3
<1>5. n \in Nat
  BY QueueAssumption
<1>6. QED
  BY <1>2, <1>3, <1>4, <1>5, FunctionIsSeq

(* Writing the slot behind n < Depth messages appends to them. *)
LEMMA RingPut ==
  ASSUME NEW m \in [Slots -> Messages], NEW k \in [Slots -> Messages],
         NEW f \in Slots, NEW n \in 0 .. Depth - 1, NEW x \in Messages,
         k[(f + n) % Depth] = x,
         \A j \in Slots \ {(f + n) % Depth} : k[j] = m[j]
  PROVE  Ring(k, f, n + 1) = Append(Ring(m, f, n), x)
<1>1. n \in 0 .. Depth /\ n + 1 \in 0 .. Depth
  BY QueueAssumption
<1> DEFINE q == Ring(m, f, n)
           r == Ring(k, f, n + 1)
<1>2. /\ q \in Seq(Messages) /\ Len(q) = n
      /\ \A i \in 1 .. n : (f + (i - 1)) % Depth \in Slots /\ q[i] = m[(f + (i - 1)) % Depth]
  BY <1>1, RingSeq
<1>3. /\ r \in Seq(Messages) /\ Len(r) = n + 1
      /\ \A i \in 1 .. n + 1 : r[i] = k[(f + (i - 1)) % Depth]
  BY <1>1, RingSeq
<1> HIDE DEF q, r
<1>4. /\ Append(q, x) \in Seq(Messages) /\ Len(Append(q, x)) = n + 1
      /\ \A i \in 1 .. n : Append(q, x)[i] = q[i]
      /\ Append(q, x)[n + 1] = x
  BY <1>2, AppendProperties
<1>5. ASSUME NEW i \in 1 .. n PROVE (f + (i - 1)) % Depth # (f + n) % Depth
  <2>1. i - 1 \in 0 .. Depth /\ i - 1 < n
    BY <1>1, QueueAssumption
  <2>2. /\ (f + (i - 1)) % Depth = IF f + (i - 1) < Depth THEN f + (i - 1) ELSE f + (i - 1) - Depth
        /\ (f + n) % Depth = IF f + n < Depth THEN f + n ELSE f + n - Depth
    BY <1>1, <2>1, WrapMod
  <2>3. ASSUME NEW a, NEW b,
               a = IF f + (i - 1) < Depth THEN f + (i - 1) ELSE f + (i - 1) - Depth,
               b = IF f + n < Depth THEN f + n ELSE f + n - Depth
        PROVE  a # b
    BY <1>1, <2>1, <2>3, QueueAssumption DEF Slots
  <2>4. QED
    BY <2>2, <2>3
<1>6. ASSUME NEW i \in 1 .. n + 1 PROVE r[i] = Append(q, x)[i]
  <2>1. CASE i \in 1 .. n
    BY <1>2, <1>3, <1>4, <1>5, <2>1
  <2>2. CASE i = n + 1
    <3>1. i - 1 = n
      BY <1>1, <2>2
    <3>2. QED
      BY <1>3, <1>4, <2>2, <3>1
  <2>3. i \in 1 .. n \/ i = n + 1
    <3>1. n \in Nat /\ i \in Nat /\ 1 <= i /\ i <= n + 1
      BY <1>1, QueueAssumption
    <3>2. QED
      BY <3>1
  <2>4. QED
    BY <2>1, <2>2, <2>3
<1>7. QED
  BY <1>3, <1>4, <1>6, SeqEqual DEF q, r

(* Skipping the first slot drops the head. *)
LEMMA RingGet ==
  ASSUME NEW m \in [Slots -> Messages], NEW f \in Slots, NEW n \in 1 .. Depth
  PROVE  /\ Ring(m, f, n) # << >>
         /\ Head(Ring(m, f, n)) = m[f]
         /\ Tail(Ring(m, f, n)) = Ring(m, Wrap(f + 1), n - 1)
<1>1. n \in 0 .. Depth /\ n - 1 \in 0 .. Depth /\ n \in Nat
  BY QueueAssumption
<1>2. Wrap(f + 1) \in Slots
  BY QueueAssumption DEF Wrap, Slots
<1> DEFINE q == Ring(m, f, n)
           r == Ring(m, Wrap(f + 1), n - 1)
<1>3. /\ q \in Seq(Messages) /\ Len(q) = n
      /\ \A i \in 1 .. n : q[i] = m[(f + (i - 1)) % Depth]
  BY <1>1, RingSeq
<1>4. /\ r \in Seq(Messages) /\ Len(r) = n - 1
      /\ \A i \in 1 .. n - 1 : r[i] = m[(Wrap(f + 1) + (i - 1)) % Depth]
  BY <1>1, <1>2, RingSeq
<1> HIDE DEF q, r
<1>5. q # << >>
  BY <1>1, <1>3, EmptySeq
<1>6. /\ Tail(q) \in Seq(Messages) /\ Len(Tail(q)) = n - 1
      /\ \A i \in 1 .. n - 1 : Tail(q)[i] = q[i + 1]
  BY <1>3, <1>5, HeadTailProperties
<1>7. Head(q) = m[f]
  <2>1. Head(q) = q[1]
    BY <1>3, <1>5
  <2>2. (f + (1 - 1)) % Depth = f
    <3>1. 1 - 1 \in 0 .. Depth /\ f + (1 - 1) = f /\ f < Depth
      BY QueueAssumption DEF Slots
    <3>2. QED
      BY <3>1, WrapMod
  <2>3. 1 \in 1 .. n
    BY <1>1
  <2>4. QED
    BY <1>3, <2>1, <2>2, <2>3
<1>8. ASSUME NEW i \in 1 .. n - 1 PROVE r[i] = Tail(q)[i]
  <2>1. i - 1 \in 0 .. Depth - 1 /\ (i - 1) + 1 = i /\ i + 1 \in 1 .. n /\ (i + 1) - 1 = i
    BY <1>1, QueueAssumption
  <2>2. (Wrap(f + 1) + (i - 1)) % Depth = (f + i) % Depth
    BY <2>1, WrapNext
  <2>3. q[i + 1] = m[(f + i) % Depth]
    BY <1>3, <2>1
  <2>4. QED
    BY <1>4, <1>6, <2>2, <2>3
<1>9. Tail(q) = r
  BY <1>4, <1>6, <1>8, SeqEqual
<1>10. QED
  BY <1>5, <1>7, <1>9 DEF q, r

----------------------------------------------------------------------------
(* The queue implements UsbFifo.                                           *)

(* Queued is the ring from First on. *)
LEMMA QueuedRing ==
  Queued = Ring(messages, First, Stored) /\ Queued' = Ring(messages', First', Stored')
  BY DEF Queued, Ring

(* A put that becomes visible is accepted; no other step accepts one. *)
LEMMA AcceptedStep ==
  ASSUME Inv, NEW t \in Tasks, \A u \in Tasks \ {t} : pc'[u] = pc[u],
         sent' = IF pc[t] = "release" /\ t \in Producers THEN [sent EXCEPT ![t] = @ + 1] ELSE sent,
         pc[t] = "release" => pc'[t] = "idle",
         pc[t] \in {"advance", "give"} => pc'[t] \in {"give", "release"},
         pc[t] \in {"idle", "take", "try", "lock"} => pc'[t] \notin {"advance", "give", "release"},
         pc[t] = "copy" => pc'[t] = "advance"
  PROVE  Accepted' = IF pc[t] = "copy" /\ t \in Producers
                     THEN [Accepted EXCEPT ![t] = @ + 1] ELSE Accepted
<1> DEFINE Add(place) == IF place \in {"advance", "give", "release"} THEN 1 ELSE 0
<1>1. \A p \in Producers : sent[p] \in Nat
  BY QueueAssumption DEF Inv, TypeOK
<1>2. /\ Accepted = [p \in Producers |-> sent[p] + Add(pc[p])]
      /\ Accepted' = [p \in Producers |-> sent'[p] + Add(pc'[p])]
  BY DEF Accepted
<1>3. ASSUME NEW p \in Producers, p # t PROVE sent'[p] + Add(pc'[p]) = sent[p] + Add(pc[p])
  BY <1>3 DEF Tasks, Inv, TypeOK
<1>4. ASSUME t \in Producers
      PROVE  /\ pc[t] = "copy" => sent'[t] + Add(pc'[t]) = sent[t] + Add(pc[t]) + 1
             /\ pc[t] # "copy" => sent'[t] + Add(pc'[t]) = sent[t] + Add(pc[t])
  <2>1. pc[t] \in Steps /\ sent[t] \in Nat
    BY <1>1, <1>4 DEF Inv, TypeOK
  <2>2. sent'[t] = IF pc[t] = "release" THEN sent[t] + 1 ELSE sent[t]
    BY <1>4 DEF Inv, TypeOK
  <2>3. QED
    BY <2>1, <2>2 DEF Steps
<1> HIDE DEF Add
<1>5. CASE pc[t] = "copy" /\ t \in Producers
  <2>1. [Accepted EXCEPT ![t] = @ + 1] =
          [p \in Producers |-> IF p = t THEN sent[t] + Add(pc[t]) + 1 ELSE sent[p] + Add(pc[p])]
    BY <1>2, <1>5
  <2>2. QED
    BY <1>2, <1>3, <1>4, <1>5, <2>1
<1>6. CASE ~(pc[t] = "copy" /\ t \in Producers)
  <2>1. \A p \in Producers : sent'[p] + Add(pc'[p]) = sent[p] + Add(pc[p])
    BY <1>3, <1>4, <1>6
  <2>2. QED
    BY <1>2, <1>6, <2>1
<1>7. QED
  BY <1>5, <1>6

(* What usbQueuePut and usbQueueGet do through tasks that interleave at every    *)
(* semaphore and index is what the abstract queue does in one step.             *)
LEMMA StepRefines == Inv /\ Inv' /\ [Next]_vars => [Fifo!Next]_(Fifo!fvars)
<1> SUFFICES ASSUME Inv, Inv', [Next]_vars PROVE [Fifo!Next]_(Fifo!fvars)
  OBVIOUS
<1>0. /\ messages \in [Slots -> Messages] /\ messages' \in [Slots -> Messages]
      /\ in \in Slots /\ out \in Slots /\ pc \in [Tasks -> Steps]
      /\ Stored \in 0 .. Depth /\ First \in Slots
  BY StoredType DEF Inv, TypeOK, Messages
<1>1. ASSUME NEW t \in Tasks, Quiet(t) PROVE UNCHANGED Fifo!fvars
  <2>1. /\ Stored' = Stored /\ First' = First
        /\ \A u \in Tasks \ {t} : pc'[u] = pc[u]
        /\ messages' = messages /\ pMsg' = pMsg /\ alive' = alive
        /\ pc[t] # "copy"
    BY <1>1, QuietStep
  <2>2. /\ sent' = IF pc[t] = "release" /\ t \in Producers THEN [sent EXCEPT ![t] = @ + 1] ELSE sent
        /\ pc[t] = "release" => pc'[t] = "idle"
        /\ pc[t] \in {"advance", "give"} => pc'[t] \in {"give", "release"}
        /\ pc[t] \in {"idle", "take", "try", "lock"} => pc'[t] \notin {"advance", "give", "release"}
    <3>1. ASSUME NEW from \in Steps, NEW to \in Steps, Goto(t, from, to)
          PROVE  pc[t] = from /\ pc'[t] = to
      BY <3>1, GotoFacts DEF Inv
    <3>2. CASE Call(t) \/ NotAvailable(t)
      BY <3>1, <3>2 DEF Call, NotAvailable, Steps
    <3>3. CASE TakeSem(t)
      BY <3>1, <3>3 DEF TakeSem, Steps
    <3>4. CASE Lock(t) \/ Give(t)
      BY <3>1, <3>4 DEF Lock, Give, Steps
    <3>5. CASE Release(t)
      BY <3>1, <3>5 DEF Release, Steps
    <3>6. QED
      BY <1>1, <3>2, <3>3, <3>4, <3>5 DEF Quiet
  <2>3. Accepted' = Accepted
    BY <2>1, <2>2, AcceptedStep
  <2>4. Queued' = Queued
    BY <2>1, QueuedRing
  <2>5. QED
    BY <2>1, <2>3, <2>4 DEF Fifo!fvars
<1>2. ASSUME NEW t \in Tasks, Copy(t) PROVE Fifo!Next
  <2>1. /\ First = out /\ in = (out + Stored) % Depth
        /\ t \in Producers => Stored < Depth /\ Stored' = Stored + 1 /\ First' = out
        /\ t \notin Producers => Stored > 0 /\ Stored' = Stored - 1 /\ First' = Wrap(out + 1)
        /\ pc[t] = "copy" /\ pc'[t] = "advance"
        /\ \A u \in Tasks \ {t} : pc'[u] = pc[u]
    BY <1>2, CopyStep
  <2>2. alive /\ alive' /\ sent' = sent
    BY <1>2, <2>1 DEF Copy, Inv, DestroyedIdle
  <2>3. Accepted' = IF t \in Producers THEN [Accepted EXCEPT ![t] = @ + 1] ELSE Accepted
    BY <2>1, <2>2, AcceptedStep
  <2>4. Queued \in Seq(Messages) /\ Len(Queued) = Stored
    BY <1>0, QueuedRing, RingSeq
  <2>5. CASE t \in Producers
    <3>1. messages' = [messages EXCEPT ![in] = <<t, sent[t] + 1>>] /\ pMsg' = pMsg
      BY <1>2, <2>5 DEF Copy
    <3>2. Accepted[t] = sent[t]
      BY <2>1, <2>5, QueueAssumption DEF Accepted, Inv, TypeOK
    <3>3. /\ messages'[in] = <<t, sent[t] + 1>>
          /\ \A j \in Slots \ {in} : messages'[j] = messages[j]
      BY <1>0, <3>1
    <3>4. <<t, sent[t] + 1>> \in Messages /\ Stored \in 0 .. Depth - 1
      BY <1>0, <2>1, <2>5, <3>3, QueueAssumption
    <3>5. Queued' = Append(Queued, <<t, Accepted[t] + 1>>)
      <4>1. /\ messages'[(out + Stored) % Depth] = <<t, sent[t] + 1>>
            /\ \A j \in Slots \ {(out + Stored) % Depth} : messages'[j] = messages[j]
        BY <2>1, <3>3
      <4>2. ASSUME NEW x \in Messages, messages'[(out + Stored) % Depth] = x
            PROVE  Ring(messages', out, Stored + 1) = Append(Ring(messages, out, Stored), x)
        BY <1>0, <3>4, <4>1, <4>2, RingPut
      <4>3. QED
        BY <2>1, <2>5, <3>2, <3>4, <4>1, <4>2, QueuedRing
    <3>6. Fifo!Put(t)
      BY <2>1, <2>2, <2>3, <2>4, <2>5, <3>1, <3>5 DEF Fifo!Put
    <3>7. QED
      BY <2>5, <3>6 DEF Fifo!Next
  <2>6. CASE t \notin Producers
    <3>1. pMsg' = [pMsg EXCEPT ![t] = messages[out]] /\ messages' = messages /\ t \in Consumers
      BY <1>2, <2>6 DEF Copy, Tasks
    <3>2. Stored \in 1 .. Depth
      BY <1>0, <2>1, <2>6, QueueAssumption
    <3>3. Queued # << >> /\ Head(Queued) = messages[out] /\ Queued' = Tail(Queued)
      BY <1>0, <2>1, <2>6, <3>1, <3>2, QueuedRing, RingGet
    <3>4. Fifo!Get(t)
      BY <2>2, <2>3, <2>6, <3>1, <3>3 DEF Fifo!Get
    <3>5. QED
      BY <3>1, <3>4 DEF Fifo!Next
  <2>7. QED
    BY <2>5, <2>6
<1>3. ASSUME NEW t \in Tasks, Advance(t) PROVE UNCHANGED Fifo!fvars
  <2>1. /\ Stored' = Stored /\ First' = First
        /\ pc[t] = "advance" /\ pc'[t] = "give"
        /\ \A u \in Tasks \ {t} : pc'[u] = pc[u]
    BY <1>3, AdvanceStep
  <2>2. messages' = messages /\ pMsg' = pMsg /\ alive' = alive /\ sent' = sent
    BY <1>3 DEF Advance
  <2>3. Accepted' = Accepted
    BY <2>1, <2>2, AcceptedStep
  <2>4. QED
    BY <2>1, <2>2, <2>3, QueuedRing DEF Fifo!fvars
<1>4. CASE Destroy
  <2>1. Accepted' = Accepted /\ pMsg' = pMsg /\ alive /\ alive' = FALSE
    BY <1>4 DEF Destroy, Accepted
  <2>2. Fifo!Destroy
    BY <2>1 DEF Fifo!Destroy
  <2>3. QED
    BY <2>2 DEF Fifo!Next
<1>5. CASE UNCHANGED vars
  BY <1>5 DEF vars, Fifo!fvars, Queued, First, Stored, At, Accepted
<1>6. QED
  BY <1>1, <1>2, <1>3, <1>4, <1>5 DEF Next, Step, Quiet

(* The ring with its two semaphores and its mutex is a first-in first-out queue   *)
(* of the depth asked for, whatever tasks use it: no message is lost, doubled,    *)
(* torn or overtaken.                                                            *)
THEOREM Refinement == Spec => IsFifo
<1>1. Init => Fifo!Init
  <2> SUFFICES ASSUME Init PROVE Fifo!Init
    OBVIOUS
  <2>1. Inv
    BY InitInv
  <2>2. Stored = 0
    <3>1. \A S \in SUBSET Tasks : \A where : "idle" \notin where => {t \in S : pc[t] \in where} = {}
      BY DEF Init
    <3>2. Written = 0 /\ Reading = 0
      BY <3>1, FS_EmptySet DEF Written, Reading, Count, Tasks
    <3>3. QED
      BY <3>2, StoredCounts DEF Init
  <2>3. Queued = << >>
    <3>1. Queued \in Seq(Messages) /\ Len(Queued) = 0
      BY <2>1, <2>2, StoredType, QueuedRing, RingSeq DEF Inv, TypeOK, Messages
    <3>2. QED
      BY <3>1, EmptySeq
  <2>4. Accepted = [p \in Producers |-> 0]
    BY DEF Init, Accepted, Tasks
  <2>5. QED
    BY <2>3, <2>4 DEF Init, Fifo!Init
<1>2. QED
  BY <1>1, StepRefines, Invariant, PTL DEF Spec, IsFifo, Fifo!Spec

=============================================================================
