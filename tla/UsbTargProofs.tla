--------------------------- MODULE UsbTargProofs ---------------------------
(***************************************************************************)
(* Theorems about UsbTarg, for any number of refused submissions, bus      *)
(* errors and transfers given up, any packet size and any lengths.         *)
(***************************************************************************)
EXTENDS UsbTarg, FiniteSetTheorems, TLAPS

\* A channel in the middle of a call: its status may be ERROR.
Channel ==
    [attached : BOOLEAN, pending : [Phases -> BOOLEAN], linked : SUBSET Erps,
     dataPtr : BOOLEAN, lost : BOOLEAN, owes : {"no", "any", "status"},
     answer : {"none", "pending", "done", "stalled"},
     pipe : BOOLEAN, dataToggle : 0 .. 1, next : 0 .. 1, hardware : 0 .. 1,
     host : 0 .. 1, moved : 0 .. MaxMoved, drift : BOOLEAN, faults : 0 .. MaxFaults,
     canceling : {"no", "pipe", "channel"}, status : {"OK", "ERROR"}]

\* OnePhase without counting ERPs, with what ties a payload to the response it is for.
Clean(c) ==
    /\ \A x, y \in c.linked \cap ControlErps : x = y
    /\ c.owes # "no" => c.linked \cap Phases = {}
    /\ "payload" \in c.linked => c.owes = "status"
    /\ \A e \in Phases : e \in c.linked => c.pending[e]
    /\ Cardinality(Stranded(c)) <= c.faults
    /\ c.lost => c.faults # 0

\* Responsive, and also while only the bulk pipe is destroyed.
Heard(c) ==
    c.attached /\ c.canceling # "channel" /\ c.faults = 0 =>
        c.linked \cap ControlErps # {} \/ c.owes # "no"

\* A bulk ERP has its pipe, packets are moved by an ERP in progress, and a detached
\* channel has nothing.
Owned(c) ==
    /\ "bulk" \in c.linked => c.pipe
    /\ "next" \in c.linked => "bulk" \in c.linked
    /\ "bulk" \notin c.linked => c.moved = 0
    /\ ~c.attached => c.linked = {} /\ c.canceling = "no" /\ ~c.lost

\* The toggles agree, n packets being counted in the pipe's later.
Sync(c, n) ==
    c.pipe /\ ~c.drift =>
        /\ "next" \notin c.linked
        /\ c.host = (c.dataToggle + n) % 2
        /\ "bulk" \in c.linked => c.hardware = c.host

\* The pipe's toggle will be the host's once the ERP in progress is called back for.
Tracked(c, b) == Sync(c, IF b.erp = "bulk" THEN Packets(b) ELSE c.moved)

\* The TCD's task never calls back for a canceled ERP or one that waits; a Setup ERP
\* that is OK holds a packet; the packets of an ERP that has ended are in its lengths.
CallbackOK ==
    /\ cb.result # "ERP_CANCELED" /\ cb.erp # "next"
    /\ cb.erp = "setup" /\ cb.result = "OK" => request # NoReq
    /\ cb.erp = "bulk" => targ.moved = 0 /\ "bulk" \in targ.linked

Inv ==
    /\ TypeOK /\ Clean(targ) /\ Heard(targ) /\ Owned(targ) /\ Tracked(targ, cb)
    /\ CallbackOK

----------------------------------------------------------------------------
(* Counting the flags that refusals leave behind.                          *)

(* A set of flags has a size, and it grows by one with one flag. *)
LEMMA CountFlags ==
  ASSUME NEW S \in SUBSET Phases, NEW T \in SUBSET Phases
  PROVE  /\ Cardinality(S) \in Nat
         /\ Cardinality(S) = 0 <=> S = {}
         /\ T \subseteq S => Cardinality(T) <= Cardinality(S)
         /\ \A e \in Phases : T \subseteq S \cup {e} => Cardinality(T) <= Cardinality(S) + 1
<1>1. IsFiniteSet(Phases)
  <2>1. IsFiniteSet({}) /\ IsFiniteSet({"setup"}) /\ IsFiniteSet({"data"}) /\ IsFiniteSet({"status"})
    BY FS_EmptySet, FS_Singleton
  <2>2. IsFiniteSet({"setup"} \cup {"data"})
    BY <2>1, FS_Union
  <2>3. IsFiniteSet(({"setup"} \cup {"data"}) \cup {"status"})
    BY <2>1, <2>2, FS_Union
  <2>4. Phases = ({"setup"} \cup {"data"}) \cup {"status"}
    BY DEF Phases
  <2>5. QED
    BY <2>3, <2>4
<1>2. IsFiniteSet(S) /\ IsFiniteSet(T)
  BY <1>1, FS_Subset
<1>3. Cardinality(S) \in Nat /\ (Cardinality(S) = 0 <=> S = {})
  BY <1>2, FS_CardinalityType, FS_EmptySet
<1>4. T \subseteq S => Cardinality(T) <= Cardinality(S)
  BY <1>2, FS_Subset
<1>5. ASSUME NEW e \in Phases, T \subseteq S \cup {e}
      PROVE  Cardinality(T) <= Cardinality(S) + 1
  <2>1. /\ IsFiniteSet(S \cup {e})
        /\ Cardinality(S \cup {e}) = IF e \in S THEN Cardinality(S) ELSE Cardinality(S) + 1
    BY <1>2, FS_AddElement
  <2>2. Cardinality(T) <= Cardinality(S \cup {e}) /\ Cardinality(T) \in Nat
    BY <1>2, <1>5, <2>1, FS_Subset, FS_CardinalityType
  <2>3. QED
    BY <1>3, <2>1, <2>2
<1>6. QED
  BY <1>3, <1>4, <1>5

(* As many flags at most, refusals not fewer. *)
LEMMA FlagsBound ==
  ASSUME NEW c \in Channel, NEW d \in Channel, Cardinality(Stranded(c)) <= c.faults,
         \/ Stranded(d) \subseteq Stranded(c) /\ d.faults = c.faults
         \/ \E e \in Phases : Stranded(d) \subseteq Stranded(c) \cup {e} /\ d.faults = c.faults + 1
  PROVE  Cardinality(Stranded(d)) <= d.faults
<1>1. Stranded(c) \in SUBSET Phases /\ Stranded(d) \in SUBSET Phases
  BY DEF Stranded
<1>2. Cardinality(Stranded(c)) \in Nat /\ Cardinality(Stranded(d)) \in Nat
  BY <1>1, CountFlags
<1>3. c.faults \in Int /\ d.faults \in Int
  BY TargAssumption DEF Channel
<1>4. CASE Stranded(d) \subseteq Stranded(c) /\ d.faults = c.faults
  <2>1. Cardinality(Stranded(d)) <= Cardinality(Stranded(c))
    BY <1>1, <1>4, CountFlags
  <2>2. QED
    BY <1>2, <1>3, <1>4, <2>1
<1>5. ASSUME NEW e \in Phases, Stranded(d) \subseteq Stranded(c) \cup {e}, d.faults = c.faults + 1
      PROVE  Cardinality(Stranded(d)) <= d.faults
  <2>1. Cardinality(Stranded(d)) <= Cardinality(Stranded(c)) + 1
    BY <1>1, <1>5, CountFlags
  <2>2. QED
    BY <1>2, <1>3, <1>5, <2>1
<1>6. QED
  BY <1>4, <1>5

(* Without refusals no flag is without its ERP. *)
LEMMA NoFlags ==
  ASSUME NEW c \in Channel, Cardinality(Stranded(c)) <= c.faults, c.faults = 0
  PROVE  Stranded(c) = {}
<1>1. Stranded(c) \in SUBSET Phases
  BY DEF Stranded
<1>2. Cardinality(Stranded(c)) \in Nat /\ (Cardinality(Stranded(c)) = 0 <=> Stranded(c) = {})
  BY <1>1, CountFlags
<1>3. QED
  BY <1>2

----------------------------------------------------------------------------
(* What the building blocks of usbTargLib.c do to a channel.               *)

\* The channel before and after differ in their control pipe only.
SameBulk(c, d) ==
    /\ "bulk" \in d.linked <=> "bulk" \in c.linked
    /\ "next" \in d.linked <=> "next" \in c.linked
    /\ d.pipe = c.pipe /\ d.dataToggle = c.dataToggle /\ d.hardware = c.hardware
    /\ d.host = c.host /\ d.moved = c.moved /\ d.drift = c.drift

SameTask(c, d) == d.attached = c.attached /\ d.canceling = c.canceling
SameChannel(c, d) == SameTask(c, d) /\ d.lost = c.lost

\* The control pipe has no ERP out and the application owes no response.
Empty(c) ==
    /\ c.linked \cap ControlErps = {} /\ c.owes = "no"
    /\ Cardinality(Stranded(c)) <= c.faults
    /\ c.lost => c.faults # 0

(* usbTargTransfer links the ERP or the TCD has refused it. *)
LEMMA TransferFacts ==
  ASSUME NEW c \in Channel, NEW e \in Erps, NEW d \in Transfer(c, e)
  PROVE  /\ d \in Channel /\ SameChannel(c, d)
         /\ d.pending = c.pending /\ d.owes = c.owes
         /\ d.pipe = c.pipe /\ d.dataToggle = c.dataToggle /\ d.host = c.host /\ d.moved = c.moved
         /\ \/ /\ d.status = "OK" /\ d.linked = c.linked \cup {e} /\ d.faults = c.faults
               /\ d.hardware = IF e = "bulk" THEN c.dataToggle ELSE c.hardware
               /\ d.drift = (c.drift \/ e = "next")
            \/ /\ d.status = "ERROR" /\ d.linked = c.linked /\ d.faults = c.faults + 1
               /\ d.hardware = c.hardware /\ d.drift = c.drift
<1> DEFINE m == [c EXCEPT !.dataPtr = @ \/ e = "data"]
<1>1. /\ m \in Channel /\ SameChannel(c, m) /\ m.linked = c.linked /\ m.faults = c.faults
      /\ m.pending = c.pending /\ m.owes = c.owes /\ m.hardware = c.hardware
      /\ m.pipe = c.pipe /\ m.dataToggle = c.dataToggle /\ m.host = c.host /\ m.moved = c.moved
      /\ m.drift = c.drift
  <2>1. ASSUME NEW v \in BOOLEAN, m = [c EXCEPT !.dataPtr = v]
        PROVE  /\ m \in Channel /\ SameChannel(c, m) /\ m.linked = c.linked /\ m.faults = c.faults
               /\ m.pending = c.pending /\ m.owes = c.owes /\ m.hardware = c.hardware
               /\ m.pipe = c.pipe /\ m.dataToggle = c.dataToggle /\ m.host = c.host
               /\ m.moved = c.moved /\ m.drift = c.drift
    <3> HIDE DEF m
    <3>1. QED
      BY <2>1 DEF Channel, SameChannel, SameTask
  <2>2. (c.dataPtr \/ e = "data") \in BOOLEAN
    OBVIOUS
  <2>3. QED
    BY <2>1, <2>2
<1>2. \/ d = [Link(m, e) EXCEPT !.status = "OK"]
      \/ c.faults # MaxFaults /\ d = [m EXCEPT !.faults = @ + 1, !.status = "ERROR"]
  BY DEF Transfer
<1> HIDE DEF m
<1>3. CASE d = [Link(m, e) EXCEPT !.status = "OK"]
  <2>1. CASE e = "bulk"
    <3>1. d = [m EXCEPT !.linked = @ \cup {e}, !.hardware = m.dataToggle, !.status = "OK"]
      BY <1>1, <1>3, <2>1 DEF Link, Channel
    <3>2. QED
      BY <1>1, <2>1, <3>1 DEF Channel, SameChannel, SameTask
  <2>2. CASE e = "next"
    <3>1. d = [m EXCEPT !.linked = @ \cup {e}, !.next = m.dataToggle, !.drift = TRUE, !.status = "OK"]
      BY <1>1, <1>3, <2>2 DEF Link, Channel
    <3>2. QED
      BY <1>1, <2>2, <3>1 DEF Channel, SameChannel, SameTask
  <2>3. CASE e \notin {"bulk", "next"}
    <3>1. d = [m EXCEPT !.linked = @ \cup {e}, !.status = "OK"]
      BY <1>1, <1>3, <2>3 DEF Link, Channel
    <3>2. QED
      BY <1>1, <2>3, <3>1 DEF Channel, SameChannel, SameTask
  <2>4. QED
    BY <2>1, <2>2, <2>3
<1>4. CASE c.faults # MaxFaults /\ d = [m EXCEPT !.faults = @ + 1, !.status = "ERROR"]
  <2>1. c.faults + 1 \in 0 .. MaxFaults
    BY <1>4, TargAssumption DEF Channel
  <2>2. QED
    BY <1>1, <1>4, <2>1 DEF Channel, SameChannel, SameTask
<1>5. QED
  BY <1>2, <1>3, <1>4

(* initErp: the ERP is out and marked, was already marked, or was refused. *)
LEMMA InitErpFacts ==
  ASSUME NEW c \in Channel, NEW e \in Phases, NEW d \in InitErp(c, e)
  PROVE  /\ d \in Channel /\ SameChannel(c, d) /\ SameBulk(c, d) /\ d.owes = c.owes
         /\ \/ /\ d.status = "OK" /\ d.linked = c.linked \cup {e} /\ d.faults = c.faults
               /\ \A x \in Phases : d.pending[x] = (x = e \/ c.pending[x])
            \/ /\ d.status = "ERROR" /\ d.linked = c.linked /\ d.faults = c.faults
               /\ c.pending[e] /\ d.pending = c.pending
            \/ /\ d.status = "ERROR" /\ d.linked = c.linked /\ d.faults = c.faults + 1
               /\ \A x \in Phases : d.pending[x] = (x = e \/ c.pending[x])
<1>0. e \in Erps /\ e # "bulk" /\ e # "next"
  BY DEF Erps, ControlErps, Phases
<1>1. CASE c.pending[e]
  <2>1. d = [c EXCEPT !.status = "ERROR"]
    BY <1>1 DEF InitErp
  <2>2. QED
    BY <1>1, <2>1 DEF Channel, SameChannel, SameTask, SameBulk
<1>2. CASE ~c.pending[e]
  <2> DEFINE m == [c EXCEPT !.pending[e] = TRUE]
  <2>1. /\ m \in Channel /\ SameChannel(c, m) /\ SameBulk(c, m) /\ m.owes = c.owes
        /\ m.linked = c.linked /\ m.faults = c.faults
        /\ \A x \in Phases : m.pending[x] = (x = e \/ c.pending[x])
    BY DEF Channel, SameChannel, SameTask, SameBulk
  <2>2. d \in Transfer(m, e)
    BY <1>2 DEF InitErp
  <2> HIDE DEF m
  <2>3. /\ d \in Channel /\ SameChannel(m, d)
        /\ d.pending = m.pending /\ d.owes = m.owes
        /\ d.pipe = m.pipe /\ d.dataToggle = m.dataToggle /\ d.hardware = m.hardware
        /\ d.host = m.host /\ d.moved = m.moved /\ d.drift = m.drift
        /\ \/ d.status = "OK" /\ d.linked = m.linked \cup {e} /\ d.faults = m.faults
           \/ d.status = "ERROR" /\ d.linked = m.linked /\ d.faults = m.faults + 1
    <3>1. m.drift \in BOOLEAN
      BY <2>1 DEF Channel
    <3>2. QED
      BY <1>0, <2>1, <2>2, <3>1, TransferFacts
  <2>4. QED
    BY <1>0, <2>1, <2>3 DEF SameChannel, SameTask, SameBulk
<1>3. QED
  BY <1>1, <1>2

(* On an empty control pipe the ERP of a phase goes out, or the TCD has refused    *)
(* one and the pipe is empty still.                                              *)
LEMMA StartPhase ==
  ASSUME NEW c \in Channel, Empty(c), NEW e \in Phases, NEW d \in InitErp(c, e)
  PROVE  /\ d \in Channel /\ SameChannel(c, d) /\ SameBulk(c, d)
         /\ Clean(d) /\ Heard(d)
         /\ d.status = "ERROR" => Empty(d)
<1>1. /\ d \in Channel /\ SameChannel(c, d) /\ SameBulk(c, d) /\ d.owes = "no"
  BY InitErpFacts DEF Empty
<1>2. /\ c.linked \cap ControlErps = {} /\ Cardinality(Stranded(c)) <= c.faults
      /\ d.lost => c.faults # 0
  BY <1>1 DEF Empty, SameChannel
<1>3. Phases \subseteq ControlErps /\ "payload" \notin Phases /\ "payload" \in ControlErps
  BY DEF Phases, ControlErps
<1>4. CASE /\ d.status = "OK" /\ d.linked = c.linked \cup {e} /\ d.faults = c.faults
           /\ \A x \in Phases : d.pending[x] = (x = e \/ c.pending[x])
  <2>1. d.linked \cap ControlErps = {e}
    BY <1>2, <1>3, <1>4
  <2>2. Stranded(d) \subseteq Stranded(c)
    BY <1>4 DEF Stranded
  <2>3. Cardinality(Stranded(d)) <= d.faults
    BY <1>1, <1>2, <1>4, <2>2, FlagsBound
  <2>4. QED
    BY <1>1, <1>2, <1>3, <1>4, <2>1, <2>3 DEF Clean, Heard
<1>5. CASE /\ d.status = "ERROR" /\ d.linked = c.linked /\ d.faults = c.faults
           /\ c.pending[e] /\ d.pending = c.pending
  <2>1. d.linked \cap ControlErps = {}
    BY <1>2, <1>5
  <2>2. Stranded(d) = Stranded(c) /\ e \in Stranded(c)
    BY <1>2, <1>3, <1>5 DEF Stranded
  <2>3. d.faults # 0
    BY <1>2, <1>5, <2>2, NoFlags
  <2>4. QED
    BY <1>1, <1>2, <1>3, <1>5, <2>1, <2>2, <2>3 DEF Clean, Heard, Empty
<1>6. CASE /\ d.status = "ERROR" /\ d.linked = c.linked /\ d.faults = c.faults + 1
           /\ \A x \in Phases : d.pending[x] = (x = e \/ c.pending[x])
  <2>1. d.linked \cap ControlErps = {}
    BY <1>2, <1>6
  <2>2. Stranded(d) \subseteq Stranded(c) \cup {e}
    BY <1>6 DEF Stranded
  <2>3. Cardinality(Stranded(d)) <= d.faults
    BY <1>1, <1>2, <1>6, <2>2, FlagsBound
  <2>4. d.faults # 0
    BY <1>6, TargAssumption DEF Channel
  <2>5. QED
    BY <1>1, <1>3, <1>6, <2>1, <2>3, <2>4 DEF Clean, Heard, Empty
<1>7. QED
  BY <1>4, <1>5, <1>6, InitErpFacts

----------------------------------------------------------------------------
(* The callbacks of the control pipe.                                      *)

\* The bulk pipe keeps its ERPs, and its toggles stay in step.
KeepsSync(c, d) ==
    /\ "bulk" \in d.linked <=> "bulk" \in c.linked
    /\ "next" \in d.linked <=> "next" \in c.linked
    /\ c.pipe => d.pipe
    /\ d.moved = c.moved
    /\ Sync(c, c.moved) => Sync(d, d.moved)

(* What leaves the bulk pipe alone keeps its toggles in step, however counted. *)
LEMMA SameSync ==
  ASSUME NEW c, NEW d, SameBulk(c, d)
  PROVE  KeepsSync(c, d) /\ \A n : Sync(c, n) => Sync(d, n)
  BY DEF SameBulk, KeepsSync, Sync

(* Keeping in step goes from step to step. *)
LEMMA SyncChain ==
  ASSUME NEW c, NEW d, NEW a, KeepsSync(c, d), KeepsSync(d, a)
  PROVE  KeepsSync(c, a)
  BY DEF KeepsSync

(* An empty control pipe is clean. *)
LEMMA EmptyClean ==
  ASSUME NEW c \in Channel, Empty(c)
  PROVE  Clean(c)
<1>1. Phases \subseteq ControlErps /\ "payload" \in ControlErps
  BY DEF Phases, ControlErps
<1>2. QED
  BY <1>1 DEF Empty, Clean

(* The status of a call changes nothing else. *)
LEMMA SetStatus ==
  ASSUME NEW c \in Channel, NEW v \in {"OK", "ERROR"}, NEW d, d = [c EXCEPT !.status = v]
  PROVE  /\ d \in Channel /\ d.status = v
         /\ SameChannel(c, d) /\ SameBulk(c, d) /\ KeepsSync(c, d)
         /\ Empty(c) => Empty(d)
         /\ Clean(c) => Clean(d)
         /\ Heard(c) => Heard(d)
<1>1. /\ d \in Channel /\ d.status = v
      /\ SameChannel(c, d) /\ SameBulk(c, d)
      /\ d.linked = c.linked /\ d.owes = c.owes /\ d.pending = c.pending /\ d.faults = c.faults
      /\ d.attached = c.attached /\ d.canceling = c.canceling
  BY DEF Channel, SameChannel, SameTask, SameBulk
<1>2. Stranded(d) = Stranded(c)
  BY <1>1 DEF Stranded
<1>3. QED
  BY <1>1, <1>2, SameSync DEF Empty, Clean, Heard

(* initErp on a channel that was prepared from an empty one. *)
LEMMA StartKept ==
  ASSUME NEW c \in Channel, NEW m \in Channel, Empty(m), SameTask(c, m), KeepsSync(c, m),
         NEW e \in Phases, NEW d \in InitErp(m, e)
  PROVE  /\ d \in Channel /\ SameTask(c, d) /\ KeepsSync(c, d) /\ d.lost = m.lost
         /\ Clean(d) /\ Heard(d)
         /\ d.status = "ERROR" => Empty(d)
<1>1. /\ d \in Channel /\ SameChannel(m, d) /\ SameBulk(m, d)
      /\ Clean(d) /\ Heard(d)
      /\ d.status = "ERROR" => Empty(d)
  BY StartPhase
<1>2. SameTask(c, d) /\ d.lost = m.lost
  BY <1>1 DEF SameChannel, SameTask
<1>3. KeepsSync(c, d)
  BY <1>1, SameSync, SyncChain
<1>4. QED
  BY <1>1, <1>2, <1>3

(* The toggles of the pipe are set to 0: the pipe is there, or is made. *)
LEMMA ZeroToggles ==
  ASSUME NEW c \in Channel, Empty(c), Owned(c), NEW d,
         \/ d = ResetDataToggle(c)
         \/ d = PipeCreate(c)
  PROVE  d \in Channel /\ Empty(d) /\ Owned(d) /\ SameChannel(c, d) /\ KeepsSync(c, d)
<1>0. c.moved \in Int /\ c.moved >= 0 /\ 0 \in 0 .. 1 /\ (0 + 0) % 2 = 0
  BY TargAssumption DEF Channel
<1>1. CASE d = c
  BY <1>1 DEF SameChannel, SameTask, KeepsSync
<1>2. CASE c.pipe /\ d = ResetDataToggle(c)
  <2> DEFINE w == c.moved > 0 \/ "next" \in c.linked
  <2>1. d = [c EXCEPT !.dataToggle = 0, !.hardware = 0, !.host = 0, !.drift = w]
    BY <1>2 DEF ResetDataToggle
  <2>2. w \in BOOLEAN /\ (~w => c.moved = 0 /\ "next" \notin c.linked)
    BY <1>0
  <2> HIDE DEF w
  <2>3. /\ d.linked = c.linked /\ d.owes = c.owes /\ d.faults = c.faults /\ d.pending = c.pending
        /\ d.attached = c.attached /\ d.canceling = c.canceling /\ d.lost = c.lost
        /\ d.hardware = 0 /\ d.dataToggle = 0 /\ d.host = 0 /\ d.drift = w
        /\ d.pipe = c.pipe /\ d.moved = c.moved
    BY <2>1 DEF Channel
  <2>4. d \in Channel
    <3>1. ASSUME NEW z \in 0 .. 1,
                 d = [c EXCEPT !.dataToggle = z, !.hardware = z, !.host = z, !.drift = w]
          PROVE  d \in Channel
      BY <2>2, <3>1 DEF Channel
    <3>2. QED
      BY <1>0, <2>1, <3>1
  <2>5. Stranded(d) = Stranded(c)
    BY <2>3 DEF Stranded
  <2>6. KeepsSync(c, d)
    BY <1>0, <2>2, <2>3 DEF KeepsSync, Sync
  <2>7. QED
    BY <2>3, <2>4, <2>5, <2>6 DEF Empty, Owned, SameChannel, SameTask
<1>3. CASE ~c.pipe /\ d = PipeCreate(c)
  <2>1. d = [c EXCEPT !.pipe = TRUE, !.dataToggle = 0, !.host = 0, !.drift = FALSE]
    BY <1>3 DEF PipeCreate
  <2>2. c.moved = 0 /\ "bulk" \notin c.linked /\ "next" \notin c.linked
    BY <1>3 DEF Owned
  <2>3. /\ d.linked = c.linked /\ d.owes = c.owes /\ d.faults = c.faults /\ d.pending = c.pending
        /\ d.attached = c.attached /\ d.canceling = c.canceling /\ d.lost = c.lost
        /\ d.dataToggle = 0 /\ d.host = 0 /\ d.drift = FALSE
        /\ d.pipe = TRUE /\ d.moved = c.moved
    BY <2>1 DEF Channel
  <2>4. d \in Channel
    <3>1. ASSUME NEW z \in 0 .. 1,
                 d = [c EXCEPT !.pipe = TRUE, !.dataToggle = z, !.host = z, !.drift = FALSE]
          PROVE  d \in Channel
      BY <3>1 DEF Channel
    <3>2. QED
      BY <1>0, <2>1, <3>1
  <2>5. Stranded(d) = Stranded(c)
    BY <2>3 DEF Stranded
  <2>6. KeepsSync(c, d)
    BY <1>0, <2>2, <2>3 DEF KeepsSync, Sync
  <2>7. QED
    BY <2>3, <2>4, <2>5, <2>6 DEF Empty, Owned, SameChannel, SameTask
<1>4. QED
  BY <1>1, <1>2, <1>3 DEF ResetDataToggle, PipeCreate

(* parseSetupPacket starts a phase, lets the application respond, or returns an    *)
(* error with nothing started.                                                   *)
LEMMA ParseFacts ==
  ASSUME NEW c \in Channel, Empty(c), Owned(c), NEW r \in Requests, NEW p \in parseSetupPacket(c, r)
  PROVE  /\ p \in Channel /\ SameTask(c, p) /\ KeepsSync(c, p) /\ p.lost = c.lost
         /\ p.status = "ERROR" => Empty(p)
         /\ p.status = "OK" => Clean(p) /\ Heard(p)
<1> DEFINE d == ResetDataToggle(c)
           f == PipeCreate(d)
           Prepared(m) == /\ m \in Channel /\ Empty(m) /\ SameTask(c, m) /\ KeepsSync(c, m)
                          /\ m.lost = c.lost
<1>0. Prepared(c) /\ "data" \in Phases /\ "status" \in Phases
  BY DEF SameTask, KeepsSync, Phases
<1>1. ASSUME NEW m, Prepared(m), p \in Refused(m)
      PROVE  /\ p \in Channel /\ SameTask(c, p) /\ KeepsSync(c, p) /\ p.lost = c.lost
             /\ p.status = "ERROR" /\ Empty(p)
  <2>1. p = [m EXCEPT !.status = "ERROR"]
    BY <1>1 DEF Refused
  <2>2. p \in Channel /\ SameChannel(m, p) /\ KeepsSync(m, p) /\ p.status = "ERROR" /\ Empty(p)
    BY <1>1, <2>1, SetStatus
  <2>3. KeepsSync(c, p)
    BY <1>1, <2>2, SyncChain
  <2>4. QED
    BY <1>1, <2>2, <2>3 DEF SameChannel, SameTask
<1>2. ASSUME NEW m, Prepared(m), NEW e \in Phases, p \in InitErp(m, e)
      PROVE  /\ p \in Channel /\ SameTask(c, p) /\ KeepsSync(c, p) /\ p.lost = c.lost
             /\ Clean(p) /\ Heard(p) /\ (p.status = "ERROR" => Empty(p))
  BY <1>2, StartKept
<1>3. Prepared(d) /\ Owned(d)
  BY ZeroToggles DEF SameChannel
<1>4. Prepared(f)
  <2> HIDE DEF d
  <2>1. f \in Channel /\ Empty(f) /\ SameChannel(d, f) /\ KeepsSync(d, f)
    BY <1>3, ZeroToggles
  <2> HIDE DEF f
  <2>2. KeepsSync(c, f)
    BY <1>3, <2>1, SyncChain
  <2>3. QED
    BY <1>3, <2>1, <2>2 DEF SameChannel, SameTask
<1>5. \/ p \in Refused(c) \/ p \in InitErp(c, "data") \/ p \in InitErp(c, "status")
      \/ p \in Refused(d) \/ p \in InitErp(d, "status")
      \/ p \in InitErp(f, "status")
      \/ p = [c EXCEPT !.owes = "any", !.status = "OK"]
  <2> DEFINE Simple == Refused(c) \cup InitErp(c, "data") \cup InitErp(c, "status")
             Reset == Refused(d) \cup InitErp(d, "status")
  <2>1. /\ Ask(c, "status") \subseteq Simple /\ Ask(c, "data") \subseteq Simple
        /\ Ask(d, "status") = Reset
        /\ HandOver(c) = Refused(c) \cup {[c EXCEPT !.owes = "any", !.status = "OK"]}
    BY DEF Ask, HandOver
  <2>2. ConfigurationEvent(c) \subseteq Ask(c, "status") \cup Ask(d, "status")
    BY DEF ConfigurationEvent
  <2>3. CASE r \in {"SET_CONFIGURATION", "CLEAR_FEATURE", "SET_INTERFACE"}
    <3>1. p \in ConfigurationEvent(c) \/ p \in InitErp(f, "status")
      BY <2>3 DEF parseSetupPacket, requestClearFeature, requestSetInterface, requestSetConfiguration
    <3> HIDE DEF d, f
    <3>2. QED
      BY <2>1, <2>2, <3>1
  <2>4. CASE r \in {"SET_FEATURE", "GET_CONFIGURATION", "GET_DESCRIPTOR", "GET_INTERFACE",
                    "GET_STATUS", "GET_SYNCH_FRAME", "SET_ADDRESS", "SHORT"}
    <3>1. p \in Ask(c, "status") \cup Ask(c, "data") \cup InitErp(c, "status") \cup Refused(c)
      BY <2>4 DEF parseSetupPacket, requestSetFeature, requestGetConfiguration, requestGetDescriptor,
                  requestGetInterface, requestGetStatus, requestGetSynchFrame, requestSetAddress
    <3>2. QED
      BY <2>1, <3>1
  <2>5. CASE r \in {"SET_DESCRIPTOR", "VENDOR"}
    <3>1. p \in HandOver(c)
      BY <2>5 DEF parseSetupPacket, requestSetDescriptor, requestVendorSpecific
    <3>2. QED
      BY <2>1, <3>1
  <2>6. QED
    BY <2>3, <2>4, <2>5 DEF Requests
<1>6. CASE p = [c EXCEPT !.owes = "any", !.status = "OK"]
  <2>1. /\ p \in Channel /\ SameChannel(c, p) /\ SameBulk(c, p) /\ p.status = "OK"
        /\ p.owes = "any" /\ p.linked = c.linked /\ p.pending = c.pending /\ p.faults = c.faults
    BY <1>6 DEF Channel, SameChannel, SameTask, SameBulk
  <2>2. Phases \subseteq ControlErps /\ "payload" \in ControlErps
    BY DEF Phases, ControlErps
  <2>3. Stranded(p) = Stranded(c)
    BY <2>1 DEF Stranded
  <2>4. Clean(p) /\ Heard(p)
    BY <2>1, <2>2, <2>3 DEF Clean, Heard, Empty, SameChannel
  <2>5. QED
    BY <2>1, <2>4, SameSync DEF SameChannel
<1> HIDE DEF d, f, Prepared
<1>7. QED
  BY <1>0, <1>1, <1>2, <1>3, <1>4, <1>5, <1>6

\* The ERP of phase e has been unlinked, its flag has not been cleared yet.
Vacated(c, e) ==
    /\ c.linked \cap ControlErps = {} /\ c.owes = "no"
    /\ Cardinality(Stranded(c) \ {e}) <= c.faults
    /\ c.lost => c.faults # 0

(* Each callback of the three phases starts by clearing the flag of its ERP. *)
LEMMA ClearFlag ==
  ASSUME NEW c \in Channel, NEW e \in Phases, Vacated(c, e),
         NEW d, d = [c EXCEPT !.pending[e] = FALSE]
  PROVE  d \in Channel /\ Empty(d) /\ SameChannel(c, d) /\ SameBulk(c, d)
<1>1. /\ d \in Channel /\ SameChannel(c, d) /\ SameBulk(c, d)
      /\ d.linked = c.linked /\ d.owes = c.owes /\ d.faults = c.faults
      /\ \A x \in Phases : d.pending[x] = (x # e /\ c.pending[x])
  BY DEF Channel, SameChannel, SameTask, SameBulk
<1>2. Stranded(d) = Stranded(c) \ {e}
  BY <1>1 DEF Stranded
<1>3. QED
  BY <1>1, <1>2 DEF Vacated, Empty, SameChannel

(* cancelErp of a phase when none is out: nothing is changed, but the task may be    *)
(* lost if a refusal has left a flag behind.                                       *)
LEMMA CancelFacts ==
  ASSUME NEW c \in Channel, Empty(c), NEW e \in Phases, NEW d \in CancelPhase(c, e)
  PROVE  /\ d \in Channel /\ Empty(d) /\ SameTask(c, d) /\ SameBulk(c, d)
         /\ d.lost => c.lost \/ d.faults # 0
         /\ d.faults = c.faults
<1>1. e \notin c.linked
  BY DEF Empty, ControlErps
<1>2. d = c \/ (c.pending[e] /\ d = [c EXCEPT !.lost = TRUE])
  <2>1. c.lost \in BOOLEAN /\ c.pending[e] \in BOOLEAN /\ c.dataPtr \in BOOLEAN
    BY DEF Channel
  <2>2. CASE c.lost \/ ~c.pending[e]
    BY <2>2 DEF CancelPhase
  <2>3. CASE ~c.lost /\ c.pending[e] /\ ~c.dataPtr
    BY <2>3 DEF CancelPhase
  <2>4. CASE ~c.lost /\ c.pending[e] /\ c.dataPtr
    BY <1>1, <2>4 DEF CancelPhase
  <2>5. QED
    BY <2>1, <2>2, <2>3, <2>4
<1>3. CASE d = c
  BY <1>3 DEF SameTask, SameBulk
<1>4. CASE c.pending[e] /\ d = [c EXCEPT !.lost = TRUE]
  <2>1. /\ d \in Channel /\ SameTask(c, d) /\ SameBulk(c, d)
        /\ d.linked = c.linked /\ d.owes = c.owes /\ d.faults = c.faults /\ d.pending = c.pending
    BY <1>4 DEF Channel, SameTask, SameBulk
  <2>2. Stranded(d) = Stranded(c) /\ e \in Stranded(c)
    BY <1>1, <1>4, <2>1 DEF Stranded
  <2>3. d.faults # 0
    BY <2>1, <2>2, NoFlags DEF Empty
  <2>4. QED
    BY <2>1, <2>2, <2>3 DEF Empty
<1>5. QED
  BY <1>2, <1>3, <1>4

(* The request before is terminated. *)
LEMMA TerminatedFacts ==
  ASSUME NEW c \in Channel, Vacated(c, "setup"), ~c.lost, NEW d \in Terminated(c)
  PROVE  /\ d \in Channel /\ Empty(d) /\ SameTask(c, d) /\ SameBulk(c, d)
         /\ d.lost => d.faults # 0
<1> DEFINE m == [c EXCEPT !.pending["setup"] = FALSE]
<1>1. "setup" \in Phases /\ "data" \in Phases /\ "status" \in Phases
  BY DEF Phases
<1>2. m \in Channel /\ Empty(m) /\ SameChannel(c, m) /\ SameBulk(c, m)
  BY <1>1, ClearFlag
<1>3. PICK p \in CancelPhase(m, "data") : d \in CancelPhase(p, "status")
  BY DEF Terminated
<1> HIDE DEF m
<1>4. /\ p \in Channel /\ Empty(p) /\ SameTask(m, p) /\ SameBulk(m, p)
      /\ p.lost => m.lost \/ p.faults # 0
  BY <1>1, <1>2, <1>3, CancelFacts
<1>5. /\ d \in Channel /\ Empty(d) /\ SameTask(p, d) /\ SameBulk(p, d)
      /\ (d.lost => p.lost \/ d.faults # 0) /\ d.faults = p.faults
  BY <1>1, <1>3, <1>4, CancelFacts
<1>6. QED
  BY <1>2, <1>4, <1>5 DEF SameChannel, SameTask, SameBulk

(* After the callback of a phase the control pipe is in one phase at most, and    *)
(* unless the ERP was canceled, it is in one.                                    *)
LEMMA PhaseCallback ==
  ASSUME NEW c \in Channel, Owned(c), c.attached, ~c.lost,
         NEW b, b.erp \in Phases, Vacated(c, b.erp), NEW r,
         b.result \in Results, b.erp = "setup" /\ b.result = "OK" => r \in Requests,
         NEW a \in UserCallback(c, b, r)
  PROVE  /\ a \in Channel /\ a.status = "OK" /\ SameTask(c, a) /\ KeepsSync(c, a)
         /\ Clean(a)
         /\ b.result # "ERP_CANCELED" => Heard(a)
         /\ b.result = "ERP_CANCELED" => SameBulk(c, a)
         /\ a.lost => b.erp = "setup"
<1> DEFINE d == [c EXCEPT !.pending[b.erp] = FALSE]
           Good(p) == /\ p \in Channel /\ SameTask(c, p) /\ KeepsSync(c, p)
                      /\ Clean(p)
                      /\ b.result # "ERP_CANCELED" => Heard(p)
                      /\ b.result = "ERP_CANCELED" => SameBulk(c, p)
                      /\ p.lost => b.erp = "setup"
<1>1. /\ d \in Channel /\ Empty(d) /\ SameTask(c, d) /\ SameBulk(c, d) /\ KeepsSync(c, d)
      /\ ~d.lost
  BY ClearFlag, SameSync DEF SameChannel
<1>2. Clean(d)
  BY <1>1, EmptyClean
<1>3. ASSUME NEW e \in Phases, NEW p \in InitErp(d, e), b.result # "ERP_CANCELED" PROVE Good(p)
  <2> HIDE DEF d
  <2>1. QED
    BY <1>1, <1>3, StartKept
<1>4. ASSUME b.result = "ERP_CANCELED" PROVE Good(d)
  BY <1>1, <1>2, <1>4
<1>5. "setup" \in Phases /\ "data" \in Phases /\ "status" \in Phases
  BY DEF Phases
<1>6. PICK p : p \in (CASE b.erp = "setup"   -> SetupErpCallback(c, b.result, r)
                         [] b.erp = "data"    -> ResponseErpCallback(c, b.result)
                         [] b.erp = "status"  -> StatusErpCallback(c, b.result)
                         [] b.erp = "payload" -> {c}
                         [] b.erp \in BulkErps -> {BulkCallback(c, b)})
               /\ a = [p EXCEPT !.status = "OK"]
  BY DEF UserCallback
<1>7. Good(p)
  <2>1. CASE b.erp = "setup"
    <3> HIDE DEF d
    <3>1. p \in SetupErpCallback(c, b.result, r)
      BY <1>6, <2>1 DEF BulkErps
    <3>2. PICK t \in Terminated(c) :
            p \in CASE t.lost -> {t}
                    [] ~t.lost /\ b.result = "OK" -> Parsed(t, r)
                    [] ~t.lost /\ b.result = "ERP_CANCELED" -> {t}
                    [] OTHER -> InitErp(t, "setup")
      BY <3>1 DEF SetupErpCallback
    <3>3. /\ t \in Channel /\ Empty(t) /\ SameTask(c, t) /\ SameBulk(c, t)
          /\ t.lost => t.faults # 0
      BY <2>1, TerminatedFacts
    <3>4. KeepsSync(c, t) /\ Clean(t) /\ Owned(t)
      <4>1. KeepsSync(c, t) /\ Clean(t)
        BY <3>3, SameSync, EmptyClean
      <4>2. Owned(t)
        BY <3>3 DEF SameTask, SameBulk, Owned
      <4>3. QED
        BY <4>1, <4>2
    <3>5. CASE t.lost
      <4>1. p = t
        BY <3>2, <3>5
      <4>2. Heard(t)
        BY <3>3, <3>5 DEF Heard
      <4>3. QED
        BY <2>1, <3>3, <3>4, <4>1, <4>2
    <3>6. CASE ~t.lost /\ b.result = "OK"
      <4>0. p \in Parsed(t, r)
        BY <3>2, <3>6
      <4>1. PICK q \in parseSetupPacket(t, r) :
              p \in IF q.status = "OK" THEN {q} ELSE InitErp(Stall(q), "setup")
        BY <4>0 DEF Parsed
      <4>2. /\ q \in Channel /\ SameTask(t, q) /\ KeepsSync(t, q)
            /\ q.status = "ERROR" => Empty(q)
            /\ q.status = "OK" => Clean(q) /\ Heard(q)
        BY <2>1, <3>3, <3>4, <3>6, ParseFacts
      <4>3. SameTask(c, q) /\ KeepsSync(c, q)
        BY <3>3, <3>4, <4>2, SyncChain DEF SameTask
      <4>4. CASE q.status = "OK"
        BY <2>1, <3>6, <4>1, <4>2, <4>3, <4>4
      <4>5. CASE q.status = "ERROR"
        <5> DEFINE m == Stall(q)
        <5>1. /\ m \in Channel /\ SameTask(q, m) /\ SameBulk(q, m) /\ m.faults = q.faults
              /\ m.lost = q.lost
              /\ m.linked = q.linked /\ m.owes = q.owes /\ m.pending = q.pending
          BY <4>2 DEF Stall, Channel, SameTask, SameBulk
        <5>2. p \in InitErp(m, "setup")
          BY <4>1, <4>5
        <5> HIDE DEF m
        <5>3. Stranded(m) = Stranded(q)
          BY <5>1 DEF Stranded
        <5>4. Empty(m) /\ SameTask(c, m)
          BY <4>2, <4>3, <4>5, <5>1, <5>3 DEF Empty, SameTask
        <5>5. KeepsSync(c, m)
          BY <4>3, <5>1, SameSync, SyncChain
        <5>6. QED
          BY <1>5, <2>1, <3>6, <5>1, <5>2, <5>4, <5>5, StartKept
      <4>6. QED
        BY <4>2, <4>4, <4>5 DEF Channel
    <3>7. CASE ~t.lost /\ b.result = "ERP_CANCELED"
      <4>1. p = t
        BY <3>2, <3>7
      <4>2. QED
        BY <2>1, <3>3, <3>4, <3>7, <4>1
    <3>8. CASE ~t.lost /\ b.result \notin {"OK", "ERP_CANCELED"}
      <4>1. p \in InitErp(t, "setup")
        BY <3>2, <3>8
      <4>2. QED
        BY <1>5, <2>1, <3>3, <3>4, <3>8, <4>1, StartKept
    <3>9. QED
      BY <3>3, <3>5, <3>6, <3>7, <3>8
  <2>2. CASE b.erp = "data"
    <3>1. p \in ResponseErpCallback(c, b.result) /\ d = [c EXCEPT !.pending["data"] = FALSE]
      BY <1>6, <2>2 DEF BulkErps
    <3> HIDE DEF d, Good
    <3>2. \/ b.result = "OK" /\ p \in InitErp(d, "status")
          \/ b.result = "ERP_CANCELED" /\ p = d
          \/ b.result # "ERP_CANCELED" /\ p \in InitErp(d, "setup")
      BY <3>1 DEF ResponseErpCallback, Results
    <3>3. QED
      BY <1>3, <1>4, <1>5, <3>2
  <2>3. CASE b.erp = "status"
    <3>1. p \in StatusErpCallback(c, b.result) /\ d = [c EXCEPT !.pending["status"] = FALSE]
      BY <1>6, <2>3 DEF BulkErps
    <3> HIDE DEF d, Good
    <3>2. \/ b.result = "ERP_CANCELED" /\ p = d
          \/ b.result # "ERP_CANCELED" /\ p \in InitErp(d, "setup")
      BY <3>1 DEF StatusErpCallback
    <3>3. QED
      BY <1>3, <1>4, <1>5, <3>2
  <2>4. QED
    BY <2>1, <2>2, <2>3 DEF Phases
<1>8. QED
  <2>1. /\ a \in Channel /\ a.status = "OK"
        /\ SameChannel(p, a) /\ SameBulk(p, a) /\ KeepsSync(p, a)
        /\ Clean(a) /\ (Heard(p) => Heard(a))
    BY <1>6, <1>7, SetStatus
  <2>2. KeepsSync(c, a) /\ (SameBulk(c, p) => SameBulk(c, a))
    BY <1>7, <2>1, SyncChain DEF SameBulk
  <2>3. QED
    BY <1>7, <2>1, <2>2 DEF SameChannel, SameTask

(* The packets an ERP is found to have had are a whole number. *)
LEMMA PacketsType ==
  ASSUME NEW b, b.lens \in Lens
  PROVE  Packets(b) \in Int /\ ByBfr(b.lens) \in Int
<1>1. b.lens[1] \in Int /\ b.lens[2] \in Int
  BY DEF Lens, Bfrs
<1>2. \A n \in Int : Ceil(n) \in Int
  BY TargAssumption DEF Ceil
<1>3. ByBfr(b.lens) \in Int
  BY <1>1, <1>2 DEF ByBfr
<1>4. QED
  BY <1>3 DEF Packets

(* usbTargErpCallback, for each ERP and each result. *)
LEMMA ErpCallbackFacts ==
  ASSUME NEW c \in Channel, Clean(c), Owned(c), ~c.lost, NEW b, b.erp \in c.linked,
         b.result \in Results, b.lens \in Lens, NEW r,
         b.erp = "setup" /\ b.result = "OK" => r \in Requests,
         b.erp = "bulk" => c.moved = 0,
         NEW a \in ErpCallback(c, b, r)
  PROVE  /\ a \in Channel /\ a.status = "OK" /\ SameTask(c, a) /\ Clean(a) /\ Owned(a)
         /\ a.lost => b.erp = "setup"
         /\ Heard(c) /\ (b.result # "ERP_CANCELED" \/ b.erp \in BulkErps) => Heard(a)
         /\ b.erp \notin BulkErps => KeepsSync(c, a)
         /\ b.erp \notin BulkErps /\ b.result = "ERP_CANCELED" => SameBulk(c, a)
         /\ b.erp \in BulkErps =>
                /\ \A x \in ControlErps : x \in a.linked <=> x \in c.linked
                /\ b.erp = "next" => a.linked = c.linked \ {"next"}
                /\ a.moved = c.moved
         /\ b.erp = "bulk" => (Sync(c, Packets(b)) => Sync(a, 0))
         /\ b.erp = "next" => \A n, k : Sync(c, n) => Sync(a, k)
<1> DEFINE m == Unlink(c, b.erp)
<1>2. a \in UserCallback(m, b, r)
  BY DEF ErpCallback
<1>3. /\ Erps = {"setup", "data", "status", "payload", "bulk", "next"}
      /\ ControlErps = {"setup", "data", "status", "payload"}
      /\ Phases = {"setup", "data", "status"} /\ BulkErps = {"bulk", "next"}
  BY DEF Erps, ControlErps, Phases, BulkErps
<1>4. b.erp \in Erps
  BY DEF Channel
<1>5. c.attached
  BY DEF Owned
<1>1. b.erp \notin BulkErps =>
        /\ m \in Channel /\ SameChannel(c, m) /\ m.linked = c.linked \ {b.erp} /\ SameBulk(c, m)
        /\ m.pending = c.pending /\ m.owes = c.owes /\ m.faults = c.faults
  <2>1. b.erp \notin BulkErps => m = [c EXCEPT !.linked = @ \ {b.erp}]
    BY <1>3 DEF Unlink
  <2>2. QED
    BY <1>3, <2>1 DEF Channel, SameChannel, SameTask, SameBulk
<1>6. CASE b.erp \in Phases
  <2> HIDE DEF m
  <2>1. b.erp \in ControlErps /\ b.erp \notin BulkErps
    BY <1>3, <1>6
  <2>2. m.linked \cap ControlErps = {}
    BY <1>1, <2>1 DEF Clean
  <2>3. c.owes = "no"
    BY <1>6 DEF Clean
  <2>4. Stranded(m) \ {b.erp} = Stranded(c)
    BY <1>1, <1>6, <2>1 DEF Stranded
  <2>5. Vacated(m, b.erp) /\ Owned(m) /\ m.attached /\ ~m.lost
    BY <1>1, <1>5, <2>1, <2>2, <2>3, <2>4 DEF Vacated, Clean, Owned, SameChannel, SameTask, SameBulk
  <2>6. /\ a \in Channel /\ a.status = "OK" /\ SameTask(m, a) /\ KeepsSync(m, a)
        /\ Clean(a)
        /\ b.result # "ERP_CANCELED" => Heard(a)
        /\ b.result = "ERP_CANCELED" => SameBulk(m, a)
        /\ a.lost => b.erp = "setup"
    BY <1>1, <1>2, <1>6, <2>1, <2>5, PhaseCallback
  <2>7. KeepsSync(c, a)
    BY <1>1, <2>1, <2>6, SameSync, SyncChain
  <2>8. SameTask(c, a) /\ (b.result = "ERP_CANCELED" => SameBulk(c, a))
    BY <1>1, <2>1, <2>6 DEF SameChannel, SameTask, SameBulk
  <2>9. Owned(a)
    BY <1>5, <2>7, <2>8 DEF SameTask, KeepsSync, Owned
  <2>10. QED
    BY <1>3, <2>1, <2>6, <2>7, <2>8, <2>9
<1>7. CASE b.erp = "payload"
  <2>1. b.erp \notin BulkErps
    BY <1>3, <1>7
  <2>2. a = [m EXCEPT !.status = "OK"]
    BY <1>2, <1>7 DEF UserCallback, BulkErps
  <2> HIDE DEF m
  <2>3. c.owes = "status" /\ c.linked \cap Phases = {}
    BY <1>7 DEF Clean
  <2>4. m.linked \cap ControlErps = {}
    BY <1>1, <1>3, <1>7, <2>1, <2>3
  <2>5. Stranded(m) = Stranded(c)
    BY <1>1, <1>3, <1>7, <2>1 DEF Stranded
  <2>6. Clean(m) /\ Heard(m)
    BY <1>1, <1>3, <2>1, <2>3, <2>4, <2>5 DEF Clean, Heard, SameChannel
  <2>7. /\ a \in Channel /\ a.status = "OK" /\ Clean(a) /\ Heard(a)
        /\ SameChannel(m, a) /\ SameBulk(m, a)
    BY <1>1, <2>1, <2>2, <2>6, SetStatus
  <2>8. SameTask(c, a) /\ ~a.lost /\ SameBulk(c, a)
    BY <1>1, <2>1, <2>7 DEF SameChannel, SameTask, SameBulk
  <2>9. Owned(a) /\ KeepsSync(c, a)
    BY <1>5, <2>8, SameSync DEF SameTask, SameBulk, Owned
  <2>10. QED
    BY <1>3, <1>7, <2>1, <2>7, <2>8, <2>9
<1>8. CASE b.erp \in BulkErps
  <2> DEFINE t == (m.dataToggle + Packets(b)) % 2
  <2>1. /\ m \in Channel /\ SameChannel(c, m)
        /\ \A x \in ControlErps : x \in m.linked <=> x \in c.linked
        /\ b.erp = "next" => m.linked = c.linked \ {"next"}
        /\ "next" \notin m.linked /\ ("bulk" \in m.linked <=> "next" \in c.linked)
        /\ m.pending = c.pending /\ m.owes = c.owes /\ m.faults = c.faults
        /\ m.pipe = c.pipe /\ m.dataToggle = c.dataToggle /\ m.host = c.host
        /\ m.moved = c.moved /\ m.drift = c.drift
    <3>0. c.linked \subseteq Erps /\ 0 \in 0 .. 1
      BY DEF Channel
    <3>1. CASE b.erp = "bulk" /\ "next" \in c.linked
      <4>1. m = [c EXCEPT !.linked = @ \ {"next"}, !.hardware = c.next, !.next = 0]
        BY <3>1 DEF Unlink
      <4>2. m \in Channel
        <5>1. ASSUME NEW z \in 0 .. 1,
                     m = [c EXCEPT !.linked = @ \ {"next"}, !.hardware = c.next, !.next = z]
              PROVE  m \in Channel
          <6> HIDE DEF m
          <6>1. QED
            BY <5>1 DEF Channel
        <5>2. QED
          BY <3>0, <4>1, <5>1
      <4> HIDE DEF m
      <4>3. /\ m.linked = c.linked \ {"next"} /\ SameChannel(c, m)
            /\ m.pending = c.pending /\ m.owes = c.owes /\ m.faults = c.faults
            /\ m.pipe = c.pipe /\ m.dataToggle = c.dataToggle /\ m.host = c.host
            /\ m.moved = c.moved /\ m.drift = c.drift
        BY <4>1 DEF Channel, SameChannel, SameTask
      <4>4. QED
        BY <1>3, <3>1, <4>2, <4>3
    <3>2. CASE ~(b.erp = "bulk" /\ "next" \in c.linked)
      <4>1. m = [c EXCEPT !.linked = @ \ {b.erp}]
        BY <3>2 DEF Unlink
      <4> HIDE DEF m
      <4>2. /\ m \in Channel /\ m.linked = c.linked \ {b.erp} /\ SameChannel(c, m)
            /\ m.pending = c.pending /\ m.owes = c.owes /\ m.faults = c.faults
            /\ m.pipe = c.pipe /\ m.dataToggle = c.dataToggle /\ m.host = c.host
            /\ m.moved = c.moved /\ m.drift = c.drift
        BY <4>1 DEF Channel, SameChannel, SameTask
      <4>3. b.erp = "next" => "bulk" \in c.linked /\ "next" \in c.linked
        BY DEF Owned
      <4>4. QED
        BY <1>3, <1>8, <3>2, <4>2, <4>3
    <3>3. QED
      BY <3>1, <3>2
  <2> HIDE DEF m
  <2>2. t \in 0 .. 1
    <3>1. m.dataToggle \in Int
      BY <2>1 DEF Channel
    <3>2. \A k \in Int : k % 2 \in 0 .. 1
      OBVIOUS
    <3>3. QED
      BY <3>1, <3>2, PacketsType
  <2>3. a = [[m EXCEPT !.dataToggle = t] EXCEPT !.status = "OK"]
    BY <1>2, <1>3, <1>8 DEF UserCallback, BulkCallback
  <2>4. t = (c.dataToggle + Packets(b)) % 2
    BY <2>1
  <2> HIDE DEF t
  <2>5. /\ a \in Channel /\ a.status = "OK" /\ SameChannel(m, a) /\ a.linked = m.linked
        /\ a.pending = m.pending /\ a.owes = m.owes /\ a.faults = m.faults
        /\ a.pipe = m.pipe /\ a.host = m.host /\ a.hardware = m.hardware
        /\ a.moved = m.moved /\ a.drift = m.drift /\ a.dataToggle = t
    BY <2>1, <2>2, <2>3 DEF Channel, SameChannel, SameTask
  <2>6. \A x \in ControlErps : x \in a.linked <=> x \in c.linked
    BY <2>1, <2>5
  <2>7. /\ a.linked \cap ControlErps = c.linked \cap ControlErps
        /\ a.linked \cap Phases = c.linked \cap Phases
    BY <1>3, <2>6
  <2>8. Stranded(a) = Stranded(c)
    BY <1>3, <2>1, <2>5, <2>6 DEF Stranded
  <2>9. SameTask(c, a) /\ ~a.lost
    BY <2>1, <2>5 DEF SameChannel, SameTask
  <2>10. Clean(a)
    BY <1>3, <2>1, <2>5, <2>6, <2>7, <2>8, <2>9 DEF Clean
  <2>11. Heard(c) => Heard(a)
    BY <2>1, <2>5, <2>7 DEF Heard, SameChannel, SameTask
  <2>12. Owned(a)
    <3>1. "next" \in c.linked => "bulk" \in c.linked /\ c.pipe
      BY DEF Owned
    <3>2. "next" \notin c.linked => c.moved = 0
      BY <1>3, <1>8 DEF Owned
    <3>3. QED
      BY <1>5, <2>1, <2>5, <2>9, <3>1, <3>2 DEF Owned, SameTask
  <2>13. b.erp = "bulk" => (Sync(c, Packets(b)) => Sync(a, 0))
    <3>1. (t + 0) % 2 = t
      BY <2>2
    <3>2. QED
      BY <2>1, <2>4, <2>5, <3>1 DEF Sync
  <2>14. b.erp = "next" => \A n, k : Sync(c, n) => Sync(a, k)
    BY <2>1, <2>5 DEF Sync
  <2>15. QED
    BY <1>3, <1>8, <2>1, <2>5, <2>6, <2>9, <2>10, <2>11, <2>12, <2>13, <2>14
<1>9. QED
  BY <1>3, <1>4, <1>6, <1>7, <1>8

----------------------------------------------------------------------------
(* The steps of the two tasks and of the host.                             *)

CbType == [erp : Erps \cup {NoErp}, result : Results, lens : Lens]

(* TypeOK in terms of Channel. *)
LEMMA TypeFacts ==
  ASSUME TypeOK
  PROVE  /\ targ \in Channel /\ targ.status = "OK" /\ cb \in CbType
         /\ cb.erp \in Erps \cup {NoErp} /\ cb.result \in Results /\ cb.lens \in Lens
         /\ cb # NoCb /\ ~targ.lost => cb.erp \in targ.linked
         /\ request \in Requests \cup {NoReq}
         /\ errors \in 0 .. MaxErrors /\ giveups \in 0 .. MaxGiveUps
  BY DEF TypeOK, Channel, CbType

(* A step that leaves the callback in progress alone. *)
LEMMA TargStep ==
  ASSUME Inv, cb' = cb, request' = request, errors' = errors, giveups' = giveups,
         targ' \in Channel, targ'.status = "OK",
         cb # NoCb => cb.erp \in targ'.linked, cb.erp = "bulk" => targ'.moved = 0,
         Clean(targ'), Heard(targ'), Owned(targ'), Tracked(targ', cb)
  PROVE  Inv'
<1>1. TypeOK'
  BY DEF Inv, TypeOK, Channel
<1>2. CallbackOK'
  BY DEF Inv, CallbackOK, NoCb, NoErp
<1>3. QED
  BY <1>1, <1>2 DEF Inv

(* A change of what the host has seen is no change to the pipes. *)
LEMMA SetAnswer ==
  ASSUME NEW c \in Channel, NEW v \in {"none", "pending", "done", "stalled"}, NEW d,
         d = [c EXCEPT !.answer = v], NEW b
  PROVE  /\ d \in Channel /\ d.status = c.status /\ d.linked = c.linked /\ d.lost = c.lost
         /\ d.moved = c.moved
         /\ Clean(c) => Clean(d)
         /\ Heard(c) => Heard(d)
         /\ Owned(c) => Owned(d)
         /\ Tracked(c, b) => Tracked(d, b)
<1>1. /\ d \in Channel /\ d.status = c.status /\ d.linked = c.linked
      /\ d.owes = c.owes /\ d.pending = c.pending /\ d.faults = c.faults
      /\ d.attached = c.attached /\ d.canceling = c.canceling /\ d.lost = c.lost
      /\ SameBulk(c, d)
  BY DEF Channel, SameBulk
<1>2. Stranded(d) = Stranded(c)
  BY <1>1 DEF Stranded
<1>3. Clean(c) => Clean(d)
  BY <1>1, <1>2 DEF Clean
<1>4. (Heard(c) => Heard(d)) /\ (Owned(c) => Owned(d)) /\ d.moved = c.moved
  BY <1>1 DEF Heard, Owned, SameBulk
<1>5. Tracked(c, b) => Tracked(d, b)
  BY <1>1, SameSync DEF Tracked, SameBulk
<1>6. QED
  BY <1>1, <1>3, <1>4, <1>5

(* The TCD completes an ERP of the control pipe. *)
LEMMA CompleteStep ==
  ASSUME Inv, NEW e \in Held \cap ControlErps, NEW result \in Results, cb = NoCb,
         cb' = Completed(e, result), result # "ERP_CANCELED",
         e = "setup" /\ result = "OK" => request # NoReq,
         \/ targ' = targ
         \/ \E v \in {"none", "pending", "done", "stalled"} : targ' = [targ EXCEPT !.answer = v],
         request' = request, giveups' = giveups, errors' \in 0 .. MaxErrors
  PROVE  Inv'
<1>1. /\ targ \in Channel /\ targ.status = "OK" /\ e \in targ.linked /\ e \in Erps
      /\ e # "bulk" /\ e # "next"
  BY TypeFacts DEF Inv, Held, Channel, ControlErps, Phases
<1>2. targ' \in Channel /\ targ'.status = "OK" /\ targ'.linked = targ.linked
  BY <1>1, SetAnswer
<1>3. Clean(targ') /\ Heard(targ') /\ Owned(targ') /\ Tracked(targ', cb)
  <2>1. CASE targ' = targ
    BY <2>1 DEF Inv
  <2>2. CASE targ' # targ
    BY <1>1, <2>2, SetAnswer DEF Inv
  <2>3. QED
    BY <2>1, <2>2
<1>4. cb'.erp = e /\ cb'.result = result /\ cb' \in CbType
  <2>1. NoData \in Lens
    BY TypeFacts DEF Inv, NoCb
  <2>2. QED
    BY <1>1, <2>1 DEF Completed, CbType
<1>5. TypeOK'
  <2>1. targ' \in [attached : BOOLEAN, pending : [Phases -> BOOLEAN], linked : SUBSET Erps,
                   dataPtr : BOOLEAN, lost : BOOLEAN, owes : {"no", "any", "status"},
                   answer : {"none", "pending", "done", "stalled"},
                   pipe : BOOLEAN, dataToggle : 0 .. 1, next : 0 .. 1, hardware : 0 .. 1,
                   host : 0 .. 1, moved : 0 .. MaxMoved, drift : BOOLEAN,
                   faults : 0 .. MaxFaults, canceling : {"no", "pipe", "channel"},
                   status : {"OK"}]
    BY <1>2 DEF Channel
  <2>2. request' \in Requests \cup {NoReq} /\ giveups' \in 0 .. MaxGiveUps
    BY DEF Inv, TypeOK
  <2>3. cb'.erp \in targ'.linked
    BY <1>1, <1>2, <1>4
  <2>4. QED
    BY <1>4, <2>1, <2>2, <2>3 DEF TypeOK, CbType
<1>6. Tracked(targ', cb')
  <2>1. NoCb.erp # "bulk"
    BY DEF NoCb, NoErp
  <2>2. QED
    BY <1>1, <1>3, <1>4, <2>1 DEF Tracked
<1>7. CallbackOK'
  BY <1>1, <1>4 DEF CallbackOK
<1>8. QED
  BY <1>3, <1>5, <1>6, <1>7 DEF Inv

(* A packet flips both ends' toggles. *)
LEMMA FlipToggle ==
  ASSUME NEW t \in 0 .. 1, NEW n \in Int
  PROVE  1 - ((t + n) % 2) = (t + (n + 1)) % 2
<1>1. t + n \in Int /\ t + (n + 1) = (t + n) + 1
  OBVIOUS
<1>2. \A k \in Int : 1 - (k % 2) = (k + 1) % 2
  OBVIOUS
<1>3. QED
  BY <1>1, <1>2

\* The channel before and after differ in how far their bulk pipe has come.
SameControl(c, d) ==
    /\ d.status = c.status /\ d.linked = c.linked /\ d.owes = c.owes /\ d.pending = c.pending
    /\ d.faults = c.faults /\ SameChannel(c, d) /\ d.pipe = c.pipe /\ d.dataToggle = c.dataToggle

(* What the packets of the ERP in progress leave as it is. *)
LEMMA SetCounts ==
  ASSUME NEW c \in Channel, NEW d \in Channel, "bulk" \in c.linked, SameControl(c, d)
  PROVE  /\ Clean(c) => Clean(d)
         /\ Heard(c) => Heard(d)
         /\ Owned(c) => Owned(d)
<1>1. Stranded(d) = Stranded(c)
  BY DEF Stranded, SameControl
<1>2. QED
  BY <1>1 DEF Clean, Heard, Owned, SameControl, SameChannel, SameTask

(* A packet of the bulk ERP in progress. *)
LEMMA PacketStep ==
  ASSUME Inv, BulkPacket
  PROVE  Inv'
<1>1. /\ targ \in Channel /\ targ.status = "OK" /\ "bulk" \in targ.linked /\ cb = NoCb
      /\ cb' = cb /\ request' = request /\ errors' = errors /\ giveups' = giveups
      /\ targ.moved < MaxMoved
      /\ Clean(targ) /\ Heard(targ) /\ Owned(targ) /\ Sync(targ, targ.moved)
  BY TypeFacts DEF Inv, BulkPacket, Held, Tracked, NoCb, NoErp
<1>2. /\ targ.moved + 1 \in 0 .. MaxMoved /\ 1 - targ.hardware \in 0 .. 1
      /\ 1 - targ.host \in 0 .. 1 /\ targ.moved \in Int /\ targ.dataToggle \in 0 .. 1
      /\ targ.hardware \in 0 .. 1 /\ targ.host \in 0 .. 1
  BY <1>1, TargAssumption DEF Channel
<1>3. targ' = [targ EXCEPT !.moved = @ + 1, !.hardware = 1 - @, !.host = 1 - @]
  BY DEF BulkPacket
<1>4. /\ targ' \in Channel /\ SameControl(targ, targ') /\ targ'.drift = targ.drift
      /\ targ'.moved = targ.moved + 1 /\ targ'.hardware = 1 - targ.hardware
      /\ targ'.host = 1 - targ.host
  BY <1>1, <1>2, <1>3 DEF Channel, SameControl, SameChannel, SameTask
<1>5. /\ targ'.status = "OK" /\ targ'.linked = targ.linked
      /\ targ'.pipe = targ.pipe /\ targ'.dataToggle = targ.dataToggle
      /\ Clean(targ') /\ Heard(targ') /\ Owned(targ')
  BY <1>1, <1>4, SetCounts DEF SameControl
<1>6. Sync(targ', targ'.moved)
  <2>1. targ.host = (targ.dataToggle + targ.moved) % 2 =>
            1 - targ.host = (targ.dataToggle + (targ.moved + 1)) % 2
    BY <1>2, FlipToggle
  <2>2. QED
    BY <1>1, <1>4, <1>5, <2>1 DEF Sync
<1>7. Tracked(targ', cb)
  BY <1>1, <1>6 DEF Tracked, NoCb, NoErp
<1>8. QED
  BY <1>1, <1>4, <1>5, <1>7, TargStep DEF NoCb, NoErp

(* The end of the bulk ERP in progress: when its lengths show its packets, they are   *)
(* the ones that usbTargErpCallback will find.                                       *)
LEMMA EndedFacts ==
  ASSUME NEW c \in Channel, "bulk" \in c.linked, Sync(c, c.moved), NEW result \in Results,
         NEW lens \in Reported(result, c.moved), NEW b,
         b = [erp |-> "bulk", result |-> result, lens |-> lens],
         NEW d, d = Ended(c, lens, result)
  PROVE  /\ d \in Channel /\ d.status = c.status /\ d.linked = c.linked /\ SameChannel(c, d)
         /\ d.moved = 0
         /\ Clean(c) => Clean(d)
         /\ Heard(c) => Heard(d)
         /\ Owned(c) => Owned(d)
         /\ b \in CbType /\ b.lens \in Lens
         /\ Sync(d, Packets(b))
<1>1. lens \in Lens /\ (result = "OK" => c.moved > 0)
  BY DEF Reported
<1>2. /\ b.erp = "bulk" /\ b.result = result /\ b.lens = lens /\ b \in CbType
      /\ ByBfr(lens) \in Int
  <2>1. b.lens = lens /\ b.result = result /\ b.erp = "bulk"
    OBVIOUS
  <2>2. b \in CbType
    BY <1>1 DEF CbType, Erps, BulkErps
  <2>3. QED
    BY <1>1, <2>1, <2>2, PacketsType
<1>3. c.moved \in Int /\ 0 \in 0 .. MaxMoved /\ c.drift \in BOOLEAN
  BY TargAssumption DEF Channel
<1>4. Exact(lens, result, c.moved) => Packets(b) = c.moved
  BY <1>1, <1>2, <1>3 DEF Exact, Packets
<1>5. Exact(lens, result, c.moved) \in BOOLEAN
  BY DEF Exact
<1>6. /\ d \in Channel /\ SameControl(c, d) /\ d.hardware = c.hardware /\ d.host = c.host
      /\ d.moved = 0 /\ (~d.drift => ~c.drift /\ Exact(lens, result, c.moved))
  BY <1>3, <1>5 DEF Ended, Channel, SameControl, SameChannel, SameTask
<1>7. /\ d.status = c.status /\ d.linked = c.linked /\ SameChannel(c, d)
      /\ d.pipe = c.pipe /\ d.dataToggle = c.dataToggle
      /\ Clean(c) => Clean(d)
      /\ Heard(c) => Heard(d)
      /\ Owned(c) => Owned(d)
  BY <1>6, SetCounts DEF SameControl
<1>8. Sync(d, Packets(b))
  BY <1>4, <1>6, <1>7 DEF Sync
<1>9. QED
  BY <1>1, <1>2, <1>6, <1>7, <1>8

(* A bulk ERP is done or has failed. *)
LEMMA BulkEndStep ==
  ASSUME Inv, NEW result \in {"OK", "COMM_FAULT"}, BulkEnd(result), errors' \in 0 .. MaxErrors
  PROVE  Inv'
<1>1. /\ targ \in Channel /\ targ.status = "OK" /\ "bulk" \in targ.linked /\ cb = NoCb
      /\ request' = request /\ giveups' = giveups
      /\ Clean(targ) /\ Heard(targ) /\ Owned(targ) /\ Sync(targ, targ.moved)
  BY TypeFacts DEF Inv, BulkEnd, Held, Tracked, NoCb, NoErp
<1>2. PICK lens \in Reported(result, targ.moved) :
        /\ cb' = [erp |-> "bulk", result |-> result, lens |-> lens]
        /\ targ' = Ended(targ, lens, result)
  BY DEF BulkEnd
<1>3. result \in Results /\ result # "ERP_CANCELED" /\ cb'.erp = "bulk" /\ cb'.result = result
  BY <1>2 DEF Results
<1>4. /\ targ' \in Channel /\ targ'.status = "OK" /\ targ'.linked = targ.linked
      /\ targ'.moved = 0 /\ Clean(targ') /\ Heard(targ') /\ Owned(targ')
      /\ cb' \in CbType /\ Sync(targ', Packets(cb'))
  BY <1>1, <1>2, <1>3, EndedFacts
<1>5. Tracked(targ', cb')
  BY <1>3, <1>4 DEF Tracked
<1>6. TypeOK'
  BY <1>1, <1>3, <1>4 DEF Inv, TypeOK, Channel, CbType
<1>7. CallbackOK'
  BY <1>1, <1>3, <1>4 DEF CallbackOK
<1>8. QED
  BY <1>4, <1>5, <1>6, <1>7 DEF Inv

(* usbTargErpCallback, in the TCD's task. *)
LEMMA CallbackStep ==
  ASSUME Inv, Callback
  PROVE  Inv'
<1>1. /\ targ \in Channel /\ cb.erp \in targ.linked /\ cb.erp \in Erps \cup {NoErp} /\ ~targ.lost
      /\ cb.result \in Results /\ cb.lens \in Lens /\ cb \in CbType
      /\ request \in Requests \cup {NoReq}
      /\ Clean(targ) /\ Heard(targ) /\ Owned(targ) /\ Tracked(targ, cb) /\ CallbackOK
  BY TypeFacts DEF Inv, Callback
<1>2. /\ targ' \in ErpCallback(targ, cb, request)
      /\ errors' = errors /\ giveups' = giveups
      /\ cb' = IF targ'.lost THEN cb ELSE NoCb
      /\ request' \in Requests \cup {NoReq}
      /\ targ'.lost => request' = request
  BY <1>1 DEF Callback
<1>3. /\ cb.result # "ERP_CANCELED" /\ (cb.erp = "setup" /\ cb.result = "OK" => request \in Requests)
      /\ cb.erp # "next" /\ (cb.erp = "bulk" => targ.moved = 0)
  BY <1>1 DEF CallbackOK
<1>4. /\ targ' \in Channel /\ targ'.status = "OK" /\ Clean(targ') /\ Owned(targ') /\ Heard(targ')
      /\ targ'.lost => cb.erp = "setup"
      /\ cb.erp # "bulk" => KeepsSync(targ, targ')
      /\ cb.erp = "bulk" => targ'.moved = 0 /\ (Sync(targ, Packets(cb)) => Sync(targ', 0))
  <2>1. cb.erp # "bulk" => cb.erp \notin BulkErps
    BY <1>3 DEF BulkErps
  <2>2. "bulk" \in BulkErps
    BY DEF BulkErps
  <2>3. QED
    BY <1>1, <1>2, <1>3, <2>1, <2>2, ErpCallbackFacts
<1>5. NoCb.erp = "none" /\ NoCb.result = "OK" /\ NoCb \in CbType
  <2>1. NoData \in Lens
    <3>1. 0 \in 0 .. MaxLen
      BY TargAssumption
    <3>2. QED
      BY <3>1 DEF NoData, Lens
  <2>2. QED
    BY <2>1 DEF NoCb, NoErp, CbType, Results
<1>6. Tracked(targ', cb') /\ (cb'.erp # "bulk")
  <2>1. cb'.erp # "bulk"
    BY <1>2, <1>4, <1>5
  <2>2. Sync(targ', targ'.moved)
    BY <1>1, <1>4 DEF Tracked, KeepsSync
  <2>3. QED
    BY <2>1, <2>2 DEF Tracked
<1>7. TypeOK'
  BY <1>1, <1>2, <1>4, <1>5 DEF Inv, TypeOK, Channel, CbType
<1>8. CallbackOK'
  <2>1. CASE targ'.lost
    BY <1>1, <1>2, <1>6, <2>1 DEF CallbackOK
  <2>2. CASE ~targ'.lost
    BY <1>2, <1>5, <2>2 DEF CallbackOK
  <2>3. QED
    BY <2>1, <2>2
<1>9. QED
  BY <1>4, <1>6, <1>7, <1>8 DEF Inv

(* The host sends a request. *)
LEMMA HostStep ==
  ASSUME Inv, NEW r \in Sent, HostSetup(r)
  PROVE  Inv'
<1>0. r \in Requests
  BY TargAssumption
<1>1. /\ targ \in Channel /\ targ.status = "OK" /\ cb' = cb /\ errors' = errors /\ request' = r
      /\ targ' = [targ EXCEPT !.answer = "pending"]
      /\ Clean(targ) /\ Heard(targ) /\ Owned(targ) /\ Tracked(targ, cb) /\ CallbackOK
  BY TypeFacts DEF Inv, HostSetup
<1>2. giveups' \in 0 .. MaxGiveUps
  <2>1. giveups \in 0 .. MaxGiveUps
    BY TypeFacts DEF Inv
  <2>2. giveups' = giveups \/ (giveups < MaxGiveUps /\ giveups' = giveups + 1)
    BY DEF HostSetup
  <2>3. QED
    BY <2>1, <2>2, TargAssumption
<1>3. /\ targ' \in Channel /\ targ'.status = "OK" /\ targ'.linked = targ.linked
      /\ targ'.lost = targ.lost /\ targ'.moved = targ.moved
      /\ Clean(targ') /\ Heard(targ') /\ Owned(targ') /\ Tracked(targ', cb)
  BY <1>1, SetAnswer
<1>4. TypeOK'
  BY <1>0, <1>1, <1>2, <1>3 DEF Inv, TypeOK, Channel
<1>5. CallbackOK'
  BY <1>0, <1>1, <1>3 DEF CallbackOK, Requests, NoReq
<1>6. QED
  BY <1>1, <1>3, <1>4, <1>5 DEF Inv

(* What a routine of the application finds when it gets the mutex. *)
LEMMA BeforeCall ==
  ASSUME Inv
  PROVE  /\ targ \in Channel /\ targ.status = "OK"
         /\ ~targ.lost => cb.erp \in targ.linked \cup {NoErp} /\ (cb # NoCb => cb.erp \in targ.linked)
         /\ cb.erp # "next" /\ (cb.erp = "bulk" => targ.moved = 0 /\ "bulk" \in targ.linked)
         /\ Clean(targ) /\ Heard(targ) /\ Owned(targ) /\ Tracked(targ, cb)
         /\ Phases \subseteq ControlErps /\ ControlErps = Phases \cup {"payload"}
         /\ "payload" \notin Phases /\ "bulk" \notin ControlErps /\ "next" \notin ControlErps
         /\ Erps = ControlErps \cup {"bulk", "next"} /\ NoErp \notin Erps
  BY TypeFacts DEF Inv, CallbackOK, NoCb, NoErp, Phases, ControlErps, BulkErps, Erps

(* usbTargControlResponseSend: the response owed is under way, or still owed. *)
LEMMA ResponseSendStep ==
  ASSUME Inv, ControlResponseSend
  PROVE  Inv'
<1>0. PICK e \in {"status", "data"} : \E c \in InitErp(targ, e) :
        targ' = [c EXCEPT !.owes = IF c.status = "OK" THEN "no" ELSE @, !.status = "OK"]
  BY DEF ControlResponseSend
<1>1. PICK c \in InitErp(targ, e) :
        targ' = [c EXCEPT !.owes = IF c.status = "OK" THEN "no" ELSE @, !.status = "OK"]
  BY <1>0
<1>2. /\ targ.attached /\ targ.canceling = "no" /\ ~targ.lost
      /\ targ.owes # "no" /\ "payload" \notin targ.linked
      /\ cb' = cb /\ request' = request /\ errors' = errors /\ giveups' = giveups
  BY DEF ControlResponseSend, Free
<1>3. targ.linked \cap ControlErps = {} /\ Cardinality(Stranded(targ)) <= targ.faults
  <2>1. targ.linked \cap Phases = {}
    BY <1>2, BeforeCall DEF Clean
  <2>2. QED
    BY <1>2, <2>1, BeforeCall DEF Clean
<1>4. e \in Phases
  BY DEF Phases
<1>5. /\ c \in Channel /\ SameChannel(targ, c) /\ SameBulk(targ, c) /\ c.owes = targ.owes
      /\ \/ /\ c.status = "OK" /\ c.linked = targ.linked \cup {e} /\ c.faults = targ.faults
            /\ \A x \in Phases : c.pending[x] = (x = e \/ targ.pending[x])
         \/ /\ c.status = "ERROR" /\ c.linked = targ.linked /\ c.faults = targ.faults
            /\ targ.pending[e] /\ c.pending = targ.pending
         \/ /\ c.status = "ERROR" /\ c.linked = targ.linked /\ c.faults = targ.faults + 1
            /\ \A x \in Phases : c.pending[x] = (x = e \/ targ.pending[x])
  BY <1>4, BeforeCall, InitErpFacts
<1>6. /\ targ' \in Channel /\ targ'.status = "OK" /\ SameChannel(c, targ') /\ SameBulk(c, targ')
      /\ targ'.linked = c.linked /\ targ'.pending = c.pending /\ targ'.faults = c.faults
      /\ targ'.owes = IF c.status = "OK" THEN "no" ELSE c.owes
  BY <1>1, <1>5 DEF Channel, SameChannel, SameTask, SameBulk
<1>7. Cardinality(Stranded(targ')) <= targ'.faults
  <2>1. \/ Stranded(targ') \subseteq Stranded(targ) /\ targ'.faults = targ.faults
        \/ Stranded(targ') \subseteq Stranded(targ) \cup {e} /\ targ'.faults = targ.faults + 1
    BY <1>5, <1>6 DEF Stranded
  <2>2. QED
    BY <1>3, <1>4, <1>6, <2>1, BeforeCall, FlagsBound
<1>8. SameBulk(targ, targ') /\ SameChannel(targ, targ') /\ ~targ'.lost
  BY <1>2, <1>5, <1>6 DEF SameBulk, SameChannel, SameTask
<1>9. Clean(targ') /\ Heard(targ')
  <2>1. CASE c.status = "OK"
    <3>1. c.linked = targ.linked \cup {e} /\ targ'.linked \cap ControlErps = {e}
      BY <1>3, <1>4, <1>5, <1>6, <2>1, BeforeCall
    <3>2. QED
      BY <1>4, <1>5, <1>6, <1>7, <1>8, <2>1, <3>1, BeforeCall DEF Clean, Heard
  <2>2. CASE c.status = "ERROR"
    <3>1. targ'.linked \cap ControlErps = {} /\ targ'.owes # "no"
      BY <1>2, <1>3, <1>5, <1>6, <2>2
    <3>2. QED
      BY <1>7, <1>8, <3>1, BeforeCall DEF Clean, Heard
  <2>3. QED
    BY <1>5, <2>1, <2>2
<1>10. Owned(targ') /\ Tracked(targ', cb) /\ targ'.moved = targ.moved
  BY <1>2, <1>8, BeforeCall, SameSync DEF Owned, Tracked, SameChannel, SameTask, SameBulk
<1>11. cb # NoCb => cb.erp \in targ'.linked
  BY <1>2, <1>5, <1>6, BeforeCall
<1>12. QED
  BY <1>2, <1>6, <1>9, <1>10, <1>11, BeforeCall, TargStep

(* usbTargControlPayloadRcv: the payload is out or refused, the status is owed. *)
LEMMA PayloadStep ==
  ASSUME Inv, ControlPayloadRcv
  PROVE  Inv'
<1>1. PICK c \in Transfer(targ, "payload") : targ' = [c EXCEPT !.owes = "status", !.status = "OK"]
  BY DEF ControlPayloadRcv
<1>2. /\ targ.attached /\ targ.owes = "any" /\ ~targ.lost
      /\ cb' = cb /\ request' = request /\ errors' = errors /\ giveups' = giveups
  BY DEF ControlPayloadRcv, Free
<1>3. targ.linked \cap ControlErps = {} /\ Cardinality(Stranded(targ)) <= targ.faults
  <2>1. targ.linked \cap Phases = {} /\ "payload" \notin targ.linked
    BY <1>2, BeforeCall DEF Clean
  <2>2. QED
    BY <2>1, BeforeCall DEF Clean
<1>4. /\ c \in Channel /\ SameChannel(targ, c) /\ c.pending = targ.pending
      /\ c.pipe = targ.pipe /\ c.dataToggle = targ.dataToggle /\ c.hardware = targ.hardware
      /\ c.host = targ.host /\ c.moved = targ.moved /\ c.drift = targ.drift
      /\ \/ c.linked = targ.linked \cup {"payload"} /\ c.faults = targ.faults
         \/ c.linked = targ.linked /\ c.faults = targ.faults + 1
  <2>1. targ \in Channel /\ "payload" \in Erps /\ targ.drift \in BOOLEAN
    BY BeforeCall DEF Channel
  <2>2. QED
    BY <2>1, TransferFacts
<1>5. /\ targ' \in Channel /\ targ'.status = "OK" /\ SameChannel(c, targ') /\ SameBulk(c, targ')
      /\ targ'.linked = c.linked /\ targ'.pending = c.pending /\ targ'.faults = c.faults
      /\ targ'.owes = "status"
  BY <1>1, <1>4 DEF Channel, SameChannel, SameTask, SameBulk
<1>6. targ'.linked \cap ControlErps \subseteq {"payload"} /\ targ'.linked \cap Phases = {}
  BY <1>3, <1>4, <1>5, BeforeCall
<1>7. Cardinality(Stranded(targ')) <= targ'.faults
  <2>1. Stranded(targ') \subseteq Stranded(targ)
    BY <1>4, <1>5 DEF Stranded
  <2>2. "setup" \in Phases
    BY DEF Phases
  <2>3. QED
    BY <1>3, <1>4, <1>5, <2>1, <2>2, BeforeCall, FlagsBound
<1>8. SameBulk(targ, targ') /\ SameChannel(targ, targ') /\ ~targ'.lost
  BY <1>2, <1>4, <1>5 DEF SameBulk, SameChannel, SameTask
<1>9. Clean(targ') /\ Heard(targ')
  BY <1>5, <1>6, <1>7, <1>8 DEF Clean, Heard
<1>10. Owned(targ') /\ Tracked(targ', cb) /\ targ'.moved = targ.moved
  BY <1>2, <1>8, BeforeCall, SameSync DEF Owned, Tracked, SameChannel, SameTask, SameBulk
<1>11. cb # NoCb => cb.erp \in targ'.linked
  BY <1>2, <1>4, <1>5, BeforeCall
<1>12. QED
  BY <1>2, <1>5, <1>9, <1>10, <1>11, BeforeCall, TargStep

(* usbTargTransfer on the bulk pipe: the TCD is given the pipe's toggle. *)
LEMMA BulkTransferStep ==
  ASSUME Inv, BulkTransfer
  PROVE  Inv'
<1> DEFINE e == IF "bulk" \in targ.linked THEN "next" ELSE "bulk"
<1>1. PICK c \in Transfer(targ, e) : targ' = [c EXCEPT !.status = "OK"]
  BY DEF BulkTransfer
<1>2. /\ targ.attached /\ targ.pipe /\ ~targ.lost
      /\ cb' = cb /\ request' = request /\ errors' = errors /\ giveups' = giveups
  BY DEF BulkTransfer, Free
<1>3. e \in {"bulk", "next"} /\ (e = "next" <=> "bulk" \in targ.linked)
  OBVIOUS
<1> HIDE DEF e
<1>4. /\ c \in Channel /\ SameChannel(targ, c) /\ c.pending = targ.pending /\ c.owes = targ.owes
      /\ c.pipe = targ.pipe /\ c.dataToggle = targ.dataToggle /\ c.host = targ.host
      /\ c.moved = targ.moved
      /\ \/ /\ c.linked = targ.linked \cup {e} /\ c.faults = targ.faults
            /\ c.hardware = IF e = "bulk" THEN targ.dataToggle ELSE targ.hardware
            /\ c.drift = (targ.drift \/ e = "next")
         \/ /\ c.linked = targ.linked /\ c.faults = targ.faults + 1
            /\ c.hardware = targ.hardware /\ c.drift = targ.drift
  <2>1. targ \in Channel /\ e \in Erps
    BY <1>3, BeforeCall
  <2>2. QED
    BY <2>1, TransferFacts
<1>5. /\ targ' \in Channel /\ targ'.status = "OK" /\ SameChannel(c, targ') /\ SameBulk(c, targ')
      /\ (Clean(c) => Clean(targ')) /\ (Heard(c) => Heard(targ')) /\ targ'.linked = c.linked
  <2>1. targ'.linked = c.linked
    BY <1>1, <1>4 DEF Channel
  <2>2. QED
    BY <1>1, <1>4, <2>1, SetStatus
<1>6. \A x \in ControlErps : x \in c.linked <=> x \in targ.linked
  BY <1>3, <1>4, BeforeCall
<1>7. /\ c.linked \cap ControlErps = targ.linked \cap ControlErps
      /\ c.linked \cap Phases = targ.linked \cap Phases
  BY <1>6, BeforeCall
<1>8. Cardinality(Stranded(c)) <= c.faults
  <2>1. Stranded(c) = Stranded(targ) /\ "setup" \in Phases
    BY <1>4, <1>6, BeforeCall DEF Stranded, Phases
  <2>2. Cardinality(Stranded(targ)) <= targ.faults
    BY BeforeCall DEF Clean
  <2>3. QED
    BY <1>4, <2>1, <2>2, BeforeCall, FlagsBound
<1>9. Clean(c) /\ Heard(c)
  <2>1. Clean(c)
    BY <1>2, <1>4, <1>6, <1>7, <1>8, BeforeCall DEF Clean, SameChannel
  <2>2. Heard(c)
    <3>1. c.faults = 0 => targ.faults = 0
      BY <1>4, BeforeCall, TargAssumption DEF Channel
    <3>2. QED
      BY <1>4, <1>7, <3>1, BeforeCall DEF Heard, SameChannel, SameTask
  <2>3. QED
    BY <2>1, <2>2
<1>10. cb.erp = "bulk" => "bulk" \in targ.linked
  BY <1>2, BeforeCall DEF NoErp
<1>11. Owned(c)
  BY <1>2, <1>3, <1>4, BeforeCall DEF Owned, SameChannel, SameTask
<1>12. Tracked(c, cb)
  <2>1. CASE e = "next"
    <3>1. ~c.drift => c.linked = targ.linked /\ c.hardware = targ.hardware /\ ~targ.drift
      BY <1>4, <2>1
    <3>2. QED
      BY <1>4, <3>1, BeforeCall DEF Tracked, Sync
  <2>2. CASE e = "bulk"
    <3>1. "bulk" \notin targ.linked /\ cb.erp # "bulk" /\ targ.moved = 0
      BY <1>3, <1>10, <2>2, BeforeCall DEF Owned
    <3>2. targ.dataToggle \in 0 .. 1 /\ targ.drift \in BOOLEAN
      BY BeforeCall DEF Channel
    <3>3. (targ.dataToggle + 0) % 2 = targ.dataToggle
      BY <3>2
    <3>4. c.drift = targ.drift
      BY <1>4, <2>2, <3>2
    <3>5. QED
      BY <1>4, <2>2, <3>1, <3>3, <3>4, BeforeCall DEF Tracked, Sync
  <2>3. QED
    BY <1>3, <2>1, <2>2
<1>13. Owned(targ') /\ Tracked(targ', cb) /\ targ'.moved = targ.moved
  BY <1>2, <1>4, <1>5, <1>11, <1>12, SameSync DEF Owned, Tracked, SameChannel, SameTask, SameBulk
<1>14. cb # NoCb => cb.erp \in targ'.linked
  BY <1>2, <1>4, <1>5, BeforeCall
<1>15. QED
  BY <1>2, <1>5, <1>9, <1>13, <1>14, BeforeCall, TargStep

(* The TCD cancels an ERP it holds. *)
LEMMA CanceledFacts ==
  ASSUME Inv, ~targ.lost, NEW e \in Held, Canceled(e)
  PROVE  /\ targ' \in Channel /\ targ'.status = "OK" /\ SameTask(targ, targ')
         /\ Clean(targ') /\ Owned(targ') /\ Tracked(targ', cb)
         /\ e \in BulkErps => Heard(targ')
         /\ cb # NoCb => cb.erp \in targ'.linked
         /\ cb.erp = "bulk" => targ'.moved = 0
<1>1. e \in targ.linked /\ e # cb.erp /\ e \in Erps /\ BulkErps = {"bulk", "next"}
  BY BeforeCall DEF Held, Channel, BulkErps
<1>2. "ERP_CANCELED" \in Results
  BY DEF Results
<1>3. CASE e = "bulk"
  <2>1. PICK lens \in Reported("ERP_CANCELED", targ.moved) :
          targ' \in ErpCallback(Ended(targ, lens, "ERP_CANCELED"),
                                [erp |-> e, result |-> "ERP_CANCELED", lens |-> lens], NoReq)
    BY <1>3 DEF Canceled
  <2> DEFINE c == Ended(targ, lens, "ERP_CANCELED")
             b == [erp |-> "bulk", result |-> "ERP_CANCELED", lens |-> lens]
  <2>2. Sync(targ, targ.moved)
    BY <1>1, <1>3, BeforeCall DEF Tracked
  <2>3. /\ c \in Channel /\ c.linked = targ.linked /\ SameChannel(targ, c) /\ c.moved = 0
        /\ Clean(c) /\ Heard(c) /\ Owned(c)
        /\ b.lens \in Lens /\ Sync(c, Packets(b))
    BY <1>1, <1>2, <1>3, <2>2, BeforeCall, EndedFacts
  <2>4. b.erp = "bulk" /\ b.result = "ERP_CANCELED"
    OBVIOUS
  <2>5. targ' \in ErpCallback(c, b, NoReq)
    BY <1>3, <2>1
  <2> HIDE DEF b, c
  <2>6. /\ targ' \in Channel /\ targ'.status = "OK" /\ SameTask(c, targ') /\ Clean(targ')
        /\ Owned(targ') /\ Heard(targ') /\ targ'.moved = 0 /\ Sync(targ', 0)
        /\ \A x \in ControlErps : x \in targ'.linked <=> x \in c.linked
    <3>1. c \in Channel /\ ~c.lost /\ b.erp \in c.linked /\ b.erp \in BulkErps
      BY <1>1, <1>3, <2>3, <2>4 DEF SameChannel
    <3>2. QED
      BY <1>2, <2>3, <2>4, <2>5, <3>1, ErpCallbackFacts
  <2>7. cb.erp # "bulk"
    BY <1>1, <1>3
  <2>8. cb # NoCb => cb.erp \in targ'.linked
    BY <2>3, <2>6, <2>7, BeforeCall DEF Channel
  <2>9. QED
    BY <2>3, <2>6, <2>7, <2>8 DEF Tracked, SameChannel, SameTask
<1>4. CASE e # "bulk"
  <2> DEFINE b == Completed(e, "ERP_CANCELED")
  <2>1. targ' \in ErpCallback(targ, b, NoReq)
    BY <1>4 DEF Canceled
  <2>2. b.erp = e /\ b.result = "ERP_CANCELED" /\ b.lens \in Lens
    <3>1. NoData \in Lens
      <4>1. 0 \in 0 .. MaxLen
        BY TargAssumption
      <4>2. QED
        BY <4>1 DEF NoData, Lens
    <3>2. QED
      BY <3>1 DEF Completed
  <2> HIDE DEF b
  <2>3. /\ targ' \in Channel /\ targ'.status = "OK" /\ SameTask(targ, targ') /\ Clean(targ')
        /\ Owned(targ')
        /\ e \in BulkErps => Heard(targ')
        /\ e \notin BulkErps => SameBulk(targ, targ')
        /\ e = "next" => /\ targ'.linked = targ.linked \ {"next"} /\ targ'.moved = targ.moved
                         /\ \A n, k : Sync(targ, n) => Sync(targ', k)
    <3>1. /\ targ \in Channel /\ Clean(targ) /\ Owned(targ) /\ Heard(targ) /\ b.erp \in targ.linked
          /\ b.result \in Results /\ ~(b.erp = "setup" /\ b.result = "OK") /\ b.erp # "bulk"
      BY <1>1, <1>2, <1>4, <2>2, BeforeCall
    <3>2. QED
      BY <1>1, <2>1, <2>2, <3>1, ErpCallbackFacts
  <2>4. CASE e = "next"
    <3>1. cb # NoCb => cb.erp \in targ'.linked
      BY <2>3, <2>4, BeforeCall
    <3>2. Tracked(targ', cb)
      BY <2>3, <2>4, BeforeCall DEF Tracked
    <3>3. QED
      BY <1>1, <2>3, <2>4, <3>1, <3>2, BeforeCall
  <2>5. CASE e \in ControlErps
    <3>1. e \notin BulkErps
      BY <1>1, <2>5, BeforeCall
    <3>2. cb # NoCb => cb.erp = "bulk"
      <4>1. ASSUME cb # NoCb PROVE cb.erp = "bulk"
        <5>1. cb.erp \in Erps /\ cb.erp \in targ.linked /\ cb.erp # "next"
          BY <4>1, BeforeCall DEF Channel
        <5>2. QED
          BY <1>1, <2>5, <5>1, BeforeCall DEF Clean
      <4>2. QED
        BY <4>1
    <3>3. cb # NoCb => cb.erp \in targ'.linked
      BY <2>3, <3>1, <3>2, BeforeCall DEF SameBulk
    <3>4. Tracked(targ', cb) /\ targ'.moved = targ.moved
      BY <2>3, <3>1, BeforeCall, SameSync DEF Tracked, SameBulk
    <3>5. QED
      BY <2>3, <3>1, <3>3, <3>4, BeforeCall
  <2>6. QED
    BY <1>1, <1>4, <2>4, <2>5, BeforeCall
<1>5. QED
  BY <1>3, <1>4

(* usbTargTransferAbort of a bulk transfer. *)
LEMMA AbortStep ==
  ASSUME Inv, TransferAbort
  PROVE  Inv'
<1>1. PICK e \in Held \cap BulkErps : Canceled(e)
  BY DEF TransferAbort
<1>2. ~targ.lost /\ cb' = cb /\ request' = request /\ errors' = errors /\ giveups' = giveups
  BY DEF TransferAbort, Free
<1>3. QED
  BY <1>1, <1>2, CanceledFacts, TargStep

(* usbTargPipeDestroy and usbTargTcdDetach take the mutex and keep it. *)
LEMMA SeizeStep ==
  ASSUME Inv, PipeDestroy \/ TcdDetach
  PROVE  Inv'
<1>1. PICK v \in {"pipe", "channel"} : targ' = [targ EXCEPT !.canceling = v]
  BY DEF PipeDestroy, TcdDetach
<1>2. /\ targ.attached /\ targ.canceling = "no" /\ ~targ.lost
      /\ cb' = cb /\ request' = request /\ errors' = errors /\ giveups' = giveups
  BY DEF PipeDestroy, TcdDetach, Free
<1>3. /\ targ' \in Channel /\ targ'.status = "OK" /\ targ'.linked = targ.linked
      /\ targ'.pending = targ.pending /\ targ'.owes = targ.owes /\ targ'.faults = targ.faults
      /\ targ'.attached = targ.attached /\ targ'.lost = targ.lost /\ SameBulk(targ, targ')
  BY <1>1, BeforeCall DEF Channel, SameBulk
<1>4. Stranded(targ') = Stranded(targ)
  BY <1>3 DEF Stranded
<1>5. Clean(targ') /\ Heard(targ') /\ Owned(targ')
  BY <1>2, <1>3, <1>4, BeforeCall DEF Clean, Heard, Owned, SameBulk
<1>6. Tracked(targ', cb) /\ targ'.moved = targ.moved
  BY <1>3, BeforeCall, SameSync DEF Tracked, SameBulk
<1>7. QED
  BY <1>2, <1>3, <1>5, <1>6, BeforeCall, TargStep

(* An ERP that destroyPipe is to cancel is canceled. *)
LEMMA CancelStep ==
  ASSUME Inv, CancelOne
  PROVE  Inv'
<1>1. PICK e \in Doomed \ {cb.erp} : Canceled(e)
  BY DEF CancelOne
<1>2. ~targ.lost /\ cb' = cb /\ request' = request /\ errors' = errors /\ giveups' = giveups
  BY DEF CancelOne
<1>3. e \in Held /\ (e \in BulkErps \/ targ.canceling = "channel")
  BY DEF Doomed, Held, BulkErps
<1>4. /\ targ' \in Channel /\ targ'.status = "OK" /\ SameTask(targ, targ')
      /\ Clean(targ') /\ Owned(targ') /\ Tracked(targ', cb)
      /\ e \in BulkErps => Heard(targ')
      /\ cb # NoCb => cb.erp \in targ'.linked
      /\ cb.erp = "bulk" => targ'.moved = 0
  BY <1>1, <1>2, <1>3, CanceledFacts
<1>5. Heard(targ')
  BY <1>3, <1>4 DEF Heard, SameTask
<1>6. QED
  BY <1>2, <1>4, <1>5, TargStep

(* A channel as usbTargTcdAttach makes it. *)
LEMMA AttachedFacts ==
  ASSUME NEW n \in 0 .. MaxFaults, NEW d, d = [Attached EXCEPT !.faults = n]
  PROVE  /\ d \in Channel /\ d.status = "OK" /\ d.linked = {"setup"}
         /\ Clean(d) /\ Heard(d) /\ Owned(d) /\ Tracked(d, NoCb)
<1>1. /\ d.attached = TRUE /\ d.pending = [e \in Phases |-> e = "setup"] /\ d.linked = {"setup"}
      /\ d.owes = "no" /\ d.pipe = FALSE /\ d.faults = n /\ d.canceling = "no" /\ d.status = "OK"
      /\ d.moved = 0 /\ d.lost = FALSE
  BY DEF Attached
<1>2. /\ Phases \subseteq ControlErps /\ "setup" \in Phases /\ Phases \subseteq Erps
      /\ "payload" \notin Phases /\ "bulk" \notin Phases /\ "next" \notin Phases
  BY DEF Phases, ControlErps, Erps
<1>3. d \in Channel
  <2>1. /\ 0 \in 0 .. 1 /\ 0 \in 0 .. MaxMoved /\ {"setup"} \in SUBSET Erps
        /\ [e \in Phases |-> e = "setup"] \in [Phases -> BOOLEAN]
    BY <1>2, TargAssumption
  <2>2. ASSUME NEW z \in 0 .. 1, NEW k \in 0 .. MaxMoved, NEW l \in SUBSET Erps,
               NEW p \in [Phases -> BOOLEAN],
               d = [attached |-> TRUE, pending |-> p, linked |-> l,
                    dataPtr |-> FALSE, lost |-> FALSE, owes |-> "no", answer |-> "none",
                    pipe |-> FALSE, dataToggle |-> z, next |-> z, hardware |-> z, host |-> z,
                    moved |-> k, drift |-> FALSE, faults |-> n, canceling |-> "no", status |-> "OK"]
        PROVE  d \in Channel
    <3>1. [attached |-> TRUE, pending |-> p, linked |-> l,
           dataPtr |-> FALSE, lost |-> FALSE, owes |-> "no", answer |-> "none",
           pipe |-> FALSE, dataToggle |-> z, next |-> z, hardware |-> z, host |-> z,
           moved |-> k, drift |-> FALSE, faults |-> n, canceling |-> "no", status |-> "OK"] \in Channel
      BY DEF Channel
    <3>2. QED
      BY <2>2, <3>1
  <2> DEFINE p0 == [e \in Phases |-> e = "setup"]
             l0 == {"setup"}
  <2>3. d = [attached |-> TRUE, pending |-> p0, linked |-> l0,
              dataPtr |-> FALSE, lost |-> FALSE, owes |-> "no", answer |-> "none",
              pipe |-> FALSE, dataToggle |-> 0, next |-> 0, hardware |-> 0, host |-> 0,
              moved |-> 0, drift |-> FALSE, faults |-> n, canceling |-> "no", status |-> "OK"]
    BY DEF Attached
  <2>4. p0 \in [Phases -> BOOLEAN] /\ l0 \in SUBSET Erps
    BY <2>1
  <2> HIDE DEF p0, l0
  <2>5. QED
    BY <2>1, <2>2, <2>3, <2>4
<1>4. Cardinality(Stranded(d)) <= n
  <2>1. Stranded(d) = {}
    BY <1>1 DEF Stranded
  <2>2. Cardinality(Stranded(d)) = 0
    BY <2>1, FS_EmptySet
  <2>3. QED
    BY <2>2, TargAssumption
<1>5. Clean(d)
  BY <1>1, <1>2, <1>4 DEF Clean
<1>6. Heard(d) /\ Owned(d) /\ Tracked(d, NoCb)
  BY <1>1, <1>2 DEF Heard, Owned, Tracked, Sync
<1>7. QED
  BY <1>1, <1>3, <1>5, <1>6

(* A channel as usbTargTcdDetach leaves it. *)
LEMMA DetachedFacts ==
  ASSUME NEW n \in 0 .. MaxFaults, NEW d, d = [Detached EXCEPT !.faults = n]
  PROVE  /\ d \in Channel /\ d.status = "OK" /\ d.linked = {}
         /\ Clean(d) /\ Heard(d) /\ Owned(d) /\ Tracked(d, NoCb)
<1>1. /\ d.attached = FALSE /\ d.pending = [e \in Phases |-> FALSE] /\ d.linked = {}
      /\ d.owes = "no" /\ d.pipe = FALSE /\ d.faults = n /\ d.canceling = "no" /\ d.status = "OK"
      /\ d.moved = 0 /\ d.lost = FALSE
  BY DEF Detached, Attached
<1>2. /\ Phases \subseteq ControlErps /\ "setup" \in Phases /\ Phases \subseteq Erps
      /\ "payload" \notin Phases /\ "bulk" \notin Phases /\ "next" \notin Phases
  BY DEF Phases, ControlErps, Erps
<1>3. d \in Channel
  <2>1. /\ 0 \in 0 .. 1 /\ 0 \in 0 .. MaxMoved /\ {} \in SUBSET Erps
        /\ [e \in Phases |-> FALSE] \in [Phases -> BOOLEAN]
    BY <1>2, TargAssumption
  <2>2. ASSUME NEW z \in 0 .. 1, NEW k \in 0 .. MaxMoved, NEW l \in SUBSET Erps,
               NEW p \in [Phases -> BOOLEAN],
               d = [attached |-> FALSE, pending |-> p, linked |-> l,
                    dataPtr |-> FALSE, lost |-> FALSE, owes |-> "no", answer |-> "none",
                    pipe |-> FALSE, dataToggle |-> z, next |-> z, hardware |-> z, host |-> z,
                    moved |-> k, drift |-> FALSE, faults |-> n, canceling |-> "no", status |-> "OK"]
        PROVE  d \in Channel
    <3>1. [attached |-> FALSE, pending |-> p, linked |-> l,
           dataPtr |-> FALSE, lost |-> FALSE, owes |-> "no", answer |-> "none",
           pipe |-> FALSE, dataToggle |-> z, next |-> z, hardware |-> z, host |-> z,
           moved |-> k, drift |-> FALSE, faults |-> n, canceling |-> "no", status |-> "OK"] \in Channel
      BY DEF Channel
    <3>2. QED
      BY <2>2, <3>1
  <2> DEFINE p0 == [e \in Phases |-> FALSE]
             l0 == {}
  <2>3. d = [attached |-> FALSE, pending |-> p0, linked |-> l0,
              dataPtr |-> FALSE, lost |-> FALSE, owes |-> "no", answer |-> "none",
              pipe |-> FALSE, dataToggle |-> 0, next |-> 0, hardware |-> 0, host |-> 0,
              moved |-> 0, drift |-> FALSE, faults |-> n, canceling |-> "no", status |-> "OK"]
    BY DEF Detached, Attached
  <2>4. p0 \in [Phases -> BOOLEAN] /\ l0 \in SUBSET Erps
    BY <2>1
  <2> HIDE DEF p0, l0
  <2>5. QED
    BY <2>1, <2>2, <2>3, <2>4
<1>4. Cardinality(Stranded(d)) <= n
  <2>1. Stranded(d) = {}
    BY <1>1 DEF Stranded
  <2>2. Cardinality(Stranded(d)) = 0
    BY <2>1, FS_EmptySet
  <2>3. QED
    BY <2>2, TargAssumption
<1>5. Clean(d)
  BY <1>1, <1>2, <1>4 DEF Clean
<1>6. Heard(d) /\ Owned(d) /\ Tracked(d, NoCb)
  BY <1>1, <1>2 DEF Heard, Owned, Tracked, Sync
<1>7. QED
  BY <1>1, <1>3, <1>5, <1>6

(* usbTargTcdAttach: a detached channel has no ERP a callback could be for. *)
LEMMA AttachStep ==
  ASSUME Inv, TcdAttach
  PROVE  Inv'
<1>1. /\ ~targ.attached /\ targ' = [Attached EXCEPT !.faults = targ.faults]
      /\ cb' = cb /\ request' = request /\ errors' = errors /\ giveups' = giveups
  BY DEF TcdAttach
<1>2. targ.faults \in 0 .. MaxFaults /\ cb = NoCb
  BY <1>1, BeforeCall DEF Owned, Channel
<1>3. /\ targ' \in Channel /\ targ'.status = "OK"
      /\ Clean(targ') /\ Heard(targ') /\ Owned(targ') /\ Tracked(targ', NoCb)
  BY <1>1, <1>2, AttachedFacts
<1>4. NoCb.erp = "none"
  BY DEF NoCb, NoErp
<1>5. QED
  BY <1>1, <1>2, <1>3, <1>4, TargStep

(* The pipe or the channel is gone: none of its ERPs was left. *)
LEMMA DestroyStep ==
  ASSUME Inv, DestroyEnd
  PROVE  Inv'
<1>1. /\ targ.canceling # "no" /\ ~targ.lost /\ Doomed = {}
      /\ cb' = cb /\ errors' = errors /\ giveups' = giveups
  BY DEF DestroyEnd
<1>2. /\ targ.linked \subseteq Erps /\ targ.attached
      /\ "bulk" \notin targ.linked /\ "next" \notin targ.linked
      /\ targ.moved = 0 /\ cb.erp # "bulk"
  <2>1. targ.linked \subseteq Erps /\ targ.attached
    BY <1>1, BeforeCall DEF Channel, Owned
  <2>2. "next" \notin targ.linked
    BY <1>1 DEF Doomed
  <2>3. "bulk" \notin targ.linked
    BY <1>1, <2>2 DEF Doomed
  <2>4. QED
    BY <2>1, <2>2, <2>3, BeforeCall DEF Owned
<1>3. CASE targ.canceling = "pipe"
  <2>1. targ' = [targ EXCEPT !.pipe = FALSE, !.canceling = "no"] /\ request' = request
    BY <1>3 DEF DestroyEnd
  <2>2. /\ targ' \in Channel /\ targ'.status = "OK" /\ targ'.linked = targ.linked
        /\ targ'.pending = targ.pending /\ targ'.owes = targ.owes /\ targ'.faults = targ.faults
        /\ targ'.attached = targ.attached /\ targ'.pipe = FALSE /\ targ'.canceling = "no"
        /\ targ'.moved = targ.moved /\ targ'.lost = targ.lost
    BY <2>1, BeforeCall DEF Channel
  <2>3. Stranded(targ') = Stranded(targ)
    BY <2>2 DEF Stranded
  <2>4. Clean(targ') /\ Heard(targ') /\ Owned(targ') /\ Tracked(targ', cb)
    BY <1>2, <1>3, <2>2, <2>3, BeforeCall DEF Clean, Heard, Owned, Tracked, Sync
  <2>5. QED
    BY <1>1, <1>2, <2>1, <2>2, <2>4, BeforeCall, TargStep
<1>4. CASE targ.canceling = "channel"
  <2>1. targ' = [Detached EXCEPT !.faults = targ.faults] /\ request' = NoReq
    BY <1>4 DEF DestroyEnd
  <2>2. targ.linked = {}
    <3>1. targ.linked \cap ControlErps = {}
      BY <1>1, <1>4 DEF Doomed
    <3>2. QED
      BY <1>2, <3>1, BeforeCall
  <2>3. targ.faults \in 0 .. MaxFaults /\ cb = NoCb
    BY <1>1, <2>2, BeforeCall DEF Channel
  <2>4. /\ targ' \in Channel /\ targ'.status = "OK"
        /\ Clean(targ') /\ Heard(targ') /\ Owned(targ') /\ Tracked(targ', NoCb)
    BY <2>1, <2>3, DetachedFacts
  <2>5. TypeOK'
    BY <1>1, <2>1, <2>3, <2>4 DEF Inv, TypeOK, Channel
  <2>6. CallbackOK'
    BY <1>1, <2>3 DEF CallbackOK, NoCb, NoErp
  <2>7. QED
    BY <1>1, <2>3, <2>4, <2>5, <2>6 DEF Inv
<1>5. QED
  BY <1>1, <1>3, <1>4, BeforeCall DEF Channel

----------------------------------------------------------------------------
(* The invariant and what follows from it.                                 *)

(* The channel starts attached, with its Setup ERP out. *)
LEMMA InitInv ==
  ASSUME Init
  PROVE  Inv
<1>1. 0 \in 0 .. MaxFaults /\ 0 \in 0 .. MaxErrors /\ 0 \in 0 .. MaxGiveUps
  BY TargAssumption
<1>2. targ = [Attached EXCEPT !.faults = 0]
  BY DEF Init, Attached
<1>3. /\ targ \in Channel /\ targ.status = "OK"
      /\ Clean(targ) /\ Heard(targ) /\ Owned(targ) /\ Tracked(targ, NoCb)
  BY <1>1, <1>2, AttachedFacts
<1>4. NoCb \in CbType /\ cb = NoCb /\ request = NoReq /\ errors = 0 /\ giveups = 0
  <2>1. NoData \in Lens
    <3>1. 0 \in 0 .. MaxLen
      BY TargAssumption
    <3>2. QED
      BY <3>1 DEF NoData, Lens
  <2>2. QED
    BY <2>1 DEF Init, NoCb, NoErp, CbType, Results
<1>5. TypeOK
  BY <1>1, <1>3, <1>4 DEF TypeOK, Channel, CbType
<1>6. CallbackOK
  BY <1>4 DEF CallbackOK, NoCb, NoErp
<1>7. QED
  BY <1>3, <1>4, <1>5, <1>6 DEF Inv

(* Every step of the TCD's task, of the application and of the host keeps the    *)
(* invariant.                                                                  *)
LEMMA NextInv ==
  ASSUME Inv, [Next]_vars
  PROVE  Inv'
<1>0. errors \in 0 .. MaxErrors
  BY TypeFacts DEF Inv
<1>1. CASE TakeSetup
  <2>1. "OK" \in Results /\ "setup" \in ControlErps
    BY DEF Results, ControlErps, Phases
  <2>2. QED
    BY <1>0, <1>1, <2>1, CompleteStep DEF TakeSetup
<1>2. ASSUME NEW e \in ControlErps, Supersede(e) PROVE Inv'
  <2>1. "NEW_SETUP_PACKET" \in Results
    BY DEF Results
  <2>2. QED
    BY <1>0, <1>2, <2>1, CompleteStep DEF Supersede
<1>3. ASSUME NEW e \in ControlErps, Proceed(e) PROVE Inv'
  <2>1. "OK" \in Results /\ targ.answer \in {"none", "pending", "done", "stalled"}
    BY BeforeCall DEF Results, Channel
  <2>2. \E v \in {"none", "pending", "done", "stalled"} : targ' = [targ EXCEPT !.answer = v]
    BY <1>3, <2>1 DEF Proceed
  <2>3. QED
    BY <1>0, <1>3, <2>1, <2>2, CompleteStep DEF Proceed
<1>4. ASSUME NEW e \in ControlErps, Fail(e) PROVE Inv'
  <2>1. "COMM_FAULT" \in Results /\ errors' \in 0 .. MaxErrors
    BY <1>0, <1>4, TargAssumption DEF Results, Fail
  <2>2. QED
    BY <1>4, <2>1, CompleteStep DEF Fail
<1>5. CASE BulkDone
  BY <1>0, <1>5, BulkEndStep DEF BulkDone
<1>6. CASE BulkFail
  <2>1. errors' \in 0 .. MaxErrors
    BY <1>0, <1>6, TargAssumption DEF BulkFail
  <2>2. QED
    BY <1>6, <2>1, BulkEndStep DEF BulkFail
<1>7. CASE TcdTask
  BY <1>1, <1>2, <1>3, <1>4, <1>5, <1>6, <1>7, PacketStep, CallbackStep DEF TcdTask
<1>8. CASE AppTask
  BY <1>8, ResponseSendStep, PayloadStep, BulkTransferStep, AbortStep, SeizeStep, CancelStep,
     DestroyStep, AttachStep DEF AppTask
<1>9. CASE UNCHANGED vars
  BY <1>9 DEF vars, Inv, TypeOK, Tracked, CallbackOK
<1>10. QED
  BY <1>7, <1>8, <1>9, HostStep DEF Next

(* Inv is an invariant of the target library with any TCD and host. *)
THEOREM Invariant == Spec => []Inv
  BY InitInv, NextInv, PTL DEF Spec

(* The channel, its pipes and the callback in progress keep their types, and the    *)
(* ERP a callback is for is linked until the callback has the mutex.              *)
THEOREM TypeCorrect == Spec => []TypeOK
<1>1. Inv => TypeOK
  BY DEF Inv
<1>2. QED
  BY <1>1, Invariant, PTL

(* The control pipe never goes deaf: as long as the TCD refuses nothing, an ERP of   *)
(* the pipe is out or the application is still to respond.                        *)
THEOREM NeverDeaf == Spec => []Responsive
<1>1. Inv => Responsive
  BY DEF Inv, Heard, Responsive
<1>2. QED
  BY <1>1, Invariant, PTL

(* The phases of a control transfer never overlap, also after refusals: an ERP that  *)
(* is out is marked as pending, no more marks are left without their ERP than the  *)
(* TCD has refused submissions, and until it refuses one no ERP is canceled through *)
(* a pipe that is not there.                                                       *)
THEOREM PhasesApart == Spec => []OnePhase
<1>1. Inv => OnePhase
  <2> SUFFICES ASSUME Inv PROVE OnePhase
    OBVIOUS
  <2> DEFINE S == targ.linked \cap ControlErps
  <2>1. \A x, y \in S : x = y
    BY DEF Inv, Clean
  <2> HIDE DEF S
  <2>2. Cardinality(S) <= 1
    <3>1. CASE S = {}
      BY <3>1, FS_EmptySet
    <3>2. CASE S # {}
      <4>1. PICK x : x \in S
        BY <3>2
      <4>2. S = {x}
        BY <2>1, <4>1
      <4>3. Cardinality(S) = 1
        BY <4>2, FS_Singleton
      <4>4. QED
        BY <4>3
    <3>3. QED
      BY <3>1, <3>2
  <2>3. targ.lost => targ.faults > 0
    BY TypeFacts, TargAssumption DEF Inv, Clean, Channel
  <2>4. QED
    BY <2>2, <2>3 DEF S, Inv, Clean, OnePhase
<1>2. QED
  BY <1>1, Invariant, PTL

(* Counted from lengths, buffer by buffer, the pipe's toggle is the host's, and every  *)
(* packet goes out with it, until lengths hide a packet, a second ERP is queued or the *)
(* pipe is reset in the middle of a transfer.                                       *)
THEOREM TogglesAgree == Spec => []ToggleInSync
<1>1. Inv => ToggleInSync
  <2> SUFFICES ASSUME Inv, ~targ.drift PROVE PipeTracks /\ PacketsInStep
    BY DEF ToggleInSync
  <2>1. PipeTracks
    <3> SUFFICES ASSUME targ.pipe, targ.linked \cap BulkErps = {}
                 PROVE  targ.dataToggle = targ.host
      BY DEF PipeTracks
    <3>1. "bulk" \notin targ.linked
      BY DEF BulkErps
    <3>2. cb.erp # "bulk" /\ targ.moved = 0
      BY <3>1, BeforeCall DEF Owned
    <3>3. targ.host = (targ.dataToggle + 0) % 2 /\ targ.dataToggle \in 0 .. 1
      BY <3>2, BeforeCall DEF Tracked, Sync, Channel
    <3>4. QED
      BY <3>3
  <2>2. PacketsInStep
    BY BeforeCall DEF PacketsInStep, Owned, Tracked, Sync
  <2>3. QED
    BY <2>1, <2>2
<1>2. QED
  BY <1>1, Invariant, PTL

=============================================================================
