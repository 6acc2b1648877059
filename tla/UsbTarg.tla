------------------------------ MODULE UsbTarg ------------------------------
(***************************************************************************)
(* usbTargLib (src/target/src/usb/target/usbTargLib.c): one target channel, *)
(* its default control pipe and one bulk pipe.  Two tasks meet in it: the   *)
(* application's, which calls the usbTargXxx routines, and the TCD's, which *)
(* completes ERPs.  Both take targMutex, so a routine or a callback is one  *)
(* step, except where cancelErp is called in a loop with the mutex held.    *)
(*                                                                         *)
(* The TCD and the host are external: the TCD holds submitted ERPs, works   *)
(* on the bulk ERPs in their order, each from the toggle it came with,      *)
(* keeps a setup packet until a Setup ERP is there to take it, fails the    *)
(* ERPs of the transfer a new setup packet ends, and calls back in the      *)
(* canceler's task for a canceled ERP.  It cannot cancel an ERP that it     *)
(* has completed or never accepted.                                         *)
(***************************************************************************)
EXTENDS Naturals, FiniteSets

CONSTANTS
    Sent,         \* the requests the host sends
    MaxFaults,    \* bound: submissions the TCD refuses
    MaxErrors,    \* bound: transfers that fail on the bus
    MaxGiveUps,   \* bound: transfers the host gives up although they go on
    MaxPacket,    \* maxPacketSize of the bulk pipe's endpoint
    MaxLen,       \* bound: actLen of a buffer
    MaxMoved      \* bound: packets of a bulk ERP

\* VENDOR is what is not standard, SHORT a packet of the wrong length.
Requests ==
    {"CLEAR_FEATURE", "SET_FEATURE", "GET_CONFIGURATION", "SET_CONFIGURATION",
     "GET_DESCRIPTOR", "SET_DESCRIPTOR", "GET_INTERFACE", "SET_INTERFACE", "GET_STATUS",
     "SET_ADDRESS", "GET_SYNCH_FRAME", "VENDOR", "SHORT"}
NoReq == "none"

ASSUME TargAssumption ==
    /\ Sent \subseteq Requests
    /\ MaxFaults \in Nat /\ MaxErrors \in Nat /\ MaxGiveUps \in Nat
    /\ MaxPacket \in Nat \ {0} /\ MaxLen \in Nat /\ MaxMoved \in Nat

Phases == {"setup", "data", "status"}       \* the channel's own ERPs
ControlErps == Phases \cup {"payload"}      \* and the application's
BulkErps == {"bulk", "next"}    \* the one the TCD works on, the one queued behind it
Erps == ControlErps \cup BulkErps
NoErp == "none"

Results == {"OK", "ERP_CANCELED", "NEW_SETUP_PACKET", "COMM_FAULT"}

VARIABLES
    targ,      \* the TARG_TCD and its pipes, with what the TCD was told
    cb,        \* the ERP the TCD's task is calling back for
    request,   \* the setup packet in the TCD, or in the Setup ERP of cb
    errors, giveups

vars == <<targ, cb, request, errors, giveups>>

\* The buffers of an ERP, and the lengths the TCD reports for them (actLen).
Bfrs == 1 .. 2
Lens == [Bfrs -> 0 .. MaxLen]
NoData == [i \in Bfrs |-> 0]

NoCb == [erp |-> NoErp, result |-> "OK", lens |-> NoData]

\* targ: attached; pending flags of the three ERPs; the ERPs linked to a pipe;
\* dataErp.targPtr is not NULL; a task went through a NULL pipe and is gone with
\* targMutex; owes: the application has taken a request and has not responded yet,
\* with "any" response or, after a payload, with the "status" phase; what the
\* host has seen of its request.
\* The bulk pipe: it is there; its dataToggle; that of the ERP queued; the TCD's
\* for the packets of the ERP in progress; the host's; the packets that ERP has
\* moved.  drift is history: something has happened that the pipe's toggle does
\* not show, since the toggles were last set.
\* Then: refused submissions; the routine that holds targMutex while it cancels
\* ERPs; the status of the call in progress, OK between calls.
Attached ==
    [attached |-> TRUE, pending |-> [e \in Phases |-> e = "setup"], linked |-> {"setup"},
     dataPtr |-> FALSE, lost |-> FALSE, owes |-> "no", answer |-> "none",
     pipe |-> FALSE, dataToggle |-> 0, next |-> 0, hardware |-> 0, host |-> 0,
     moved |-> 0, drift |-> FALSE,
     faults |-> 0, canceling |-> "no", status |-> "OK"]

Detached ==
    [Attached EXCEPT !.attached = FALSE, !.pending = [e \in Phases |-> FALSE], !.linked = {}]

Init ==
    /\ targ = Attached /\ cb = NoCb /\ request = NoReq
    /\ errors = 0 /\ giveups = 0

----------------------------------------------------------------------------
\* The ERP comes to its pipe with the pipe's toggle.  The TCD starts on a bulk
\* ERP at once, unless it has another: then the ERP waits with a toggle that the
\* other's packets will change.
Link(c, e) ==
    CASE e = "bulk" -> [c EXCEPT !.linked = @ \cup {e}, !.hardware = c.dataToggle]
      [] e = "next" -> [c EXCEPT !.linked = @ \cup {e}, !.next = c.dataToggle, !.drift = TRUE]
      [] OTHER      -> [c EXCEPT !.linked = @ \cup {e}]

\* usbTargTransfer: targPtr is set and the ERP linked, and unlinked when the TCD
\* refuses it.
Transfer(c, e) ==
    LET d == [c EXCEPT !.dataPtr = @ \/ e = "data"]
    IN  {[Link(d, e) EXCEPT !.status = "OK"]}
        \cup IF c.faults = MaxFaults THEN {}
             ELSE {[d EXCEPT !.faults = @ + 1, !.status = "ERROR"]}

InitErp(c, e) ==
    IF c.pending[e] THEN {[c EXCEPT !.status = "ERROR"]}
    ELSE Transfer([c EXCEPT !.pending[e] = TRUE], e)

\* cancelErp of one of the channel's ERPs by setupErpCallback, which takes the
\* pipe of either from the Data ERP.  The TCD calls back at once, with a result
\* on which nothing is resubmitted.  An ERP that is marked but was never accepted
\* cannot be canceled, and stays marked.  Through a NULL pipe, what is found
\* there decides: the call fails, or the task never comes back.
CancelPhase(c, e) ==
    CASE c.lost \/ ~c.pending[e] -> {c}
      [] ~c.lost /\ c.pending[e] /\ ~c.dataPtr -> {c, [c EXCEPT !.lost = TRUE]}
      [] ~c.lost /\ c.pending[e] /\ c.dataPtr ->
            {IF e \in c.linked THEN [c EXCEPT !.pending[e] = FALSE, !.linked = @ \ {e}] ELSE c}

\* resetDataToggle of the bulk pipe; the TCD is told, and the host does the same.
\* What an ERP has moved before will be counted all the same, and an ERP that
\* waits keeps its toggle.
ResetDataToggle(c) ==
    IF c.pipe
    THEN [c EXCEPT !.dataToggle = 0, !.hardware = 0, !.host = 0,
                   !.drift = c.moved > 0 \/ "next" \in c.linked]
    ELSE c

\* A callback of the application, or none: it takes the request or refuses it.
Refused(c) == {[c EXCEPT !.status = "ERROR"]}

Ask(c, e) == Refused(c) \cup InitErp(c, e)

\* The application takes it upon itself to respond.
HandOver(c) == Refused(c) \cup {[c EXCEPT !.owes = "any", !.status = "OK"]}

\* The application creates its bulk pipe when the host configures the device.
\* usbTargPipeCreate can fail; the application then refuses the configuration.
PipeCreate(c) ==
    IF c.pipe THEN c
    ELSE [c EXCEPT !.pipe = TRUE, !.dataToggle = 0, !.host = 0, !.drift = FALSE]

\* A configuration event, for the endpoint, configuration or interface of the pipe
\* or for another one.
ConfigurationEvent(c) == UNION {Ask(d, "status") : d \in {c, ResetDataToggle(c)}}

requestClearFeature(c) == ConfigurationEvent(c)
requestSetFeature(c) == Ask(c, "status")
requestGetConfiguration(c) == Ask(c, "data")
requestSetConfiguration(c) ==
    ConfigurationEvent(c) \cup InitErp(PipeCreate(ResetDataToggle(c)), "status")
requestGetDescriptor(c) == Ask(c, "data")
requestSetDescriptor(c) == HandOver(c)
requestGetInterface(c) == Ask(c, "data")
requestSetInterface(c) == ConfigurationEvent(c)
requestGetStatus(c) == Ask(c, "data")
requestSetAddress(c) == InitErp(c, "status")
requestGetSynchFrame(c) == Ask(c, "data")
requestVendorSpecific(c) == HandOver(c)

parseSetupPacket(c, r) ==
    CASE r = "CLEAR_FEATURE"     -> requestClearFeature(c)
      [] r = "SET_FEATURE"       -> requestSetFeature(c)
      [] r = "GET_CONFIGURATION" -> requestGetConfiguration(c)
      [] r = "SET_CONFIGURATION" -> requestSetConfiguration(c)
      [] r = "GET_DESCRIPTOR"    -> requestGetDescriptor(c)
      [] r = "SET_DESCRIPTOR"    -> requestSetDescriptor(c)
      [] r = "GET_INTERFACE"     -> requestGetInterface(c)
      [] r = "SET_INTERFACE"     -> requestSetInterface(c)
      [] r = "GET_STATUS"        -> requestGetStatus(c)
      [] r = "SET_ADDRESS"       -> requestSetAddress(c)
      [] r = "GET_SYNCH_FRAME"   -> requestGetSynchFrame(c)
      [] r = "VENDOR"            -> requestVendorSpecific(c)
      [] r = "SHORT"             -> Refused(c)

\* usbTargPipeStatusSet of the control pipe: the host's request is stalled.
Stall(c) == [c EXCEPT !.answer = "stalled"]

\* The flag of the Setup ERP is cleared, the request before is terminated.
Terminated(c) ==
    UNION {CancelPhase(d, "status") :
           d \in CancelPhase([c EXCEPT !.pending["setup"] = FALSE], "data")}

\* A setup packet has come: it is parsed, or the request stalled and the Setup
\* ERP submitted again.
Parsed(c, r) ==
    UNION {IF p.status = "OK" THEN {p} ELSE InitErp(Stall(p), "setup") :
           p \in parseSetupPacket(c, r)}

\* Mutant of SetupErpCallback: a request that cannot be parsed is stalled and
\* the Setup ERP is left to other code.
SetupErpCallbackStall(c, result, r) ==
    UNION {CASE d.lost -> {d}
             [] ~d.lost /\ result = "OK" ->
                    {IF p.status = "OK" THEN p ELSE Stall(p) : p \in parseSetupPacket(d, r)}
             [] ~d.lost /\ result = "ERP_CANCELED" -> {d}
             [] OTHER -> InitErp(d, "setup")
           : d \in Terminated(c)}

SetupErpCallback(c, result, r) ==
    UNION {CASE d.lost -> {d}
             [] ~d.lost /\ result = "OK" -> Parsed(d, r)
             [] ~d.lost /\ result = "ERP_CANCELED" -> {d}
             [] OTHER -> InitErp(d, "setup")
           : d \in Terminated(c)}

\* Mutant of ResponseErpCallback: the Setup ERP is submitted with the Status ERP.
ResponseErpCallbackEager(c, result) ==
    LET d == [c EXCEPT !.pending["data"] = FALSE]
    IN  CASE result = "OK" -> UNION {InitErp(p, "setup") : p \in InitErp(d, "status")}
          [] result = "ERP_CANCELED" -> {d}
          [] OTHER -> InitErp(d, "setup")

ResponseErpCallback(c, result) ==
    LET d == [c EXCEPT !.pending["data"] = FALSE]
    IN  CASE result = "OK" -> InitErp(d, "status")
          [] result = "ERP_CANCELED" -> {d}
          [] OTHER -> InitErp(d, "setup")

\* Mutant of StatusErpCallback: only a status phase that failed is followed by
\* a Setup ERP.
StatusErpCallbackOnce(c, result) ==
    LET d == [c EXCEPT !.pending["status"] = FALSE]
    IN  IF result \in {"OK", "ERP_CANCELED"} THEN {d} ELSE InitErp(d, "setup")

StatusErpCallback(c, result) ==
    LET d == [c EXCEPT !.pending["status"] = FALSE]
    IN  IF result = "ERP_CANCELED" THEN {d} ELSE InitErp(d, "setup")

\* The packets that lengths stand for, counted buffer by buffer.
Ceil(n) == (n + MaxPacket - 1) \div MaxPacket
ByBfr(lens) == Ceil(lens[1]) + Ceil(lens[2])

\* Mutant of Packets: a packet of no bytes is not counted.
PacketsOfBytes(b) == ByBfr(b.lens)

\* The packets of an ERP by its lengths; one that is OK had at least one.
Packets(b) == IF b.result = "OK" /\ ByBfr(b.lens) = 0 THEN 1 ELSE ByBfr(b.lens)

\* Mutant of BulkCallback: the toggle counts on past DATA1.
BulkCallbackCounting(c, b) ==
    [c EXCEPT !.dataToggle = @ + (Packets(b) % 2)]

BulkCallback(c, b) ==
    [c EXCEPT !.dataToggle = (@ + Packets(b)) % 2]

\* The callback of the ERP itself, whose status nobody asks for.
UserCallback(c, b, r) ==
    LET after == CASE b.erp = "setup"   -> SetupErpCallback(c, b.result, r)
                   [] b.erp = "data"    -> ResponseErpCallback(c, b.result)
                   [] b.erp = "status"  -> StatusErpCallback(c, b.result)
                   [] b.erp = "payload" -> {c}
                   [] b.erp \in BulkErps -> {BulkCallback(c, b)}
    IN  {[a EXCEPT !.status = "OK"] : a \in after}

\* Once the ERP in progress is unlinked the TCD works on the one that waits.
Unlink(c, e) ==
    IF e = "bulk" /\ "next" \in c.linked
    THEN [c EXCEPT !.linked = @ \ {"next"}, !.hardware = c.next, !.next = 0]
    ELSE [c EXCEPT !.linked = @ \ {e}]

\* Mutant of ErpCallback: an ERP that is canceled is not unlinked.
ErpCallbackLinked(c, b, r) ==
    UserCallback(IF b.result = "ERP_CANCELED" THEN c ELSE Unlink(c, b.erp), b, r)

\* usbTargErpCallback: unlink, count packets, then the ERP's own callback.
ErpCallback(c, b, r) == UserCallback(Unlink(c, b.erp), b, r)

----------------------------------------------------------------------------
\* The TCD's task.

Held == targ.linked \ {cb.erp}     \* the ERPs the TCD has not completed

Completed(e, result) == [erp |-> e, result |-> result, lens |-> NoData]

\* The Setup ERP takes the packet the TCD has.
TakeSetup ==
    /\ cb = NoCb /\ "setup" \in Held /\ request # NoReq
    /\ cb' = Completed("setup", "OK")
    /\ UNCHANGED <<targ, request, errors, giveups>>

\* A new setup packet ends the transfer the ERP belongs to.
Supersede(e) ==
    /\ cb = NoCb /\ e \in (Held \cap ControlErps) \ {"setup"} /\ request # NoReq
    /\ cb' = Completed(e, "NEW_SETUP_PACKET")
    /\ UNCHANGED <<targ, request, errors, giveups>>

\* The host goes through with the phase the ERP is for; its request is done
\* when that is the status phase.
Proceed(e) ==
    /\ cb = NoCb /\ e \in (Held \cap ControlErps) \ {"setup"} /\ request = NoReq
    /\ cb' = Completed(e, "OK")
    /\ targ' = [targ EXCEPT !.answer = IF e = "status" THEN "done" ELSE @]
    /\ UNCHANGED <<request, errors, giveups>>

Fail(e) ==
    /\ cb = NoCb /\ e \in Held \cap ControlErps /\ errors < MaxErrors
    /\ cb' = Completed(e, "COMM_FAULT") /\ errors' = errors + 1
    /\ UNCHANGED <<targ, request, giveups>>

\* A packet of the bulk ERP in progress goes over the bus.
BulkPacket ==
    /\ cb = NoCb /\ "bulk" \in Held /\ targ.moved < MaxMoved
    /\ targ' = [targ EXCEPT !.moved = @ + 1, !.hardware = 1 - @, !.host = 1 - @]
    /\ UNCHANGED <<cb, request, errors, giveups>>

\* The packets in which lengths may have been moved: buffer by buffer or across
\* the buffers, and after full ones with an empty one to end them.
Moves(lens, result) ==
    LET total == lens[1] + lens[2]
        full  == {ByBfr(lens), Ceil(total)}
    IN  full \cup IF result = "OK" /\ total % MaxPacket = 0 THEN {n + 1 : n \in full} ELSE {}

\* The lengths an ERP of so many packets can end with; one that is OK had a packet.
Reported(result, moved) ==
    {lens \in Lens : moved \in Moves(lens, result) /\ (result = "OK" => moved > 0)}

\* Lengths that show how many packets there were.
Exact(lens, result, moved) ==
    moved = ByBfr(lens) \/ (result = "OK" /\ ByBfr(lens) = 0 /\ moved = 1)

\* The bulk ERP in progress ends.
Ended(c, lens, result) ==
    [c EXCEPT !.moved = 0, !.drift = @ \/ ~Exact(lens, result, c.moved)]

BulkEnd(result) ==
    /\ cb = NoCb /\ "bulk" \in Held
    /\ \E lens \in Reported(result, targ.moved) :
        /\ cb' = [erp |-> "bulk", result |-> result, lens |-> lens]
        /\ targ' = Ended(targ, lens, result)
    /\ UNCHANGED <<request, giveups>>

BulkDone == BulkEnd("OK") /\ UNCHANGED errors

BulkFail == errors < MaxErrors /\ BulkEnd("COMM_FAULT") /\ errors' = errors + 1

\* usbTargErpCallback gets the mutex; a task that is lost stays in it.
Callback ==
    /\ cb # NoCb /\ targ.canceling = "no" /\ ~targ.lost
    /\ targ' \in ErpCallback(targ, cb, request)
    /\ cb' = IF targ'.lost THEN cb ELSE NoCb
    /\ request' = IF cb.erp = "setup" /\ cb.result = "OK" /\ ~targ'.lost THEN NoReq ELSE request
    /\ UNCHANGED <<errors, giveups>>

----------------------------------------------------------------------------
\* The host sends a request; it may give up the one before, and it must when
\* the device has dropped that.
HostSetup(r) ==
    /\ targ.attached /\ request = NoReq
    /\ IF targ.answer = "pending" /\ "setup" \notin targ.linked
       THEN giveups < MaxGiveUps /\ giveups' = giveups + 1
       ELSE UNCHANGED giveups
    /\ request' = r
    /\ targ' = [targ EXCEPT !.answer = "pending"]
    /\ UNCHANGED <<cb, errors>>

----------------------------------------------------------------------------
\* The application's task.

Free == targ.attached /\ targ.canceling = "no" /\ ~targ.lost

\* usbTargControlResponseSend, for a request the application has taken: the
\* status phase alone, or data.
ControlResponseSend ==
    /\ Free /\ targ.owes # "no" /\ "payload" \notin targ.linked
    /\ \E e \in {"status", "data"} :
        /\ targ.owes = "status" => e = "status"
        /\ \E c \in InitErp(targ, e) :
            targ' = [c EXCEPT !.owes = IF c.status = "OK" THEN "no" ELSE @, !.status = "OK"]
    /\ UNCHANGED <<cb, request, errors, giveups>>

\* usbTargControlPayloadRcv, once for a request.
ControlPayloadRcv ==
    /\ Free /\ targ.owes = "any"
    /\ \E c \in Transfer(targ, "payload") : targ' = [c EXCEPT !.owes = "status", !.status = "OK"]
    /\ UNCHANGED <<cb, request, errors, giveups>>

\* usbTargTransfer, of a first or of a second ERP.
BulkTransfer ==
    /\ Free /\ targ.pipe /\ ~(BulkErps \subseteq targ.linked)
    /\ \E c \in Transfer(targ, IF "bulk" \in targ.linked THEN "next" ELSE "bulk") :
        targ' = [c EXCEPT !.status = "OK"]
    /\ UNCHANGED <<cb, request, errors, giveups>>

\* The TCD cancels an ERP it holds: it calls back at once, in this task.
Canceled(e) ==
    IF e = "bulk"
    THEN \E lens \in Reported("ERP_CANCELED", targ.moved) :
            targ' \in ErpCallback(Ended(targ, lens, "ERP_CANCELED"),
                                  [erp |-> e, result |-> "ERP_CANCELED", lens |-> lens], NoReq)
    ELSE targ' \in ErpCallback(targ, Completed(e, "ERP_CANCELED"), NoReq)

\* usbTargTransferAbort; for an ERP the TCD has completed, it only returns an
\* error.
TransferAbort ==
    /\ Free /\ \E e \in Held \cap BulkErps : Canceled(e)
    /\ UNCHANGED <<cb, request, errors, giveups>>

\* usbTargPipeDestroy of the bulk pipe, usbTargTcdDetach: from here on the
\* mutex is held.
PipeDestroy ==
    /\ Free /\ targ.pipe
    /\ targ' = [targ EXCEPT !.canceling = "pipe"]
    /\ UNCHANGED <<cb, request, errors, giveups>>

TcdDetach ==
    /\ Free
    /\ targ' = [targ EXCEPT !.canceling = "channel"]
    /\ UNCHANGED <<cb, request, errors, giveups>>

\* The ERPs that are to go, the control pipe's first, and of a pipe's the one
\* submitted last (usbListFirst of a list that is linked at its head).
Doomed ==
    IF targ.canceling = "channel" /\ targ.linked \cap ControlErps # {}
    THEN targ.linked \cap ControlErps
    ELSE IF "next" \in targ.linked THEN {"next"} ELSE targ.linked \cap {"bulk"}

\* destroyPipe's loop.  While the TCD calls back for an ERP that is to go, the
\* loop spins and nothing changes.
CancelOne ==
    /\ targ.canceling # "no" /\ ~targ.lost
    /\ \E e \in Doomed \ {cb.erp} : Canceled(e)
    /\ UNCHANGED <<cb, request, errors, giveups>>

\* The endpoints and the handle of the pipe are released; those of a channel
\* and all its pipes, and the TCD is detached.
DestroyEnd ==
    /\ targ.canceling # "no" /\ ~targ.lost /\ Doomed = {}
    /\ IF targ.canceling = "pipe"
       THEN targ' = [targ EXCEPT !.pipe = FALSE, !.canceling = "no"] /\ UNCHANGED request
       ELSE targ' = [Detached EXCEPT !.faults = targ.faults] /\ request' = NoReq
    /\ UNCHANGED <<cb, errors, giveups>>

\* usbTargTcdAttach; one that fails takes back what it has done.
TcdAttach ==
    /\ ~targ.attached
    /\ targ' = [Attached EXCEPT !.faults = targ.faults]
    /\ UNCHANGED <<cb, request, errors, giveups>>

----------------------------------------------------------------------------
TcdTask ==
    \/ TakeSetup \/ BulkPacket \/ BulkDone \/ BulkFail \/ Callback
    \/ \E e \in ControlErps : Supersede(e) \/ Proceed(e) \/ Fail(e)

AppTask ==
    \/ ControlResponseSend \/ ControlPayloadRcv \/ BulkTransfer \/ TransferAbort
    \/ PipeDestroy \/ TcdDetach \/ CancelOne \/ DestroyEnd \/ TcdAttach

Next ==
    \/ TcdTask \/ AppTask
    \/ \E r \in Sent : HostSetup(r)

Spec == Init /\ [][Next]_vars

\* The host sends again what the device has dropped.
HostRetry == targ.answer = "pending" /\ \E r \in Sent : HostSetup(r)

\* The TCD serves its endpoints in turn, so the traffic of the bulk pipe never
\* shuts the control pipe out: strong fairness.
ServeControl == TakeSetup \/ \E e \in ControlErps : Supersede(e) \/ Proceed(e)

\* The tasks run, the host goes on, and the application answers what it took.
Fairness ==
    /\ WF_vars(Callback) /\ WF_vars(HostRetry) /\ SF_vars(ServeControl)
    /\ WF_vars(ControlResponseSend) /\ WF_vars(CancelOne \/ DestroyEnd)

LiveSpec == Spec /\ Fairness

----------------------------------------------------------------------------
\* The fields of the channel and of the callback in progress keep their types,
\* and the ERP the TCD's task is calling back for is linked.
TypeOK ==
    /\ targ \in [attached : BOOLEAN, pending : [Phases -> BOOLEAN], linked : SUBSET Erps,
                 dataPtr : BOOLEAN, lost : BOOLEAN, owes : {"no", "any", "status"},
                 answer : {"none", "pending", "done", "stalled"},
                 pipe : BOOLEAN, dataToggle : 0 .. 1, next : 0 .. 1, hardware : 0 .. 1,
                 host : 0 .. 1, moved : 0 .. MaxMoved, drift : BOOLEAN,
                 faults : 0 .. MaxFaults, canceling : {"no", "pipe", "channel"},
                 status : {"OK"}]
    /\ cb \in [erp : Erps \cup {NoErp}, result : Results, lens : Lens]
    /\ cb # NoCb /\ ~targ.lost => cb.erp \in targ.linked
    /\ request \in Requests \cup {NoReq}
    /\ errors \in 0 .. MaxErrors /\ giveups \in 0 .. MaxGiveUps

\* The control pipe never goes deaf: whatever fails on the bus, is refused by
\* the application or is overtaken by a new setup packet, an ERP of the control
\* pipe is with the TCD or the application has yet to respond ("Other code will
\* take care of resubmitting the Setup ERP").
Responsive ==
    targ.attached /\ targ.canceling = "no" /\ targ.faults = 0 =>
        targ.linked \cap ControlErps # {} \/ targ.owes # "no"

\* The flags of ERPs that are not out.
Stranded(c) == {e \in Phases : c.pending[e] /\ e \notin c.linked}

\* The phases of a control transfer never overlap, whatever comes late, is
\* overtaken or refused: one ERP of the control pipe is out at most, and none of
\* a phase while the application has yet to respond.  An ERP that is out is marked
\* as pending, and a mark without an ERP is the work of a refused submission,
\* which leaves one behind at most.  Only such a mark can bring setupErpCallback to
\* cancel an ERP through the pipe of a Data ERP that has none.
OnePhase ==
    /\ Cardinality(targ.linked \cap ControlErps) <= 1
    /\ targ.owes # "no" => targ.linked \cap Phases = {}
    /\ \A e \in Phases : e \in targ.linked => targ.pending[e]
    /\ Cardinality(Stranded(targ)) <= targ.faults
    /\ targ.lost => targ.faults > 0

\* The bulk pipe's toggle between two ERPs is the host's.
PipeTracks == targ.pipe /\ targ.linked \cap BulkErps = {} => targ.dataToggle = targ.host

\* The TCD moves packets with the toggle the host expects.
PacketsInStep == "bulk" \in targ.linked => targ.hardware = targ.host

\* usbTargErpCallback works the toggle of a bulk pipe out from the lengths it is
\* given.  Over transfers that are done, fail, are aborted or are refused, and over
\* resets, that is the host's toggle and every packet goes out with it, as long as
\* lengths show how many packets there were, the pipe has one ERP at a time and is
\* not reset in the middle of a transfer.
ToggleInSync == ~targ.drift => PipeTracks /\ PacketsInStep

\* The host gets an end to every request, done or stalled, however often it has
\* to repeat it, unless the TCD refuses an ERP or the application tears the pipe
\* down.
Answered ==
    (targ.answer = "pending") ~>
        (targ.answer # "pending" \/ targ.faults > 0 \/ targ.canceling # "no")

\* usbTargPipeDestroy and usbTargTcdDetach return ("Any pending transfers on the
\* pipe are canceled and all resources allocated to the pipe are released"),
\* unless the TCD's task is already calling back for one of the ERPs that are to
\* go: it waits for targMutex, and destroyPipe, which holds it, for the ERP.  Or
\* the task itself is lost on a NULL pipe.
DestroyReturns ==
    (targ.canceling # "no") ~> (targ.canceling = "no" \/ cb.erp \in Doomed \/ targ.lost)
=============================================================================
