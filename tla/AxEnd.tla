------------------------------- MODULE AxEnd -------------------------------
(***************************************************************************)
(* The AX88796B Ethernet driver (src/AX88796B_VxWorks_driver_for_Tornado   *)
(* 2.1.1_MIPS/ax88796end.c): the ring of transmit pages, the interrupt mask *)
(* that senders and the interrupt task both write, the receive loop, and   *)
(* the life of the interrupt task, which ax88796Start spawns and           *)
(* ax88796Stop makes end.                                                  *)
(*                                                                         *)
(* A sender runs with interrupts locked, so ax88796Send is one step; the   *)
(* interrupt task is not locked out and is modelled step by step: a sender  *)
(* of a higher priority may come in the middle of a remote read of the      *)
(* receive ring, and reprogram the registers it uses.  The chip            *)
(* is external: it sends queued packets in order, leaving the last page of *)
(* the one it sent in CTEPR, puts frames in the receive ring, and drives    *)
(* the interrupt line low while a bit of ISR is set and IMR lets it.  The  *)
(* GPIO reports the falling edge of the line, and none before the task has  *)
(* installed its handler.  Frames are of legal length, as the chip drops   *)
(* runts and errors (E8390_RXCONFIG); polling is not modelled.             *)
(***************************************************************************)
EXTENDS Integers, Sequences, FiniteSets

CONSTANTS
    TxPages,    \* pages of the transmit ring
    MaxNeed,    \* pages of the longest packet
    TxQueue,    \* packets the chip can hold before it reports TXCQF
    RxFrames,   \* frames the receive ring holds
    MaxSem,     \* bound: the count of axSema4 (a higher one only makes
                \* ax88796Int run more often with nothing to do)
    Patient     \* start and stop are called when the interrupt task has settled

ASSUME AxAssumption ==
    /\ TxPages \in Nat /\ MaxNeed \in 1 .. TxPages - 1
    /\ TxQueue \in Nat \ {0} /\ RxFrames \in Nat \ {0}
    /\ MaxSem \in Nat \ {0} /\ Patient \in BOOLEAN

\* Page numbers; 0 is no page, as in CTEPR after a reset.
tx_start_page == 1
tx_stop_page == TxPages + 1
Pages == tx_start_page .. tx_stop_page - 1

Events == {"RX", "TX", "TX_ERR", "OVER"}
Deleted == -1      \* axSema4 was deleted
Null == -2         \* axSema4 was never created

VARIABLES
    txq,       \* chip: the packets to send, each the sequence of its pages
    ctepr,     \* chip: the last page of the packet sent last
    rx,        \* chip: frames in the receive ring
    isr, imr,  \* chip: interrupts raised, interrupts enabled
    rcr,       \* chip: receiver enabled
    dma,       \* the remote read under way: "idle", the "header" or the "data" of a
               \* frame, or "torn" by block_output
    info,      \* pageInfo: tx_curr_page, whether tx_prev_ctepr is 0, tx_full
    pc,        \* the interrupt task; "none" when there is none
    status,    \* the bits of its isr_status that are still to be handled
    sem,       \* the count of axSema4
    installed, \* the handler of the GPIO is axend_IsrAsync
    inited,    \* axTaskInited
    force,     \* forceDelaxTask = 3
    admin,     \* "up", "down", or "stopping": in ax88796Stop
    unheard,   \* history: the mask is left off, or the line low with no edge reported
    nobuf      \* history: frames were left in the ring for want of a buffer

chip == <<txq, ctepr, rx, rcr, dma>>
life == <<installed, inited, force, admin>>
vars == <<chip, isr, imr, info, pc, status, sem, life, unheard, nobuf>>

\* After sysEtherEndLoad: ax88796Config has enabled everything.
Init ==
    /\ txq = << >> /\ ctepr = 0 /\ rx = 0 /\ isr = {} /\ imr = TRUE /\ rcr = TRUE
    /\ dma = "idle"
    /\ info = [tx_curr_page |-> tx_start_page, fresh |-> TRUE, tx_full |-> FALSE]
    /\ pc = "none" /\ status = {} /\ sem = Null
    /\ installed = FALSE /\ inited = FALSE /\ force = FALSE /\ admin = "down"
    /\ unheard = FALSE /\ nobuf = FALSE

----------------------------------------------------------------------------
\* The line after a step that leaves isr' and imr', in which IMR was 0 for a
\* while if toggled: at a falling edge axend_IsrAsync gives the semaphore.  A
\* step that masks the interrupts for good, silent, stops what was to come.
Line == imr /\ isr # {}

Interrupt(toggled, silent) ==
    LET edge == (toggled \/ ~Line) /\ Line' /\ installed /\ sem >= 0
    IN  /\ sem' = IF edge /\ sem < MaxSem THEN sem + 1 ELSE sem
        /\ unheard' = (silent \/ (unheard /\ ~edge /\ ~(imr' /\ isr' = {})))

----------------------------------------------------------------------------
\* The transmit ring.

\* axend_start_transmit's count of free pages.
FreePages ==
    LET curr == info.tx_curr_page
    IN  CASE ctepr = 0 /\ curr = tx_start_page /\ info.fresh ->
                tx_stop_page - tx_start_page
          [] ctepr = 0 /\ ~(curr = tx_start_page /\ info.fresh) ->
                tx_stop_page - curr
          [] ctepr # 0 /\ ctepr < curr - 1 ->
                tx_stop_page - curr + ctepr - tx_start_page + 1
          [] ctepr # 0 /\ ctepr > curr - 1 -> ctepr + 1 - curr
          [] ctepr # 0 /\ ctepr = curr - 1 ->
                IF info.tx_full THEN 0 ELSE tx_stop_page - tx_start_page

\* Mutant of Fits: there is space as long as a page is free.
FitsSome(need) == FreePages >= 1

Fits(need) == FreePages >= need + 1

\* Mutant of Advance: the page behind the last one is used.
AdvanceLate(p, need) ==
    IF p + need <= tx_stop_page THEN p + need
    ELSE need - (tx_stop_page - p) + tx_start_page

Advance(p, need) ==
    IF p + need < tx_stop_page THEN p + need
    ELSE need - (tx_stop_page - p) + tx_start_page

\* block_output: the chip goes on from the last page of the ring to the first.
PagesFrom(p, need) ==
    [i \in 1 .. need |-> ((p - tx_start_page + i - 1) % TxPages) + tx_start_page]

\* ax88796Send with axend_start_transmit.  A full command queue leaves the
\* interrupts masked, and the packet is taken for sent.
Send(need) ==
    /\ admin = "up"
    /\ UNCHANGED <<ctepr, rx, rcr, isr, pc, status, life, nobuf>>
    /\ \/ /\ Len(txq) = TxQueue
          /\ imr' = FALSE
          /\ UNCHANGED <<txq, info, dma>>
          /\ Interrupt(FALSE, TRUE)
       \/ /\ Len(txq) < TxQueue /\ Fits(need)
          /\ txq' = Append(txq, PagesFrom(info.tx_curr_page, need))
          /\ info' = [tx_curr_page |-> Advance(info.tx_curr_page, need),
                      fresh |-> ctepr = 0,
                      tx_full |-> info.tx_full \/ FreePages = need]
          /\ dma' = IF dma = "idle" THEN "idle" ELSE "torn"
          /\ imr' = TRUE
          /\ Interrupt(TRUE, FALSE)
       \/ /\ Len(txq) < TxQueue /\ ~Fits(need)
          /\ info' = [info EXCEPT !.tx_full = TRUE]
          /\ imr' = TRUE
          /\ UNCHANGED <<txq, dma>>
          /\ Interrupt(TRUE, FALSE)

----------------------------------------------------------------------------
\* The chip.

Sent ==
    /\ txq # << >>
    /\ ctepr' = Head(txq)[Len(Head(txq))]
    /\ txq' = Tail(txq)
    /\ \E e \in {"TX", "TX_ERR"} : isr' = isr \cup {e}
    /\ UNCHANGED <<rx, rcr, dma, imr, info, pc, status, life, nobuf>>
    /\ Interrupt(FALSE, FALSE)

\* A frame comes in; it is lost when the ring is full.
Receive ==
    /\ rcr
    /\ IF rx = RxFrames THEN rx' = rx /\ isr' = isr \cup {"OVER"}
                        ELSE rx' = rx + 1 /\ isr' = isr \cup {"RX"}
    /\ UNCHANGED <<txq, ctepr, rcr, dma, imr, info, pc, status, life, nobuf>>
    /\ Interrupt(FALSE, FALSE)

----------------------------------------------------------------------------
\* The interrupt task, axend_IsrTask.

IsrTaskInit ==
    /\ pc = "init"
    /\ sem' = 0 /\ installed' = TRUE /\ inited' = TRUE /\ force' = FALSE
    /\ pc' = "top"
    /\ unheard' = (unheard \/ Line)
    /\ UNCHANGED <<chip, isr, imr, info, status, admin, nobuf>>

\* The top of the loop: the task ends, or waits.
Top ==
    /\ pc = "top"
    /\ IF force THEN pc' = "none" /\ inited' = FALSE
                ELSE pc' = "wait" /\ UNCHANGED inited
    /\ UNCHANGED <<chip, isr, imr, info, status, sem, installed, force, admin,
                   unheard, nobuf>>

\* semTake, which a semaphore that does not exist does not hold up.
Woken ==
    /\ pc = "wait" /\ sem # 0
    /\ sem' = IF sem < 0 THEN sem ELSE sem - 1
    /\ pc' = "int"
    /\ UNCHANGED <<chip, isr, imr, info, status, life, unheard, nobuf>>

\* ax88796Int: IMR := 0, isr_status read and acknowledged.
IntBegin ==
    /\ pc = "int"
    /\ imr' = FALSE /\ status' = isr \ {"RX"} /\ isr' = {}
    /\ pc' = IF "RX" \in isr THEN "rx" ELSE "tx"
    /\ UNCHANGED <<chip, info, sem, life, unheard, nobuf>>

After == IF pc = "rx" THEN "tx" ELSE "end"

\* ax88796HandleRcvInt: ax88796PacketGet finds the ring empty.
Receiving ==
    /\ pc \in {"rx", "over"} /\ dma = "idle" /\ rx = 0
    /\ nobuf' = FALSE /\ pc' = After
    /\ UNCHANGED <<chip, isr, imr, info, status, sem, life, unheard>>

\* ax88796Recv gets no cluster or block: the frames stay where they are.
NoBuffer ==
    /\ pc \in {"rx", "over"} /\ dma = "idle" /\ rx > 0
    /\ nobuf' = TRUE /\ pc' = After
    /\ UNCHANGED <<chip, isr, imr, info, status, sem, life, unheard>>

\* axend_packet_receive acknowledges the receive interrupt and reads the header
\* of the next frame.
TakeFrame ==
    /\ pc \in {"rx", "over"} /\ dma = "idle" /\ rx > 0
    /\ dma' = "header" /\ isr' = isr \ {"RX"}
    /\ UNCHANGED <<txq, ctepr, rx, rcr, imr, info, pc, status, sem, life, unheard, nobuf>>

\* axend_block_input acknowledges it again and reads the frame.
FrameData ==
    /\ dma = "header"
    /\ dma' = "data" /\ isr' = isr \ {"RX"}
    /\ UNCHANGED <<txq, ctepr, rx, rcr, imr, info, pc, status, sem, life, unheard, nobuf>>

\* BNRY is moved on: the frame is out of the ring.
FrameRead ==
    /\ dma = "data"
    /\ dma' = "idle" /\ rx' = rx - 1
    /\ UNCHANGED <<txq, ctepr, rcr, isr, imr, info, pc, status, sem, life, unheard, nobuf>>

\* A read that a sender disturbed gives anything: BNRY, which is set from the
\* header, comes to any place of the ring.
FrameTorn ==
    /\ dma = "torn"
    /\ dma' = "idle" /\ rx' \in 0 .. RxFrames /\ isr' \in {isr, isr \ {"RX"}}
    /\ UNCHANGED <<txq, ctepr, rcr, imr, info, pc, status, sem, life, unheard, nobuf>>

\* The header so read tells of a CRC error: axend_reset, which leaves tx_full
\* alone, and ax88796Recv returns ERROR.
TornReset ==
    /\ dma = "torn"
    /\ dma' = "idle" /\ txq' = << >> /\ ctepr' = 0 /\ rx' = 0 /\ isr' = {}
    /\ imr' = TRUE /\ rcr' = TRUE
    /\ info' = [tx_curr_page |-> tx_start_page, fresh |-> TRUE, tx_full |-> info.tx_full]
    /\ nobuf' = FALSE /\ pc' = After
    /\ UNCHANGED <<status, life>>
    /\ Interrupt(FALSE, FALSE)

\* Mutant of TxDone: tx_full is left to the next sender.
TxDoneKeeps(i) == i

\* ax88796Int for a packet that was sent, axend_tx_err for one that was not.
TxDone(i) == [i EXCEPT !.tx_full = FALSE]

\* Mutant of Transmitted: interrupts are acknowledged here again.
TransmittedAck ==
    /\ pc = "tx"
    /\ isr' = {} /\ status' = status \cap {"TX_ERR"}
    /\ info' = IF "TX" \in status THEN TxDone(info) ELSE info
    /\ pc' = IF "OVER" \in status THEN "over" ELSE "end"
    /\ UNCHANGED <<chip, imr, sem, life, unheard, nobuf>>

\* The transmit interrupt; axend_rx_overrun empties the ring once more.
Transmitted ==
    /\ pc = "tx"
    /\ info' = IF "TX" \in status THEN TxDone(info) ELSE info
    /\ pc' = IF "OVER" \in status THEN "over" ELSE "end"
    /\ status' = status \cap {"TX_ERR"}
    /\ UNCHANGED <<chip, isr, imr, sem, life, unheard, nobuf>>

\* The end of ax88796Int: axend_tx_err, then IMR := all.
IntEnd ==
    /\ pc = "end"
    /\ info' = IF "TX_ERR" \in status THEN TxDone(info) ELSE info
    /\ imr' = TRUE /\ status' = {}
    /\ pc' = "top"
    /\ UNCHANGED <<chip, isr, life, nobuf>>
    /\ Interrupt(FALSE, FALSE)

IsrTask ==
    \/ IsrTaskInit \/ Top \/ Woken \/ IntBegin \/ Receiving \/ NoBuffer
    \/ TakeFrame \/ FrameData \/ FrameRead \/ FrameTorn \/ TornReset
    \/ Transmitted \/ IntEnd

----------------------------------------------------------------------------
\* The administrator.

\* ax88796Start: the task is spawned unless axTaskInited says there is one.
Start ==
    /\ admin = "down"
    /\ Patient => pc = "none"
    /\ pc' = IF inited THEN pc ELSE "init"
    /\ rcr' = TRUE /\ imr' = TRUE /\ admin' = "up"
    /\ UNCHANGED <<txq, ctepr, rx, dma, isr, info, status, installed, inited, force, nobuf>>
    /\ Interrupt(FALSE, FALSE)

\* ax88796Stop: the device is stopped and the semaphore, if it was ever created,
\* deleted; then the task is told to end and the handler uninstalled.
Stop ==
    /\ admin = "up"
    /\ Patient => inited /\ pc # "init"
    /\ imr' = FALSE /\ rcr' = FALSE
    /\ IF sem = Null THEN sem' = sem /\ admin' = "down"
                     ELSE sem' = Deleted /\ admin' = "stopping"
    /\ UNCHANGED <<txq, ctepr, rx, dma, isr, info, pc, status, installed, inited, force,
                   unheard, nobuf>>

\* Mutant of StopEnd: the task is not told.
StopEndSilent ==
    /\ admin = "stopping"
    /\ installed' = FALSE /\ admin' = "down"
    /\ UNCHANGED <<chip, isr, imr, info, pc, status, sem, inited, force, unheard, nobuf>>

StopEnd ==
    /\ admin = "stopping"
    /\ force' = TRUE /\ installed' = FALSE /\ admin' = "down"
    /\ UNCHANGED <<chip, isr, imr, info, pc, status, sem, inited, unheard, nobuf>>

----------------------------------------------------------------------------
Next ==
    \/ IsrTask \/ Start \/ Stop \/ StopEnd \/ Receive \/ Sent
    \/ \E need \in 1 .. MaxNeed : Send(need)

Spec == Init /\ [][Next]_vars

\* The interrupt task runs, the chip sends, a call of ax88796Stop returns.  The
\* receive loop has no limit: that it ends takes a line that is slower than the
\* task in the long run, and reads that senders do not disturb for ever.
Fairness ==
    /\ WF_vars(IsrTask) /\ WF_vars(Sent) /\ WF_vars(StopEnd)
    /\ []<>(pc \notin {"rx", "over"})

LiveSpec == Spec /\ Fairness

----------------------------------------------------------------------------
\* The registers and the driver's variables keep their ranges; in particular
\* tx_curr_page is a page of the transmit ring.
TypeOK ==
    /\ txq \in Seq(Seq(Pages)) /\ Len(txq) <= TxQueue
    /\ ctepr \in 0 .. TxPages /\ rx \in 0 .. RxFrames
    /\ isr \subseteq Events /\ status \subseteq Events
    /\ imr \in BOOLEAN /\ rcr \in BOOLEAN /\ dma \in {"idle", "header", "data", "torn"}
    /\ info \in [tx_curr_page : Pages, fresh : BOOLEAN, tx_full : BOOLEAN]
    /\ pc \in {"none", "init", "top", "wait", "int", "rx", "tx", "over", "end"}
    /\ sem \in Null .. MaxSem
    /\ installed \in BOOLEAN /\ inited \in BOOLEAN /\ force \in BOOLEAN
    /\ admin \in {"up", "stopping", "down"}
    /\ unheard \in BOOLEAN /\ nobuf \in BOOLEAN

\* block_output never writes into a packet the chip has yet to send, although
\* tx_full is cleared by any completed transmission and FreePages takes a ring
\* that is empty and one that is full for the same thing.
NoOverwrite ==
    \A i, j \in DOMAIN txq : \A k \in DOMAIN txq[i], l \in DOMAIN txq[j] :
        txq[i][k] = txq[j][l] => i = j /\ k = l

\* A frame that comes in at any moment of the receive loop is taken out of the
\* ring by this interrupt or the next one, whatever senders do to the mask; not
\* so if there was no buffer for it, a full command queue has left the
\* interrupts masked, or the interrupt line was low before it was listened to.
Served == (admin = "up" /\ rx > 0) ~> (rx = 0 \/ admin # "up" \/ unheard \/ nobuf)

\* tx_full, which ax88796Send sets when it returns END_ERR_BLOCK, is cleared by the
\* interrupt of a transmission that ends after it was set, or the whole ring is
\* free.  No more is promised: the driver never calls muxTxRestart.
Unblocks ==
    (admin = "up" /\ info.tx_full)
        ~> (~info.tx_full \/ FreePages = TxPages \/ admin # "up" \/ unheard)

\* After ax88796Stop the interrupt task ends, wherever it was.
TaskEnds == (admin = "down") ~> (pc = "none" \/ admin # "down")
=============================================================================
