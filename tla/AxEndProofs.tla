---------------------------- MODULE AxEndProofs ----------------------------
(***************************************************************************)
(* Theorems about AxEnd, for every size of the transmit ring, the command  *)
(* queue and the receive ring: the types of its state, and that a packet   *)
(* is never written over one that the chip has yet to send.                *)
(***************************************************************************)
EXTENDS AxEnd, SequenceTheorems, TLAPS

\* How far page p is behind page c of the ring, the last one sent.
Ahead(c, p) == IF p > c THEN p - 1 - c ELSE p - 1 - c + TxPages

\* The pages of the packets in the chip lie in the order they are sent in, from
\* the one behind CTEPR to the one before tx_curr_page, and each packet has one.
InOrder ==
    /\ \A i \in DOMAIN txq : txq[i] # << >>
    /\ \A i, j \in DOMAIN txq : \A k \in DOMAIN txq[i], l \in DOMAIN txq[j] :
           i < j \/ (i = j /\ k < l) => Ahead(ctepr, txq[i][k]) < Ahead(ctepr, txq[j][l])
    /\ \A i \in DOMAIN txq : \A k \in DOMAIN txq[i] :
           Ahead(ctepr, txq[i][k]) < Ahead(ctepr, info.tx_curr_page)

\* A frame that is being read is in the receive ring.
Reading == dma \in {"header", "data"} => rx > 0

Inv == TypeOK /\ InOrder /\ Reading

----------------------------------------------------------------------------
(* Arithmetic on the ring.                                                 *)

(* The ring has at least two pages. *)
LEMMA RingSize == TxPages \in Nat /\ TxPages >= 2 /\ Pages = 1 .. TxPages
  BY AxAssumption DEF Pages, tx_start_page, tx_stop_page

(* A page is less than a ring away from CTEPR. *)
LEMMA AheadType ==
  ASSUME NEW c \in 0 .. TxPages, NEW p \in Pages
  PROVE  Ahead(c, p) \in 0 .. TxPages - 1
  BY RingSize DEF Ahead

(* When CTEPR comes to page e, the pages behind e come nearer. *)
LEMMA AheadShift ==
  ASSUME NEW c \in 0 .. TxPages, NEW e \in Pages, NEW p \in Pages,
         Ahead(c, e) < Ahead(c, p)
  PROVE  Ahead(e, p) = Ahead(c, p) - Ahead(c, e) - 1
  BY RingSize DEF Ahead

(* axend_start_transmit never counts a page free that a packet may be in. *)
LEMMA FreePagesBound ==
  ASSUME TypeOK
  PROVE  FreePages \in Nat /\ FreePages <= TxPages - Ahead(ctepr, info.tx_curr_page)
<1>1. /\ ctepr \in 0 .. TxPages /\ info.tx_curr_page \in 1 .. TxPages
      /\ tx_start_page = 1 /\ tx_stop_page = TxPages + 1
  BY RingSize DEF TypeOK, tx_start_page, tx_stop_page
<1> DEFINE p == info.tx_curr_page
           a == Ahead(ctepr, p)
<1>2. a = IF p > ctepr THEN p - 1 - ctepr ELSE p - 1 - ctepr + TxPages
  BY DEF Ahead
<1>3. CASE ctepr = 0 /\ p = 1 /\ info.fresh
  <2>1. FreePages = TxPages + 1 - 1
    BY <1>1, <1>3, RingSize DEF FreePages, TypeOK
  <2>2. QED
    BY <1>1, <1>2, <1>3, <2>1, RingSize
<1>4. CASE ctepr = 0 /\ ~ (p = 1 /\ info.fresh)
  <2>1. FreePages = TxPages + 1 - p
    BY <1>1, <1>4, RingSize DEF FreePages, TypeOK
  <2>2. QED
    BY <1>1, <1>2, <1>4, <2>1, RingSize
<1>5. CASE ctepr # 0 /\ ctepr < p - 1
  <2>1. FreePages = TxPages + 1 - p + ctepr - 1 + 1
    BY <1>1, <1>5, RingSize DEF FreePages, TypeOK
  <2>2. QED
    BY <1>1, <1>2, <1>5, <2>1, RingSize
<1>6. CASE ctepr # 0 /\ ctepr > p - 1
  <2>1. FreePages = ctepr + 1 - p
    BY <1>1, <1>6, RingSize DEF FreePages, TypeOK
  <2>2. QED
    BY <1>1, <1>2, <1>6, <2>1, RingSize
<1>7. CASE ctepr # 0 /\ ctepr = p - 1
  <2>1. FreePages = IF info.tx_full THEN 0 ELSE TxPages + 1 - 1
    BY <1>1, <1>7, RingSize DEF FreePages, TypeOK
  <2>2. QED
    BY <1>1, <1>2, <1>7, <2>1, RingSize
<1>8. QED
  BY <1>1, <1>3, <1>4, <1>5, <1>6, <1>7

(* block_output fills the pages from tx_curr_page on. *)
LEMMA PagesFromAhead ==
  ASSUME NEW c \in 0 .. TxPages, NEW p \in Pages, NEW need \in 1 .. MaxNeed,
         Ahead(c, p) + need < TxPages
  PROVE  /\ PagesFrom(p, need) \in Seq(Pages) /\ Len(PagesFrom(p, need)) = need
         /\ DOMAIN PagesFrom(p, need) = 1 .. need
         /\ \A i \in 1 .. need : Ahead(c, PagesFrom(p, need)[i]) = Ahead(c, p) + i - 1
<1>1. need \in Nat /\ need < TxPages
  BY AxAssumption
<1>2. ASSUME NEW i \in 1 .. need
      PROVE  /\ PagesFrom(p, need)[i] \in Pages
             /\ Ahead(c, PagesFrom(p, need)[i]) = Ahead(c, p) + i - 1
  <2> DEFINE n == p - 1 + i - 1
             q == n % TxPages
  <2>1. n \in Nat /\ n < 2 * TxPages
    BY <1>1, RingSize
  <2>2. q = IF n < TxPages THEN n ELSE n - TxPages
    <3> HIDE DEF n
    <3>1. QED
      BY <2>1, RingSize
  <2>3. PagesFrom(p, need)[i] = q + 1
    BY DEF PagesFrom, tx_start_page
  <2> HIDE DEF q
  <2>4. q + 1 \in Pages
    BY <1>1, <2>1, <2>2, RingSize
  <2>5. Ahead(c, q + 1) = Ahead(c, p) + i - 1
    BY <1>1, <2>2, RingSize DEF Ahead
  <2>6. QED
    BY <2>3, <2>4, <2>5
<1>3. PagesFrom(p, need) \in [1 .. need -> Pages]
  BY <1>2 DEF PagesFrom
<1>4. PagesFrom(p, need) \in Seq(Pages) /\ Len(PagesFrom(p, need)) = need
  BY <1>1, <1>3, SeqDef
<1>5. QED
  BY <1>2, <1>3, <1>4

(* tx_curr_page goes on to the page behind the packet. *)
LEMMA AdvanceAhead ==
  ASSUME NEW c \in 0 .. TxPages, NEW p \in Pages, NEW need \in 1 .. MaxNeed,
         Ahead(c, p) + need < TxPages
  PROVE  Advance(p, need) \in Pages /\ Ahead(c, Advance(p, need)) = Ahead(c, p) + need
<1>1. need \in Nat /\ need < TxPages
  BY AxAssumption
<1>2. QED
  BY <1>1, RingSize DEF Advance, Ahead, tx_start_page, tx_stop_page

----------------------------------------------------------------------------
(* The type invariant, action by action.                                   *)

(* The interrupt line changes the semaphore and the history only. *)
LEMMA InterruptType ==
  ASSUME TypeOK, NEW toggled \in BOOLEAN, NEW silent \in BOOLEAN, Interrupt(toggled, silent)
  PROVE  sem' \in Null .. MaxSem /\ unheard' \in BOOLEAN
<1>1. sem' \in Null .. MaxSem
  BY AxAssumption DEF TypeOK, Interrupt, Null
<1>2. unheard' \in BOOLEAN
  BY DEF TypeOK, Interrupt
<1>3. QED
  BY <1>1, <1>2

(* A packet that fits is queued in pages of the ring. *)
LEMMA SendFits ==
  ASSUME TypeOK, NEW need \in 1 .. MaxNeed, Fits(need)
  PROVE  Ahead(ctepr, info.tx_curr_page) + need < TxPages
<1>1. Ahead(ctepr, info.tx_curr_page) \in 0 .. TxPages - 1
  BY AheadType DEF TypeOK
<1>2. need \in Nat
  BY AxAssumption
<1>3. QED
  BY <1>1, <1>2, FreePagesBound, RingSize DEF Fits

(* ax88796Send, whether it queues the packet, blocks or finds the chip full. *)
LEMMA SendType == ASSUME TypeOK, NEW need \in 1 .. MaxNeed, Send(need) PROVE TypeOK'
<1>1. /\ ctepr' = ctepr /\ rx' = rx /\ rcr' = rcr /\ isr' = isr /\ pc' = pc /\ status' = status
      /\ installed' = installed /\ inited' = inited /\ force' = force /\ admin' = admin
      /\ nobuf' = nobuf
  BY DEF Send, life
<1>2. imr' \in BOOLEAN /\ dma' \in {"idle", "header", "data", "torn"}
  BY DEF Send, TypeOK
<1>3. sem' \in Null .. MaxSem /\ unheard' \in BOOLEAN
  BY InterruptType DEF Send
<1>4. /\ txq' \in Seq(Seq(Pages)) /\ Len(txq') <= TxQueue
      /\ info' \in [tx_curr_page : Pages, fresh : BOOLEAN, tx_full : BOOLEAN]
  <2>1. CASE txq' = txq /\ (info' = info \/ info' = [info EXCEPT !.tx_full = TRUE])
    BY <2>1 DEF TypeOK
  <2>2. CASE /\ Len(txq) < TxQueue /\ Fits(need)
             /\ txq' = Append(txq, PagesFrom(info.tx_curr_page, need))
             /\ info' = [tx_curr_page |-> Advance(info.tx_curr_page, need), fresh |-> ctepr = 0,
                         tx_full |-> info.tx_full \/ FreePages = need]
    <3>1. ctepr \in 0 .. TxPages /\ info.tx_curr_page \in Pages /\ txq \in Seq(Seq(Pages))
      BY DEF TypeOK
    <3>2. Ahead(ctepr, info.tx_curr_page) + need < TxPages
      BY <2>2, SendFits
    <3>3. PagesFrom(info.tx_curr_page, need) \in Seq(Pages)
      BY <3>1, <3>2, PagesFromAhead
    <3>4. txq' \in Seq(Seq(Pages)) /\ Len(txq') = Len(txq) + 1
      BY <2>2, <3>1, <3>3, AppendProperties
    <3>5. Len(txq') <= TxQueue
      BY <2>2, <3>1, <3>4, AxAssumption
    <3>6. Advance(info.tx_curr_page, need) \in Pages
      BY <3>1, <3>2, AdvanceAhead
    <3>7. QED
      BY <2>2, <3>4, <3>5, <3>6
  <2>3. QED
    BY <2>1, <2>2 DEF Send
<1>5. QED
  BY <1>1, <1>2, <1>3, <1>4 DEF TypeOK

(* The chip leaves a page of the ring in CTEPR, as no packet is empty. *)
LEMMA SentType == ASSUME Inv, Sent PROVE TypeOK'
<1>1. /\ rx' = rx /\ rcr' = rcr /\ dma' = dma /\ imr' = imr /\ info' = info /\ pc' = pc /\ status' = status
      /\ installed' = installed /\ inited' = inited /\ force' = force /\ admin' = admin
      /\ nobuf' = nobuf
  BY DEF Sent, life
<1>2. isr' \subseteq Events
  BY DEF Sent, Inv, TypeOK, Events
<1>3. sem' \in Null .. MaxSem /\ unheard' \in BOOLEAN
  BY InterruptType DEF Sent, Inv
<1>4. txq \in Seq(Seq(Pages)) /\ txq # << >> /\ txq' = Tail(txq)
  BY DEF Sent, Inv, TypeOK
<1>5. Head(txq) \in Seq(Pages) /\ Head(txq) = txq[1] /\ 1 \in DOMAIN txq
  BY <1>4, HeadTailProperties
<1>6. Head(txq) # << >>
  BY <1>5 DEF Inv, InOrder
<1>7. ctepr' \in 0 .. TxPages
  <2>1. Len(Head(txq)) \in 1 .. Len(Head(txq))
    BY <1>5, <1>6
  <2>2. Head(txq)[Len(Head(txq))] \in Pages
    BY <1>5, <2>1, ElementOfSeq
  <2>3. QED
    BY <2>2, RingSize DEF Sent
<1>8. txq' \in Seq(Seq(Pages)) /\ Len(txq') <= TxQueue
  BY <1>4, HeadTailProperties, AxAssumption DEF Inv, TypeOK
<1>9. QED
  BY <1>1, <1>2, <1>3, <1>7, <1>8 DEF Inv, TypeOK

(* A frame comes in. *)
LEMMA ReceiveType == ASSUME TypeOK, Receive PROVE TypeOK'
<1>1. rx' \in 0 .. RxFrames
  BY AxAssumption DEF Receive, TypeOK
<1>2. isr' \subseteq Events
  BY DEF Receive, TypeOK, Events
<1>3. sem' \in Null .. MaxSem /\ unheard' \in BOOLEAN
  BY InterruptType DEF Receive
<1>4. QED
  BY <1>1, <1>2, <1>3 DEF Receive, TypeOK, life

(* The steps of the interrupt task. *)
LEMMA IsrTaskType == ASSUME TypeOK, Reading, IsrTask PROVE TypeOK'
<1>0. TypeOK
  OBVIOUS
<1>1. CASE IsrTaskInit
  <2>1. sem' \in Null .. MaxSem
    BY <1>1, AxAssumption DEF IsrTaskInit, Null
  <2>2. unheard' \in BOOLEAN
    BY <1>1 DEF IsrTaskInit
  <2>3. QED
    BY <1>1, <2>1, <2>2 DEF IsrTaskInit, TypeOK, chip
<1>2. CASE Top
  BY <1>2 DEF Top, TypeOK, chip
<1>3. CASE Woken
  <2>1. sem' \in Null .. MaxSem
    BY <1>3, AxAssumption DEF Woken, TypeOK, Null
  <2>2. QED
    BY <1>3, <2>1 DEF Woken, TypeOK, chip, life
<1>4. CASE IntBegin
  BY <1>4 DEF IntBegin, TypeOK, chip, life
<1>5. CASE Receiving \/ NoBuffer
  BY <1>5 DEF Receiving, NoBuffer, After, TypeOK, chip, life
<1>6. CASE TakeFrame \/ FrameData
  BY <1>6 DEF TakeFrame, FrameData, TypeOK, life
<1>7. CASE FrameRead
  <2>1. rx' \in 0 .. RxFrames
    BY <1>7, AxAssumption DEF FrameRead, TypeOK, Reading
  <2>2. QED
    BY <1>7, <2>1 DEF FrameRead, TypeOK, life
<1>8. CASE FrameTorn
  BY <1>8 DEF FrameTorn, TypeOK, life
<1>9. CASE TornReset
  <2>1. sem' \in Null .. MaxSem /\ unheard' \in BOOLEAN
    BY <1>9, <1>0, InterruptType DEF TornReset
  <2>2. txq' \in Seq(Seq(Pages)) /\ Len(txq') <= TxQueue
    BY <1>9, AxAssumption DEF TornReset
  <2>3. /\ ctepr' \in 0 .. TxPages /\ rx' \in 0 .. RxFrames /\ isr' \subseteq Events
        /\ info' \in [tx_curr_page : Pages, fresh : BOOLEAN, tx_full : BOOLEAN]
    BY <1>9, <1>0, AxAssumption, RingSize DEF TornReset, TypeOK, tx_start_page
  <2>4. QED
    BY <1>9, <1>0, <2>1, <2>2, <2>3 DEF TornReset, After, TypeOK, life
<1>10. CASE Transmitted
  BY <1>10 DEF Transmitted, TxDone, TypeOK, chip, life
<1>11. CASE IntEnd
  <2>1. sem' \in Null .. MaxSem /\ unheard' \in BOOLEAN
    BY <1>11, InterruptType DEF IntEnd
  <2>2. QED
    BY <1>11, <2>1 DEF IntEnd, TxDone, TypeOK, chip, life
<1>12. QED
  BY <1>1, <1>2, <1>3, <1>4, <1>5, <1>6, <1>10, <1>11, <1>7, <1>8, <1>9 DEF IsrTask

(* ax88796Start and ax88796Stop. *)
LEMMA AdminType == ASSUME TypeOK, Start \/ Stop \/ StopEnd PROVE TypeOK'
<1>1. CASE Start
  <2>1. sem' \in Null .. MaxSem /\ unheard' \in BOOLEAN
    BY <1>1, InterruptType DEF Start
  <2>2. QED
    BY <1>1, <2>1 DEF Start, TypeOK
<1>2. CASE Stop
  <2>1. sem' \in Null .. MaxSem
    BY <1>2, AxAssumption DEF Stop, TypeOK, Null, Deleted
  <2>2. QED
    BY <1>2, <2>1 DEF Stop, TypeOK
<1>3. CASE StopEnd
  <2>1. /\ UNCHANGED <<txq, ctepr, rx, rcr, dma, isr, imr, info, pc, status, sem, inited,
                       unheard, nobuf>>
        /\ force' \in BOOLEAN /\ installed' \in BOOLEAN
        /\ admin' \in {"up", "stopping", "down"}
    BY <1>3 DEF StopEnd, chip
  <2>2. QED
    BY <2>1 DEF TypeOK
<1>4. QED
  BY <1>1, <1>2, <1>3

----------------------------------------------------------------------------
(* The order of the pages.                                                 *)

(* Every page of a packet in the chip is a page of the ring. *)
LEMMA QueuedPages ==
  ASSUME TypeOK
  PROVE  /\ DOMAIN txq = 1 .. Len(txq) /\ Len(txq) \in Nat
         /\ \A i \in DOMAIN txq : txq[i] \in Seq(Pages)
         /\ \A i \in DOMAIN txq : DOMAIN txq[i] = 1 .. Len(txq[i]) /\ Len(txq[i]) \in Nat
         /\ \A i \in DOMAIN txq : \A k \in DOMAIN txq[i] : txq[i][k] \in Pages
<1>1. txq \in Seq(Seq(Pages))
  BY DEF TypeOK
<1>2. DOMAIN txq = 1 .. Len(txq) /\ Len(txq) \in Nat
  BY <1>1, LenProperties
<1>3. \A i \in DOMAIN txq : txq[i] \in Seq(Pages)
  BY <1>1, <1>2, ElementOfSeq
<1>4. \A i \in DOMAIN txq : DOMAIN txq[i] = 1 .. Len(txq[i]) /\ Len(txq[i]) \in Nat
  BY <1>3, LenProperties
<1>5. \A i \in DOMAIN txq : \A k \in DOMAIN txq[i] : txq[i][k] \in Pages
  BY <1>3, <1>4, ElementOfSeq
<1>6. QED
  BY <1>2, <1>3, <1>4, <1>5

(* Nothing but ax88796Send and the chip moves the pages. *)
LEMMA OrderKept ==
  ASSUME InOrder, UNCHANGED <<txq, ctepr>>, info'.tx_curr_page = info.tx_curr_page
  PROVE  InOrder'
  BY DEF InOrder

(* axend_reset leaves the chip nothing to send. *)
LEMMA ResetOrder == ASSUME txq' = << >> PROVE InOrder'
  BY DEF InOrder

(* Only a read, or axend_reset after one, takes a frame out of the receive ring. *)
LEMMA ReadingKept == ASSUME Inv, [Next]_vars PROVE Reading'
<1>0. rx \in Nat /\ (dma \in {"header", "data"} => rx > 0) /\ RxFrames > 0
  BY AxAssumption DEF Inv, TypeOK, Reading
<1>1. ASSUME rx' = rx, dma' = dma \/ dma' = "torn" PROVE Reading'
  BY <1>0, <1>1 DEF Reading
<1>2. CASE IsrTask
  <2>1. CASE IsrTaskInit \/ Top \/ Woken \/ IntBegin \/ Receiving \/ NoBuffer \/ Transmitted \/ IntEnd
    BY <1>1, <2>1 DEF IsrTaskInit, Top, Woken, IntBegin, Receiving, NoBuffer, Transmitted,
       IntEnd, chip
  <2>2. CASE TakeFrame \/ FrameData
    BY <1>0, <2>2 DEF TakeFrame, FrameData, Reading
  <2>3. CASE FrameRead \/ FrameTorn \/ TornReset
    BY <2>3 DEF FrameRead, FrameTorn, TornReset, Reading
  <2>4. QED
    BY <1>2, <2>1, <2>2, <2>3 DEF IsrTask
<1>3. CASE Start \/ Stop \/ StopEnd \/ Sent
  BY <1>1, <1>3 DEF Start, Stop, StopEnd, Sent, chip
<1>4. CASE Receive
  <2>1. dma' = dma /\ (rx' = rx \/ rx' = rx + 1)
    BY <1>4 DEF Receive
  <2>2. QED
    BY <1>0, <2>1 DEF Reading
<1>5. ASSUME NEW need \in 1 .. MaxNeed, Send(need) PROVE Reading'
  <2>1. rx' = rx /\ (dma' = dma \/ dma' = "torn")
    BY <1>5 DEF Send
  <2>2. QED
    BY <1>1, <2>1
<1>6. CASE UNCHANGED vars
  BY <1>1, <1>6 DEF vars, chip
<1>7. QED
  BY <1>2, <1>3, <1>4, <1>5, <1>6 DEF Next

(* A packet is queued behind the others. *)
LEMMA SendOrder ==
  ASSUME Inv, NEW need \in 1 .. MaxNeed, Fits(need),
         txq' = Append(txq, PagesFrom(info.tx_curr_page, need)), ctepr' = ctepr,
         info'.tx_curr_page = Advance(info.tx_curr_page, need)
  PROVE  InOrder'
<1> DEFINE new == PagesFrom(info.tx_curr_page, need)
           n == Len(txq)
           D(p) == Ahead(ctepr, p)
           top == D(info.tx_curr_page)
<1>1. /\ ctepr \in 0 .. TxPages /\ info.tx_curr_page \in Pages /\ txq \in Seq(Seq(Pages))
      /\ need \in Nat
  BY AxAssumption DEF Inv, TypeOK
<1>2. top + need < TxPages /\ top \in 0 .. TxPages - 1
  BY <1>1, SendFits, AheadType DEF Inv
<1>3. /\ new \in Seq(Pages) /\ Len(new) = need /\ DOMAIN new = 1 .. need
      /\ \A k \in 1 .. need : D(new[k]) = top + k - 1
  BY <1>1, <1>2, PagesFromAhead
<1>4. D(info'.tx_curr_page) = top + need
  BY <1>1, <1>2, AdvanceAhead
<1>5. /\ DOMAIN txq = 1 .. n /\ n \in Nat
      /\ \A i \in 1 .. n : \A k \in DOMAIN txq[i] : D(txq[i][k]) \in 0 .. TxPages - 1
  BY <1>1, QueuedPages, AheadType DEF Inv
<1>6. /\ DOMAIN txq' = 1 .. n + 1
      /\ \A i \in 1 .. n : txq'[i] = txq[i]
      /\ txq'[n + 1] = new
  BY <1>1, <1>3, AppendProperties, LenProperties
<1>7. /\ \A i \in 1 .. n : txq[i] # << >>
      /\ \A i, j \in 1 .. n : \A k \in DOMAIN txq[i], l \in DOMAIN txq[j] :
             i < j \/ (i = j /\ k < l) => D(txq[i][k]) < D(txq[j][l])
      /\ \A i \in 1 .. n : \A k \in DOMAIN txq[i] : D(txq[i][k]) < top
  BY <1>5 DEF Inv, InOrder
<1> HIDE DEF new, n, D, top
<1>8. \A i \in 1 .. n + 1 : i \in 1 .. n \/ i = n + 1
  BY <1>5
<1>9. \A i \in 1 .. n + 1 : txq'[i] # << >>
  <2>1. new # << >>
    BY <1>1, <1>3, EmptySeq
  <2>2. QED
    BY <1>6, <1>7, <1>8, <2>1
<1>10. ASSUME NEW i \in 1 .. n + 1, NEW j \in 1 .. n + 1,
              NEW k \in DOMAIN txq'[i], NEW l \in DOMAIN txq'[j], i < j \/ (i = j /\ k < l)
       PROVE  D(txq'[i][k]) < D(txq'[j][l])
  <2>1. CASE i \in 1 .. n /\ j \in 1 .. n
    BY <1>6, <1>7, <1>10, <2>1
  <2>2. CASE i \in 1 .. n /\ j = n + 1
    <3>1. D(txq'[i][k]) < top /\ D(txq'[i][k]) \in Nat
      BY <1>2, <1>5, <1>6, <1>7, <2>2, RingSize
    <3>2. D(txq'[j][l]) = top + l - 1 /\ l \in 1 .. need
      BY <1>3, <1>6, <2>2
    <3> DEFINE a == D(txq'[i][k])
               b == D(txq'[j][l])
    <3>3. a < top /\ a \in Nat /\ b = top + l - 1 /\ top \in Nat /\ l \in Nat /\ l >= 1
      <4>1. top \in Nat
        BY <1>2, RingSize
      <4>2. l \in Nat /\ l >= 1
        BY <1>1, <3>2
      <4>3. a < top /\ a \in Nat
        BY <3>1
      <4>4. b = top + l - 1
        BY <3>2
      <4>5. QED
        BY <4>1, <4>2, <4>3, <4>4
    <3> HIDE DEF a, b
    <3>4. a < b
      BY <3>3
    <3>5. QED
      BY <3>4 DEF a, b
  <2>3. CASE i = n + 1
    <3>1. j = n + 1 /\ k < l
      BY <1>5, <1>10, <2>3
    <3>2. /\ D(txq'[i][k]) = top + k - 1 /\ k \in 1 .. need
          /\ D(txq'[j][l]) = top + l - 1 /\ l \in 1 .. need
      BY <1>3, <1>6, <2>3, <3>1
    <3>3. QED
      BY <1>1, <1>2, <3>1, <3>2, RingSize
  <2>4. QED
    BY <1>8, <2>1, <2>2, <2>3
<1>11. ASSUME NEW i \in 1 .. n + 1, NEW k \in DOMAIN txq'[i]
       PROVE  D(txq'[i][k]) < D(info'.tx_curr_page)
  <2>1. CASE i \in 1 .. n
    <3>1. D(txq'[i][k]) < top /\ D(txq'[i][k]) \in Nat
      BY <1>2, <1>5, <1>6, <1>7, <2>1, RingSize
    <3> DEFINE a == D(txq'[i][k])
               b == D(info'.tx_curr_page)
    <3>2. a < top /\ a \in Nat /\ b = top + need /\ top \in Nat /\ need \in Nat
      <4>1. top \in Nat
        BY <1>2, RingSize
      <4>2. a < top /\ a \in Nat
        BY <3>1
      <4>3. b = top + need /\ need \in Nat
        BY <1>1, <1>4
      <4>4. QED
        BY <4>1, <4>2, <4>3
    <3> HIDE DEF a, b
    <3>3. a < b
      BY <3>2
    <3>4. QED
      BY <3>3 DEF a, b
  <2>2. CASE i = n + 1
    <3>1. D(txq'[i][k]) = top + k - 1 /\ k \in 1 .. need
      BY <1>3, <1>6, <2>2
    <3>2. QED
      BY <1>1, <1>2, <1>4, <3>1, RingSize
  <2>3. QED
    BY <1>8, <2>1, <2>2
<1>12. \A p : Ahead(ctepr', p) = D(p)
  BY DEF D
<1>13. /\ \A i, j \in DOMAIN txq' : \A k \in DOMAIN txq'[i], l \in DOMAIN txq'[j] :
             i < j \/ (i = j /\ k < l) => D(txq'[i][k]) < D(txq'[j][l])
       /\ \A i \in DOMAIN txq' : \A k \in DOMAIN txq'[i] : D(txq'[i][k]) < D(info'.tx_curr_page)
       /\ \A i \in DOMAIN txq' : txq'[i] # << >>
  <2> HIDE DEF D
  <2>1. DOMAIN txq' = 1 .. n + 1
    BY <1>6
  <2>2. \A i \in 1 .. n + 1 : txq'[i] # << >>
    BY <1>9
  <2>3. \A i \in 1 .. n + 1 : \A k \in DOMAIN txq'[i] : D(txq'[i][k]) < D(info'.tx_curr_page)
    BY <1>11
  <2>4. \A i, j \in 1 .. n + 1 : \A k \in DOMAIN txq'[i], l \in DOMAIN txq'[j] :
           i < j \/ (i = j /\ k < l) => D(txq'[i][k]) < D(txq'[j][l])
    BY <1>10
  <2>5. QED
    BY <2>1, <2>2, <2>3, <2>4
<1>14. QED
  BY <1>12, <1>13 DEF InOrder

(* The chip takes the first packet out; what was behind it comes nearer. *)
LEMMA SentOrder == ASSUME Inv, Sent PROVE InOrder'
<1> DEFINE D(p) == Ahead(ctepr, p)
           E(p) == Ahead(ctepr', p)
           first == txq[1]
           n == Len(txq)
<1>1. /\ txq \in Seq(Seq(Pages)) /\ txq # << >> /\ txq' = Tail(txq) /\ info' = info
      /\ ctepr \in 0 .. TxPages /\ info.tx_curr_page \in Pages
      /\ ctepr' = first[Len(first)]
  <2>1. txq \in Seq(Seq(Pages)) /\ txq # << >> => Head(txq) = txq[1]
    OBVIOUS
  <2>2. QED
    BY <2>1 DEF Inv, TypeOK, Sent
<1>2. /\ DOMAIN txq = 1 .. n /\ n \in Nat /\ 1 \in 1 .. n
      /\ \A i \in 1 .. n : \A k \in DOMAIN txq[i] : txq[i][k] \in Pages
  BY <1>1, QueuedPages DEF Inv
<1>3. Len(first) \in DOMAIN first
  <2>1. first \in Seq(Pages) /\ first # << >>
    BY <1>2, QueuedPages DEF Inv, InOrder
  <2>2. QED
    BY <2>1
<1>4. ctepr' \in Pages
  BY <1>1, <1>2, <1>3
<1>5. /\ DOMAIN txq' = 1 .. n - 1
      /\ \A i \in 1 .. n - 1 : txq'[i] = txq[i + 1] /\ i + 1 \in 1 .. n /\ 1 < i + 1
  BY <1>1, <1>2, HeadTailProperties, LenProperties
<1>6. /\ \A i \in 1 .. n : txq[i] # << >>
      /\ \A i, j \in 1 .. n : \A k \in DOMAIN txq[i], l \in DOMAIN txq[j] :
             i < j \/ (i = j /\ k < l) => D(txq[i][k]) < D(txq[j][l])
      /\ \A i \in 1 .. n : \A k \in DOMAIN txq[i] : D(txq[i][k]) < D(info.tx_curr_page)
  BY <1>2 DEF Inv, InOrder
<1>7. \A p \in Pages : D(ctepr') < D(p) => E(p) = D(p) - D(ctepr') - 1
  BY <1>1, <1>4, AheadShift
<1>8. \A p \in Pages : D(p) \in Int
  BY <1>1, AheadType, RingSize
<1>9. ctepr' = txq[1][Len(first)]
  BY <1>1
<1> HIDE DEF D, E, n
<1>10. \A i \in 2 .. n : \A k \in DOMAIN txq[i] : E(txq[i][k]) = D(txq[i][k]) - D(ctepr') - 1
  <2> TAKE i \in 2 .. n
  <2> TAKE k \in DOMAIN txq[i]
  <2>1. i \in 1 .. n /\ 1 < i
    BY <1>2
  <2>2. D(ctepr') < D(txq[i][k])
    BY <1>2, <1>3, <1>6, <1>9, <2>1
  <2>3. QED
    BY <1>2, <1>7, <2>1, <2>2
<1>11. E(info.tx_curr_page) = D(info.tx_curr_page) - D(ctepr') - 1
  <2>1. D(ctepr') < D(info.tx_curr_page)
    BY <1>2, <1>3, <1>6, <1>9
  <2>2. QED
    BY <1>1, <1>7, <2>1
<1>12. ASSUME NEW i \in 1 .. n - 1, NEW j \in 1 .. n - 1,
              NEW k \in DOMAIN txq'[i], NEW l \in DOMAIN txq'[j], i < j \/ (i = j /\ k < l)
       PROVE  E(txq'[i][k]) < E(txq'[j][l])
  <2>1. /\ i + 1 \in 2 .. n /\ j + 1 \in 2 .. n /\ i + 1 \in 1 .. n /\ j + 1 \in 1 .. n
        /\ i + 1 < j + 1 \/ (i + 1 = j + 1 /\ k < l)
    BY <1>2, <1>12
  <2>2. txq'[i] = txq[i + 1] /\ txq'[j] = txq[j + 1]
    BY <1>5
  <2>3. D(txq[i + 1][k]) < D(txq[j + 1][l])
    BY <1>6, <2>1, <2>2
  <2>4. /\ E(txq[i + 1][k]) = D(txq[i + 1][k]) - D(ctepr') - 1
        /\ E(txq[j + 1][l]) = D(txq[j + 1][l]) - D(ctepr') - 1
    BY <1>10, <2>1, <2>2
  <2>5. D(txq[i + 1][k]) \in Int /\ D(txq[j + 1][l]) \in Int /\ D(ctepr') \in Int
    BY <1>2, <1>4, <1>8, <2>1, <2>2
  <2>6. QED
    BY <2>2, <2>3, <2>4, <2>5
<1>13. ASSUME NEW i \in 1 .. n - 1, NEW k \in DOMAIN txq'[i]
       PROVE  E(txq'[i][k]) < E(info.tx_curr_page)
  <2>1. i + 1 \in 2 .. n /\ i + 1 \in 1 .. n /\ txq'[i] = txq[i + 1]
    BY <1>2, <1>5
  <2>2. D(txq[i + 1][k]) < D(info.tx_curr_page)
    BY <1>6, <2>1
  <2>3. E(txq[i + 1][k]) = D(txq[i + 1][k]) - D(ctepr') - 1
    BY <1>10, <2>1
  <2>4. D(txq[i + 1][k]) \in Int /\ D(info.tx_curr_page) \in Int /\ D(ctepr') \in Int
    BY <1>1, <1>2, <1>4, <1>8, <2>1
  <2>5. QED
    BY <1>11, <2>1, <2>2, <2>3, <2>4
<1>14. \A i \in 1 .. n - 1 : txq'[i] # << >>
  BY <1>5, <1>6
<1>15. QED
  BY <1>1, <1>5, <1>12, <1>13, <1>14 DEF InOrder, E

----------------------------------------------------------------------------
(* Nothing is queued at first. *)
LEMMA InitInv == Init => Inv
<1> SUFFICES ASSUME Init PROVE Inv
  OBVIOUS
<1>1. txq = << >> /\ DOMAIN txq = {} /\ txq \in Seq(Seq(Pages)) /\ Len(txq) = 0
  BY DEF Init
<1>2. /\ tx_start_page \in Pages /\ ctepr \in 0 .. TxPages /\ rx \in 0 .. RxFrames
      /\ sem \in Null .. MaxSem /\ 0 <= TxQueue
  BY AxAssumption, RingSize DEF Init, Null, tx_start_page
<1>3. TypeOK
  BY <1>1, <1>2 DEF Init, TypeOK
<1>4. InOrder
  BY <1>1 DEF InOrder
<1>5. Reading
  BY DEF Init, Reading
<1>6. QED
  BY <1>3, <1>4, <1>5 DEF Inv

(* Every step keeps the types and the order of the pages. *)
LEMMA NextInv == Inv /\ [Next]_vars => Inv'
<1> SUFFICES ASSUME Inv, [Next]_vars PROVE Inv'
  OBVIOUS
<1>0. /\ TypeOK /\ InOrder /\ Reading
      /\ info \in [tx_curr_page : Pages, fresh : BOOLEAN, tx_full : BOOLEAN]
  BY DEF Inv, TypeOK
<1>1. Reading'
  BY ReadingKept
<1>2. CASE TornReset
  <2>1. TypeOK'
    BY <1>0, <1>2, IsrTaskType DEF IsrTask
  <2>2. InOrder'
    BY <1>2, ResetOrder DEF TornReset
  <2>3. QED
    BY <1>1, <2>1, <2>2 DEF Inv
<1>3. CASE IsrTask /\ ~TornReset
  <2>1. UNCHANGED <<txq, ctepr>> /\ (info' = info \/ info' = [info EXCEPT !.tx_full = FALSE])
    BY <1>3 DEF IsrTask, IsrTaskInit, Top, Woken, IntBegin, Receiving, NoBuffer, TakeFrame,
       FrameData, FrameRead, FrameTorn, Transmitted, IntEnd, TxDone, chip
  <2>2. info'.tx_curr_page = info.tx_curr_page
    BY <1>0, <2>1
  <2>3. QED
    BY <1>0, <1>3, <2>1, <2>2, <1>1, IsrTaskType, OrderKept DEF Inv
<1>4. CASE Start \/ Stop \/ StopEnd
  <2>1. UNCHANGED <<txq, ctepr>> /\ info' = info
    BY <1>4 DEF Start, Stop, StopEnd, chip
  <2>2. QED
    BY <1>0, <1>4, <2>1, <1>1, AdminType, OrderKept DEF Inv
<1>5. CASE Receive
  <2>1. UNCHANGED <<txq, ctepr>> /\ info' = info
    BY <1>5 DEF Receive
  <2>2. QED
    BY <1>0, <1>5, <2>1, <1>1, ReceiveType, OrderKept DEF Inv
<1>6. CASE Sent
  BY <1>6, <1>1, SentType, SentOrder DEF Inv
<1>7. ASSUME NEW need \in 1 .. MaxNeed, Send(need) PROVE Inv'
  <2>1. TypeOK'
    BY <1>0, <1>7, SendType
  <2>2. CASE txq' = txq /\ (info' = info \/ info' = [info EXCEPT !.tx_full = TRUE])
    <3>1. UNCHANGED <<txq, ctepr>> /\ info'.tx_curr_page = info.tx_curr_page
      BY <1>0, <1>7, <2>2 DEF Send
    <3>2. QED
      BY <1>0, <1>1, <2>1, <3>1, OrderKept DEF Inv
  <2>3. CASE /\ Fits(need) /\ txq' = Append(txq, PagesFrom(info.tx_curr_page, need))
             /\ info' = [tx_curr_page |-> Advance(info.tx_curr_page, need), fresh |-> ctepr = 0,
                         tx_full |-> info.tx_full \/ FreePages = need]
    <3>1. ctepr' = ctepr /\ info'.tx_curr_page = Advance(info.tx_curr_page, need)
      BY <1>7, <2>3 DEF Send
    <3>2. InOrder'
      BY <2>3, <3>1, SendOrder
    <3>3. QED
      BY <1>1, <2>1, <3>2 DEF Inv
  <2>4. QED
    BY <1>7, <2>2, <2>3 DEF Send
<1>8. CASE UNCHANGED vars
  <2>1. TypeOK'
    BY <1>0, <1>8 DEF vars, chip, life, TypeOK
  <2>2. UNCHANGED <<txq, ctepr>> /\ info' = info
    BY <1>8 DEF vars, chip
  <2>3. QED
    BY <1>0, <1>1, <2>1, <2>2, OrderKept DEF Inv
<1>9. QED
  BY <1>3, <1>4, <1>5, <1>6, <1>7, <1>8, <1>2 DEF Next

(* Inv holds in every state of the driver. *)
THEOREM Invariant == Spec => []Inv
  BY InitInv, NextInv, PTL DEF Spec

(* The registers and the driver's variables keep their ranges, for every size of *)
(* the rings; tx_curr_page is always a page of the transmit ring.               *)
THEOREM TypeCorrect == Spec => []TypeOK
<1>1. Inv => TypeOK
  BY DEF Inv
<1>2. QED
  BY <1>1, Invariant, PTL

(* ax88796Send never writes into a packet the chip has yet to send, for every    *)
(* number of pages, packet length and command queue, although the count of free  *)
(* pages cannot tell a full ring from an empty one.                             *)
THEOREM NeverOverwrites == Spec => []NoOverwrite
<1>1. ASSUME Inv PROVE NoOverwrite
  <2> SUFFICES ASSUME NEW i \in DOMAIN txq, NEW j \in DOMAIN txq,
                      NEW k \in DOMAIN txq[i], NEW l \in DOMAIN txq[j], ~(i = j /\ k = l)
               PROVE  txq[i][k] # txq[j][l]
    BY DEF NoOverwrite
  <2>1. /\ i \in Nat /\ j \in Nat /\ k \in Nat /\ l \in Nat
        /\ txq[i][k] \in Pages /\ txq[j][l] \in Pages
    BY <1>1, QueuedPages DEF Inv
  <2>2. \/ i < j \/ (i = j /\ k < l)
        \/ j < i \/ (j = i /\ l < k)
    BY <2>1
  <2>3. \/ Ahead(ctepr, txq[i][k]) < Ahead(ctepr, txq[j][l])
        \/ Ahead(ctepr, txq[j][l]) < Ahead(ctepr, txq[i][k])
    BY <1>1, <2>2 DEF Inv, InOrder
  <2>4. Ahead(ctepr, txq[i][k]) \in Int /\ Ahead(ctepr, txq[j][l]) \in Int
    <3>1. ctepr \in 0 .. TxPages
      BY <1>1 DEF Inv, TypeOK
    <3>2. \A p \in Pages : Ahead(ctepr, p) \in Int
      BY <3>1, AheadType, RingSize
    <3>3. QED
      BY <2>1, <3>2
  <2>5. QED
    BY <2>3, <2>4
<1>2. QED
  BY <1>1, Invariant, PTL

=============================================================================
