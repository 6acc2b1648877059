# A VxWorks source tree: models, checks and proofs of its protocol and driver code

The repository is a VxWorks (Tornado 2.x) source tree: kernel and driver
headers, board support packages, USB target libraries, an Ethernet driver,
copies of the BSD network stack, small exercise programs, and a PPP daemon. Most
of it is tables, register definitions and glue around a kernel that is not there.
Three parts are complete, concurrent and stateful, and these are modelled:

* the PPP daemon, `src/vxworks_test/netinet/ppp` with its headers in
  `src/target/h/netinet/ppp`: signals, callouts, a peer;
* the USB target libraries, `src/target/src/usb/target`: a message queue shared
  by tasks, and the control and bulk transfers of a USB device between its
  application, its controller driver (TCD) and a host;
* the AX88796B Ethernet driver, `src/AX88796B_VxWorks_driver_for_Tornado
  2.1.1_MIPS`: senders, an interrupt task and a chip.

Paths below are relative to these directories.

## 1. Inventory

| part | state | operations | interacts with |
|---|---|---|---|
| automaton (`fsm.c`) | `state`, `id`, `reqid`, `retransmits`, `nakloops`, `flags`, one callout | `fsm_lowerup`, `fsm_lowerdown`, `fsm_open`, `fsm_close`, `fsm_timeout`, `fsm_protreject`, `fsm_input` and a handler per code | callbacks to LCP and IPCP, callouts, packets |
| LCP (`lcp.c`) | want, allow, got and his options, the echo counter and timer flag | the option callbacks, `lcp_up`, `lcp_down`, `lcp_finished`, `lcp_close`, the echo functions, Protocol-Reject | automaton below; CHAP, PAP, IPCP and `auth.c` above |
| CHAP (`chap.c`) | client and server state, challenge id, retransmission count, three kinds of callout | authenticate, lower up and down, four packet handlers, three timeouts | reports to `auth.c` |
| phases (`auth.c`) | `phase`, the bits of `auth_pending` | `link_established`, `link_terminated`, success and failure reports | opens IPCP, calls `die` |
| IPCP (`ipcp.c`) | an automaton, address options, the interface | option callbacks, `ipcp_up`, `ipcp_down` | interface, routes, hooks |
| task (`pppLib.c`) | `ppp_if[unit]`, `ppp_parms[unit]` | `pppInit`, `ppp_task`, `die`, `cleanup`, `pppDelete`, the signal handlers `hup`, `term`, `intr`, `io` | everything, under blocked signals |
| callouts (`pppLib.c`) | a delta list, one POSIX timer, `schedtime` | `ppp_timeout`, `ppp_untimeout`, `adjtimeout`, `alrm` | all timeouts of the daemon |
| options, secrets, hooks, statistics, crypt, magic | tables | parsing, lookup, hashing | called at start and by `auth.c` |
| interface driver (`if_ppp.c`) | queues, framing | send, receive, ioctl | the serial line |
| USB queue (`usbQueueLib.c`) | a ring, two counting semaphores, a mutex | create, destroy, put, get | any tasks, `ossLib` |
| USB target (`usbTargLib.c`) | per channel three control ERPs with pending flags, pipes with lists of ERPs and a data toggle, `targMutex` | attach, detach, create and destroy pipes, transfer, abort, responses; the callbacks of the ERPs | application above, TCD below, host beyond |
| USB handles and lists | a table, links | create, validate, destroy | called under their users' mutexes |
| Ethernet driver (`ax88796end.c`) | transmit and receive page pointers, `tx_full`, the interrupt mask, the interrupt task and its semaphore | send, interrupt, receive loop, overrun, start, stop, polling, ioctl | the MUX above, chip and GPIO below |

All state of a PPP daemon is changed by signal handlers of one task, and a handler
runs to its end with the other signals blocked: a handler is one step of the
models. What makes the code hard is not data races but the order of these steps:
packets that are lost, late or answers to an older request; callouts that were
not cancelled; a peer, an administrator and a lower layer that act at any
moment; callbacks that call back into the automaton they came from; and `die`,
which ends the task in active mode and *returns* in passive and silent mode.

What correctness means, per part: the automaton never waits without a callout,
gives up in the end, and says "up" only when both directions are acknowledged.
LCP: two ends that are up agree on every option. IPCP: each end routes to the
address the other has taken, and ends come up whenever their configurations allow it. The composition: the interface
is up only over OPENED automata and authenticated links, a passive daemon is
always ready for the next peer, and an active one ends. The callouts: each runs
when asked, unless cancelled.

The USB and Ethernet code is hard in the other way: real tasks preempt each
other. The USB queue must be one first-in first-out queue whatever its writers
and readers do between a semaphore and the mutex. A USB device must always have
an ERP out for the host's next request, keep its data toggles in step with the
hardware, and be able to tear its pipes down. The Ethernet driver must not
overwrite pages that are still to be sent, must not lose an interrupt (its GPIO
reports edges only, and senders and the interrupt task both write the mask), and
its task must end when it is stopped. `PROJECT.json` lists the hazards by line.

## 2. Modules

| module | models | state |
|---|---|---|
| `PppFsmOps` | every function of `fsm.c` as an operator from an fsm record to an fsm record | none |
| `PppFsm`, `MCPppFsm` | one automaton in the most general environment | `f`; histories `told`, `agreed`, `quiet` |
| `PppFsmProofs` | theorems about `PppFsm` | |
| `PppChapOps` | every handler of `chap.c` | none |
| `PppDaemon`, `MCPppDaemon` | LCP, IPCP, CHAP, echoes and phases of one unit, composed as the callbacks do | `d`, which is `ppp_if[unit]` |
| `PppDaemonProofs` | what each operation of `PppFsmOps` does to the state and which callbacks it makes; theorems about `PppDaemon` | |
| `PppLcpOptions` | `lcp_addci`, `lcp_ackci`, `lcp_nakci`, `lcp_rejci`, `lcp_reqci` | none |
| `PppLink`, `MCPppLink` | two LCPs with their options over two FIFO lines, lossy or good | `calm`, `f`, `go`, `ho`, `up`, `wire`, `kills` |
| `PppLinkProofs` | theorems about `PppLink` | |
| `PppIpcpOptions` | `ipcp_resetci`, `ipcp_addci`, `ipcp_ackci`, `ipcp_nakci`, `ipcp_rejci`, `ipcp_reqci` | none |
| `PppIpcpLink`, `MCPppIpcpLink` | two IPCPs with their options over the link that two LCPs provide | `conf`, `f`, `go`, `ho`, `req`, `up`, `over`, `downs`, `wire`, `losses` |
| `PppIpcpLinkProofs` | theorems about `PppIpcpLink` | |
| `PppTimer` | abstract: what a timer promises | `pending` |
| `PppCallout` | the delta list and the POSIX timer | `callout`, `elapsed`, `itimer`, `alarm`, `batch`, `mode`, `adjusted`, `calm` |
| `PppCalloutProofs` | theorems about `PppCallout`, its refinement of `PppTimer` | |
| `UsbFifo` | abstract: what a message queue promises | `open`, `fifo`, `sent`, `got` |
| `UsbQueue` | `usbQueueLib.c`, each put and get split at every semaphore, mutex and write | the C structure, `pc` of each task, what was put and got |
| `UsbQueueProofs` | theorems about `UsbQueue`, its refinement of `UsbFifo` | |
| `UsbTarg` | `usbTargLib.c`: a channel, its control pipe and a bulk pipe; TCD and host are external | `targ`, which is the `TARG_TCD` with its pipes, `cb` (the ERP the TCD's task calls back for), `request` |
| `UsbTargProofs` | theorems about `UsbTarg` | |
| `AxEnd` | `ax88796end.c`; the chip is external | the chip's registers and rings, `pageInfo`, the interrupt task, start and stop |
| `AxEndProofs` | theorems about `AxEnd` | |

`PppFsmOps` is used by `PppFsm` alone, twice (LCP and IPCP) in `PppDaemon`, and
at both ends of `PppLink` and of `PppIpcpLink`. Conventions:

* an fsm record holds the C structure, and two fields that describe the last
  operation: `cb`, the callbacks it made, and `out`, the packets it sent. The
  module that uses the record interprets both: `PppFsm` records them in its
  histories, `PppDaemon` runs the callbacks of `lcp.c` and `ipcp.c`, `PppLink` and
  `PppIpcpLink` put the packets on the line with their options;
* `timers` counts the `fsm_timeout` callouts queued for the record. It is a
  count and not a flag because `fsm_rtermack` and others leave callouts behind;
* an incoming packet is its code, its id and, where its contents decide, the
  verdict of the option callback (`good`, `bad`, an Ack, a Nak, a Reject). In
  `PppFsm` and `PppDaemon` the environment chooses the verdict; in `PppLink`
  `PppLcpOptions` computes it, in `PppIpcpLink` `PppIpcpOptions`. Packets that are too short are dropped by the
  code before they change anything and are stuttering steps;
* ids are counted modulo `IdMod`, as the `u_char` does modulo 256; `reqid = -1`
  is the id `IdMod - 1`, as it is 255 in the code;
* the upper-layer order in a handler is kept: `lcp_up` brings CHAP, PAP, IPCP
  and the echoes up before `link_established`, and `die` in the middle of a
  handler skips the rest of it in active mode only;
* in `PppLcpOptions` a packet's options are a function from options to values.
  The code writes and expects them in one order. The hints for the MRU and the
  asyncmap that `lcp_reqci` writes go over the request and are never sent, so a
  Nak of these is empty, here as there;
* in `PppIpcpLink` LCP is seen from above: it goes down at one end and, when that
  end's earlier packets have arrived, at the other, and comes up again at either
  end first. `die` ends an end, and LCP's Terminate-Request then ends the other.
  The old forms of the IPCP options are left out: two of these daemons never send
  them to each other;
* callouts of `PppDaemon` expire alone or two in one second (`BatchTimeout`): the
  second has left the list before the first one's function runs, so it is called
  even if that function cancels it;
* `calm` in `PppLink` and `PppCallout` is chosen in the first state and never
  changes. It splits one run into the behaviours of a hostile environment, in
  which safety is checked, and of a good one, of which liveness or exact timing
  is asked as well;
* in `UsbTarg` a routine or a callback is one step, because `targMutex` is held,
  except the loop in `destroyPipe`, which gives control to the TCD's callbacks
  while it holds the mutex. There is one operator per request handler of
  `usbTargLib.c`. A bulk ERP has two buffers and moves packets one by one; the TCD
  reports lengths that these packets can have filled, buffer by buffer or across
  the buffers, with or without an empty packet at the end, and the library counts
  packets from the lengths as the code does. A second ERP (`next`) may wait behind
  the first with the toggle the pipe had when it was queued. The history `drift`
  marks what the library cannot see: lengths that do not show the number of packets,
  an ERP queued behind another, a reset in the middle of a transfer. `lost` is the
  TCD's task gone astray in `cancelErp` through a NULL pipe; what is found at
  address 0 decides, so the step may also just fail. Every packet flips both
  toggles: lost handshakes are the controllers' business;
* in `AxEnd` `ax88796Send` is one step (it runs with interrupts locked, and the
  transmit semaphore admits one sender), and the interrupt task one step per
  stretch that a sender, the chip or the administrator can come between. The read of
  a frame is three steps, `dma` says how far it is; a sender in the middle of it
  tears it, and a torn read gives anything: `BNRY` at any place of the ring, or a
  header that makes the driver reset the chip (one step). `unheard` and `nobuf` are
  histories that mark the exceptions of `Served` and `Unblocks`;
* `upap.c` is not in the repository. PAP is the set of exchanges under way and
  one external action that ends one.

Left out of the modelled functions: `malloc`, timer and clock failures (all end
in `die`), logging, statistics, hooks; in `fsm_sconfreq` the word CLIENT that a passive
or silent daemon writes to the line before its request (`fsm.c:727-736`); in
`ipcp_up` the failures of `auth_ip_addr`, `sifaddr` and `sifup` (`ipcp.c:996-1024`),
which are the interface's and the secrets'. In `PppIpcpLink` the Terminate-Request
that `die` sends is not lost: the peer of an end that is gone learns of it, which
the echoes of LCP would tell it otherwise.

## 3. Runs

Passing runs:

| run | question | bounds |
|---|---|---|
| `fsm` | type, no waiting without a callout, up means agreed, bounded retries, and the waiting ends when only callouts happen | ids mod 4, 3 Configure- and 2 Terminate-Requests, 2 Naks, 3 callouts; active, passive and silent |
| `daemon` | interface, authentication, echo timer and challenge invariants in every mode, with CHAP, rechallenges and PAP | one request, one Terminate-Request, one challenge, one echo failure, two callouts of a kind |
| `daemon_live` | when the peer falls silent, an active daemon ends and a passive one becomes ready for the next; outside passive mode LCP is never deaf and later phases need an OPENED link | as above, active and passive mode, two challenges, one callout of a kind, no PAP, no rechallenge |
| `link` | two ends that are up agree on every option and have different magic numbers, with losses, one kill and restart; on a good line they converge and neither gives up, if each does the authentication the other asks for first | ids mod 3, 2 requests, 2 Naks, 2 packets per line, 2 magic numbers |
| `ipcp` | two ends whose interfaces are up agree on addresses and compression slots; ends with compatible configurations come up and stay up, all others end | 45 pairs of configurations, 1 lost packet, 1 LCP renegotiation, ids mod 4, 3 requests, 3 Naks |
| `callout` | no negative delay, never a queued callout without a running timer, every callout runs once the signals stop; in calm behaviours the list implements `PppTimer` | 2 functions, 3 callouts, 4 seconds |
| `usb_queue` | the ring implements `UsbFifo`; accepted messages are read; a blocked put returns | 2 slots, 2 writers with 2 messages each, 2 readers |
| `usb_targ` | an ERP of the control pipe is out or the application owes a response; phases never overlap, and no flag is left behind nor a task lost but by a refusal; toggles agree until `drift`; every request ends; pipes can be destroyed | a request of each kind, 1 refused submission, 1 bus error, 1 request given up by the host; packets of 2 bytes, buffers of at most 1, 2 packets per ERP |
| `ax` | the transmit ring is not overwritten, received frames are served, `tx_full` is cleared, the interrupt task ends | 3 transmit pages, packets of 1 or 2, 2 queued commands, 2 received frames, semaphore count 1 |

Why the bounds suffice for the cases that matter: retry limits of one, two and
three include "the first is the last", "one to go" and "several to go", and the
theorems cover every limit; two or three callouts of one kind are one more than
the code means to have; `IdMod = 1` in the daemon runs loses nothing because a
packet with the wrong id is treated as one with a bad verdict, which the peer may
always send; ids modulo 3 in the link runs wrap within a behaviour; three entries
in the delta list have a head, a middle and an end, and delays up to four give
equal, shorter and longer neighbours. Two writers and two readers of two slots
make both ends of the ring contended, full and empty, and wrap it twice. In
`usb_targ` a refusal, an error and a request given up reach each phase of a transfer in
each way it can end; the requests are one for each way in which a handler ends (the
others are equal to one of them by definition, or do part of what it does, and the
theorems are about every set of requests); two buffers of one byte and packets of
two give a packet that spans buffers, one that does not, and a full one with an
empty one behind it. Three pages hold packets that end on, before and behind the
last page, and a ring that is full up to the one page the driver keeps free; a
second count of the Ethernet semaphore only runs `ax88796Int` with nothing to do. The two ends of the link runs differ in
what they want so that each kind of answer occurs: a rejected option, an empty
Nak that ends in a Reject, authentication that is agreed to and authentication that
is refused, a magic number collision. The limits on Naks and on requests are equal,
as they are in `fsm.h`.
The configurations of `ipcp` are a server that has an address for its peer or
none, insists on it or not, or does not negotiate addresses, and a client with or
without an address, willing to give it up or not, with or without compression:
every way in which `ipcp_reqci` answers and each of the three ways to `die` occurs.
Its limit of 3 Naks is two more than a negotiation needs, so that one lost
packet does not make an end reject what it would have agreed to (the code's is 10);
lines of 3 packets are never full.

Deadlock is checked except in the `link` and `ipcp` runs, where an established
link without echoes may rest, in `usb_queue`, which may have been destroyed, and
in `usb_targ`, where `destroyPipe` can really hang (below).

Violation runs: a comment or manual entry in the code, stated as a property, that the code does
not keep. Each is a finding in `PROJECT.json` with the lines.

| run | the comment | what happens |
|---|---|---|
| `daemon_auth` | the network phase follows authentication | after a renegotiation of LCP an opened IPCP resumes while authentication is pending |
| `daemon_deaf` | the connection is reset, a passive link reopened | after an echo failure LCP stays INITIAL and drops everything |
| `ipcp_vj` | `no_vjccomp` disables connection ID compression | the peer acknowledges a request without it and compresses all the same: `ho->cflag = wo->cflag` |

Other departures met while modelling have no run of their own. Where a property
above makes an exception for one, TLC refutes the property without it:

| code | what happens | how to see it |
|---|---|---|
| `auth.c:142-151` | a peer that refuses to authenticate, to be booted out by the comment, is not in passive and silent mode: `die` returns and `link_established` goes on to the network phase | `PhaseNeedsLink` without `Stays`, all modes |
| `lcp.c:195-199` | `lcp_close` on an idle passive link, which the comment says ends the program, is undone by `lcp_finished` (`lcp.c:1377`) | a live passive unit in STOPPED is alive, its phase not DEAD, after `die(d)` |
| `lcp.c:1113` | a daemon that would accept CHAP or PAP gives up on a peer that can only do PAP: the Nak that suggests PAP has a shape that `lcp_nakci` drops as bad (`lcp.c:769`) | `NoGivingUp` without `CommonAuth`, B allows PAP only |
| `usbTargLib.c:582`, `1260` | a refused ERP stays marked as pending. A refused Setup ERP makes the control pipe deaf for good; a refused Status ERP is cancelled through `dataErp.targPtr`, NULL before the first data phase | `Responsive` without `faults = 0`; `~targ.lost` |
| `usbTargLib.c:1479` | a packet across two buffers counts twice, an empty packet behind full ones not at all, and the next ERP starts with the wrong toggle | `PipeTracks` |
| `usbTargLib.c:2353` | an ERP queued behind another has the toggle from before that one's packets | `PacketsInStep` |
| `usbTargLib.c:254` | `usbTargPipeDestroy` and `usbTargTcdDetach` never return when the TCD's task is already calling back for an ERP of the pipe: the callback waits for `targMutex`, which `destroyPipe` holds until the ERP is gone | `DestroyReturns` without `Doomed` |
| `ax88796end.c:700`, `2105` | a sender of a higher priority than `tAxISR` comes in the middle of a remote read; the interrupt lock, there to "protect ax88796Int", does not keep it from a task | `dma # "torn"` |
| `ax88796end.c:1648` | a start right after a stop finds `axTaskInited` still set and spawns no interrupt task; the old one then ends | `admin = "up" => pc # "none"`, `Patient = FALSE` |

The rest are part of the models, or next to them:

* IPCP has no finished callback (`ipcp.c:66`): an IPCP that has used up its retries
  rests in STOPPED while the link stays up;
* a Terminate-Ack in OPENED makes `fsm_rtermack` call down and stay OPENED
  (`fsm.c:613`), where `fsm.h:65` says that down is called on leaving OPENED;
* `fsm_rtermack` leaves its callout queued in CLOSED and STOPPED (`fsm.c:598`),
  and `fsm_lowerdown`, said to cancel all timeouts, does not cancel it there;
* `ChapLowerDown` cancels one callout by server state (`chap.c:236`), so
  `ChapRechallenge` callouts survive it;
* a second signal before the timer is set again makes `adjtimeout` subtract the
  same seconds twice, since it leaves `schedtime` alone (`pppLib.c:1179`):
  a callout queued then is placed by a head that is too short, and `OnTime` is
  stated of calm behaviours only;
* a callout queued while SIGALRM is pending is placed behind the expired head
  with no fudge factor (`pppLib.c:1175`) and may be called at once;
* CLEAR_FEATURE of an IN endpoint compares the whole index, direction bit included,
  with the endpoint number; the bulk pipe of `UsbTarg` is an OUT pipe;
* `usedHandles` of `usbHandleLib.c` is never incremented, so creating a handle in
  a full table does not return;
* `axend_start_transmit` returns with the interrupts masked when the command
  queue is full (`ax88796end.c:998`), and `ax88796Send` then frees the packet and
  reports success; a packet that does not fit is freed as well, although
  END_ERR_BLOCK tells the caller to send it again and the comment at
  `ax88796end.c:2095` says "Do not free packet". The driver never calls
  `muxTxRestart`, so `Unblocks` is about `tx_full` and not about who waits for it;
* a stop that finds the task inside `ax88796Int` is followed by the enabling of
  the mask at its end;
* a line that is low before the GPIO handler is installed is never reported as an
  edge; the next send, which toggles the mask, repairs that. Frames for which
  there was no buffer wait for the next frame.

## 4. Environment and fairness

* `fsm`, `daemon_live`: callouts expire (weak fairness of the expiry
  actions: `alrm` is driven by the POSIX timer), and the loop of `ppp_task` tests
  the phase after each signal (`Leave`). Nothing is assumed of the peer, the
  administrator or the lower layer; the properties are conditional on their
  falling silent. `HalfDown` in `SilentPeerNoticed` is a real exception: after
  a Terminate-Ack in OPENED the automaton is OPENED with its echoes
  stopped, and no callout will notice a silent peer. INITIAL is the other: in it an
  echo failure leaves a passive daemon (`daemon_deaf`).
* `link`, calm behaviours: the line delivers, both daemons are started within the
  first callout (an end alone gives up, and should), and a callout of
  DEFTIMEOUT seconds expires. The last is strong fairness because `Prompt`
  disables expiry while a packet is on the line, again and again. The other
  behaviours are asked for safety only.
* `ipcp`: besides the line and the callouts, LCP comes up again after it has gone
  down, and authentication ends so that IPCP is opened. No callout expires while a
  packet is under way, nor before both ends have opened IPCP: an end that has to
  wait longer gives up in STOPPED, and nothing but a packet from the other end
  wakes it.
* `Prompt` (no callout expires while a packet is under way) is assumed in all
  link runs: 3 seconds are long for a serial line, and without it `Agreement` is
  false. A packet that outlives two restarts of its sender can meet an equal id and
  an equal magic number, and the `id` check of `fsm.c` cannot tell. With `Prompt`
  that still takes two kills while packets of both earlier lives are on the lines:
  TLC finds it in `PppLink` with `MaxKills = 2` and three magic numbers. The run
  `link` has one kill, at any moment; the theorems have any number and ask instead
  that a daemon is started again on lines its last life has left (section 5,
  `Settled`).
* `Connects` assumes that `magic()` in the end draws different numbers. It and
  `NoGivingUp` have the condition `CommonAuth`: an end does the authentication the
  other asks for first, or none at all, which ends in a Reject.
* `callout`: time passes and handlers return. A calm behaviour has at most one
  signal that adjusts the list between two settings of the timer, and SIGALRM is
  handled before other signals of its second. The code guarantees neither; only
  `OnTime` depends on it.
* `usb_queue`: a task that can run does (weak fairness); the semaphores are
  created SEM_Q_FIFO, so a task that waits for one that is given again and again
  gets it (strong fairness of taking a semaphore and the mutex); readers read in
  a loop. Writers need not write.
* `usb_targ`: the TCD delivers its callbacks, the application answers the requests
  it has taken, the cancelling loop runs, and the host sends again what the device
  has dropped. The TCD serves the control endpoint although the bulk pipe is busy:
  strong fairness, because each bulk callback disables it for a while. Nothing is
  assumed of bulk transfers or of the application's other calls.
* `ax`: the interrupt task runs, the chip sends what it was given, and
  `ax88796Stop` returns. The receive loop of `ax88796HandleRcvInt` has no limit,
  so `[]<>(pc \notin {"rx", "over"})` says that in the long run the line is slower
  than the task, and that senders do not disturb its reads for ever.

## 5. Proofs

TLC checks the instances of section 3; the theorems below hold for every value
of the constants that the named assumptions of the modules admit. Each safety
theorem has the same shape: an inductive invariant, one lemma per action (or per
handler) that the action preserves it, and the property as a consequence. The
invariants were checked with TLC before they were proved.

| module | theorems | for every |
|---|---|---|
| `PppFsmProofs` | `TypeOK`, `ActiveHasTimer`, `UpMeansAgreed`, `BoundedRetries` | width of the id, retry limit, set of modes, bound on callouts |
| `PppDaemonProofs` | `TypeOK`, `InterfaceNeedsLink`, `NetworkIsAuthenticated`, `EchoTimerTracked`, `ChallengeTracked`, `ActiveListening`, `PhaseNeedsLink` | as above, echo and challenge limits, authentication policy |
| `PppLinkProofs` | `Agreement`, `MagicDiffers`; until a daemon is killed, or when restarts are `Settled` | pair of configurations, width of the id, set of magic numbers, retry limits, number of losses, kills and restarts, length of the lines |
| `PppIpcpLinkProofs` | `TypeOK`, `Agreement` | pair of configurations and addresses, width of the id, retry limits, number of losses and renegotiations of LCP, length of the lines |
| `PppCalloutProofs` | `TypeOK`, `AlarmArmed`, the refinement `OnTime` | number of callouts, longest delay, set of functions |
| `UsbQueueProofs` | `TypeOK`, the refinement `IsFifo` | number of slots, finite sets of writers and readers, number of messages |
| `UsbTargProofs` | `TypeOK`, `Responsive`, `OnePhase`, `ToggleInSync` | set of requests, number of refusals, bus errors and abandoned requests, packet size, length of the buffers, number of packets |
| `AxEndProofs` | `TypeOK`, `NoOverwrite` | size of both rings and of the command queue |

### The automaton

`PppFsmProofs` rests on `Invariance`, `Spec => []IInv`. `IInv` adds two conjuncts
to the four properties: `HalfwayAgreed` (ACKRCVD means that our request is
acknowledged, ACKSENT that the peer's is), without which the step into OPENED
could not be shown to have both acknowledgements, and `RetryBudget` (requests
sent in silence plus `retransmits` stay within the limit of the state), because
the bound on the former is kept only by the decrease of the latter.

The proof follows the code. The first part has one `Facts` lemma per building
block (what `fsm_sconfreq`, a callout or an assignment to the state does to each
field); `Outcome` lemmas then carry the state, callouts, counter, callbacks and
packet codes through a handler; one lemma per handler of `fsm.c` shows that it
leaves a record from which `IInv'` follows.

### The daemon

The first part of `PppDaemonProofs` states what a protocol above `fsm.c` may rely
on: `FsmStep` says that an operation enters OPENED with the callback up, leaves it with down,
and makes finished only from a state that was not OPENED. These are not the facts
of `PppFsmProofs`: `PppDaemon` cuts the behaviour at each callback, and a
callback calls operations of either automaton again.

The invariant `Whole` of the unit adds to the properties:

* `ServerIdle`: without a link the CHAP server is INITIAL. If it could be
  PENDING, `ChapLowerUp` and then `ChapAuthPeer` would both send a challenge and
  `ChallengeTracked` would be lost;
* `EchoesOnLink`: echoes run only on an OPENED link, so that `lcp_up` starts the
  only one. It has one exception, found by the attempt to prove it without: in
  passive mode `die` returns to `LcpEchoCheck`, which queues its next callout
  although the link is gone. The automaton is deaf then and stays so, which is
  why `EchoTimerTracked` survives;
* `Restarts`: a daemon that stays is one that restarts. It needs the part of
  `DaemonAssumption` that `lcp_open` justifies (`lcp.c:175-179`: RESTART is set with
  PASSIVE or SILENT);
* `Attended`: outside passive and silent mode LCP hears, and later phases have
  an OPENED link.

A handler is a chain of callbacks, and in the middle of it the properties about
callouts may be suspended (`EchoOff`, `ChalOff`: one is off the list and has still
to run). `Steady` describes a part of a handler, `Safe` a whole one, and the lemmas
compose them in the order of the code. `ActiveListens` and `ActivePhases` follow
from `Attended`; for passive and silent mode the statements are false, which is
what the run `daemon_deaf` and the first departure of section 3 show.

### Two IPCPs

`Agreement` speaks of two ends that are up, and what makes it true is what is on
the lines between them. Call the requests of an end and the answers to them its
exchange. `Exchanges` says that at most one packet of an end's exchange is on the
lines, and none while its automaton rests (CLOSED, STOPPED, ACKRCVD or OPENED);
`Agreed` says that a Configure-Ack under way is about options its sender still
grants, and that an end in ACKRCVD or OPENED holds options its peer still grants;
`Follows` says that an end whose LCP went down first stays deaf until the other's
has, and that one which comes up late finds nothing of its own on the lines. An end
changes what it grants only when it takes a request off the line. That packet was
then the only one of the peer's exchange, so no Ack for the old grant is left, and
the peer was not resting, so it does not hold the old options either.

The proof shows that ids are not needed for this: it never uses that an answer is
to the last request sent, so it holds for ids of any width, also when they wrap. It
does use that the lines keep order and duplicate nothing, and that a callout
expires on empty lines (`Timeout3s`, section 4): a request repeated while an earlier
one was under way would be a second packet of its exchange. The assumption
`IpcpLinkAssumption` says that there are two ends. `Ran` states what an operation of
`fsm.c` leaves: its state, the callbacks it made and the codes it sent, in order;
`Preserved` is the argument above for one step of one end, and each action is shown
to meet its conditions.

### Two LCPs

`PppLinkProofs` proves `Agreement` and `MagicDiffers` along the same argument, with
three differences. All its theorems assume `Prompt`.

*A daemon may be killed.* Its packets then stay on the lines, and a daemon that is
started again among them has more than one packet in its exchange. `Exchanges` and
`Agreed` therefore say nothing of a daemon that is not running, and `Invariant`,
`EndsAgree` and `MagicsDiffer` have the hypothesis `Settled`: when a daemon is started,
no request of its last life and no answer to one is on the lines. Without it the
statements are false (section 4). It is a statement about kills alone: `Quiet` says
that a daemon which exits by itself, because LCP has finished, leaves nothing behind,
since `lcp_finished` follows a Terminate-Ack, which was the last packet of its
exchange, or a callout, which expires on empty lines. So `UnkilledAgree` needs no
`Settled`: until the first kill both properties hold through any number of losses,
exits and restarts. A peer that keeps running may have any of its packets under way
in either case.

*An end that does not stand by its Ack need not be right.* `lcp_hisoptions` is written
by every request, also by one that is refused. `Agreed` speaks of a peer in ACKSENT
or OPENED only, the states in which the last reply was an Ack. `Stands` and `Grants`
are the two ways to be in one of them after a step: an end that sends no Ack keeps
its grant, and one that does has just taken the peer's only packet off the line.

*Magic numbers change on the way.* `lcp_nakci` and `lcp_resetci` draw new ones, so
that an end's comparison in `lcp_reqci` may be about a number one of them no longer
uses. `Apart` says when it is not: if both ends stand by their Acks and each has an
Ack of what it asks for now, or is about to read it (`Has`), then the end that
acknowledged last has compared the numbers both still use. A daemon that draws a new
number has no answer under way, so it has lost what `Has` asks for until it is
acknowledged again. The assumption `LinkAssumption` says that there are two ends with
typed configurations, nothing of what they want or allow.

### The callouts

The list holds differences, and `TypeOK` says that none becomes negative: a fact
about sums. `Timed(q, a)` says that `a` gives the times of the entries of `q`; the
lemmas `InsertFacts`, `DeleteFacts`, `AdvanceFacts` and `RestFacts` say how the
times change when an entry is inserted, deleted, when the head is adjusted, and
when the first ones are taken off. That `Sums` gives these times, and that they
grow, is shown by a least counterexample (`Least`, from the well-foundedness of
the strict subsets of a finite set), since the library's induction schemes
cannot be instantiated here. `Inv` is `TypeOK`, `AlarmArmed`, `TimesFit` (no entry
is later than the longest delay, without which a cancelled entry's delay could be
added to more than the range allows) and `HeadWaits` (the head has a delay, so that
setting the timer for it does not disarm it).

`Refinement`, `Spec => OnTime`, needs `DueInv`, which reads the second each callout
was asked for off the timer and the list: it is what the timer has left plus the
delays behind the head. `DueInv` is conditional on `calm`, as `OnTime` is; without
it the two departures of section 3 make it false. The abstract state is a bag, and
the proof counts: an entry inserted into or removed from a sequence adds or
removes one occurrence of its key (`BagInserted`), and taking the head's batch off
the list is a rotation of the sequence, which the bag does not see (`BagRotated`).
Each action then maps to the step of the timer it stands for, `Signal`, `alrm`
and `Return` to stuttering.

### The USB queue

`Inv` counts every slot: free (in `empty`), stored, held by a put that has yet to
write it, or by a get that has yet to give it back (`SlotsCounted`). `InBehindStored`
ties the index `in` to the stored messages and the task that has written and not
advanced. Together they show that a put writes a slot no reader still needs, which
no conjunct of the queue's own state implies. The refinement maps `advance` of a put
to the abstract put and `advance` of a get to the abstract get, for any number of
tasks; the proof needs the sets of tasks to be finite (`QueueAssumption`), as tasks
of a system are.

### The USB target

`Clean` is `OnePhase` with what ties a payload to the response it belongs to. Flags
without an ERP (`Stranded`) are counted against the refusals: each refusal leaves one
at most, no other step leaves any, and the callback of an ERP clears its own. So
without a refusal no flag misleads `setupErpCallback`, and it cancels nothing through
a NULL pipe. `Heard` is `Responsive` while only the bulk pipe is being torn down as
well; `Owned` and `CallbackOK` say that a bulk ERP has its pipe and that the TCD's task
never calls back for a cancelled ERP. `Sync(c, n)` says that, unless `drift`, the host's
toggle is the pipe's plus the `n` packets that are still to be counted, and the
hardware's is the host's; `Tracked` takes for `n` the packets moved so far or, once
the ERP has ended, the count from its lengths. That the two are equal is just what
`drift` is not about, and the proof needs no bound on lengths or packets.

### The Ethernet driver

`NoOverwrite` compares pages pairwise and is not inductive. `InOrder` lays the pages
of the queued commands out in the order they are sent in, from the page behind
CTEPR to the one before `tx_curr_page`; `Ahead` measures that distance on the ring.
A send adds pages at the end, the chip takes them from the front, and the test for
space in `ax88796Send` keeps the two from meeting. The reset after a torn read empties
the ring but leaves `tx_full`, which can only make the driver believe in less space.
`Reading` says that a frame that is being read is in the ring, for the count of frames.

### Only model-checked

* All liveness (`GivesUp`, `SilentPeerNoticed`, `Connects`, `Settles`, `Drains`,
  `Delivered`, `PutReturns`, `Answered`, `DestroyReturns`, `Served`,
  `Unblocks`, `TaskEnds`): the prover does not reach fairness.
* `NoGivingUp` of `PppLink`, an action property. It holds for configurations and
  limits that leave enough requests for the Naks and Rejects to come, which is a
  matter of the instance: with `MaxConf = 1` it is false. `CommonAuth` is its
  condition on the configurations.

## 6. Not modelled, and the plan

Not modelled:

* in the PPP directory: option parsing, the password hash, the list of secrets,
  statistics, hooks and the interface driver; `pppInit` and `pppDelete` racing
  with the task (the answer depends on task priorities and on what the allocator
  does with freed memory); LQR, which the code does not implement. A verdict of
  the environment: CHAP digests and secrets, and in `PppDaemon` the options of
  LCP and IPCP, which the two-ended modules compute;
* in the USB directory: handles and lists (sequential), the TCD, endpoint tables,
  more than two ERPs on one pipe, IN pipes, bus resets, a task past its semaphore in
  a queue that is destroyed;
* in the Ethernet driver: polling, multicast, ioctl, frames with a CRC error
  (the chip is told to drop them; the reset they would lead to is modelled after a
  torn read), frames of illegal length,
  what a chip that is stopped for an overrun does with commands;
* the BSD stack, which is a copy of 4.4BSD; board support packages, boot
  configuration, register headers, other drivers and exercise programs: more than
  nine tenths of the tree's lines. They are sequential hardware
  initialisation and tables around a kernel and boards that are not in the tree,
  copies per board of the same file, or single calls, and offer no state machine
  whose behaviour could be stated from the source alone.

Left for the proofs: one kill with any packets under way, which the run `link`
checks. It needs an invariant that tells the packets of two lives apart by their ids;
for two kills in quick succession there is none, since the statement is false.

Left for the models: two daemons composed over CHAP with lost and repeated
challenges; the growth of `ChapRechallenge` callouts, of which `MaxPending` shows
the second only.
