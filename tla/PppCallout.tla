----------------------------- MODULE PppCallout -----------------------------
(***************************************************************************)
(* The callouts of the PPP daemon (src/vxworks_test/netinet/ppp/pppLib.c):  *)
(* a list in which each entry holds its delay after the one before it, one *)
(* POSIX timer for its head, and signal handlers that run with all signals *)
(* blocked and queue and cancel entries.                                   *)
(*                                                                         *)
(* Times are kept relative to the present: elapsed is the time since       *)
(* schedtime, itimer what the POSIX timer has left (0: disarmed).  Handlers *)
(* take no time and a signal is handled in the second it is sent in.       *)
(***************************************************************************)
EXTENDS Integers, Sequences, FiniteSets, SequencesExt

CONSTANTS
    Funcs,      \* the (c_func, c_arg) pairs in use
    MaxDelay,   \* bound: the longest delay asked for
    MaxQueue    \* bound: callouts pending at once

ASSUME CalloutAssumption == MaxDelay \in Nat \ {0} /\ MaxQueue \in Nat

VARIABLES
    callout,   \* the list; due is a history field: seconds until the time asked
               \* for, -1 once it has passed
    elapsed,   \* time(NULL) - schedtime
    itimer,    \* the timer's remaining seconds
    alarm,     \* SIGALRM is pending
    batch,     \* alrm: the entries taken off the list, not yet called
    mode,      \* the handler that is running, "idle" if none
    adjusted,  \* adjtimeout has changed the list since schedtime
    calm       \* rigid: there is at most one signal between two settings of the
               \* timer, and SIGALRM is handled before the others of its second

vars == <<callout, elapsed, itimer, alarm, batch, mode, adjusted, calm>>

Entry == [what : Funcs, c_time : 0 .. MaxDelay, due : -1 .. MaxDelay]

Init ==
    /\ callout = << >> /\ elapsed = 0 /\ itimer = 0 /\ alarm = FALSE
    /\ batch = << >> /\ mode = "idle" /\ adjusted = FALSE
    /\ calm \in BOOLEAN

----------------------------------------------------------------------------
\* timer_settime for the head of q, and schedtime.
SetTimer(q) ==
    /\ itimer' = IF q = << >> THEN 0 ELSE Head(q).c_time
    /\ elapsed' = 0 /\ adjusted' = FALSE

KeepTimer == UNCHANGED <<itimer, elapsed, adjusted>>

\* The delay of each entry from the head on.
Sums(q) ==
    LET S[i \in 0 .. Len(q)] == IF i = 0 THEN 0 ELSE S[i - 1] + q[i].c_time
    IN  S

\* The entries a callout in s seconds is queued behind.
Before(q, s) == Cardinality({i \in 1 .. Len(q) : Sums(q)[i] <= s})

\* Entry i, if there is one, comes t seconds later after the one before it.
Shift(q, i, t) == IF i \in DOMAIN q THEN [q EXCEPT ![i].c_time = @ + t] ELSE q

\* Mutant of Insert: the entry behind keeps its full delay.
InsertNoShift(q, f, s) ==
    LET k == Before(q, s)
    IN  InsertAt(q, k + 1, [what |-> f, c_time |-> s - Sums(q)[k], due |-> s])

Insert(q, f, s) ==
    LET k == Before(q, s)
        t == s - Sums(q)[k]
    IN  InsertAt(Shift(q, k + 1, -t), k + 1, [what |-> f, c_time |-> t, due |-> s])

Matches(q, f) == {i \in 1 .. Len(q) : q[i].what = f}

\* Mutant of Delete: the time of the deleted entry is lost.
DeleteNoShift(q, f) ==
    IF Matches(q, f) = {} THEN q ELSE RemoveAt(q, Min(Matches(q, f)))

Delete(q, f) ==
    IF Matches(q, f) = {} THEN q
    ELSE LET i == Min(Matches(q, f))
         IN  RemoveAt(Shift(q, i + 1, q[i].c_time), i)

\* Mutant of adjtimeout: the head is adjusted even if it has expired.
AdjustAlways(q) == IF q = << >> THEN q ELSE Shift(q, 1, -elapsed)

adjtimeout(q) ==
    IF q = << >> \/ elapsed >= Head(q).c_time THEN q ELSE Shift(q, 1, -elapsed)

----------------------------------------------------------------------------
\* ppp_timeout and ppp_untimeout, called by a handler.

Handling == mode \in {"signal", "call"}

ppp_timeout(f, s) ==
    /\ Handling /\ Len(callout) + Len(batch) < MaxQueue
    /\ callout' = Insert(callout, f, s)
    /\ IF Before(callout, s) = 0 THEN SetTimer(callout') ELSE KeepTimer
    /\ UNCHANGED <<alarm, batch, mode, calm>>

ppp_untimeout(f) ==
    /\ Handling
    /\ callout' = Delete(callout, f)
    /\ IF callout # << >> /\ Head(callout).what = f
         THEN SetTimer(callout') ELSE KeepTimer
    /\ UNCHANGED <<alarm, batch, mode, calm>>

\* hup, term, intr and io: adjust the list, then handle the event.
Signal ==
    /\ mode = "idle"
    /\ calm => ~ adjusted /\ ~ alarm
    /\ callout' = adjtimeout(callout)
    /\ adjusted' = (adjusted \/ callout' # callout)
    /\ mode' = "signal"
    /\ UNCHANGED <<elapsed, itimer, alarm, batch, calm>>

\* Mutant of Together: only the head is taken.
HeadOnly(q) == IF q = << >> THEN 0 ELSE 1

\* The head and the entries due with it.
Together(q) ==
    Cardinality({i \in 1 .. Len(q) : \A j \in 2 .. i : q[j].c_time = 0})

alrm ==
    LET n == Together(callout)
        rest == SubSeq(callout, n + 1, Len(callout))
    IN  /\ mode = "idle" /\ alarm
        /\ alarm' = FALSE
        /\ batch' = SubSeq(callout, 1, n)
        /\ callout' = rest
        /\ mode' = "alrm"
        /\ IF rest # << >> THEN SetTimer(rest) ELSE KeepTimer
        /\ UNCHANGED calm

\* alrm calls the next function of its list.
Call ==
    /\ mode \in {"alrm", "call"} /\ batch # << >>
    /\ batch' = Tail(batch)
    /\ mode' = "call"
    /\ UNCHANGED <<callout, elapsed, itimer, alarm, adjusted, calm>>

Return ==
    /\ mode # "idle" /\ batch = << >>
    /\ mode' = "idle"
    /\ UNCHANGED <<callout, elapsed, itimer, alarm, batch, adjusted, calm>>

\* A second passes.  elapsed is not read while the list is empty, and beyond the
\* longest delay its value no longer matters.
Tick ==
    /\ mode = "idle" /\ ~ alarm
    /\ itimer' = IF itimer > 0 THEN itimer - 1 ELSE 0
    /\ alarm' = (itimer = 1)
    /\ elapsed' = IF callout = << >> THEN 0
                  ELSE IF elapsed < MaxDelay THEN elapsed + 1 ELSE elapsed
    /\ callout' = [i \in DOMAIN callout |->
                     [callout[i] EXCEPT !.due = IF @ >= 0 THEN @ - 1 ELSE @]]
    /\ UNCHANGED <<batch, mode, adjusted, calm>>

Next ==
    \/ Signal \/ alrm \/ Call \/ Return \/ Tick
    \/ \E f \in Funcs : ppp_untimeout(f) \/ \E s \in 1 .. MaxDelay : ppp_timeout(f, s)

Spec == Init /\ [][Next]_vars

\* Time passes, and handlers run to their end.
LiveSpec == Spec /\ WF_vars(Tick) /\ WF_vars(alrm) /\ WF_vars(Call) /\ WF_vars(Return)

----------------------------------------------------------------------------
(* Every variable keeps its range; no entry's delay becomes negative.       *)
TypeOK ==
    /\ callout \in Seq(Entry) /\ batch \in Seq(Entry)
    /\ elapsed \in 0 .. MaxDelay /\ itimer \in 0 .. MaxDelay
    /\ alarm \in BOOLEAN /\ adjusted \in BOOLEAN /\ calm \in BOOLEAN
    /\ mode \in {"idle", "signal", "alrm", "call"}

(* While anything is queued the timer runs or its signal is pending,        *)
(* whatever was queued, cancelled and adjusted: no callout is forgotten.    *)
AlarmArmed == callout # << >> => itimer > 0 \/ alarm

(* Callouts that nothing disturbs any more all run.                         *)
Drains == <>[][Tick \/ alrm \/ Call \/ Return]_vars => <>[](callout = << >>)

\* The abstract timer's bag.  It says nothing of behaviours that are not calm,
\* which it sees as stuttering.
Pending == LET all == IF calm THEN callout \o batch ELSE << >>
           IN  [p \in {<<all[i].what, all[i].due>> : i \in DOMAIN all} |->
                  Cardinality({i \in DOMAIN all : <<all[i].what, all[i].due>> = p})]

Timer == INSTANCE PppTimer WITH pending <- Pending

(* Callouts run at the second they were asked for, unless cancelled: with   *)
(* calm signals the list implements the timer of PppTimer.                  *)
OnTime == Timer!Spec
============================================================================
