------------------------------ MODULE SoftTimer ------------------------------
(***************************************************************************)
(* The timers of the kernel (rt-thread/src/timer.c): the list of the       *)
(* thread timers, which the tick interrupt works off, and the list of the  *)
(* soft timers, which the timer thread works off.  The timer thread sleeps *)
(* until the first soft timer is due, by a thread timer of its own on the  *)
(* other list, and a soft timer that is started wakes it to look again.    *)
(*                                                                         *)
(* Ticks are TickRange wide and wrap.  An action is one stretch with       *)
(* interrupts disabled or one step of the timer thread between two.  All   *)
(* callers are threads of a lower priority, which run while the timer      *)
(* thread is suspended, or callbacks of soft timers, as in this build: no  *)
(* interrupt handler starts a timer, and rtconfig.h gives the timer thread *)
(* the highest priority of all.                                            *)
(***************************************************************************)
EXTENDS Integers, SequencesExt

CONSTANTS
    SoftTimers,     \* the timers with RT_TIMER_FLAG_SOFT_TIMER
    ThreadTimers,   \* thread_timer of the threads below the timer thread
    Own,            \* thread_timer of the timer thread
    DelaysOf,       \* the times each timer is set to; Own, by a callback, once
    TickRange,      \* RT_TICK_MAX + 1
    MaxStall,       \* bound: ticks that the ready timer thread loses before it sleeps
    Nobody          \* RT_NULL

Half == (TickRange - 1) \div 2      \* RT_TICK_MAX / 2

ASSUME SoftTimerAssumption ==
    /\ TickRange \in Nat \ {0} /\ MaxStall \in Nat
    /\ SoftTimers \cap ThreadTimers = {}
    /\ Own \notin SoftTimers \cup ThreadTimers
    /\ Nobody \notin SoftTimers
    /\ DelaysOf \in [SoftTimers \cup ThreadTimers \cup {Own} -> SUBSET (1 .. Half - 1)]

\* Ticks are compared within half their range (the bound RT_TICK_MAX / 2 of
\* every comparison, and of the times that rt_timer_init and rt_timer_control
\* accept): when the timer thread stalls and every soft timer in turn has a
\* callback that sleeps, the last of them is not as late as that.
Timely(nap, longest) ==
    LET late == 2 * MaxStall + Cardinality(SoftTimers) * nap - 1
    IN  /\ \A d \in DelaysOf[Own] : d <= nap
        /\ \A t \in SoftTimers : \A d \in DelaysOf[t] : d <= longest
        /\ late < Half /\ late + longest <= TickRange - Half

ASSUME TimelyAssumption ==
    /\ IsFiniteSet(SoftTimers) /\ Nobody \notin Int
    /\ \E nap, longest \in 1 .. Half - 1 : Timely(nap, longest)

HardTimers == ThreadTimers \cup {Own}
Timers     == SoftTimers \cup HardTimers

Settings == {d \in [SoftTimers -> 1 .. Half - 1] : \A t \in SoftTimers : d[t] \in DelaysOf[t]}

VARIABLES
    tick,                           \* rt_tick
    timerList, softList,            \* _timer_list, _soft_timer_list
    delay, periodic,                \* init_tick, flag of each soft timer
    due, active,                    \* timeout_tick and flag of each timer
    stat, pc,                       \* the timer thread
    seen,                           \* next_timeout
    firing, held,                   \* t, and whether it is on the temporary list
    stall                           \* ticks that the ready thread has lost

vars == <<tick, timerList, softList, delay, due, periodic, active, stat, pc, seen,
          firing, held, stall>>

settings == <<delay, periodic>>
callback == <<firing, held>>
thread   == <<stat, pc, seen, stall>>

\* rt_timer_init of each timer, rt_system_timer_thread_init.
Init ==
    /\ tick = 0 /\ timerList = <<>> /\ softList = <<>>
    /\ delay \in Settings /\ periodic \in [SoftTimers -> BOOLEAN]
    /\ due = [t \in Timers |-> 0] /\ active = [t \in Timers |-> FALSE]
    /\ stat = "ready" /\ pc = "look" /\ seen = 0 /\ stall = 0
    /\ firing = Nobody /\ held = FALSE

-----------------------------------------------------------------------------
(* Arithmetic of ticks, and the sorted lists.                              *)

Plus(a, b)  == (a + b) % TickRange
Minus(a, b) == (a - b) % TickRange

\* The test of rt_timer_check and rt_soft_timer_check.
IsDue(t, now) == Minus(now, due[t]) < Half

\* A timer is on a list at most once.
Without(list, t) ==
    IF t \in ToSet(list) THEN RemoveAt(list, CHOOSE i \in DOMAIN list : list[i] = t) ELSE list

PlaceUnwrapped(list, when) ==                   \* mutant of Place
    CHOOSE i \in 1 .. Len(list) + 1 :
        /\ i <= Len(list) => due[list[i]] > when
        /\ \A j \in 1 .. i - 1 : due[list[j]] <= when

\* rt_timer_start: behind every timer that is due before or at the same time.
Place(list, when) ==
    CHOOSE i \in 1 .. Len(list) + 1 :
        LET later(j) == Minus(due[list[j]], when) \in 1 .. Half - 1
        IN  (i <= Len(list) => later(i)) /\ \A j \in 1 .. i - 1 : ~ later(j)
Queued(list, t, when) ==
    LET others == Without(list, t) IN InsertAt(others, Place(others, when), t)

\* The state of the timer thread while a callback runs is RT_SOFT_TIMER_BUSY.
Busy == pc \in {"callback", "napped"}

\* timeout_tick of a timer on no list is not read again; it is kept as 0.
Cleared(old, t) == [old EXCEPT ![t] = 0]

\* Who can call: a thread below the timer thread, or the callback.
MayCall == stat = "suspend" \/ Busy

-----------------------------------------------------------------------------
(* What threads and callbacks do with soft timers.                         *)

\* A timer is started, and the timer thread resumed or not (rt_thread_resume).
Starting(t, resume) ==
    /\ LET when == Plus(tick, delay[t])
       IN  /\ softList' = Queued(softList, t, when)
           /\ stat' = IF resume THEN "ready" ELSE stat
           /\ timerList' = IF resume THEN Without(timerList, Own) ELSE timerList
           /\ active' = [active EXCEPT ![t] = TRUE, ![Own] = @ /\ ~ resume]
           /\ due' = [due EXCEPT ![t] = when, ![Own] = IF resume THEN 0 ELSE @]
    /\ held' = (held /\ firing # t)
    /\ UNCHANGED <<tick, settings, pc, seen, firing, stall>>

Waits == stat = "suspend" /\ ~ Busy

StartSilent(t)    == MayCall /\ Starting(t, FALSE)              \* mutant of Start
StartWakesBusy(t) == MayCall /\ Starting(t, stat = "suspend")   \* mutant of Start
StartAnyTime(t)   == pc # "locked" /\ Starting(t, Waits)        \* mutant of Start

\* rt_timer_start; it resumes the timer thread, which stops its own timer.
Start(t) == MayCall /\ Starting(t, Waits)

\* rt_timer_stop.  The flag is read before interrupts are disabled; a timer
\* that fires between the two leaves nothing for the rest to undo.
Stop(t) ==
    /\ MayCall /\ active[t]
    /\ softList' = Without(softList, t)
    /\ held' = (held /\ firing # t)
    /\ active' = [active EXCEPT ![t] = FALSE] /\ due' = Cleared(due, t)
    /\ UNCHANGED <<tick, timerList, settings, firing, thread>>

\* rt_timer_control with RT_TIMER_CTRL_SET_TIME, _SET_ONESHOT and _SET_PERIODIC.
Control(t) ==
    /\ MayCall
    /\ \/ \E d \in DelaysOf[t] : delay' = [delay EXCEPT ![t] = d] /\ UNCHANGED periodic
       \/ \E p \in BOOLEAN : periodic' = [periodic EXCEPT ![t] = p] /\ UNCHANGED delay
    /\ UNCHANGED <<tick, timerList, softList, due, active, callback, thread>>

-----------------------------------------------------------------------------
(* Threads that sleep.                                                     *)

\* rt_thread_sleep, its timer part: the timer of a thread is set and started.
SleepFor(h, d) ==
    /\ due' = [due EXCEPT ![h] = Plus(tick, d)]
    /\ timerList' = Queued(timerList, h, due'[h])
    /\ active' = [active EXCEPT ![h] = TRUE]

\* Another thread sleeps, or is resumed before its time.
OtherSleeps(h) ==
    /\ stat = "suspend" /\ h \notin ToSet(timerList)
    /\ \E d \in DelaysOf[h] : SleepFor(h, d)
    /\ UNCHANGED <<tick, softList, settings, callback, thread>>
OtherWoken(h) ==
    /\ MayCall /\ h \in ToSet(timerList)
    /\ timerList' = Without(timerList, h)
    /\ active' = [active EXCEPT ![h] = FALSE] /\ due' = Cleared(due, h)
    /\ UNCHANGED <<tick, softList, settings, callback, thread>>

-----------------------------------------------------------------------------
(* The timer thread, _timer_thread_entry and rt_soft_timer_check.          *)

Runs(at) == stat = "ready" /\ pc \in at

\* _timer_list_next_timeout.
Look ==
    /\ Runs({"look"})
    /\ IF softList = <<>> THEN pc' = "stop" /\ UNCHANGED seen
       ELSE pc' = "measure" /\ seen' = due[Head(softList)]
    /\ UNCHANGED <<tick, timerList, softList, settings, due, active, stat, stall, callback>>

\* No soft timer: rt_thread_suspend of itself.
SuspendSelf ==
    /\ Runs({"stop"}) /\ pc' = "check"
    /\ stat' = "suspend" /\ stall' = 0
    /\ timerList' = Without(timerList, Own)
    /\ active' = [active EXCEPT ![Own] = FALSE] /\ due' = Cleared(due, Own)
    /\ UNCHANGED <<tick, softList, settings, seen, callback>>

Measure ==
    /\ Runs({"measure"})
    /\ IF Minus(seen, tick) < Half
       THEN pc' = "sleep" /\ seen' = Minus(seen, tick)
       ELSE pc' = "check" /\ seen' = 0
    /\ UNCHANGED <<tick, timerList, softList, settings, due, active, stat, stall, callback>>

Sleep ==
    /\ Runs({"sleep"}) /\ pc' = "check"
    /\ stat' = "suspend" /\ stall' = 0
    /\ SleepFor(Own, seen) /\ seen' = 0
    /\ UNCHANGED <<tick, softList, settings, callback>>

\* One turn of the loop of rt_soft_timer_check, from "locked" with interrupts
\* still disabled: the first timer is due, or the thread looks again.
Fire ==
    /\ Runs({"check", "locked"})
    /\ softList # <<>> /\ IsDue(Head(softList), tick)
    /\ LET t == Head(softList)
       IN  /\ firing' = t
           /\ active' = [active EXCEPT ![t] = periodic[t]] /\ due' = Cleared(due, t)
    /\ softList' = Tail(softList) /\ held' = TRUE /\ pc' = "callback"
    /\ UNCHANGED <<tick, timerList, settings, stat, stall, seen>>
Leave ==
    /\ Runs({"check", "locked"}) /\ pc' = "look"
    /\ softList # <<>> => ~ IsDue(Head(softList), tick)
    /\ UNCHANGED <<tick, timerList, softList, settings, due, active, stat, stall, seen, callback>>

\* The callback sleeps, or waits for something with a time limit.
CallbackNaps ==
    /\ Runs({"callback"}) /\ pc' = "napped" /\ stat' = "suspend"
    /\ \E d \in DelaysOf[Own] : SleepFor(Own, d)
    /\ UNCHANGED <<tick, softList, settings, seen, stall, callback>>

\* The callback returns: the timer is started again if it is periodic and was
\* not stopped or started meanwhile.
CallbackReturns ==
    /\ Runs({"callback", "napped"}) /\ pc' = "locked"
    /\ firing' = Nobody /\ held' = FALSE
    /\ IF held /\ periodic[firing] /\ active[firing]
       THEN /\ due' = [due EXCEPT ![firing] = Plus(tick, delay[firing])]
            /\ softList' = Queued(softList, firing, due'[firing])
       ELSE UNCHANGED <<due, softList>>
    /\ UNCHANGED <<tick, timerList, settings, active, stat, stall, seen>>

-----------------------------------------------------------------------------
(* The tick interrupt.                                                     *)

RipeOne(now) ==                                 \* mutant of Ripe
    IF timerList # <<>> /\ IsDue(Head(timerList), now) THEN <<Head(timerList)>> ELSE <<>>

\* The timers that rt_timer_check takes from the front of the list.
Ripe(now) ==
    LET n == Cardinality({i \in DOMAIN timerList :
                              \A j \in 1 .. i : IsDue(timerList[j], now)})
    IN  SubSeq(timerList, 1, n)

\* rt_tick_increase and rt_timer_check; _thread_timeout wakes each thread.
Tick ==
    /\ pc # "locked"
    /\ stat = "ready" => stall < MaxStall
    /\ tick' = Plus(tick, 1)
    /\ LET ripe == Ripe(tick')
       IN  /\ timerList' = SubSeq(timerList, Len(ripe) + 1, Len(timerList))
           /\ active' = [t \in Timers |-> active[t] /\ t \notin ToSet(ripe)]
           /\ due' = [t \in Timers |-> IF t \in ToSet(ripe) THEN 0 ELSE due[t]]
           /\ stat' = IF Own \in ToSet(ripe) THEN "ready" ELSE stat
    /\ stall' = IF stat = "ready" THEN stall + 1 ELSE stall
    /\ UNCHANGED <<softList, settings, pc, seen, callback>>

-----------------------------------------------------------------------------

TimerThread ==
    \/ Look \/ SuspendSelf \/ Measure \/ Sleep
    \/ Fire \/ Leave \/ CallbackReturns

Next ==
    \/ TimerThread \/ CallbackNaps \/ Tick
    \/ \E t \in SoftTimers : Start(t) \/ Stop(t) \/ Control(t)
    \/ \E h \in ThreadTimers : OtherSleeps(h) \/ OtherWoken(h)

Spec == Init /\ [][Next]_vars

\* Time passes however busy the threads are; the timer thread, of the highest
\* priority, runs when it is ready, and a callback comes to its end.
FairSpec == Spec /\ SF_vars(Tick) /\ WF_vars(TimerThread)

-----------------------------------------------------------------------------
(* Properties.                                                             *)

\* The type of the state.
TypeOK ==
    /\ tick \in 0 .. TickRange - 1 /\ seen \in 0 .. TickRange - 1
    /\ timerList \in Seq(HardTimers) /\ softList \in Seq(SoftTimers)
    /\ due \in [Timers -> 0 .. TickRange - 1]
    /\ delay \in Settings /\ periodic \in [SoftTimers -> BOOLEAN]
    /\ active \in [Timers -> BOOLEAN]
    /\ stat \in {"ready", "suspend"} /\ stall \in 0 .. MaxStall
    /\ pc \in {"look", "stop", "measure", "sleep", "check", "locked", "callback", "napped"}
    /\ firing \in SoftTimers \cup {Nobody} /\ held \in BOOLEAN

\* The ticks that timer t still has to wait, below zero when it is late, as
\* long as it is not late by half the range.
Left(t) ==
    LET ahead == Minus(due[t], tick)
    IN  IF ahead <= Half THEN ahead ELSE ahead - TickRange

\* However the ticks wrap and the lists change while a callback runs, a soft
\* timer goes off when its time has come, not before one that is due earlier,
\* and not again before it was started again (timer.c, rt_soft_timer_check and
\* the search of rt_timer_start).
SoftAlarm == INSTANCE Alarm WITH
    Alarms <- SoftTimers, Delays <- 1 .. Half - 1, Off <- Nobody,
    left <- [t \in SoftTimers |-> IF t \in ToSet(softList) THEN Left(t) ELSE Nobody]
IsAlarm == SoftAlarm!Spec

\* The timer thread never sleeps past the first soft timer, whoever started or
\* stopped timers since it looked: its own timer runs out when that one is due,
\* but for the ticks that passed while it went to sleep (timer.c:789-806 with
\* the resume in rt_timer_start).
SleepsNoLonger ==
    stat = "suspend" /\ ~ Busy /\ softList # <<>> =>
        /\ Own \in ToSet(timerList)
        /\ LET first == Left(Head(softList))
           IN  Left(Own) <= MaxStall + IF first > 0 THEN first ELSE 0

\* A thread wakes at its tick: when the tick interrupt is over nothing on its
\* list is due, but a sleep of no ticks that the timer thread has just begun
\* (rt_timer_check stops at the first timer that is not due).  The timer of the
\* timer thread runs only while the thread is suspended, which _thread_timeout
\* asserts (thread.c:136).
WakesAtItsTick ==
    /\ \A h \in ToSet(timerList) : Left(h) > 0 \/ (h = Own /\ Left(h) = 0)
    /\ Own \in ToSet(timerList) => stat = "suspend"

\* Starting a timer wakes a timer thread that waits for timers, not one whose
\* callback sleeps: that sleep lasts its time (the test of _soft_timer_status).
CallbackSleepsItsTime ==
    [][stat = "suspend" /\ Busy /\ stat' = "ready" => tick' = due[Own]]_vars

\* Every soft timer that is due goes off, unless it is stopped or started
\* again first: no start is missed by a timer thread on its way to sleep.
DueTimerFires ==
    \A t \in SoftTimers :
        LET isLate == t \in ToSet(softList) /\ Left(t) <= 0
        IN  isLate ~> ~ isLate
=============================================================================
