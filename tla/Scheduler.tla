------------------------------ MODULE Scheduler ------------------------------
(***************************************************************************)
(* The scheduler and the threads of the kernel (rt-thread/src/scheduler.c, *)
(* thread.c, the tick of clock.c, the defunct list of idle.c) on one CPU,  *)
(* with the context switch of libcpu/arm/cortex-m7.                        *)
(*                                                                         *)
(* A step is one stretch with interrupts disabled.  k is the kernel's      *)
(* data, changed by operators named after the functions, so that an action *)
(* reads like the calls it makes; pc is what each thread still owes to the *)
(* call it is in; isr is the stack of interrupt handlers, the last one     *)
(* running.  A switch only marks the two threads and pends PendSV, which   *)
(* comes once no handler is left: until then cpu, whose registers the CPU  *)
(* holds, is not the kernel's current thread.                              *)
(***************************************************************************)
EXTENDS Integers, SequencesExt

CONSTANTS
    Threads, Idle, First,   \* First: the one that the scheduler starts with
    Prio, Slice,            \* priority and init_tick each is created with
    Levels,                 \* the priorities, 0 .. RT_THREAD_PRIORITY_MAX - 1
    NestMax, LockMax,       \* bounds on nested interrupts and on nested locks
    DeleteTimed,            \* whether a thread whose timer runs may be deleted
    Nobody

ASSUME SchedulerAssumption ==
    /\ {Idle, First} \subseteq Threads /\ Idle # First /\ Nobody \notin Threads
    /\ Levels \subseteq Nat
    /\ Prio \in [Threads -> Levels] /\ Slice \in [Threads -> Nat \ {0}]
    /\ \A t \in Threads \ {Idle} : Prio[t] < Prio[Idle]
    /\ {NestMax, LockMax} \subseteq Nat \ {0} /\ DeleteTimed \in BOOLEAN

VARIABLES
    k,          \* the data of the kernel
    pc,         \* of each thread
    isr,        \* the handlers that run, innermost last
    cpu,        \* the thread whose context is in the registers
    outdated    \* history: a priority was changed and rt_schedule has not run since

vars == <<k, pc, isr, cpu, outdated>>

At(where)        == [at |-> where, of |-> Nobody]
Deletes(u)       == [at |-> "delete", of |-> u]
Cleans(u)        == [at |-> "clean", of |-> u]

-----------------------------------------------------------------------------
(* The lists.                                                              *)

\* rt_list_remove(&thread->tlist), from whichever list that is on, if any.
Without(list, t) ==
    IF t \in ToSet(list) THEN RemoveAt(list, CHOOSE i \in DOMAIN list : list[i] = t) ELSE list
Unlinked(q, t) ==
    [q EXCEPT !.ready = [p \in Levels |-> Without(@[p], t)],
              !.waits = @ \ {t},
              !.defunct = Without(@, t)]

\* rt_schedule_insert_thread.
Inserted(q, t) ==
    IF t = q.current
    THEN [q EXCEPT !.stat[t] = "RUNNING"]
    ELSE [q EXCEPT !.stat[t] = "READY",
                   !.ready[q.prio[t]] = Append(@, t),
                   !.group = @ \cup {q.prio[t]}]

\* rt_schedule_remove_thread.
RemovedKeepsBit(q, t) == Unlinked(q, t)                     \* mutant of Removed
RemovedIfReady(q, t) ==                                     \* mutant of Removed
    LET r == Unlinked(q, t) IN
    [r EXCEPT !.waits = q.waits,
              !.group = IF r.ready[q.prio[t]] = <<>> THEN @ \ {q.prio[t]} ELSE @]
Removed(q, t) ==
    LET r == Unlinked(q, t) IN
    [r EXCEPT !.group = IF r.ready[q.prio[t]] = <<>> THEN @ \ {q.prio[t]} ELSE @]

\* rt_thread_suspend of the thread itself, which runs.
Suspended(q, t) ==
    [Removed(q, t) EXCEPT !.stat[t] = "SUSPEND", !.timers = @ \ {t}]

\* rt_thread_resume, of a thread that is suspended.
Resumed(q, t) == Inserted([Unlinked(q, t) EXCEPT !.timers = @ \ {t}], t)

\* rt_hw_context_switch and rt_hw_context_switch_interrupt.
SwitchedAgain(q, a, b) ==                                   \* mutant of Switched
    [q EXCEPT !.switch = [pending |-> TRUE, from |-> a, to |-> b]]
Switched(q, a, b) ==
    [q EXCEPT !.switch = [pending |-> TRUE, from |-> IF @.pending THEN @.from ELSE a, to |-> b]]

\* rt_schedule, from the choice of the thread on.  The old thread is put behind
\* those of its priority, whether it has yielded or is preempted.
Highest(q) == CHOOSE p \in q.group : \A o \in q.group : p <= o
Stays(q) ==
    /\ q.stat[q.current] = "RUNNING"
    /\ \/ q.prio[q.current] < Highest(q)
       \/ q.prio[q.current] = Highest(q) /\ q.current \notin q.yields
Running(q, t) == [Removed(q, t) EXCEPT !.stat[t] = "RUNNING"]
Chosen(q) ==
    LET old  == q.current
        new  == IF Stays(q) THEN old ELSE Head(q.ready[Highest(q)])
        runs == q.stat[old] = "RUNNING"
        r    == [q EXCEPT !.yields = IF runs THEN @ \ {old} ELSE @, !.current = new]
    IN  IF new = old
        THEN Running(r, old)
        ELSE Switched(Running(IF runs THEN Inserted(r, old) ELSE r, new), old, new)

Schedule(q) == IF q.lock = 0 /\ q.group # {} THEN Chosen(q) ELSE q

\* A step that ends with rt_schedule.
Schedules(q) ==
    /\ k' = Schedule(q)
    /\ outdated' = (outdated /\ q.lock # 0)

-----------------------------------------------------------------------------
(* The start: rt_thread_idle_init, rt_system_scheduler_start, with the     *)
(* other threads initialised.  The first PendSV has nothing to save.       *)

Init ==
    /\ k = [stat    |-> [t \in Threads |-> CASE t = First -> "RUNNING"
                                             [] t = Idle  -> "READY"
                                             [] OTHER     -> "INIT"],
            yields  |-> {},
            prio    |-> Prio,
            slice   |-> Slice,
            ready   |-> [p \in Levels |-> IF p = Prio[Idle] THEN <<Idle>> ELSE <<>>],
            group   |-> {Prio[Idle]},
            waits   |-> {},
            defunct |-> <<>>,
            timers  |-> {},
            lock    |-> 0,
            current |-> First,
            switch  |-> [pending |-> TRUE, from |-> Nobody, to |-> First]]
    /\ pc = [t \in Threads |-> At("run")]
    /\ isr = <<>>
    /\ cpu = Nobody
    /\ outdated = FALSE

-----------------------------------------------------------------------------
(* What a thread does: its code runs when no handler does and no switch is *)
(* pending.                                                                *)

OnCpu(t) == cpu = t /\ isr = <<>> /\ ~k.switch.pending
Runs(t)  == OnCpu(t) /\ pc[t] = At("run")      \* between two calls
Then(t, next) == pc' = [pc EXCEPT ![t] = next]

\* The rt_schedule at the end of a call, with interrupts enabled before it.
CallSchedules(t) ==
    /\ OnCpu(t) /\ pc[t] = At("schedule")
    /\ Schedules(k)
    /\ Then(t, At("run"))
    /\ UNCHANGED <<isr, cpu>>

Victims == {pc[t].of : t \in {u \in Threads : pc[u].at = "delete"}}
\* A thread may be given to a call, unless somebody is in the middle of deleting it.
Usable(u) == u # Idle /\ k.stat[u] \notin {"CLOSE", "FREE"} /\ u \notin Victims

\* rt_thread_startup.
Startup(t, u) ==
    /\ Runs(t)
    /\ Usable(u) /\ k.stat[u] = "INIT"
    /\ k' = Resumed([k EXCEPT !.stat[u] = "SUSPEND", !.yields = @ \ {u}], u)
    /\ Then(t, At("schedule"))
    /\ UNCHANGED <<isr, cpu, outdated>>

\* rt_thread_sleep, and every call that waits on an object: on a wait list or
\* not, with the thread timer or without.  Not with the scheduler locked, which
\* such calls forbid.
Suspends(t, listed, timed) ==
    /\ Runs(t)
    /\ k.lock = 0
    /\ listed \/ timed
    /\ k' = [Suspended(k, t) EXCEPT !.waits = IF listed THEN @ \cup {t} ELSE @,
                                    !.timers = IF timed THEN @ \cup {t} ELSE @]
    /\ Then(t, At("schedule"))
    /\ UNCHANGED <<isr, cpu, outdated>>

\* A call that ends the wait of another thread, as _ipc_list_resume does.
Wakes(t, u) ==
    /\ Runs(t)
    /\ u \in k.waits
    /\ k' = Resumed(k, u)
    /\ Then(t, At("schedule"))
    /\ UNCHANGED <<isr, cpu, outdated>>

\* rt_thread_yield: interrupts are disabled around rt_schedule.
Yields(t) ==
    /\ Runs(t)
    /\ Schedules([k EXCEPT !.slice[t] = Slice[t], !.yields = @ \cup {t}])
    /\ UNCHANGED <<pc, isr, cpu>>

\* rt_enter_critical, rt_exit_critical.
EntersCritical(t) ==
    /\ Runs(t)
    /\ k.lock < LockMax
    /\ k' = [k EXCEPT !.lock = @ + 1]
    /\ UNCHANGED <<pc, isr, cpu, outdated>>

ExitsSilently(t) ==                                         \* mutant of ExitsCritical
    /\ Runs(t)
    /\ k.lock > 0
    /\ k' = [k EXCEPT !.lock = @ - 1]
    /\ UNCHANGED <<pc, isr, cpu, outdated>>
ExitsCritical(t) ==
    /\ Runs(t)
    /\ k.lock > 0
    /\ k' = [k EXCEPT !.lock = @ - 1]
    /\ IF k.lock = 1 THEN Then(t, At("schedule")) ELSE UNCHANGED pc
    /\ UNCHANGED <<isr, cpu, outdated>>

\* rt_thread_control, RT_THREAD_CTRL_CHANGE_PRIORITY: no rt_schedule follows.
ChangesInPlace(t, u, p) ==                                  \* mutant of ChangesPriority
    /\ Runs(t) /\ Usable(u)
    /\ k' = [k EXCEPT !.prio[u] = p]
    /\ outdated' = TRUE
    /\ UNCHANGED <<pc, isr, cpu>>
ChangesPriority(t, u, p) ==
    /\ Runs(t) /\ Usable(u)
    /\ k' = IF k.stat[u] = "READY"
            THEN Inserted([Removed(k, u) EXCEPT !.prio[u] = p], u)
            ELSE [k EXCEPT !.prio[u] = p]
    /\ outdated' = TRUE
    /\ UNCHANGED <<pc, isr, cpu>>

-----------------------------------------------------------------------------
(* The end of a thread.                                                    *)

\* rt_timer_detach, RT_THREAD_CLOSE, rt_thread_defunct_enqueue.
Closed(q, u) ==
    [q EXCEPT !.timers = @ \ {u}, !.stat[u] = "CLOSE", !.yields = @ \ {u},
              !.defunct = <<u>> \o @]

\* _thread_exit, which a thread returns to.
Exits(t) ==
    /\ Runs(t)
    /\ k.lock = 0
    /\ k' = Closed(Removed(k, t), t)
    /\ Then(t, At("schedule"))
    /\ UNCHANGED <<isr, cpu, outdated>>

\* rt_thread_detach and rt_thread_delete: interrupts are enabled between the
\* removal and the rest.  Deleting itself, a thread goes on to rt_schedule
\* (RT_THREAD_CTRL_CLOSE).
DeleteBegins(t, u) ==
    /\ Runs(t)
    /\ Usable(u) /\ pc[u].at # "delete"
    /\ DeleteTimed \/ u \notin k.timers
    /\ u = t => k.lock = 0
    /\ k' = IF k.stat[u] = "INIT" THEN k ELSE Removed(k, u)
    /\ Then(t, Deletes(u))
    /\ UNCHANGED <<isr, cpu, outdated>>
DeleteEnds(t) ==
    LET u == pc[t].of IN
    /\ OnCpu(t) /\ pc[t].at = "delete"
    /\ k' = Closed(k, u)
    /\ Then(t, IF u = t THEN At("schedule") ELSE At("run"))
    /\ UNCHANGED <<isr, cpu, outdated>>

\* rt_thread_defunct_dequeue by the idle thread, which looks before it disables
\* interrupts, and the release of the object.
IdleLooks ==
    /\ Runs(Idle)
    /\ k.defunct # <<>>
    /\ Then(Idle, Cleans(Head(k.defunct)))
    /\ UNCHANGED <<k, isr, cpu, outdated>>
IdleFrees ==
    LET u == pc[Idle].of IN
    /\ OnCpu(Idle) /\ pc[Idle].at = "clean"
    /\ k' = [Unlinked(k, u) EXCEPT !.stat[u] = "FREE"]
    /\ Then(Idle, At("run"))
    /\ UNCHANGED <<isr, cpu, outdated>>

\* rt_thread_init, on an object that is free again.
Creates(t, u) ==
    /\ Runs(t)
    /\ k.stat[u] = "FREE"
    /\ k' = [k EXCEPT !.stat[u] = "INIT", !.prio[u] = Prio[u], !.slice[u] = Slice[u]]
    /\ Then(u, At("run"))
    /\ UNCHANGED <<isr, cpu, outdated>>

-----------------------------------------------------------------------------
(* Interrupts.                                                             *)

Top == Last(isr)
Becomes(stage) == isr' = [isr EXCEPT ![Len(isr)] = stage]
InTick == \E i \in DOMAIN isr : isr[i] # "woke"

\* rt_tick_increase, to the end of its first stretch.
TickForgetsYield ==                                         \* mutant of TickBegins
    LET t == k.current IN
    /\ Len(isr) < NestMax /\ ~InTick
    /\ k' = [k EXCEPT !.slice[t] = IF @ = 1 THEN Slice[t] ELSE @ - 1]
    /\ isr' = Append(isr, IF k.slice[t] = 1 THEN "expired" ELSE "check")
    /\ UNCHANGED <<pc, cpu, outdated>>
TickBegins ==
    LET t == k.current IN
    /\ Len(isr) < NestMax /\ ~InTick
    /\ IF k.slice[t] = 1
       THEN /\ k' = [k EXCEPT !.slice[t] = Slice[t], !.yields = @ \cup {t}]
            /\ isr' = Append(isr, "expired")
       ELSE /\ k' = [k EXCEPT !.slice[t] = @ - 1]
            /\ isr' = Append(isr, "check")
    /\ UNCHANGED <<pc, cpu, outdated>>

TickSchedules ==
    /\ isr # <<>> /\ Top = "expired"
    /\ Schedules(k)
    /\ Becomes("check")
    /\ UNCHANGED <<pc, cpu>>

\* rt_timer_check with _thread_timeout: from the first timer that is due to the
\* last, interrupts stay disabled.
TimerFires(t) ==
    /\ isr # <<>> /\ Top \in {"check", "timers"}
    /\ t \in k.timers
    /\ Schedules(Inserted([Unlinked(k, t) EXCEPT !.timers = @ \ {t}], t))
    /\ Becomes("timers")
    /\ UNCHANGED <<pc, cpu>>

TickEnds ==
    /\ isr # <<>> /\ Top \in {"check", "timers"}
    /\ isr' = Front(isr)
    /\ UNCHANGED <<k, pc, cpu, outdated>>

\* A handler that ends the wait of a thread, and its rt_schedule.
HandlerWakes(u) ==
    /\ Len(isr) < NestMax /\ ToSet(isr) \cap {"woke", "timers"} = {}
    /\ u \in k.waits
    /\ k' = Resumed(k, u)
    /\ isr' = Append(isr, "woke")
    /\ UNCHANGED <<pc, cpu, outdated>>
HandlerEnds ==
    /\ isr # <<>> /\ Top = "woke"
    /\ Schedules(k)
    /\ isr' = Front(isr)
    /\ UNCHANGED <<pc, cpu>>

\* PendSV_Handler, the lowest of the interrupts.
PendSV ==
    /\ isr = <<>> /\ k.switch.pending
    /\ k' = [k EXCEPT !.switch.pending = FALSE]
    /\ cpu' = k.switch.to
    /\ UNCHANGED <<pc, isr, outdated>>

-----------------------------------------------------------------------------
\* The idle thread makes none of these calls.
Calls(t) ==
    \/ Yields(t) \/ EntersCritical(t) \/ ExitsCritical(t)
    \/ Exits(t)
    \/ \E listed, timed \in BOOLEAN : Suspends(t, listed, timed)
    \/ \E u \in Threads :
          \/ Startup(t, u) \/ Wakes(t, u) \/ Creates(t, u) \/ DeleteBegins(t, u)
          \/ \E p \in Levels \ {Prio[Idle]} : ChangesPriority(t, u, p)

\* The second half of a call.
Continues == (\E t \in Threads : CallSchedules(t) \/ DeleteEnds(t)) \/ IdleFrees

Next ==
    \/ \E t \in Threads \ {Idle} : Calls(t) \/ TimerFires(t) \/ HandlerWakes(t)
    \/ IdleLooks \/ Continues
    \/ TickBegins \/ TickSchedules \/ TickEnds \/ HandlerEnds \/ PendSV

Spec == Init /\ [][Next]_vars

\* The clock ticks; its interrupts leave time for the other handlers, and these for
\* the threads, which finish their calls and unlock the scheduler they have locked.
FairSpec ==
    /\ Spec
    /\ WF_vars(TickBegins) /\ WF_vars(TickSchedules) /\ WF_vars(TickEnds)
    /\ SF_vars(HandlerEnds)
    /\ SF_vars(Continues) /\ SF_vars(\E t \in Threads : ExitsCritical(t))

-----------------------------------------------------------------------------
(* What must hold.                                                         *)

Stats == {"INIT", "READY", "RUNNING", "SUSPEND", "CLOSE", "FREE"}

\* The type of the state.
TypeOK ==
    /\ k.stat \in [Threads -> Stats]
    /\ k.prio \in [Threads -> Levels]
    /\ \A t \in Threads : k.slice[t] \in 1 .. Slice[t]
    /\ k.ready \in [Levels -> Seq(Threads)]
    /\ k.group \subseteq Levels
    /\ k.defunct \in Seq(Threads)
    /\ k.yields \subseteq Threads /\ k.waits \subseteq Threads /\ k.timers \subseteq Threads
    /\ k.lock \in 0 .. LockMax
    /\ k.current \in Threads
    /\ k.switch \in [pending : BOOLEAN, from : Threads \cup {Nobody}, to : Threads]
    /\ pc \in [Threads -> [at : {"run", "schedule", "delete", "clean"},
                           of : Threads \cup {Nobody}]]
    /\ isr \in Seq({"expired", "check", "timers", "woke"})
    /\ cpu \in Threads \cup {Nobody}
    /\ outdated \in BOOLEAN

IsReady(t) == k.stat[t] = "READY" /\ t \notin Victims

\* A thread is where its state says: a ready one once on the list of its
\* priority, every other on no ready list, and the bits of the group say which
\* lists are not empty; who is on a wait list or has a timer is suspended, which
\* _thread_timeout asserts of every timer that fires.  This survives whatever
\* was moved, raised, preempted or deleted, one inside another; only a thread
\* that is being deleted is already off its list.
ListsAgree ==
    /\ \A p \in Levels :
          /\ IsInjective(k.ready[p])
          /\ p \in k.group <=> k.ready[p] # <<>>
          /\ \A t \in ToSet(k.ready[p]) : k.stat[t] = "READY" /\ k.prio[t] = p
    /\ \A t \in Threads : IsReady(t) => t \in ToSet(k.ready[k.prio[t]])
    /\ \A t \in k.timers \cup k.waits : k.stat[t] = "SUSPEND"

\* With the scheduler unlocked and no rt_schedule owed, the current thread is
\* running and nobody ready is above it: no wake-up, timeout, start or unlock,
\* nor any of them inside another or during a pending switch, leaves a more
\* urgent thread behind.  The exception is a changed priority, after which the
\* code calls no rt_schedule.
Owed == \/ ~k.switch.pending /\ cpu # Nobody /\ pc[cpu] = At("schedule")
        \/ \E i \in DOMAIN isr : isr[i] \in {"expired", "woke"}
HighestRuns ==
    k.lock = 0 /\ ~outdated /\ ~Owed =>
        /\ k.stat[k.current] = "RUNNING"
        /\ \A t \in Threads : IsReady(t) => k.prio[k.current] <= k.prio[t]

\* When PendSV comes it saves the registers for the thread they belong to, and
\* loads those of the current thread, after however many switches since.
ContextsKept ==
    IF k.switch.pending
    THEN k.switch.from = cpu /\ k.switch.to = k.current
    ELSE cpu = k.current

\* The defunct list has each closed thread once; what the idle thread has freed
\* is on no list, has no timer, and is neither the current thread nor part of a
\* switch, so that its stack is not used any more.
FreedIsGone ==
    /\ IsInjective(k.defunct)
    /\ ToSet(k.defunct) = {t \in Threads : k.stat[t] = "CLOSE"}
    /\ \A t \in Threads : k.stat[t] = "FREE" =>
          /\ t \notin k.waits \cup k.timers \cup {k.current, cpu}
          /\ k.switch.pending => t \notin {k.switch.from, k.switch.to}

\* Equal threads take turns: one that is ready while nobody is above it runs,
\* unless somebody above it becomes ready first.
Urgent(t) == \A u \in Threads : IsReady(u) \/ u = k.current => k.prio[t] <= k.prio[u]
TurnComes == \A t \in Threads : IsReady(t) /\ Urgent(t) ~> ~IsReady(t) \/ ~Urgent(t)
=============================================================================
