# A verification project for the component cabinet

The repository is the firmware of a motorised cabinet for electronic components:
an STM32H750 board running RT-Thread with an LVGL touch screen.  A person picks a
component on the screen; a carousel turns to the component's slot, a door opens on
the slot's layer, and the person takes or stores parts and clicks *Finish*.

This directory holds TLA+ models of the parts of that firmware whose behaviour
comes from several threads, TLC configurations that check them on small instances,
and proofs for TLAPS.  `PROJECT.json` maps every definition that models code to the
lines it stands for, and lists the runs, the mutants, the findings, the hazards and
the theorems.

1. [The system](#1-the-system)
2. [The modules, and the plan](#2-the-modules-and-the-plan)
3. [Cabinet](#3-cabinet-the-application)
4. [Inventory](#4-inventory-the-component-database-and-its-screens)
5. [MsgQueue](#5-msgqueue-the-kernels-message-queue)
6. [IpcObjects](#6-ipcobjects-semaphores-events-mailboxes-mutexes)
7. [SoftTimer](#7-softtimer-the-timers)
8. [Scheduler](#8-scheduler-threads-interrupts-and-the-switch)
9. [Memheap](#9-memheap-the-heap)
10. [What is proved](#10-what-is-proved)
11. [What the runs found](#11-what-the-runs-found)
12. [What is not modelled](#12-what-is-not-modelled)

To run: `tlc -workers 2 -config CabinetHasty.cfg MCCabinet`, and likewise for the
other configurations: `Cabinet*.cfg` with `MCCabinet`, `Inventory*.cfg` with
`MCInventory`, and each other `X.cfg` with `MCX`.  The longest, `IpcObjects.cfg` and
`SoftTimer.cfg`, take under two minutes.  `tlapm MsgQueueProofs.tla` checks a module
of proofs.

## 1. The system

| Component | Source | State | Operations | What makes it correct |
|---|---|---|---|---|
| main thread | `applications/main.c` | progress of the start-up | create the event, open the database, start the threads, look for zero | nothing is used before it exists |
| screen callbacks | `applications/Gui/ui_events.c`, `ui.c` | the rows or form on the screen, the modal box | add, find, fetch, finish, touch | one box per request; one Finish per door; rows agree with the store |
| component database | `applications/DataBase/database.c` | FlashDB key-values, key = slot number | add in the first free slot, find, update, delete | slots are unique; what is stored is found; the store counts the parts |
| motor thread | `applications/motor/encoder_motor.c` | position, settle counter, PID terms | receive a position, PID loop, raise POSITION_OK, wait for PICK_FINNISH | never moves while a door is open |
| servo thread | `applications/servo/servo.c` | the layer, the three doors | receive a layer, wait for POSITION_OK, open, wait for PICK_FINNISH, close | opens the door of the request the carousel stands at |
| buzzer thread | `applications/buzzer/buzzer.c` | the pin | beep on TOUCH_SCREEN | consumes nobody else's bits |
| UART link | `applications/comm/uart_comm.c`, `esp32s3_comm.ino` | receive buffer and index | parse frames byte by byte, run commands, reply | both ends agree on the frame |
| message queue | `rt-thread/src/ipc.c` (`rt_mq_*`) | free list, linked list, entry, two wait lists | send, urgent, send_wait, recv, control | a bounded FIFO; no lost slot, message or wake-up |
| event flags | `ipc.c` (`rt_event_*`) | the bit set, one wait list | send, recv | bits reach the waiters in priority order |
| mutex | `ipc.c` (`rt_mutex_*`) | owner, hold count, original priority | take, release | mutual exclusion; the owner is as urgent as its waiters |
| semaphore, mailbox | `ipc.c` (`rt_sem_*`, `rt_mb_*`) | a value or a ring, wait lists | take, release, send, urgent, recv, control | the count is conserved; no lost wake-up |
| scheduler, threads | `scheduler.c`, `thread.c`, `clock.c`, `idle.c`, `libcpu/arm/cortex-m7` | ready bitmap and lists, status words, time slices, the pending switch, the defunct list | start, resume, suspend, yield, schedule, lock, change priority, exit, delete, tick | the highest ready priority runs; registers are saved where they belong; freed threads are gone |
| timers | `timer.c` | two sorted lists, the soft timer thread's state | start, stop, control, check | a started timer fires once, not early |
| heap | `memheap.c`, `kservice.c` (`rt_malloc`) | the chain of blocks, the free list, the count | allocate, resize, free | blocks tile the pool; pointers do not overlap |
| objects, devices | `object.c`, `device.c`, ... | object lists | register | not on the plan |
| flash, drivers, LVGL, cJSON | `packages/`, `libraries/`, `board/` | | | vendored or registers; used as given |

**How they interact.**  The screen callbacks run on the LVGL thread (priority 20),
which starts before `main` (priority 6).  They send a slot's position to `motor_mq`
and its layer to `servo_mq` with `rt_mq_send`, which never waits, and they raise bits
in the one event `global_event`.  The motor thread (10) and the servo thread (11) meet
through `POSITION_OK` and both wait for `PICK_FINNISH`, the servo with
`RT_EVENT_FLAG_CLEAR` and the motor without.  The buzzer (20) waits for
`TOUCH_SCREEN`.  All of this rests on `ipc.c`, whose objects are touched by threads,
by interrupt handlers and by the timers of the threads that wait.

**Which behaviours are hard.**  A request is two messages in two queues and several
bits in one word, handled by three threads of three priorities, with no identity that
ties the parts together: what holds, holds because of the order in which the threads
run.  Bits do not count: two raises of a bit are one.  Inside the kernel a call that
waits is cut into stretches with interrupts disabled; between two of them any other
call, a reset or a timeout happens.  An amount of parts lives three times: in the store,
as text on a row of the screen, and in the slot.  The hazards, line by line, are in
`PROJECT.json`; each names the properties that watch it, or says why none does yet.

## 2. The modules, and the plan

| Module | What | Runs | Proofs |
|---|---|---|---|
| `Cabinet` (`CabinetInv`) | the application's threads, queues, event and start-up | `cabinet_patient`, `cabinet_hasty`, and the documents' claims | `CabinetProofs` |
| `Inventory` | the database's rows and quantities, the rows on the screen, failed writes, restarts | `inventory_rows`, and the document's claim | `InventoryProofs` |
| `MsgQueue` (implements `Channel`) | `rt_mq_*` on the pointers of the pool | `mq_queue` | `MsgQueueProofs` |
| `Waiting`, `Semaphore`, `Event`, `Mailbox` (implements `Channel`), `Mutex`, composed in `IpcObjects` | the other objects of `ipc.c` | `ipc_objects` | `IpcProofs` |
| `SoftTimer` (implements `Alarm`) | the timer lists, the wrapping tick, the timer thread | `soft_timer` | `SoftTimerProofs` |
| `Scheduler` | ready lists, threads, interrupts, the context switch | `scheduler` | `SchedulerProofs` |
| `Memheap` | the heap's blocks and free list | `memheap` | `MemheapProofs` |

Each module takes as given what the one below it promises: `Cabinet` uses queues and
an event as `MsgQueue` and `Event` describe them, and strict priorities as `Scheduler`
does; the objects of `ipc.c` use suspend, resume and the thread timers as `Scheduler`
and `SoftTimer` describe them.  `ListLemmas` has the facts about sequences (a tail, an
appended, a prepended, an inserted or a removed element; sorted lists), about the calls
woken from a wait list and about the least number of a set, on which several of the
proofs rest.

Every invariant and every action property of a passing run, and both refinements of
`Channel` and that of `Alarm`, are proved.  What is left, in order: closing the hazards
without a property, such as loans of priority that are not passed on
(`rt_mutex_take`) and the deletion of a thread beside its timer in the middle of a call;
then work queues and memory pools, which the kernel has and this application does not use.
The UART link waits for a version of `uart_comm.c` that can be built (section 12).

## 3. Cabinet: the application

`Cabinet.tla` is the whole cabinet; `CabinetInv.tla` its inductive invariant,
`MCCabinet.tla` its instance for TLC.

### State and actions

| Variables | In the code |
|---|---|
| `main`, `dbUp` | where `main` is; the result of `database_init` |
| `gui`, `op`, `kind`, `kv` | where the LVGL thread is in a callback, the slot and kind of the request, the keys in the store |
| `motor_mq`, `servo_mq`, `event` | the two queues and the bits of `global_event` |
| `motor`, `target`, `t`, `at`, `moving` | where the motor thread is, `moter_rev_mq`, the settle counter, the carousel, the duty |
| `servo`, `layer`, `door` | where the servo thread is, the layer it received, the open doors |
| `sleepers`, `busy` | the threads in `rt_thread_mdelay(20)` in the order they wake; see below |
| `pending`, `streak`, `confirmed` | history: requests without a door yet, samples in the band in a row, Finish clicked since the door opened |

An action is the code of one thread from one blocking call to the next.  `Start` is
`main`'s four stages; `AddComponent` and `GetComponent` begin a request,
`SendMotor` and `SendServo` are its two `rt_mq_send`, `ScreenTouch` and `Finish`
raise bits; `MotorRecv`, `PidSample` (one turn of the PID loop, ending in the band of a
slot or between slots), `MotorRecvPick` and `MotorPause` are the motor thread;
`ServoInit` to `ServoPause` the servo thread; `BuzzerRecv`, `BuzzerQuiet` the buzzer;
`WakeUp` the expiry of a delay.  `EventSend` is the loop of `rt_event_send`: waiters in
priority order, a `CLEAR` waiter taking its bits away before the next is looked at.

**Scheduling.**  The processor is one, priorities are strict, and
preemption happens at any blocking call or send: `MotorMayRun`, `ServoMayRun` and
`LowMayRun` are the guards.  The LVGL thread can therefore be cut between its two
sends.  Delays are equal (20 ticks), so they expire in the order in which they began.

**One assumption about time.**  Between two blocking calls the servo does microseconds
of work; the motor's delay is 20 ms.  `busy` says that the servo has been ready since
the motor's delay began, and then the delay does not expire.  Without it the
motor could start on the next request before the servo, which is ready, has closed the
door.  `DoorOpenIsStill` needs it, and rests on it: the code has no
handshake there.

**Users.**  A *patient* one clicks Finish after the door has opened; a *hasty* one
whenever the box is shown; neither makes a request when a queue is full.  A *frantic*
one does.  The first two are the way the doc's sequences read; the third is what
the screen allows.

### Runs

| Run | Bounds | What it shows |
|---|---|---|
| `cabinet_patient` | 3 slots on 2 layers, depth 2, settle 2, fairness | `DoorWaitsForUser`: a door stays open until a click meant for it. `OpenDoorHasButton`: a waiting door always has a box on the screen. `RequestServed`, `FinishReleasesBoth` |
| `cabinet_hasty` | 3 slots, depth 2, settle 2, overshoot, faults | `DoorOpenIsStill`, `NoPositionMerged`, `OpensForOldest` |
| `cabinet_settle`, `cabinet_boot`, `cabinet_frantic` | 2 slots | section 11 |

Two layers and two slots on a layer are enough to tell a wrong layer or position from
the right one; a depth of 2 gives two requests in flight and one in
each thread; the settle count matters only in that it is more than 1 (the first sample
after a delay must not be enough) and less than the range of the counter, and the proofs
hold for all of them.  `MaxPending` bounds the requests without a door, and is no smaller
than what the queues and the servo can hold.  The start-up faults (no motor, no servo, no
database) are in the hasty run.

**Fairness.**  Weak for each thread, because a ready thread with nothing above it
runs; strong for the LVGL thread's sends, which other threads preempt but only
in bursts between 20 ms delays; strong for `PidReaches`, i.e. the controller does find
the target again and again (the PID's arithmetic is not modelled).  Nothing is assumed
of the person.

## 4. Inventory: the component database and its screens

`Inventory.tla` is `database.c` with the callbacks of `ui_events.c` that use it.  They
run on one thread, each to its end, and while a box is shown nothing behind it can be
clicked; what is hard is not concurrency but that an amount is kept in three places.

| Variables | In the code |
|---|---|
| `kv` | FlashDB: for each slot `components_info`, the text and `uint32_t quantity` |
| `rows` | the panels on `ui_refreshPanel`, with the amount as the text shows it |
| `box` | the modal box: a notice, or *Finish* |
| `shelf`, `todo`, `wary` | history: the parts in each slot, what the person is to move, the slots where a write failed or a restart came between |

`AddButton`, `FindButton`, `Put`, `TakeAll`, `TakeSome`, `TakeTooMany` and `Finish` are
callbacks; `Restart` is a reset at any moment, after which the store is as it was and the
screen empty.  A write to the flash may fail, and the code does not look
(`Write`); an allocation may fail.  `Shown` is `%ld` of an unsigned number, `Atoi` the
parse of any text a person types, and `Plus` wraps: `Put` and `TakeSome` parse the text of
the row and write the result back.  The JSON of a component is a record; `Cut` says
whether it still fits the 127 characters that are stored.

`inventory_rows` has 2 slots, numbers of 3 bits (`Top` = 4), one value that is cut, failed writes and
restarts, and texts that read -1, 1 and 5 (beyond `atoi`'s range at this width).
Two slots let one be emptied and used again while a row is about the other; three bits
are enough for every sum to wrap and for a number to show as negative.  It
checks `RowsMatchStore`, `NoTwins` and `StoreCountsParts`.  The last is what the cabinet
is for, and it says how far a failed write or a restart reaches: to its own slot only.

## 5. MsgQueue: the kernel's message queue

`MsgQueue.tla` is `rt_mq_*` with any number of callers; `Channel.tla` is what it
promises them; `MsgQueueProofs.tla` the proofs.

The pool's slots carry `next` pointers; `head`, `tail` and `free` are the three pointers
of the queue object; `receivers` and `senders` the two wait lists; `th[t]` is a caller:
where it is, its message, its slot, its timeout (zero, some ticks, for ever) and its
`thread->error`.  `linked` and `avail` are history: what the pointers ought to spell.

| Actions | In the code |
|---|---|
| `Send`, `SendResumed` | `rt_mq_send_wait` up to the claim of a slot, the sleep, or the error; `rt_mq_send` is its timeout 0 |
| `SendLink` | the copy, then the linking at the tail, `entry++` and the wake-up of a receiver |
| `Urgent`, `UrgentLink` | `rt_mq_urgent` |
| `Recv`, `RecvResumed` | `rt_mq_recv` up to the unlinking, the sleep or the error |
| `RecvFree` | the copy out, then the return of the slot and the wake-up of a sender |
| `Reset` | `RT_IPC_CMD_RESET` of `rt_mq_control` |
| `Timeout` | `_thread_timeout`, in the timer interrupt |

An action is one stretch with interrupts disabled and the copy next to it.  Between
two any other may come, from a thread, an interrupt or the timer: more than one
processor with strict priorities allows, so that what holds here holds for any
priorities.  The reset's loop is computed by the recursive function `Emptied`; `Reset`
uses where it ends (`NextEmptied`), and `ResetIsItsLoop` says that the two agree in every
reachable state.  There are finitely many callers (`MsgQueueAssumption`), because
`NoLostWakeUp` counts those that were woken.

The run `mq_queue` has 3 callers of 2 priorities on 2 slots with `RT_IPC_FLAG_PRIO`,
every call with every kind of timeout, and fairness.  It checks `ListsSpelled` (the
pointers spell the queue and the free list), `SlotsConserved`, `NoLostWakeUp`,
`WaitersInOrder`, `ResetIsItsLoop`, `IsChannel` (the queue implements `Channel`) and
`NobodySleepsOn`.

Three callers let one barge in between the wake-up of a second and its next look at
the queue, with the third asleep beside it; two slots make full, empty and in-between
states, and a reset that reverses the free list behind the messages.
`IsChannel` maps the queue's content to `data` of the slots in `linked`, and
what a call has received to the slot it is draining or its buffer: taking happens at the
unlinking, so a slot that served again before the copy would show.

**Fairness.**  Only `Runs(t)`: a call that has been started and is ready takes its next
step.  No caller has to call again, so liveness says that sleepers are woken or
what they wait for is gone; under barging an individual waiter can starve, and no
property says otherwise.

Every property of every section has a mutant in `PROJECT.json`, a plausible bug of
the code that breaks it: slots freed before the copy, a wake-up left out, a
tail left behind, a bit cleared by the wrong thread.  Their definitions stand
beside the ones they change, marked *mutant of*.

## 6. IpcObjects: semaphores, events, mailboxes, mutexes

`Waiting.tla` is what the calls of `ipc.c` share: wait lists (`_ipc_list_suspend`,
`_ipc_list_resume`, `_ipc_list_resume_all`), the timeout, `thread->error`.  `Semaphore`,
`Event`, `Mailbox` and `Mutex` each add an object, and `IpcObjects` has one of each (two
mutexes).  No call touches two kinds of object, so the variable `object` chooses one kind at
the start and the run checks the four side by side.

| Module | State | Actions |
|---|---|---|
| `Semaphore` | `value`, the waiters; history `balance` | take, the return after the sleep, release (also by handlers), reset, timeout |
| `Event` | `set`, the waiters, `info` (`event_set`, `event_info` of each thread) | send (the recursive function `Visited` passes the waiters one by one, as the loop does), recv, its return, reset, timeout |
| `Mailbox` | `pool`, `in`, `out`, `entry`, two lists of waiters, `sending`, `mail` | send, send_wait, urgent, recv, the second look after a sleep, reset, timeout |
| `Mutex` | `owner`, `mutexValue`, `hold`, `original`, the waiters, `prio`, `taking`; history `held`, `alone`, `crossed` | take (again, free, wait, refused), its return, release (count, hand over, put back, refused), timeout |

An action is one stretch with interrupts disabled.  A thread that was woken has not run
yet: between its wake-up and its return any other call may come, a timeout or a reset
included.  `SemBalanced`, `HoldsAreTheOwners` and `MbNoLostWakeUp` count the threads that
are on their way (`AwakeOK`, `OnItsWay`) for this reason, and `WaitingAssumption` says that
there are finitely many.

The run `ipc_objects` has 3 threads: one above two of the same priority for semaphore, event
and mailbox, three different ones for the mutexes, so that a loan can be raised once more
by a third.  Two bits and five wishes cover AND, OR and CLEAR; a mailbox of 2 values is
full, empty and in between, and its ring wraps; two mutexes can be nested, crossed and
waited for in a ring, and a hold count of 2 reaches `RT_MUTEX_HOLD_MAX`.  The flag is
PRIO, of which FIFO is the case of equal priorities.

What the mutex does not promise is in the properties' preconditions.  A thread
that releases two mutexes out of order (`crossed`) may keep a loan or lose its own
priority; `LoansEnd` excepts it.  `WaiterNotOutranked` is for an owner that has held no
other mutex beside this one (`alone`), as the release of the other takes the loan back,
and for waiters that own none, as loans are not passed on.  A waiter that times out
leaves its loan with the owner until the release.  No property says that deadlock is
impossible: two threads may each wait for the other's mutex.

## 7. SoftTimer: the timers

`SoftTimer.tla` is `timer.c`: the list of the thread timers, which the tick interrupt works
off, the list of the soft timers, which the timer thread works off, and the thread itself,
which sleeps on a timer of its own until the first soft timer is due.

| Variables | In the code |
|---|---|
| `tick` | `rt_tick`, of `TickRange` values, wrapping |
| `timerList`, `softList` | the two lists (the build has one skip level) |
| `delay`, `periodic`, `due`, `active` | `init_tick`, the flags and `timeout_tick` of each timer |
| `stat`, `pc`, `seen` | the timer thread: suspended or not, where it is, `next_timeout` |
| `firing`, `held` | the timer whose callback runs, and whether it is still on the temporary list |
| `stall` | ticks that the ready timer thread has lost since it last slept |

`Start`, `Stop` and `Control` are calls by threads or by a callback; `Look`, `SuspendSelf`,
`Measure`, `Sleep`, `Fire`, `Leave`, `CallbackReturns` the stretches of
`_timer_thread_entry` and `rt_soft_timer_check`; `Tick` is `rt_tick_increase` with
`rt_timer_check`; `OtherSleeps` and `OtherWoken` stand for another thread with a timer on
the same list.  A callback may start, stop and change timers, its own included, and sleep.

`Alarm.tla` is the promise: an alarm goes off at its time or later, never before one due
earlier, then is off until it is started again.  It counts time without end; the
refinement maps `left` to the signed distance from `tick` to `due`, so that the wrap of the
tick has to come out right.

The run `soft_timer` has two soft timers (one set to two times), one other thread, 10
ticks, and callbacks that sleep a tick.  Two timers are the least for which order
matters, and the range wraps several times within a behaviour.  `MaxStall` bounds the ticks
between a look at the list and the sleep; it must stay below half the range less the
longest delay, as the code's own comparison requires: a timer late by half the range counts
as not due, and one set to nearly half the range beside a late one is sorted before it.
With ticks of 32 bits that is three weeks.

`TimelyAssumption` says how small everything has to be, for any number of timers: `nap`
bounds the sleep of a callback and `longest` the setting of a soft timer, and twice
`MaxStall`, one nap for each soft timer and `longest` fit into half the range.  One stall may
pass before the thread sleeps and one after it is woken, and then every timer in front may
have a callback that sleeps.  The code needs it for the meaning of
its comparisons, asserts half the range for each setting (`timer.c`, `RT_TICK_MAX / 2`),
and leaves the sum to whoever writes the callbacks.  At 1000 ticks a second the sum may be
24 days; the instance of the run fulfils it too.

**Who may call.**  In this build only threads below the timer thread
(`RT_TIMER_THREAD_PRIO` 4, above all others) and callbacks start timers, so that
calls come while the timer thread is suspended or in a callback (`MayCall`).  A handler
that started one between the look and the sleep would not wake the timer thread, and the
sleep would be too long; that is the mutant `StartAnyTime`.

**Fairness.**  Strong for `Tick` (time passes, but not while interrupts are disabled), weak
for the timer thread (of the highest priority).  Nothing is assumed of the callers.

## 8. Scheduler: threads, interrupts and the switch

`Scheduler.tla` is `scheduler.c`, `thread.c`, the tick of `clock.c`, the defunct list of
`idle.c` and the context switch of `libcpu/arm/cortex-m7`, on one CPU.

| Variables | In the code |
|---|---|
| `k.stat`, `k.yields`, `k.prio`, `k.slice` | `thread->stat`, its `RT_THREAD_STAT_YIELD` bit, `current_priority`, `remaining_tick` |
| `k.ready`, `k.group` | `rt_thread_priority_table`, `rt_thread_ready_priority_group` |
| `k.waits`, `k.timers`, `k.defunct` | who is on a wait list, who has a thread timer running, `_rt_thread_defunct` |
| `k.lock`, `k.current` | `rt_scheduler_lock_nest`, `rt_current_thread` |
| `k.switch` | `rt_thread_switch_interrupt_flag`, `rt_interrupt_from_thread`, `_to_thread` |
| `pc`, `isr`, `cpu` | what a thread still owes to its call; the nested handlers; whose registers the CPU holds |

The operators on `k` are the functions (`Inserted`, `Removed`, `Suspended`, `Resumed`,
`Chosen`, `Schedule`, `Closed`), so that an action reads as the calls it makes; an action is
one stretch with interrupts disabled.  Threads start, yield, sleep, wait, wake, lock the
scheduler, change priorities, delete each other and themselves, exit and are created again;
the clock and one other handler come at any time interrupts are enabled, nested up to
`NestMax`; and the switch itself is two steps: `Switched` marks the threads and
pends PendSV, and `PendSV` saves and loads the registers once no handler is left.  What
happens between the two is where a switch can go wrong.

The run `scheduler` has two threads of one priority and the idle thread, three levels
that priorities may change to, slices of one and two ticks, two nested handlers
and one level of lock.  Two equal threads are what turns need, and a changed priority puts
either above the other; two handlers are one inside another.

**Preconditions.**  The idle thread makes no blocking call, and nobody names it in one.
A thread that is being deleted is not named in another call.  `outdated` is history: a
priority was changed and `rt_schedule` has not run since; the code calls none there, and
`HighestRuns` excepts that time.  `DeleteTimed` says whether a thread whose
timer runs may be deleted.  The run says FALSE: `rt_thread_delete` takes the thread off its
list, and only then disables interrupts to stop the timer; a timer that fires in between
makes the thread ready, and it is closed and later freed on a ready list
(`ListsAgree` fails after 13 steps with TRUE).  The application deletes no thread.

**Fairness.**  Weak for the clock's three steps (it ticks, and its handler ends); strong for
the end of the other handler and for the second half of a call, both of which are
interrupted but again and again enabled; and strong for the unlock of the scheduler: who
locks it unlocks it.  `TurnComes` does not need any thread to do anything
else: with round robin, a ready thread that nobody outranks gets its turn even if the
running one never blocks.

## 9. Memheap: the heap

`Memheap.tla` is `rt_malloc`, `rt_realloc` and `rt_free` in this build, where the system
heap is a memheap (`memheap.c`) in fast mode.  `heap` has the links of the blocks by
address, the blocks in use, the free list and `available_size`; `owned` has the block each
of the program's pointers is in.  `kservice.c` holds the heap mutex around every call, so a
call is an action: `Alloc`, `Free`, `ReallocInPlace` (grow into the free block
behind, or cut) and `ReallocMoves`.

The run `memheap` has four pointers and sizes 1, 3 and 6 in a pool of 25 words with headers
of 2: an exact fit, a split and a rest too small to split all happen, free blocks lie on
either side of a used one, and the pool runs out.  A request equal
to `available_size` is refused even when a block fits it, as in the code; a refused
request changes nothing, and so do a request of 0 and the zero pointer, which are left out.

## 10. What is proved

TLC checks the instances above; TLAPS proves these for every value of the constants
that the modules' named assumptions allow: `CabinetAssumption`, `InventoryAssumption` and
`NothingAssumption` (the empty slot is no component), `MsgQueueAssumption`,
`WaitingAssumption`, `SemaphoreAssumption`, `EventAssumption`, `MailboxAssumption`,
`MutexAssumption`, `SoftTimerAssumption`, `TimelyAssumption`, `SchedulerAssumption`,
`MemheapAssumption`.  They say that sizes are positive, that sets of threads are finite, that
priorities are numbers, that an entry counter can hold its queue, that nobody waits for no
bits (which `rt_event_recv` refuses), and what section 7 says of ticks.  TLC evaluates each
of them in a run.

| Theorem | Statement | Assumptions beyond these |
|---|---|---|
| `CabinetTypes` | `Spec => []TypeOK` | none |
| `CabinetStill` | `DoorOpenIsStill` always | `User # "frantic"` |
| `CabinetNoPositionMerged`, `CabinetOpensForOldest` | `NoPositionMerged`, `OpensForOldest` | `User # "frantic"` |
| `CabinetDoorHasButton`, `CabinetDoorWaits` | `OpenDoorHasButton`, `DoorWaitsForUser` always | `User = "patient"` |
| `InventoryTyped`, `RowsAreOfTheStore`, `NoComponentTwice`, `TheStoreCounts` | `TypeOK`, `RowsMatchStore`, `NoTwins`, `StoreCountsParts` always | none |
| `QueueTypes`, `QueueListsSpelled`, `QueueSlotsConserved` | `TypeOK`, `ListsSpelled`, `SlotsConserved` always | none |
| `QueueLosesNoWakeUp`, `QueueWaitersInOrder` | `NoLostWakeUp`, `WaitersInOrder` always | none |
| `QueueResetIsItsLoop` | `ResetIsItsLoop` always | none |
| `QueueIsChannel` | `Spec => IsChannel`, the refinement of `Channel` | none |
| `IpcTypes` | `TypeOK` of all the objects always | none |
| `SemaphoreBalanced` | `SemBalanced` always | none |
| `EventLeavesNobody`, `EventGivesOnce` | `NobodySatisfiedSleeps` always, `BitsGivenOnce` at every step | none |
| `MailboxLosesNoWakeUp` | `MbNoLostWakeUp` always | none |
| `MailboxIsChannel` | `Spec => MbIsChannel`, the refinement of `Channel` | none |
| `MutexHeldByOwner`, `MutexLoansEnd`, `MutexWaiterNotOutranked` | `HoldsAreTheOwners`, `LoansEnd`, `WaiterNotOutranked` always | none |
| `TimersTypes` | `TypeOK` always | none |
| `TimerSleepsNoLonger`, `TimersWakeAtTheirTick` | `SleepsNoLonger`, `WakesAtItsTick` always | none |
| `CallbackSleeps` | `CallbackSleepsItsTime` at every step | none |
| `SoftTimersAreAlarms` | `Spec => IsAlarm`, the refinement of `Alarm` | none |
| `SchedulerTyped`, `ListsAlwaysAgree`, `HighestAlwaysRuns`, `ContextsAlwaysKept`, `FreedStaysGone` | `TypeOK`, `ListsAgree`, `HighestRuns`, `ContextsKept`, `FreedIsGone` always | `~DeleteTimed` |
| `HeapTyped`, `HeapTiles`, `HeapFreeList`, `HeapMerged`, `HeapCounts`, `HeapPointersSafe` | all the invariants of `Memheap` always | none |

**The cabinet's argument.**  `DoorOpenIsStill` is not inductive: a door opens on
`POSITION_OK`, so one needs to know where the motor is whenever that bit is set, and
that the bit is not left over.  `IInv` says it with `Lead`, the number of requests
the motor is ahead of the servo (read off the two queue lengths), which is -1, 0 or 1:
`Phases` lists the pairs of places the two threads can be in for each `Lead`, `PickBit`
what `PICK_FINNISH` means to each of them, `FinishCounts` that a set bit has a
request to go with, and `DelayOrder` that the motor's next positioning ends after the
servo's pause.  `RoomToSend` is where the user matters: a dropped half would put
`Lead` off for ever, which is the finding `cabinet_frantic`.  `CabinetProofs` has one
lemma per action of `Next`, and four about `EventSend` and the delay list.

`OpensForOldest` compares a door with a request that is long out of both queues.
`RequestsInOrder` says where each part of each request is: the requests without a door are,
in order, the one whose layer the servo holds, those whose layers are queued and the one
whose layer is still to be sent; the queued positions are those of the last of them, and
`target` is that of the first when its position has left the queue.  Together with `Phases`
it is inductive, for any number of requests in flight.  For the patient user
`OneAtATime` adds that `PICK_FINNISH` is never left set and that there is a request under
way exactly while its box is on the screen, one at a time; both claims about the button
follow.

**The inventory's argument.**  `StoreCountsParts` is not inductive: it says nothing
between the write to the store and the click on *Finish*.  `AheadByTodo` does: in every
slot that is not `wary` the store is ahead of the parts by exactly what the person is asked
to move.  It is kept because an amount goes through the text of a row without loss
(`AtoiShown`), which needs the whole range of an unsigned number and no more (`Top`, half of
it, may be any positive number), because a row agrees with its slot (`RowsMatchStore`),
and because `Plus` counts modulo the range on both sides.  `InvWriteBack` is the step that
`Put` and `TakeSome` share; `NoTwins` rests on the search of all slots before an add.

**The queue's argument.**  `Inv` is `TypeOK`, `ListsSpelled`, `SlotsConserved` and
`CallsSound`: a caller holds a slot exactly while it fills or drains it, and has a
message while it sends; `SlotsConserved` says that no two hold the same slot.  One lemma covers each kind of step:
claim, link at either end, unlink, give back, sleep, wake up without effect, time out,
reset.  The reset needs facts about the reversed list, stated once as `ReverseOf` and
`JoinOf`.  `entry = Len(linked)` and the number of slots give `NotFull`: the branch that
returns `-RT_EFULL` with the message already linked is never taken
while `max_msgs` is within `RT_MQ_ENTRY_MAX`, which holds for every queue, since `max_msgs`
and `entry` are both 16 bits wide.

`NoLostWakeUp` needs a count.  `WakeInv` says of each wait list that its members are calls
that may wait there, in order (`InLine`), and that while anybody waits, the messages (or the
unused slots) are no more than the calls that were woken and have not looked again
(`Promised`).  Each stretch that adds a message wakes one call or finds nobody waiting; each
that takes one is itself a woken call, or takes one that was there beside the promised; a
call that barges in, a timeout and a reset are the cases that need work, and the
lemmas on cardinalities in `ListLemmas` serve them, here and for the mailbox.

`QueueIsChannel` maps the queue to `Channel` as section 5 says.  Each stretch is a step of
`Channel` or changes nothing it sees; a send is the linking, a receipt the unlinking.
The step that matters is the return of a slot: until then the data is
read from it, so `SlotsConserved` (nobody else holds the slot) is what the refinement
rests on.

`ResetIsItsLoop` is about a loop, and there is no induction over data here.  The proof takes
the least turn after which the loop is not where `After` says (`NatMin`), and shows that a
single turn from the one before leads there.

**The argument of the other objects.**  Each object has an invariant over its own variables
and the threads that are in its calls; `Inv` of `IpcProofs` is all four, and that nobody
waits for one that is not in use.
*Semaphore*: the balance of releases and takes is the value and the threads woken and not
yet back (`OnCall` less the list).
*Event*: nobody who waits is satisfied by the bits.  The loop of the send is the function
`Visited`, and `Passed(bits, n, l)` is its loop invariant after n waiters: those it left are
in order and unsatisfied by the bits that are left now, those it took found what they
wished, and a bit is gone exactly if one of them cleared it.  It is proved for
all n by the least counterexample again.  One pass is enough because bits are only taken
away in it, and whoever was not satisfied by more bits is not by fewer.
*Mailbox*: `RingOf` reads the contents off the pool, from `out` on and around its end;
`LinesOK` is the queue's argument about promises for both lists, and the refinement of
`Channel` says of every put, urgent put and take what it does to `RingOf`.
*Mutex*: `HoldsAreTheOwners` has the mutexes that are on their way to a woken thread.
`LoansEnd` needs `NotesLeadBack`: what an owner that never released out of order noted in
`original` is no loan, and what it noted at the first mutex it took is its own priority, so
that the last release leads back to it.  `WaiterNotOutranked` needs `FreeInOrder`, as the
next owner is the first of the list and the waiters it leaves behind must not
outrank it, and `AloneOwns`, that the mutex in question is the owner's only one.

**The timers' argument.**  Ticks wrap, so `due` says nothing by itself.  `Left`, the signed
distance from the tick, counts down by one with each tick as long as no timer is late
by half the range; with this (`Lefts`) both lists are sorted by integers.  That none is
so late is an invariant of its own: `NotTooLate` bounds how late the soft timer at
place i of the list can be by the stall, one nap for the callback of each timer that can
be in front, and less what the present callback has slept already (`Rest`).
A start puts a timer behind those due before it; a callback that restarts its
timer puts it behind the late ones.  `OnTheWay` relates what the thread has seen to the
list between the look and the sleep, `Asleep` its own timer to the first soft timer, which
is `SleepsNoLonger`.  At a tick the due thread timers are a prefix of their list, those with
one tick left; that is `WakesAtItsTick`, and that no step but the tick ends the sleep of a
callback is `CallbackSleepsItsTime`.  In the refinement an alarm's time is `Left`, which is
why the bounds on lateness are needed there, too: without them an alarm would jump from
late to not due when the tick wraps.

**The scheduler's argument.**  `Inv` is `HighestRuns` and `Good(k, pc, cpu)`, which says of
the kernel's data, the calls the threads are in and the registers: `Lists`, that the ready
lists, the bits, the wait list, the timers and the defunct list agree with the states, but
for the threads being deleted; `Deletions`, that such a victim is off every list, cannot
become current, is nobody else's victim and deletes nobody, unless it deletes itself, when
it may still be preempted; `Ongoing`, that a current thread that does not run any more is
about to call `rt_schedule`, with the scheduler unlocked (without it `HighestRuns` would be
lost when a call is preempted in the middle); and `Contexts`, the pending switch.  The
lemmas `...Is` say what each function of the kernel does to the lists, for every
list; `...Good` that it keeps `Good`; `Inv...` that an action keeps `Inv`.  `HighestRuns` is
re-established by `ScheduleIs` and kept by the rest, because whoever makes a thread ready
owes a `rt_schedule` (`OwedInv`, `InterruptInv`) or has not made any ready (`QuietInv`).
`DeleteTimed` has to be FALSE: with a timer left running a victim can become ready again,
and `Deletions` fails.  Priorities, slices, levels, the depth of nested interrupts and of
the lock are arbitrary.

**The heap's argument.**  `Inv` is `Well`, `Owners` and `Counted`.  `Well` is about the heap alone:
`next` and `prev` are inverse, each block but the tailer ends where the next begins with no
block between and has room for the smallest allocation (`Chain`), the free list is
the unused blocks, each once, and no two of them are neighbours.  `Owners` says that the
blocks in use are the tailer and one for each pointer, large enough.  `ChainSplit` and
`ChainJoin` are the two ways the chain changes, and every operation is a composition of
them: a free joins up to twice, a grow joins and splits, a shrink splits and may join.
That a free block's neighbours are used is what makes one join on each side enough.

`Counted` is `AvailableIsTheFree`, a sum over a set, and no library theorem says
what such a sum is.  `SumExists` builds a function that satisfies its definition, by the
least size for which there is none; `SumsAgree` says there is only one, so that the sum of
`MapThenSumSet` is that one; `SumAnyOrder` that it makes no difference which element is
chosen first.  After that the count is arithmetic: each operation keeps the sum over the
blocks it does not touch (`TotalKept`) and exchanges one or two others (`TotalParts`).

**Only model-checked.**  Liveness under fairness (`RequestServed`, `FinishReleasesBoth`,
`NobodySleepsOn`, `DueTimerFires`, `TurnComes`) is outside the prover, and stays with TLC on
the instances above.  So do the runs of section 11, which are counterexamples.

## 11. What the runs found

Each is a run whose property states what a document or an assertion says, and which TLC
refutes with a behaviour of the code.

| Run | Says | Happens |
|---|---|---|
| `cabinet_settle` | ten samples in the band | the counter `t` is not initialised, so the first positioning may need fewer |
| `cabinet_boot` | `RT_ASSERT(mq != RT_NULL)` | the screen works while `main` sleeps in the flash driver, before the queues exist |
| `cabinet_frantic` | position and layer are one request | `-RT_EFULL` is ignored; one half is dropped and later doors open on the wrong layer |
| `inventory_inductor` | the types are Resistor, Capacitor, Inductor | an inductor is stored as "Indicator" and searched as "Inductor": no search lists it |

Seen while modelling, without a run of its own:

- `README.md` 6.3 has the order open, wait for the user, PICK_FINNISH, close.  The box is
  shown before the door opens; an early click stays set and closes the door at once, and
  two early clicks are one bit, so that a second door may wait with no button on the
  screen.  `OpenDoorHasButton` and `DoorWaitsForUser` hold for the patient user only.
- The manual's claim that with `RT_IPC_FLAG_PRIO` messages of higher-priority threads come
  first: the flag sorts the waiting threads, and messages are linked at the tail.
- The comment of `rt_mq_send` (`ipc.c:2905`) lets the thread "wait for a timeout"
  where the call returns `-RT_EFULL` at once (`SendLoop`, timeout 0).
- `rt_thread_delete` beside the thread's timer: section 8.

## 12. What is not modelled

- PID arithmetic, PWM and encoder: a sample finds the carousel in the band of a slot or
  between slots.  That the controller converges is assumed, as fairness.
- The remote commands and their peer on the ESP32: `uart_comm.c` uses FlashDB names the
  vendored FlashDB does not have (`FDB_OK`), and its port, uart5, is not enabled, so no
  build of this commit contains it.  Its hazards are listed.
- The paths on which `rt_mq_create` or `rt_event_create` fails in `Cabinet`: they are
  calls of the start-up alone.
- Interrupt handlers in `Cabinet`: the application has the receive callback of that
  file and the display's DMA2D handler, and neither touches the shared objects.
- Of the objects of `ipc.c`: creation at run time, detaching and deletion (the
  application's live for ever); for queue, semaphore, event and mailbox a change of a
  waiting thread's priority, after which the wait list keeps its order.
- Of the timers: detaching and deletion, and hard timers that are not a thread's, of which
  the build has none; a setting of 0 ticks, which `rt_timer_init` accepts (`SoftTimer` sets
  1 to half the range of the tick, less one).
- Of the scheduler: signals and SMP, which the build leaves out, and `rt_thread_suspend`
  and `rt_thread_resume` called directly, which their comment forbids.
- Of the heap: `max_used_size`, aligned allocation, other memheaps, and the algorithms this
  build does not use (`mem.c`, `slab.c`) or this application does not (`mempool.c`).
- Kernel objects, devices, flash, drivers, LVGL, cJSON: outside the application's own
  logic or vendored.
