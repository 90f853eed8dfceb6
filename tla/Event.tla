-------------------------------- MODULE Event --------------------------------
(***************************************************************************)
(* An event of the kernel (rt_event_* of rt-thread/src/ipc.c): a set of    *)
(* bits, and threads that each wait for all or one of some bits, with or   *)
(* without RT_EVENT_FLAG_CLEAR.  A waiter's wish is in its thread object   *)
(* (event_set, event_info), and rt_event_send writes what it received      *)
(* there; once the call has returned nothing reads it, and it is left out. *)
(* Interrupt handlers send too.                                            *)
(***************************************************************************)
EXTENDS Waiting

CONSTANTS
    Bits,
    Wishes      \* what a thread may wait for

BitSets == SUBSET Bits \ {{}}
Infos   == [set : SUBSET Bits, all : BOOLEAN, clear : BOOLEAN]
NoInfo  == [set |-> {}, all |-> FALSE, clear |-> FALSE]

ASSUME EventAssumption == Wishes \subseteq {i \in Infos : i.set # {}}

VARIABLES
    set,            \* event->set
    eventWaiters,
    info            \* event_set and event_info of each thread

eventVars == <<set, eventWaiters, info>>

\* rt_event_init.
EventInit ==
    /\ set = {} /\ eventWaiters = <<>>
    /\ info = [t \in Threads |-> NoInfo]

Satisfied(wish, bits) ==
    IF wish.all THEN wish.set \subseteq bits ELSE wish.set \cap bits # {}

Given(wish, bits) == wish.set \cap bits

\* One turn of the loop of rt_event_send, at waiter t: l has the bits left, what
\* each thread object holds by now, and who waits on.
VisitClearsNone(l, t) ==                                    \* mutant of Visit
    IF ~ Satisfied(info[t], l.bits) THEN [l EXCEPT !.left = Append(@, t)]
    ELSE [l EXCEPT !.info[t].set = Given(info[t], l.bits)]

VisitAndOnly(l, t) ==                                       \* mutant of Visit
    IF ~ info[t].set \subseteq l.bits THEN [l EXCEPT !.left = Append(@, t)]
    ELSE [bits |-> IF info[t].clear THEN l.bits \ info[t].set ELSE l.bits,
          info |-> l.info,
          left |-> l.left]

Visit(l, t) ==
    LET g == Given(info[t], l.bits)
    IN IF ~ Satisfied(info[t], l.bits) THEN [l EXCEPT !.left = Append(l.left, t)]
       ELSE [bits |-> IF info[t].clear THEN l.bits \ g ELSE l.bits,
             info |-> [l.info EXCEPT ![t].set = g],
             left |-> l.left]

\* The loop: after n waiters, from the first one on.
Visited(bits) ==
    LET l[n \in 0 .. Len(eventWaiters)] ==
            IF n = 0 THEN [bits |-> set \cup bits, info |-> info, left |-> <<>>]
            ELSE Visit(l[n - 1], eventWaiters[n])
    IN l

\* rt_event_send, by a thread or an interrupt handler.
EventSend(bits) ==
    LET l == Visited(bits)[Len(eventWaiters)]
    IN /\ set' = l.bits
       /\ info' = l.info
       /\ eventWaiters' = l.left
       /\ UNCHANGED th

\* rt_event_recv: receive at once, give up, or sleep.
EventRecv(t, wish, w) ==
    /\ th[t] = Ready
    /\ \/ /\ Satisfied(wish, set)
          /\ set' = IF wish.clear THEN set \ wish.set ELSE set
          /\ UNCHANGED <<eventWaiters, info, th>>
       \/ /\ ~ Satisfied(wish, set) /\ w = "zero"
          /\ UNCHANGED <<eventVars, th>>
       \/ /\ ~ Satisfied(wish, set) /\ w # "zero"
          /\ info' = [info EXCEPT ![t] = wish]
          /\ eventWaiters' = Suspended(eventWaiters, t)
          /\ SleepsOn(t, "event")
          /\ UNCHANGED set

\* After rt_schedule: an error, or what the sender has left in event_set.
EventRecvResumed(t) ==
    /\ Awake(t, "event", eventWaiters)
    /\ Returns(t)
    /\ info' = [info EXCEPT ![t] = NoInfo]
    /\ UNCHANGED <<set, eventWaiters>>

\* rt_event_control, RT_IPC_CMD_RESET.
EventReset(t) ==
    /\ th[t] = Ready
    /\ AllFail(ToSet(eventWaiters))
    /\ eventWaiters' = <<>>
    /\ set' = {}
    /\ UNCHANGED info

EventTimeout(t) ==
    /\ TimedOut(t, eventWaiters)
    /\ eventWaiters' = Without(eventWaiters, t)
    /\ UNCHANGED <<set, info>>

EventNext ==
    \/ \E bits \in BitSets : EventSend(bits)
    \/ \E t \in Threads :
          \/ \E wish \in Wishes, w \in Timeouts : EventRecv(t, wish, w)
          \/ EventRecvResumed(t)
          \/ EventReset(t)
          \/ EventTimeout(t)

-----------------------------------------------------------------------------
\* The waiters stand in order, and none of them sleeps on beside bits that
\* satisfy it: one pass over the list, with bits cleared on the way, is enough
\* for every waiter, the ones it passed before included.
NobodySatisfiedSleeps ==
    /\ InOrder(eventWaiters, "event")
    /\ \A t \in ToSet(eventWaiters) : ~ Satisfied(info[t], set)

\* A sender gives every bit away once: it goes to any number of waiters that do
\* not clear it and to at most one that does, and then it is no longer set,
\* otherwise it stays; and what each woken thread finds in its event_set was set
\* and is what it waited for.
BitsGivenOnce ==
    [][\A bits \in BitSets : EventSend(bits) =>
          LET woken    == ToSet(eventWaiters) \ ToSet(eventWaiters')
              takes(b) == {t \in woken : info[t].clear /\ b \in info'[t].set}
          IN /\ \A b \in Bits :
                   /\ Cardinality(takes(b)) <= 1
                   /\ b \in set' <=> b \in set \cup bits /\ takes(b) = {}
             /\ \A t \in woken :
                   /\ info'[t].set \subseteq info[t].set \cap (set \cup bits)
                   /\ Satisfied(info[t], info'[t].set)]_<<eventVars, th>>
=============================================================================
