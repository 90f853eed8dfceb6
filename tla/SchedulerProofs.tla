--------------------------- MODULE SchedulerProofs ---------------------------
(***************************************************************************)
(* Proofs about Scheduler, for any threads, priorities, slices and depth   *)
(* of nested interrupts, when no thread is deleted whose timer runs.       *)
(***************************************************************************)
EXTENDS Scheduler, ListLemmas, SequenceTheorems, TLAPS

Kernel ==
    [stat : [Threads -> Stats], yields : SUBSET Threads, prio : [Threads -> Levels],
     slice : [Threads -> Nat], ready : [Levels -> Seq(Threads)], group : SUBSET Levels,
     waits : SUBSET Threads, defunct : Seq(Threads), timers : SUBSET Threads, lock : Nat,
     current : Threads,
     switch : [pending : BOOLEAN, from : Threads \cup {Nobody}, to : Threads]]

\* The ready lists have no thread twice, each has threads of its priority only,
\* and the bits say which are not empty.
Rows(q) ==
    \A p \in Levels :
        /\ IsInjective(q.ready[p])
        /\ p \in q.group <=> q.ready[p] # <<>>
        /\ \A t \in ToSet(q.ready[p]) : q.prio[t] = p

\* Who is on a ready list.
Queue(q) == {t \in Threads : t \in ToSet(q.ready[q.prio[t]])}

(***************************************************************************)
(* The lists.                                                              *)
(***************************************************************************)
LEMMA ToSetIn == ASSUME NEW S, NEW s \in Seq(S) PROVE ToSet(s) \subseteq S
<1>1. DOMAIN s = 1 .. Len(s) /\ \A j \in 1 .. Len(s) : s[j] \in S
  BY LenProperties, ElementOfSeq
<1> QED BY <1>1 DEF ToSet

LEMMA WithoutIs ==
    ASSUME NEW s \in Seq(Threads), IsInjective(s), NEW t
    PROVE  /\ Without(s, t) \in Seq(Threads) /\ IsInjective(Without(s, t))
           /\ ToSet(Without(s, t)) = ToSet(s) \ {t}
           /\ t \notin ToSet(s) => Without(s, t) = s
<1>1. CASE t \notin ToSet(s)
  BY <1>1 DEF Without
<1>2. CASE t \in ToSet(s)
  <2> DEFINE i == CHOOSE i \in DOMAIN s : s[i] = t
  <2>1. DOMAIN s = 1 .. Len(s)
    BY LenProperties
  <2>2. i \in 1 .. Len(s) /\ s[i] = t
    BY <1>2, <2>1 DEF ToSet
  <2>3. Without(s, t) = RemoveAt(s, i)
    BY <1>2 DEF Without
  <2> HIDE DEF i
  <2> QED BY <1>2, <2>2, <2>3, RemoveAtOf
<1> QED BY <1>1, <1>2

LEMMA EmptySet == ASSUME NEW s \in Seq(Threads) PROVE s = <<>> <=> ToSet(s) = {}
<1>1. DOMAIN s = 1 .. Len(s) /\ Len(s) \in Nat /\ (s = <<>> <=> Len(s) = 0)
  BY LenProperties, EmptySeq
<1>2. CASE s = <<>>
  BY <1>1, <1>2 DEF ToSet
<1>3. CASE s # <<>>
  <2>1. 1 \in DOMAIN s
    BY <1>1, <1>3
  <2> QED BY <1>3, <2>1 DEF ToSet
<1> QED BY <1>2, <1>3

\* Off every list: what is off the list of its priority is off the others.
LEMMA OffLists ==
    ASSUME NEW q \in Kernel, Rows(q), NEW t \in Threads \ Queue(q)
    PROVE  \A p \in Levels : t \notin ToSet(q.ready[p])
BY DEF Rows, Queue

LEMMA KernelHas ==
    ASSUME NEW q \in Kernel
    PROVE  /\ q.stat \in [Threads -> Stats] /\ q.prio \in [Threads -> Levels]
           /\ q.slice \in [Threads -> Nat] /\ q.yields \subseteq Threads
           /\ q.ready \in [Levels -> Seq(Threads)] /\ q.group \subseteq Levels
           /\ q.waits \subseteq Threads /\ q.timers \subseteq Threads
           /\ q.defunct \in Seq(Threads) /\ q.lock \in Nat /\ q.current \in Threads
           /\ q.switch \in [pending : BOOLEAN, from : Threads \cup {Nobody}, to : Threads]
BY DEF Kernel

LEMMA UnlinkedIs ==
    ASSUME NEW q \in Kernel, Rows(q), IsInjective(q.defunct), NEW t \in Threads
    PROVE  /\ Unlinked(q, t) \in Kernel
           /\ Unlinked(q, t) = [q EXCEPT !.ready = [p \in Levels |-> Without(q.ready[p], t)],
                                         !.waits = q.waits \ {t},
                                         !.defunct = Without(q.defunct, t)]
<1>1. Unlinked(q, t) = [q EXCEPT !.ready = [p \in Levels |-> Without(q.ready[p], t)],
                                 !.waits = q.waits \ {t},
                                 !.defunct = Without(q.defunct, t)]
  BY DEF Unlinked, Kernel
<1>2. [p \in Levels |-> Without(q.ready[p], t)] \in [Levels -> Seq(Threads)]
  <2>1. \A p \in Levels : q.ready[p] \in Seq(Threads) /\ IsInjective(q.ready[p])
    BY DEF Rows, Kernel
  <2> QED BY <2>1, WithoutIs
<1>3. Without(q.defunct, t) \in Seq(Threads)
  BY WithoutIs DEF Kernel
<1> QED BY <1>1, <1>2, <1>3 DEF Kernel

LEMMA RemovedIs ==
    ASSUME NEW q \in Kernel, Rows(q), IsInjective(q.defunct), NEW t \in Threads,
           NEW r, r = Removed(q, t)
    PROVE  /\ r \in Kernel /\ Rows(r) /\ Queue(r) = Queue(q) \ {t}
           /\ r.waits = q.waits \ {t} /\ r.defunct = Without(q.defunct, t)
           /\ r.stat = q.stat /\ r.prio = q.prio /\ r.yields = q.yields /\ r.slice = q.slice
           /\ r.timers = q.timers /\ r.lock = q.lock /\ r.current = q.current
           /\ r.switch = q.switch
<1> DEFINE u == Unlinked(q, t)
           p == q.prio[t]
           g == IF u.ready[p] = <<>> THEN q.group \ {p} ELSE q.group
<1>1. /\ u \in Kernel
      /\ u = [q EXCEPT !.ready = [o \in Levels |-> Without(q.ready[o], t)],
                       !.waits = q.waits \ {t},
                       !.defunct = Without(q.defunct, t)]
  BY UnlinkedIs
<1>2. /\ u.ready = [o \in Levels |-> Without(q.ready[o], t)]
      /\ u.waits = q.waits \ {t} /\ u.defunct = Without(q.defunct, t)
      /\ u.stat = q.stat /\ u.prio = q.prio /\ u.yields = q.yields /\ u.slice = q.slice
      /\ u.timers = q.timers /\ u.lock = q.lock /\ u.current = q.current
      /\ u.switch = q.switch /\ u.group = q.group
  BY <1>1 DEF Kernel
<1> HIDE DEF u
<1>3. r = [u EXCEPT !.group = g]
  BY <1>2 DEF Removed, u
<1>4. p \in Levels /\ g \subseteq Levels
  BY DEF Kernel
<1> HIDE DEF g
<1>5. /\ r.group = g /\ r.ready = u.ready
      /\ r.waits = u.waits /\ r.defunct = u.defunct
      /\ r.stat = u.stat /\ r.prio = u.prio /\ r.yields = u.yields /\ r.slice = u.slice
      /\ r.timers = u.timers /\ r.lock = u.lock /\ r.current = u.current
      /\ r.switch = u.switch
  BY <1>1, <1>3 DEF Kernel
<1>6. r \in Kernel
  <2>1. g \in SUBSET Levels
    BY <1>4
  <2> QED BY <1>1, <1>3, <2>1 DEF Kernel
<1>7. \A o \in Levels : /\ q.ready[o] \in Seq(Threads) /\ IsInjective(q.ready[o])
                        /\ r.ready[o] = Without(q.ready[o], t)
                        /\ r.ready[o] \in Seq(Threads) /\ IsInjective(r.ready[o])
                        /\ ToSet(r.ready[o]) = ToSet(q.ready[o]) \ {t}
  <2>1. \A o \in Levels : q.ready[o] \in Seq(Threads) /\ IsInjective(q.ready[o])
    BY DEF Kernel, Rows
  <2>2. \A o \in Levels : r.ready[o] = Without(q.ready[o], t)
    BY <1>2, <1>5
  <2> QED BY <2>1, <2>2, WithoutIs
<1>8. r.prio = q.prio /\ q.prio \in [Threads -> Levels]
  BY <1>2, <1>5, KernelHas
<1>9. Queue(r) = Queue(q) \ {t}
  <2>1. \A v \in Threads :
            v \in ToSet(r.ready[r.prio[v]]) <=> v \in ToSet(q.ready[q.prio[v]]) \ {t}
    BY <1>7, <1>8
  <2> QED BY <2>1 DEF Queue
<1>10. Rows(r)
  <2>3. \A o \in Levels : \A v \in ToSet(r.ready[o]) : r.prio[v] = o
    <3>1. \A o \in Levels : \A v \in ToSet(q.ready[o]) : q.prio[v] = o
      BY DEF Rows
    <3> QED BY <1>7, <1>8, <3>1
  <2> SUFFICES ASSUME NEW o \in Levels PROVE o \in g <=> r.ready[o] # <<>>
    <3>1. r.group = g /\ \A o \in Levels : IsInjective(r.ready[o])
      BY <1>5, <1>7
    <3> QED BY <2>3, <3>1 DEF Rows
  <2>1. CASE o = p
    <3>1. u.ready[p] = r.ready[p]
      BY <1>5
    <3>2. q.group \subseteq Levels /\ (p \in q.group <=> q.ready[p] # <<>>)
      BY <1>4, KernelHas DEF Rows
    <3>3. q.ready[p] = <<>> => r.ready[p] = <<>>
      BY <1>4, <1>7, EmptySet
    <3> QED BY <2>1, <3>1, <3>2, <3>3 DEF g
  <2>2. CASE o # p
    <3>1. t \notin ToSet(q.ready[o])
      BY <2>2 DEF Rows
    <3>2. r.ready[o] = q.ready[o]
      BY <1>7, <3>1, WithoutIs
    <3> QED BY <2>2, <3>2 DEF Rows, g
  <2> QED BY <2>1, <2>2
<1> QED BY <1>6, <1>2, <1>5, <1>9, <1>10

\* A thread that is not current goes to the end of the list of its priority.
LEMMA InsertedIs ==
    ASSUME NEW q \in Kernel, Rows(q), NEW t \in Threads \ Queue(q), t # q.current,
           NEW r, r = Inserted(q, t)
    PROVE  /\ r \in Kernel /\ Rows(r) /\ Queue(r) = Queue(q) \cup {t}
           /\ r.stat = [q.stat EXCEPT ![t] = "READY"]
           /\ r.waits = q.waits /\ r.defunct = q.defunct
           /\ r.prio = q.prio /\ r.yields = q.yields /\ r.slice = q.slice
           /\ r.timers = q.timers /\ r.lock = q.lock /\ r.current = q.current
           /\ r.switch = q.switch
<1> DEFINE p == q.prio[t]
           s == Append(q.ready[p], t)
<1>1. p \in Levels /\ q.ready \in [Levels -> Seq(Threads)] /\ q.group \subseteq Levels
  BY DEF Kernel
<1>2. q.ready[p] \in Seq(Threads) /\ IsInjective(q.ready[p]) /\ t \notin ToSet(q.ready[p])
  BY <1>1, OffLists DEF Rows
<1>3. s \in Seq(Threads) /\ s # <<>> /\ IsInjective(s) /\ ToSet(s) = ToSet(q.ready[p]) \cup {t}
  <2> DEFINE list == q.ready[p]
  <2>1. list \in Seq(Threads) /\ IsInjective(list) /\ t \in Threads /\ t \notin ToSet(list)
    BY <1>2
  <2> HIDE DEF list
  <2>2. LET a == Append(list, t)
        IN  a \in Seq(Threads) /\ a # <<>> /\ IsInjective(a) /\ ToSet(a) = ToSet(list) \cup {t}
    BY <2>1, AppendOf
  <2> QED BY <2>2 DEF list
<1>4. r = [q EXCEPT !.stat[t] = "READY", !.ready[p] = s, !.group = q.group \cup {p}]
  BY DEF Inserted, Kernel
<1> HIDE DEF s
<1>5. /\ r.stat = [q.stat EXCEPT ![t] = "READY"] /\ r.ready = [q.ready EXCEPT ![p] = s]
      /\ r.group = q.group \cup {p}
      /\ r.waits = q.waits /\ r.defunct = q.defunct
      /\ r.prio = q.prio /\ r.yields = q.yields /\ r.slice = q.slice
      /\ r.timers = q.timers /\ r.lock = q.lock /\ r.current = q.current
      /\ r.switch = q.switch
  <2>1. /\ r.stat = [q.stat EXCEPT ![t] = "READY"] /\ r.ready = [q.ready EXCEPT ![p] = s]
        /\ r.group = q.group \cup {p}
    BY <1>4 DEF Kernel
  <2>2. /\ r.waits = q.waits /\ r.defunct = q.defunct /\ r.prio = q.prio
        /\ r.yields = q.yields /\ r.slice = q.slice
    BY <1>4 DEF Kernel
  <2>3. /\ r.timers = q.timers /\ r.lock = q.lock /\ r.current = q.current
        /\ r.switch = q.switch
    BY <1>4 DEF Kernel
  <2> QED BY <2>1, <2>2, <2>3
<1>6. r.stat \in [Threads -> Stats] /\ r.ready \in [Levels -> Seq(Threads)] /\ r.group \subseteq Levels
  <2>1. q.stat \in [Threads -> Stats] /\ "READY" \in Stats
    BY KernelHas DEF Stats
  <2>2. r.stat \in [Threads -> Stats]
    BY <1>5, <2>1
  <2>3. r.ready \in [Levels -> Seq(Threads)] /\ r.group \subseteq Levels
    BY <1>1, <1>3, <1>5
  <2> QED BY <2>2, <2>3
<1>7. r \in Kernel
  <2>1. r = [q EXCEPT !.stat = r.stat, !.ready = r.ready, !.group = r.group]
    BY <1>4, <1>5 DEF Kernel
  <2> QED BY <2>1, <1>6 DEF Kernel
<1>8. \A o \in Levels : r.ready[o] = IF o = p THEN s ELSE q.ready[o]
  BY <1>1, <1>5
<1>9. Rows(r)
  <2> SUFFICES ASSUME NEW o \in Levels
               PROVE  /\ IsInjective(r.ready[o])
                      /\ o \in r.group <=> r.ready[o] # <<>>
                      /\ \A v \in ToSet(r.ready[o]) : r.prio[v] = o
    BY DEF Rows
  <2>1. CASE o = p
    <3>1. \A v \in ToSet(q.ready[p]) : q.prio[v] = p
      BY <1>1 DEF Rows
    <3>2. r.ready[o] = s /\ o \in r.group /\ r.prio = q.prio
      BY <1>5, <1>8, <2>1
    <3> QED BY <1>3, <2>1, <3>1, <3>2
  <2>2. CASE o # p
    <3>1. r.ready[o] = q.ready[o] /\ (o \in r.group <=> o \in q.group) /\ r.prio = q.prio
      BY <1>5, <1>8, <2>2
    <3> QED BY <3>1 DEF Rows
  <2> QED BY <2>1, <2>2
<1>10. Queue(r) = Queue(q) \cup {t}
  <2>1. r.prio = q.prio /\ q.prio \in [Threads -> Levels]
    BY <1>5, KernelHas
  <2>2. \A v \in Threads : q.prio[v] # p => r.ready[q.prio[v]] = q.ready[q.prio[v]]
    BY <1>8, <2>1
  <2>3. \A v \in Threads : q.prio[v] = p => ToSet(r.ready[p]) = ToSet(q.ready[p]) \cup {t}
    BY <1>1, <1>3, <1>8
  <2>4. \A v \in Threads : v \in ToSet(r.ready[r.prio[v]]) <=> v \in ToSet(q.ready[q.prio[v]]) \/ v = t
    BY <2>1, <2>2, <2>3
  <2> QED BY <2>4 DEF Queue
<1> QED BY <1>5, <1>7, <1>9, <1>10

\* The list that rt_schedule takes from.
LEMMA HighestIs ==
    ASSUME NEW q \in Kernel, Rows(q), q.group # {}
    PROVE  /\ Highest(q) \in Levels
           /\ Head(q.ready[Highest(q)]) \in Queue(q)
           /\ q.prio[Head(q.ready[Highest(q)])] = Highest(q)
           /\ \A t \in Queue(q) : Highest(q) <= q.prio[t]
<1> DEFINE p == Highest(q)
           s == q.ready[p]
<1>1. q.group \subseteq Levels /\ q.group \subseteq Nat
  BY SchedulerAssumption, KernelHas DEF SchedulerAssumption
<1>2. p \in q.group /\ \A o \in q.group : p <= o
  BY <1>1, NatMin DEF Highest
<1> HIDE DEF p
<1>3. s \in Seq(Threads) /\ s # <<>> /\ IsInjective(s)
  BY <1>1, <1>2 DEF Rows, Kernel
<1>4. Head(s) = s[1] /\ s[1] \in ToSet(s)
  BY <1>3, TailOf
<1>5. Head(s) \in Threads /\ Head(s) \in ToSet(s)
  BY <1>3, <1>4, ToSetIn
<1>6. q.prio[Head(s)] = p
  BY <1>1, <1>2, <1>5 DEF Rows
<1>7. \A t \in Queue(q) : p <= q.prio[t]
  <2> SUFFICES ASSUME NEW t \in Queue(q) PROVE q.prio[t] \in q.group
    BY <1>2
  <2>1. q.prio[t] \in Levels /\ q.ready[q.prio[t]] \in Seq(Threads)
    BY DEF Queue, Kernel
  <2>2. q.ready[q.prio[t]] # <<>>
    BY <2>1, EmptySet DEF Queue
  <2> QED BY <2>1, <2>2 DEF Rows
<1> QED BY <1>1, <1>2, <1>5, <1>6, <1>7 DEF Queue, p

LEMMA QueuedHasBit ==
    ASSUME NEW q \in Kernel, Rows(q), NEW t \in Queue(q)
    PROVE  q.group # {}
<1>1. q.prio[t] \in Levels /\ q.ready[q.prio[t]] \in Seq(Threads)
  BY KernelHas DEF Queue
<1>2. q.ready[q.prio[t]] # <<>>
  BY <1>1, EmptySet DEF Queue
<1> QED BY <1>1, <1>2 DEF Rows

(***************************************************************************)
(* What becomes of the kernel when only a field outside the lists changes. *)
(***************************************************************************)
LEMMA SameLists ==
    ASSUME NEW q \in Kernel, NEW r \in Kernel,
           r.ready = q.ready, r.group = q.group, r.prio = q.prio
    PROVE  (Rows(q) => Rows(r)) /\ Queue(r) = Queue(q)
BY DEF Rows, Queue

LEMMA StatSet ==
    ASSUME NEW q \in Kernel, NEW st \in [Threads -> Stats],
           NEW r, r = [q EXCEPT !.stat = st]
    PROVE  /\ r \in Kernel /\ (Rows(q) => Rows(r)) /\ Queue(r) = Queue(q)
           /\ r.stat = st /\ r.waits = q.waits /\ r.defunct = q.defunct
           /\ r.prio = q.prio /\ r.yields = q.yields /\ r.slice = q.slice
           /\ r.timers = q.timers /\ r.lock = q.lock /\ r.current = q.current
           /\ r.switch = q.switch
<1>1. r \in Kernel
  BY DEF Kernel
<1>2. /\ r.stat = st /\ r.waits = q.waits /\ r.defunct = q.defunct
      /\ r.prio = q.prio /\ r.yields = q.yields /\ r.slice = q.slice
  BY DEF Kernel
<1>3. /\ r.timers = q.timers /\ r.lock = q.lock /\ r.current = q.current
      /\ r.switch = q.switch /\ r.ready = q.ready /\ r.group = q.group
  BY DEF Kernel
<1> QED BY <1>1, <1>2, <1>3, SameLists

LEMMA RunningIs ==
    ASSUME NEW q \in Kernel, Rows(q), IsInjective(q.defunct), NEW t \in Threads,
           NEW r, r = Running(q, t)
    PROVE  /\ r \in Kernel /\ Rows(r) /\ Queue(r) = Queue(q) \ {t}
           /\ r.stat = [q.stat EXCEPT ![t] = "RUNNING"]
           /\ r.waits = q.waits \ {t} /\ r.defunct = Without(q.defunct, t)
           /\ r.prio = q.prio /\ r.yields = q.yields /\ r.slice = q.slice
           /\ r.timers = q.timers /\ r.lock = q.lock /\ r.current = q.current
           /\ r.switch = q.switch
<1> DEFINE a  == Removed(q, t)
           st == [a.stat EXCEPT ![t] = "RUNNING"]
<1>1. /\ a \in Kernel /\ Rows(a) /\ Queue(a) = Queue(q) \ {t}
      /\ a.waits = q.waits \ {t} /\ a.defunct = Without(q.defunct, t)
      /\ a.stat = q.stat /\ a.prio = q.prio /\ a.yields = q.yields /\ a.slice = q.slice
      /\ a.timers = q.timers /\ a.lock = q.lock /\ a.current = q.current
      /\ a.switch = q.switch
  BY RemovedIs
<1>2. r = [a EXCEPT !.stat[t] = "RUNNING"]
  BY DEF Running
<1> HIDE DEF a
<1>3. st \in [Threads -> Stats]
  BY <1>1, KernelHas DEF Stats
<1>4. r = [a EXCEPT !.stat = st]
  BY <1>1, <1>2 DEF Kernel
<1> HIDE DEF st
<1>5. /\ r \in Kernel /\ (Rows(a) => Rows(r)) /\ Queue(r) = Queue(a)
      /\ r.stat = st /\ r.waits = a.waits /\ r.defunct = a.defunct
      /\ r.prio = a.prio /\ r.yields = a.yields /\ r.slice = a.slice
      /\ r.timers = a.timers /\ r.lock = a.lock /\ r.current = a.current
      /\ r.switch = a.switch
  BY <1>1, <1>3, <1>4, StatSet
<1> QED BY <1>1, <1>5 DEF st

(***************************************************************************)
(* What the lists and the states must be; V are threads being deleted.     *)
(***************************************************************************)
Lists(q, V) ==
    /\ Rows(q)
    /\ \A t \in Queue(q) : q.stat[t] = "READY"
    /\ \A t \in Threads \ V : q.stat[t] = "READY" => t \in Queue(q)
    /\ \A t \in q.timers \cup q.waits : q.stat[t] = "SUSPEND"
    /\ IsInjective(q.defunct)
    /\ ToSet(q.defunct) = {t \in Threads : q.stat[t] = "CLOSE"}
    /\ q.stat[q.current] # "READY"
    /\ q.stat[Idle] = IF q.current = Idle THEN "RUNNING" ELSE "READY"
    /\ Idle \notin V

\* The current thread runs, and nobody ready is above it.
Leads(q, V) ==
    /\ q.stat[q.current] = "RUNNING"
    /\ \A t \in Threads \ V : q.stat[t] = "READY" => q.prio[q.current] <= q.prio[t]

\* What rt_schedule does to r of q.
Moves(q, r) ==
    LET old == q.current
        new == r.current
    IN  /\ new # old => q.lock = 0 /\ new \in Queue(q)
        /\ r.stat = IF new = old THEN q.stat
                    ELSE [t \in Threads |->
                             IF t = new THEN "RUNNING"
                             ELSE IF t = old /\ q.stat[old] = "RUNNING" THEN "READY"
                             ELSE q.stat[t]]
        /\ Queue(r) = IF new = old THEN Queue(q)
                      ELSE (Queue(q) \cup (IF q.stat[old] = "RUNNING" THEN {old} ELSE {})) \ {new}
        /\ r.switch = IF new = old THEN q.switch
                      ELSE [pending |-> TRUE,
                            from |-> IF q.switch.pending THEN q.switch.from ELSE old,
                            to |-> new]
        /\ r.waits = q.waits /\ r.timers = q.timers /\ r.defunct = q.defunct
        /\ r.prio = q.prio /\ r.slice = q.slice /\ r.lock = q.lock

LEMMA ChosenStays ==
    ASSUME NEW q \in Kernel, NEW V, Lists(q, V), q.group # {}, Stays(q),
           NEW r, r = Chosen(q)
    PROVE  r \in Kernel /\ Rows(r) /\ Moves(q, r) /\ r.current = q.current
<1> DEFINE old == q.current
           a == [q EXCEPT !.yields = @ \ {old}, !.current = old]
<1>1. q.stat[old] = "RUNNING" /\ old \in Threads
  BY KernelHas DEF Stays
<1>2. r = Running(a, old)
  BY <1>1 DEF Chosen
<1>3. /\ a.yields \subseteq Threads /\ a = [q EXCEPT !.yields = a.yields]
  BY KernelHas DEF Kernel
<1>4. /\ a \in Kernel /\ a.ready = q.ready /\ a.group = q.group /\ a.prio = q.prio
      /\ a.stat = q.stat /\ a.waits = q.waits /\ a.defunct = q.defunct
  BY <1>3 DEF Kernel
<1>5. /\ a.slice = q.slice /\ a.timers = q.timers /\ a.lock = q.lock
      /\ a.current = old /\ a.switch = q.switch
  BY <1>3 DEF Kernel
<1> HIDE DEF a
<1>6. Rows(a) /\ Queue(a) = Queue(q) /\ IsInjective(a.defunct)
  BY <1>4, SameLists DEF Lists
<1>7. /\ r \in Kernel /\ Rows(r) /\ Queue(r) = Queue(a) \ {old}
      /\ r.stat = [a.stat EXCEPT ![old] = "RUNNING"]
      /\ r.waits = a.waits \ {old} /\ r.defunct = Without(a.defunct, old)
      /\ r.prio = a.prio /\ r.slice = a.slice
      /\ r.timers = a.timers /\ r.lock = a.lock /\ r.current = a.current
      /\ r.switch = a.switch
  BY <1>1, <1>2, <1>4, <1>6, RunningIs
<1>8. old \notin Queue(q) /\ old \notin q.waits /\ old \notin ToSet(q.defunct)
  BY <1>1 DEF Lists
<1>9. r.stat = q.stat
  BY <1>1, <1>4, <1>7, KernelHas
<1>10. r.defunct = q.defunct
  BY <1>4, <1>6, <1>7, <1>8, WithoutIs, KernelHas
<1> QED BY <1>4, <1>5, <1>6, <1>7, <1>8, <1>9, <1>10 DEF Moves

LEMMA ChosenSwitches ==
    ASSUME NEW q \in Kernel, NEW V, Lists(q, V), q.group # {}, q.lock = 0, ~Stays(q),
           NEW r, r = Chosen(q)
    PROVE  /\ r \in Kernel /\ Rows(r) /\ Moves(q, r) /\ r.current # q.current
           /\ q.prio[r.current] = Highest(q)
<1> DEFINE old  == q.current
           new  == Head(q.ready[Highest(q)])
           runs == q.stat[old] = "RUNNING"
           ys   == IF runs THEN q.yields \ {old} ELSE q.yields
           a    == [q EXCEPT !.yields = ys, !.current = new]
           b    == IF runs THEN Inserted(a, old) ELSE a
           c    == Running(b, new)
           sw   == [pending |-> TRUE, from |-> IF q.switch.pending THEN q.switch.from ELSE old,
                    to |-> new]
<1>1. new \in Queue(q) /\ q.prio[new] = Highest(q)
  BY HighestIs DEF Lists
<1>2. /\ new \in Threads /\ old \in Threads /\ new # old
      /\ q.stat[new] = "READY" /\ q.stat[old] # "READY" /\ old \notin Queue(q)
  BY <1>1, KernelHas DEF Lists, Queue
<1>3. r = Switched(c, old, new)
  BY <1>2 DEF Chosen
<1> HIDE DEF new
<1>4. ys \subseteq Threads
  BY KernelHas
<1> HIDE DEF ys
<1>5. /\ a \in Kernel /\ a.ready = q.ready /\ a.group = q.group /\ a.prio = q.prio
      /\ a.stat = q.stat /\ a.waits = q.waits /\ a.defunct = q.defunct
  <2>1. a \in Kernel
    BY <1>2, <1>4 DEF Kernel
  <2>2. /\ a.ready = q.ready /\ a.group = q.group /\ a.prio = q.prio
        /\ a.stat = q.stat /\ a.waits = q.waits /\ a.defunct = q.defunct
    BY DEF Kernel
  <2> QED BY <2>1, <2>2
<1>6. /\ a.slice = q.slice /\ a.timers = q.timers /\ a.lock = q.lock
      /\ a.current = new /\ a.switch = q.switch
  BY DEF Kernel
<1> HIDE DEF a
<1>7. Rows(a) /\ Queue(a) = Queue(q) /\ IsInjective(a.defunct)
  BY <1>5, SameLists DEF Lists
<1>8. /\ b \in Kernel /\ Rows(b)
      /\ Queue(b) = Queue(q) \cup (IF runs THEN {old} ELSE {})
      /\ b.stat = IF runs THEN [q.stat EXCEPT ![old] = "READY"] ELSE q.stat
      /\ b.waits = q.waits /\ b.defunct = q.defunct
      /\ b.prio = q.prio /\ b.slice = q.slice
      /\ b.timers = q.timers /\ b.lock = q.lock /\ b.current = new
      /\ b.switch = q.switch
  <2>1. CASE runs
    <3>1. b = Inserted(a, old) /\ old \in Threads \ Queue(a) /\ old # a.current
      BY <1>2, <1>6, <1>7, <2>1
    <3>2. /\ b \in Kernel /\ Rows(b) /\ Queue(b) = Queue(a) \cup {old}
          /\ b.stat = [a.stat EXCEPT ![old] = "READY"]
          /\ b.waits = a.waits /\ b.defunct = a.defunct
          /\ b.prio = a.prio /\ b.slice = a.slice
          /\ b.timers = a.timers /\ b.lock = a.lock /\ b.current = a.current
          /\ b.switch = a.switch
      BY <1>5, <1>7, <3>1, InsertedIs
    <3> HIDE DEF b
    <3> QED BY <1>5, <1>6, <1>7, <2>1, <3>2
  <2>2. CASE ~runs
    BY <1>5, <1>6, <1>7, <2>2
  <2> QED BY <2>1, <2>2
<1> HIDE DEF b
<1>9. /\ c \in Kernel /\ Rows(c) /\ Queue(c) = Queue(b) \ {new}
      /\ c.stat = [b.stat EXCEPT ![new] = "RUNNING"]
      /\ c.waits = b.waits \ {new} /\ c.defunct = Without(b.defunct, new)
      /\ c.prio = b.prio /\ c.slice = b.slice
      /\ c.timers = b.timers /\ c.lock = b.lock /\ c.current = b.current
      /\ c.switch = b.switch
  BY <1>2, <1>7, <1>8, <1>5, RunningIs
<1> HIDE DEF c
<1>10. new \notin q.waits /\ new \notin ToSet(q.defunct)
  BY <1>2 DEF Lists
<1>11. c.waits = q.waits /\ c.defunct = q.defunct
  <2>1. q.defunct \in Seq(Threads) /\ IsInjective(q.defunct)
    BY KernelHas DEF Lists
  <2> QED BY <1>8, <1>9, <1>10, <2>1, WithoutIs
<1>12. c.stat = [t \in Threads |-> IF t = new THEN "RUNNING"
                                   ELSE IF t = old /\ runs THEN "READY"
                                   ELSE q.stat[t]]
  <2>1. q.stat \in [Threads -> Stats] /\ c.stat = [b.stat EXCEPT ![new] = "RUNNING"]
    BY <1>9, KernelHas
  <2>2. CASE runs
    <3>1. b.stat = [q.stat EXCEPT ![old] = "READY"]
      BY <1>8, <2>2
    <3> QED BY <1>2, <2>1, <2>2, <3>1
  <2>3. CASE ~runs
    <3>1. b.stat = q.stat
      BY <1>8, <2>3
    <3> QED BY <1>2, <2>1, <2>3, <3>1
  <2> QED BY <2>2, <2>3
<1>13. /\ sw \in [pending : BOOLEAN, from : Threads \cup {Nobody}, to : Threads]
       /\ r = [c EXCEPT !.switch = sw]
  <2>1. q.switch \in [pending : BOOLEAN, from : Threads \cup {Nobody}, to : Threads]
        /\ c.switch = q.switch
    BY <1>8, <1>9, KernelHas
  <2> QED BY <1>2, <1>3, <2>1 DEF Switched
<1> HIDE DEF sw
<1>14. /\ r \in Kernel /\ r.ready = c.ready /\ r.group = c.group /\ r.prio = c.prio
       /\ r.stat = c.stat /\ r.waits = c.waits /\ r.defunct = c.defunct
  <2>1. r \in Kernel
    BY <1>9, <1>13 DEF Kernel
  <2>2. /\ r.ready = c.ready /\ r.group = c.group /\ r.prio = c.prio
        /\ r.stat = c.stat /\ r.waits = c.waits /\ r.defunct = c.defunct
    BY <1>9, <1>13 DEF Kernel
  <2> QED BY <2>1, <2>2
<1>15. /\ r.slice = c.slice /\ r.timers = c.timers /\ r.lock = c.lock
       /\ r.current = c.current /\ r.switch = sw
  BY <1>9, <1>13 DEF Kernel
<1>16. Rows(r) /\ Queue(r) = Queue(c)
  BY <1>9, <1>14, SameLists
<1>17. r.current = new
  BY <1>8, <1>9, <1>15
<1>18. Moves(q, r)
  <2>1. /\ r.stat = [t \in Threads |-> IF t = new THEN "RUNNING"
                                       ELSE IF t = old /\ runs THEN "READY"
                                       ELSE q.stat[t]]
        /\ Queue(r) = (Queue(q) \cup (IF runs THEN {old} ELSE {})) \ {new}
        /\ r.switch = sw
    BY <1>8, <1>9, <1>12, <1>14, <1>15, <1>16
  <2>2. /\ r.waits = q.waits /\ r.timers = q.timers /\ r.defunct = q.defunct
        /\ r.prio = q.prio /\ r.slice = q.slice /\ r.lock = q.lock
    BY <1>8, <1>9, <1>11, <1>14, <1>15
  <2> QED BY <1>1, <1>2, <1>17, <2>1, <2>2 DEF Moves, sw
<1> QED BY <1>1, <1>2, <1>14, <1>16, <1>17, <1>18

\* rt_schedule keeps the lists, and unless the scheduler is locked the most
\* urgent of the ready threads is current after it.
LEMMA ScheduleIs ==
    ASSUME NEW q \in Kernel, NEW V, Lists(q, V), NEW r, r = Schedule(q)
    PROVE  /\ r \in Kernel /\ Moves(q, r) /\ Lists(r, V)
           /\ q.lock = 0 => Leads(r, V)
<1>0. q.current \in Threads /\ Queue(q) \subseteq Threads /\ q.stat \in [Threads -> Stats]
  BY KernelHas DEF Queue
<1>1. /\ r \in Kernel /\ Rows(r) /\ Moves(q, r)
      /\ q.lock = 0 => r.stat[r.current] = "RUNNING"
      /\ q.lock = 0 => \A t \in Queue(r) : r.prio[r.current] <= r.prio[t]
  <2>1. CASE ~ (q.lock = 0 /\ q.group # {})
    <3>1. r = q
      BY <2>1 DEF Schedule
    <3>2. r \in Kernel /\ Rows(r) /\ Moves(q, r)
      BY <3>1 DEF Moves, Lists
    <3>3. CASE q.lock = 0
      <4>1. Queue(q) = {}
        BY <2>1, <3>3, QueuedHasBit DEF Lists
      <4>2. Idle \in Threads
        BY SchedulerAssumption DEF SchedulerAssumption
      <4>3. q.current = Idle /\ q.stat[q.current] = "RUNNING"
        BY <4>1, <4>2 DEF Lists
      <4> QED BY <3>1, <3>2, <4>1, <4>3
    <3>4. CASE q.lock # 0
      BY <3>2, <3>4
    <3> QED BY <3>3, <3>4
  <2>2. CASE q.lock = 0 /\ q.group # {}
    <3>1. r = Chosen(q)
      BY <2>2 DEF Schedule
    <3>2. \A t \in Queue(q) : Highest(q) <= q.prio[t]
      BY <2>2, HighestIs DEF Lists
    <3>3. CASE Stays(q)
      <4>1. r \in Kernel /\ Rows(r) /\ Moves(q, r) /\ r.current = q.current
        BY <2>2, <3>1, <3>3, ChosenStays
      <4>2. /\ q.prio[q.current] <= Highest(q) /\ q.stat[q.current] = "RUNNING"
            /\ q.prio[q.current] \in Nat /\ Highest(q) \in Nat /\ \A t \in Queue(q) : q.prio[t] \in Nat
        <5>1. Levels \subseteq Nat /\ Highest(q) \in Levels /\ q.prio \in [Threads -> Levels]
          BY <2>2, HighestIs, KernelHas, SchedulerAssumption DEF SchedulerAssumption, Lists
        <5>2. /\ q.prio[q.current] \in Nat /\ Highest(q) \in Nat
              /\ \A t \in Queue(q) : q.prio[t] \in Nat
          BY <1>0, <5>1
        <5>3. q.stat[q.current] = "RUNNING"
              /\ (q.prio[q.current] < Highest(q) \/ q.prio[q.current] = Highest(q))
          BY <3>3 DEF Stays
        <5> QED BY <5>2, <5>3
      <4>3. r.stat = q.stat /\ Queue(r) = Queue(q) /\ r.prio = q.prio
        BY <4>1 DEF Moves
      <4> QED BY <3>2, <4>1, <4>2, <4>3
    <3>4. CASE ~Stays(q)
      <4>1. r \in Kernel /\ Rows(r) /\ Moves(q, r) /\ r.current # q.current
            /\ q.prio[r.current] = Highest(q)
        BY <2>2, <3>1, <3>4, ChosenSwitches
      <4>2. /\ r.prio = q.prio /\ r.stat[r.current] = "RUNNING"
            /\ Queue(r) \subseteq Queue(q) \cup (IF q.stat[q.current] = "RUNNING" THEN {q.current} ELSE {})
        BY <1>0, <4>1 DEF Moves
      <4>3. q.stat[q.current] = "RUNNING" => Highest(q) <= q.prio[q.current]
        <5>1. Levels \subseteq Nat /\ Highest(q) \in Levels /\ q.prio[q.current] \in Levels
          BY <1>0, <2>2, HighestIs, KernelHas, SchedulerAssumption DEF SchedulerAssumption, Lists
        <5>2. q.prio[q.current] \in Nat /\ Highest(q) \in Nat
          BY <5>1
        <5>3. q.stat[q.current] = "RUNNING" => ~ (q.prio[q.current] < Highest(q))
          BY <3>4 DEF Stays
        <5> QED BY <5>2, <5>3
      <4> QED BY <3>2, <4>1, <4>2, <4>3
    <3> QED BY <3>3, <3>4
  <2> QED BY <2>1, <2>2
<1>2. Lists(r, V)
  <2>1. CASE r.current = q.current
    BY <1>1, <2>1 DEF Lists, Moves
  <2>2. CASE r.current # q.current
    <3> DEFINE runs == q.stat[q.current] = "RUNNING"
    <3>1. /\ r.current \in Queue(q) /\ r.current \in Threads
          /\ Queue(r) = (Queue(q) \cup (IF runs THEN {q.current} ELSE {})) \ {r.current}
          /\ \A t \in Threads : r.stat[t] = IF t = r.current THEN "RUNNING"
                                            ELSE IF t = q.current /\ runs THEN "READY"
                                            ELSE q.stat[t]
          /\ r.waits = q.waits /\ r.timers = q.timers /\ r.defunct = q.defunct
      BY <1>0, <1>1, <2>2 DEF Moves
    <3>2. q.stat[r.current] = "READY"
      BY <3>1 DEF Lists
    <3>3. /\ \A t \in Queue(r) : r.stat[t] = "READY"
          /\ \A t \in Threads \ V : r.stat[t] = "READY" => t \in Queue(r)
      BY <1>0, <3>1 DEF Lists
    <3>4. \A t \in r.timers \cup r.waits : r.stat[t] = "SUSPEND"
      <4>1. q.timers \cup q.waits \subseteq Threads
        BY KernelHas
      <4> QED BY <3>1, <3>2, <4>1 DEF Lists
    <3>5. IsInjective(r.defunct) /\ ToSet(r.defunct) = {t \in Threads : r.stat[t] = "CLOSE"}
      <4>1. \A t \in Threads : r.stat[t] = "CLOSE" <=> q.stat[t] = "CLOSE"
        BY <3>1, <3>2
      <4> QED BY <3>1, <4>1 DEF Lists
    <3>6. r.stat[r.current] # "READY"
      BY <3>1
    <3>7. r.stat[Idle] = IF r.current = Idle THEN "RUNNING" ELSE "READY"
      <4>1. Idle \in Threads
        BY SchedulerAssumption DEF SchedulerAssumption
      <4> QED BY <2>2, <3>1, <4>1 DEF Lists
    <3> QED BY <1>1, <3>3, <3>4, <3>5, <3>6, <3>7 DEF Lists
  <2> QED BY <2>1, <2>2
<1>3. q.lock = 0 => Leads(r, V)
  BY <1>1, <1>2 DEF Leads, Lists
<1> QED BY <1>1, <1>2, <1>3

(***************************************************************************)
(* The kernel q together with the calls f that the threads are in and the  *)
(* thread c whose registers the CPU holds.                                 *)
(***************************************************************************)
Calling == [at : {"run", "schedule", "delete", "clean"}, of : Threads \cup {Nobody}]
Procs   == [Threads -> Calling]

VictimsOf(f) == {f[t].of : t \in {u \in Threads : f[u].at = "delete"}}

\* The victim of another thread is off every list and cannot become current: it
\* is named in no other call.  One that deletes itself may still be preempted.
Doomed(q, f, t) ==
    LET u == f[t].of
    IN  /\ u \in Threads \ {Idle}
        /\ q.stat[t] \notin {"INIT", "CLOSE", "FREE"} /\ q.stat[u] \notin {"CLOSE", "FREE"}
        /\ u # t => u \notin Queue(q) \cup q.waits \cup q.timers \cup {q.current} /\ f[u].at # "delete"
        /\ u = t => q.stat[t] \in {"RUNNING", "READY"} /\ (t = q.current => q.lock = 0)
Deletions(q, f) ==
    /\ \A t \in Threads : f[t].at = "delete" => Doomed(q, f, t)
    /\ \A t, u \in Threads : f[t].at = "delete" /\ f[u].at = "delete" /\ f[t].of = f[u].of => t = u
    /\ f[Idle].at = "clean" => f[Idle].of \in Threads /\ q.stat[f[Idle].of] = "CLOSE"

\* The current thread runs, or it has gone to sleep or ended and rt_schedule is next.
Ongoing(q, f) ==
    \/ q.stat[q.current] = "RUNNING"
    \/ f[q.current].at = "schedule" /\ q.lock = 0 /\ q.stat[q.current] # "FREE"

Contexts(q, c) ==
    /\ IF q.switch.pending THEN q.switch.from = c /\ q.switch.to = q.current ELSE c = q.current
    /\ c # Nobody => q.stat[c] # "FREE"

Sliced(q) == q.lock \in 0 .. LockMax /\ \A t \in Threads : q.slice[t] \in 1 .. Slice[t]

Good(q, f, c) ==
    /\ q \in Kernel /\ Sliced(q) /\ Lists(q, VictimsOf(f)) /\ Deletions(q, f)
    /\ Ongoing(q, f) /\ Contexts(q, c)

LEMMA VictimIs ==
    ASSUME NEW f \in Procs, NEW u \in VictimsOf(f)
    PROVE  \E t \in Threads : f[t].at = "delete" /\ f[t].of = u
BY DEF VictimsOf

\* A thread that waits is nobody's victim.
LEMMA SleeperIs ==
    ASSUME NEW f \in Procs, NEW c, NEW q, Good(q, f, c), NEW u \in q.waits \cup q.timers
    PROVE  /\ u \in Threads \ {Idle} /\ u \notin VictimsOf(f)
           /\ q.stat[u] = "SUSPEND" /\ u \notin Queue(q)
<1>1. u \in Threads /\ q.stat[u] = "SUSPEND"
  BY KernelHas DEF Good, Lists
<1>2. u # Idle /\ u \notin Queue(q)
  BY <1>1 DEF Good, Lists
<1>3. u \notin VictimsOf(f)
  <2> SUFFICES ASSUME u \in VictimsOf(f) PROVE FALSE
    OBVIOUS
  <2>1. PICK t \in Threads : f[t].at = "delete" /\ f[t].of = u
    BY VictimIs
  <2>2. Doomed(q, f, t)
    BY <2>1 DEF Good, Deletions
  <2> QED BY <1>1, <2>1, <2>2 DEF Doomed
<1> QED BY <1>1, <1>2, <1>3

LEMMA ScheduleGood ==
    ASSUME NEW f \in Procs, NEW c, NEW q, Good(q, f, c), NEW r, r = Schedule(q)
    PROVE  /\ Good(r, f, c) /\ r.stat[r.current] = "RUNNING"
           /\ r.lock = q.lock
           /\ q.lock = 0 => Leads(r, VictimsOf(f))
<1>1. /\ r \in Kernel /\ Moves(q, r) /\ Lists(r, VictimsOf(f))
      /\ q.lock = 0 => Leads(r, VictimsOf(f))
      /\ q \in Kernel
  BY ScheduleIs DEF Good
<1>2. /\ q.current \in Threads /\ r.current \in Threads /\ q.lock \in Nat
      /\ Queue(q) \subseteq Threads /\ \A t \in Queue(q) : q.stat[t] = "READY"
  BY <1>1, KernelHas DEF Queue, Good, Lists
<1>3. r.lock = q.lock /\ r.waits = q.waits /\ r.timers = q.timers /\ r.slice = q.slice
  BY <1>1 DEF Moves
<1>4. Sliced(r)
  BY <1>3 DEF Good, Sliced
<1>5. r.stat[r.current] = "RUNNING"
  <2>1. CASE q.lock = 0
    BY <1>1, <2>1 DEF Leads
  <2>2. CASE q.lock # 0
    BY <1>1, <2>2 DEF Moves, Good, Ongoing
  <2> QED BY <2>1, <2>2
<1>6. CASE r.current = q.current
  <2>1. r.stat = q.stat /\ Queue(r) = Queue(q) /\ r.switch = q.switch
    BY <1>1, <1>6 DEF Moves
  <2>2. Deletions(r, f)
    BY <1>3, <1>6, <2>1 DEF Good, Deletions, Doomed
  <2>3. Contexts(r, c)
    BY <1>6, <2>1 DEF Good, Contexts
  <2> QED BY <1>1, <1>3, <1>4, <1>5, <2>2, <2>3 DEF Good, Ongoing
<1>7. CASE r.current # q.current
  <2> DEFINE runs == q.stat[q.current] = "RUNNING"
  <2>1. /\ q.lock = 0 /\ r.current \in Queue(q)
        /\ Queue(r) \subseteq Queue(q) \cup {q.current}
        /\ \A t \in Threads : r.stat[t] = IF t = r.current THEN "RUNNING"
                                          ELSE IF t = q.current /\ runs THEN "READY"
                                          ELSE q.stat[t]
        /\ r.switch = [pending |-> TRUE,
                       from |-> IF q.switch.pending THEN q.switch.from ELSE q.current,
                       to |-> r.current]
    BY <1>1, <1>2, <1>7 DEF Moves
  <2>2. q.stat[r.current] = "READY"
    BY <1>2, <2>1
  <2>3. \A t \in Threads : /\ q.stat[t] \in {"CLOSE", "FREE", "INIT", "SUSPEND"} => r.stat[t] = q.stat[t]
                           /\ r.stat[t] \in {"CLOSE", "FREE", "INIT", "SUSPEND"} => r.stat[t] = q.stat[t]
    BY <2>1, <2>2
  <2>4. Deletions(r, f)
    <3>1. ASSUME NEW t \in Threads, f[t].at = "delete" PROVE Doomed(r, f, t)
      <4> DEFINE u == f[t].of
      <4>1. Doomed(q, f, t) /\ u \in Threads
        BY <3>1 DEF Good, Deletions, Doomed
      <4>2. r.stat[t] \notin {"INIT", "CLOSE", "FREE"} /\ r.stat[u] \notin {"CLOSE", "FREE"}
        BY <2>3, <4>1 DEF Doomed
      <4>3. u # t => u \notin Queue(r) \cup r.waits \cup r.timers \cup {r.current} /\ f[u].at # "delete"
        BY <1>3, <2>1, <4>1 DEF Doomed
      <4>4. u = t => r.stat[t] \in {"RUNNING", "READY"} /\ (t = r.current => r.lock = 0)
        BY <1>3, <2>1, <4>1 DEF Doomed
      <4> QED BY <4>1, <4>2, <4>3, <4>4 DEF Doomed
    <3>2. f[Idle].at = "clean" => f[Idle].of \in Threads /\ r.stat[f[Idle].of] = "CLOSE"
      BY <2>3 DEF Good, Deletions
    <3> QED BY <3>1, <3>2 DEF Good, Deletions
  <2>5. Contexts(r, c)
    <3>1. c # Nobody => q.stat[c] # "FREE" /\ c \in Threads
      <4>1. q.switch \in [pending : BOOLEAN, from : Threads \cup {Nobody}, to : Threads]
        BY <1>1, KernelHas
      <4> QED BY <1>2, <4>1 DEF Good, Contexts
    <3>2. c # Nobody => r.stat[c] # "FREE"
      BY <2>3, <3>1
    <3> QED BY <2>1, <3>2 DEF Good, Contexts
  <2> QED BY <1>1, <1>3, <1>4, <1>5, <2>4, <2>5 DEF Good, Ongoing
<1> QED BY <1>6, <1>7

\* A thread goes from one place to another in its calls, neither of them in the
\* middle of deleting a thread.
LEMMA CallGood ==
    ASSUME NEW f \in Procs, NEW c, NEW q, Good(q, f, c),
           NEW t \in Threads, NEW x \in Calling, f[t].at # "delete", x.at # "delete",
           q.stat[q.current] = "RUNNING" \/ t # q.current,
           t = Idle /\ x.at = "clean" => x.of \in Threads /\ q.stat[x.of] = "CLOSE",
           NEW g \in Procs, g[t] = x, \A u \in Threads : u # t => g[u] = f[u]
    PROVE  Good(q, g, c) /\ VictimsOf(g) = VictimsOf(f)
<1>1. /\ g[t] = x
      /\ \A u \in Threads : u # t => g[u] = f[u]
  OBVIOUS
<1>2. \A u \in Threads : g[u].at = "delete" <=> f[u].at = "delete"
  BY <1>1
<1>3. \A u \in Threads : f[u].at = "delete" => g[u] = f[u]
  BY <1>1
<1>4. VictimsOf(g) = VictimsOf(f)
  BY <1>2, <1>3 DEF VictimsOf
<1>5. Deletions(q, g)
  <2>1. ASSUME NEW u \in Threads, g[u].at = "delete" PROVE Doomed(q, g, u)
    <3>1. Doomed(q, f, u) /\ g[u] = f[u]
      BY <1>2, <1>3, <2>1 DEF Good, Deletions
    <3> QED BY <1>2, <3>1 DEF Doomed
  <2>2. g[Idle].at = "clean" => g[Idle].of \in Threads /\ q.stat[g[Idle].of] = "CLOSE"
    <3>1. Idle \in Threads
      BY SchedulerAssumption DEF SchedulerAssumption
    <3> QED BY <1>1, <3>1 DEF Good, Deletions
  <2>3. \A v, u \in Threads : g[v].at = "delete" /\ g[u].at = "delete" /\ g[v].of = g[u].of => v = u
    BY <1>2, <1>3 DEF Good, Deletions
  <2> QED BY <2>1, <2>2, <2>3 DEF Deletions
<1>6. Ongoing(q, g)
  <2>1. q.current \in Threads
    BY KernelHas DEF Good
  <2> QED BY <1>1, <2>1 DEF Good, Ongoing
<1> QED BY <1>1, <1>4, <1>5, <1>6 DEF Good

(***************************************************************************)
(* What the calls do to the kernel.                                        *)
(***************************************************************************)
LEMMA ResumedIs ==
    ASSUME NEW q \in Kernel, Rows(q), IsInjective(q.defunct),
           NEW u \in Threads \ Queue(q), u \notin ToSet(q.defunct),
           NEW r, r = Resumed(q, u)
    PROVE  /\ r \in Kernel /\ Rows(r)
           /\ Queue(r) = IF u = q.current THEN Queue(q) ELSE Queue(q) \cup {u}
           /\ r.stat = [q.stat EXCEPT ![u] = IF u = q.current THEN "RUNNING" ELSE "READY"]
           /\ r.waits = q.waits \ {u} /\ r.timers = q.timers \ {u}
           /\ r.defunct = q.defunct /\ r.prio = q.prio /\ r.slice = q.slice
           /\ r.lock = q.lock /\ r.current = q.current /\ r.switch = q.switch
<1> DEFINE a == [Unlinked(q, u) EXCEPT !.timers = @ \ {u}]
<1>1. \A p \in Levels : q.ready[p] \in Seq(Threads) /\ Without(q.ready[p], u) = q.ready[p]
  <2>1. \A p \in Levels : q.ready[p] \in Seq(Threads) /\ IsInjective(q.ready[p]) /\ u \notin ToSet(q.ready[p])
    BY OffLists, KernelHas DEF Rows
  <2> QED BY <2>1, WithoutIs
<1>2. Without(q.defunct, u) = q.defunct
  BY WithoutIs, KernelHas
<1>3. [p \in Levels |-> Without(q.ready[p], u)] = q.ready
  BY <1>1, KernelHas
<1>4. Unlinked(q, u) = [q EXCEPT !.waits = q.waits \ {u}]
  <2>1. Unlinked(q, u) = [q EXCEPT !.ready = q.ready, !.waits = q.waits \ {u}, !.defunct = q.defunct]
    BY <1>2, <1>3, UnlinkedIs
  <2> QED BY <2>1 DEF Kernel
<1>5. a = [q EXCEPT !.waits = q.waits \ {u}, !.timers = q.timers \ {u}]
  BY <1>4 DEF Kernel
<1> HIDE DEF a
<1>6. /\ a \in Kernel /\ a.ready = q.ready /\ a.group = q.group /\ a.prio = q.prio
      /\ a.stat = q.stat /\ a.waits = q.waits \ {u} /\ a.timers = q.timers \ {u}
  <2>1. a \in Kernel
    BY <1>5, KernelHas DEF Kernel
  <2> QED BY <1>5, <2>1 DEF Kernel
<1>7. /\ a.slice = q.slice /\ a.defunct = q.defunct /\ a.lock = q.lock
      /\ a.current = q.current /\ a.switch = q.switch
  BY <1>5 DEF Kernel
<1>8. Rows(a) /\ Queue(a) = Queue(q)
  BY <1>6, SameLists
<1>9. r = Inserted(a, u)
  BY DEF Resumed, a
<1>10. CASE u = q.current
  <2> DEFINE st == [q.stat EXCEPT ![u] = "RUNNING"]
  <2>1. st \in [Threads -> Stats]
    BY KernelHas DEF Stats
  <2>2. r = [a EXCEPT !.stat = st]
    BY <1>6, <1>7, <1>9, <1>10 DEF Inserted, Kernel
  <2> HIDE DEF st
  <2>3. /\ r \in Kernel /\ (Rows(a) => Rows(r)) /\ Queue(r) = Queue(a)
        /\ r.stat = st /\ r.waits = a.waits /\ r.defunct = a.defunct
        /\ r.prio = a.prio /\ r.slice = a.slice
        /\ r.timers = a.timers /\ r.lock = a.lock /\ r.current = a.current
        /\ r.switch = a.switch
    BY <1>6, <2>1, <2>2, StatSet
  <2> QED BY <1>6, <1>7, <1>8, <1>10, <2>3 DEF st
<1>11. CASE u # q.current
  <2>1. u \in Threads \ Queue(a) /\ u # a.current
    BY <1>7, <1>8, <1>11
  <2>2. /\ r \in Kernel /\ Rows(r) /\ Queue(r) = Queue(a) \cup {u}
        /\ r.stat = [a.stat EXCEPT ![u] = "READY"]
        /\ r.waits = a.waits /\ r.defunct = a.defunct
        /\ r.prio = a.prio /\ r.slice = a.slice
        /\ r.timers = a.timers /\ r.lock = a.lock /\ r.current = a.current
        /\ r.switch = a.switch
    BY <1>6, <1>8, <1>9, <2>1, InsertedIs
  <2> QED BY <1>6, <1>7, <1>8, <1>11, <2>2
<1> QED BY <1>10, <1>11

LEMMA ResumedGood ==
    ASSUME NEW f \in Procs, NEW c, NEW q, Good(q, f, c),
           NEW u \in Threads \ {Idle}, u \notin VictimsOf(f), q.stat[u] = "SUSPEND",
           NEW r, r = Resumed(q, u)
    PROVE  Good(r, f, c) /\ r.switch = q.switch
<1>0. /\ q \in Kernel /\ q.current \in Threads /\ q.stat \in [Threads -> Stats]
      /\ u \notin Queue(q) /\ u \notin ToSet(q.defunct)
  BY KernelHas DEF Good, Lists
<1>1. /\ r \in Kernel /\ Rows(r)
      /\ Queue(r) = IF u = q.current THEN Queue(q) ELSE Queue(q) \cup {u}
      /\ r.stat = [q.stat EXCEPT ![u] = IF u = q.current THEN "RUNNING" ELSE "READY"]
      /\ r.waits = q.waits \ {u} /\ r.timers = q.timers \ {u}
      /\ r.defunct = q.defunct /\ r.prio = q.prio /\ r.slice = q.slice
      /\ r.lock = q.lock /\ r.current = q.current /\ r.switch = q.switch
  BY <1>0, ResumedIs DEF Good, Lists
<1>2. \A t \in Threads : r.stat[t] = IF t # u THEN q.stat[t]
                                     ELSE IF u = q.current THEN "RUNNING" ELSE "READY"
  BY <1>0, <1>1
<1>3. Lists(r, VictimsOf(f))
  <2>1. /\ \A t \in Queue(r) : r.stat[t] = "READY"
        /\ \A t \in Threads \ VictimsOf(f) : r.stat[t] = "READY" => t \in Queue(r)
    <3>1. Queue(q) \subseteq Threads
      BY DEF Queue
    <3> QED BY <1>0, <1>1, <1>2, <3>1 DEF Good, Lists
  <2>2. \A t \in r.timers \cup r.waits : r.stat[t] = "SUSPEND"
    <3>1. q.timers \cup q.waits \subseteq Threads
      BY <1>0, KernelHas
    <3> QED BY <1>1, <1>2, <3>1 DEF Good, Lists
  <2>3. IsInjective(r.defunct) /\ ToSet(r.defunct) = {t \in Threads : r.stat[t] = "CLOSE"}
    BY <1>1, <1>2 DEF Good, Lists
  <2>4. r.stat[r.current] # "READY"
    BY <1>0, <1>1, <1>2 DEF Good, Lists
  <2>5. r.stat[Idle] = (IF r.current = Idle THEN "RUNNING" ELSE "READY") /\ Idle \notin VictimsOf(f)
    BY <1>1, <1>2, SchedulerAssumption DEF Good, Lists, SchedulerAssumption
  <2> QED BY <1>1, <2>1, <2>2, <2>3, <2>4, <2>5 DEF Lists
<1>4. Deletions(r, f)
  <2>1. ASSUME NEW t \in Threads, f[t].at = "delete" PROVE Doomed(r, f, t)
    <3>1. Doomed(q, f, t) /\ f[t].of \in Threads /\ f[t].of # u
      BY <2>1 DEF Good, Deletions, Doomed, VictimsOf
    <3> QED BY <1>1, <1>2, <3>1 DEF Doomed
  <2> QED BY <1>2, <2>1 DEF Good, Deletions
<1>5. Contexts(r, c) /\ Ongoing(r, f) /\ Sliced(r)
  <2>1. c # Nobody => r.stat[c] # "FREE"
    <3>1. c # Nobody => c \in Threads
      <4>1. q.switch \in [pending : BOOLEAN, from : Threads \cup {Nobody}, to : Threads]
        BY <1>0, KernelHas
      <4> QED BY <1>0, <4>1 DEF Good, Contexts
    <3> QED BY <1>2, <3>1 DEF Good, Contexts
  <2> QED BY <1>0, <1>1, <1>2, <2>1 DEF Good, Contexts, Ongoing, Sliced
<1> QED BY <1>1, <1>3, <1>4, <1>5 DEF Good

\* The yield bit, the slice and the lock are no matter of the lists.
LEMMA SameGood ==
    ASSUME NEW f \in Procs, NEW c, NEW q, Good(q, f, c), NEW r \in Kernel, Sliced(r),
           r.stat = q.stat, r.prio = q.prio, r.ready = q.ready, r.group = q.group,
           r.waits = q.waits, r.timers = q.timers, r.defunct = q.defunct,
           r.current = q.current, r.switch = q.switch,
           \/ r.lock = q.lock
           \/ q.stat[q.current] = "RUNNING" /\ f[q.current].at # "delete"
    PROVE  Good(r, f, c) /\ \A V : Leads(q, V) => Leads(r, V)
<1>1. Queue(r) = Queue(q) /\ Rows(r)
  BY SameLists DEF Good, Lists
<1>2. Lists(r, VictimsOf(f)) /\ Contexts(r, c) /\ Ongoing(r, f)
  BY <1>1 DEF Good, Lists, Contexts, Ongoing
<1>3. Deletions(r, f)
  BY <1>1 DEF Good, Deletions, Doomed
<1> QED BY <1>2, <1>3 DEF Good, Leads

\* A thread that goes to sleep or waits: W is who joins a wait list, T whose timer starts.
AtMost(S, t) == S \in SUBSET {t}
Slept(q, t, W, T) == [Suspended(q, t) EXCEPT !.waits = @ \cup W, !.timers = @ \cup T]

LEMMA SuspendedGood ==
    ASSUME NEW f \in Procs, NEW c, NEW q, Good(q, f, c),
           NEW t, t = q.current, t # Idle, q.stat[t] = "RUNNING", q.lock = 0,
           f[t].at = "schedule", NEW W, NEW T, AtMost(W, t), AtMost(T, t),
           NEW r, r = Slept(q, t, W, T)
    PROVE  Good(r, f, c) /\ r.switch = q.switch
<1>0. /\ q \in Kernel /\ t \in Threads /\ q.stat \in [Threads -> Stats]
      /\ t \notin Queue(q) /\ t \notin ToSet(q.defunct) /\ t \notin q.waits /\ t \notin q.timers
      /\ q.defunct \in Seq(Threads) /\ IsInjective(q.defunct) /\ Rows(q)
      /\ q.waits \subseteq Threads /\ q.timers \subseteq Threads
      /\ W \in SUBSET {t} /\ T \in SUBSET {t}
  BY KernelHas DEF Good, Lists, AtMost
<1> DEFINE a  == Removed(q, t)
           st == [q.stat EXCEPT ![t] = "SUSPEND"]
<1>1. /\ a \in Kernel /\ Rows(a) /\ Queue(a) = Queue(q) \ {t}
      /\ a.waits = q.waits \ {t} /\ a.defunct = Without(q.defunct, t)
      /\ a.stat = q.stat /\ a.prio = q.prio /\ a.slice = q.slice
      /\ a.timers = q.timers /\ a.lock = q.lock /\ a.current = q.current
      /\ a.switch = q.switch
  BY <1>0, RemovedIs
<1> HIDE DEF a
<1>2. a.defunct = q.defunct /\ Queue(a) = Queue(q) /\ a.waits = q.waits
  BY <1>0, <1>1, WithoutIs
<1>3. r = [a EXCEPT !.stat = st, !.waits = q.waits \cup W, !.timers = q.timers \cup T]
  <2>1. Suspended(q, t) = [a EXCEPT !.stat = st, !.timers = q.timers]
    <3>1. Suspended(q, t) = [a EXCEPT !.stat[t] = "SUSPEND", !.timers = @ \ {t}]
      BY DEF Suspended, a
    <3>2. a.timers \ {t} = q.timers
      BY <1>0, <1>1
    <3>3. Suspended(q, t) = [a EXCEPT !.stat = st, !.timers = a.timers \ {t}]
      BY <1>1, <3>1 DEF Kernel
    <3> QED BY <3>2, <3>3
  <2> QED BY <1>1, <1>2, <2>1 DEF Slept, Kernel
<1>4. st \in [Threads -> Stats]
  BY <1>0 DEF Stats
<1> HIDE DEF st
<1>5. r \in Kernel
  <2>1. q.waits \cup W \in SUBSET Threads /\ q.timers \cup T \in SUBSET Threads
    BY <1>0
  <2> QED BY <1>1, <1>3, <1>4, <2>1 DEF Kernel
<1>6. /\ r.stat = st /\ r.waits = q.waits \cup W /\ r.timers = q.timers \cup T
      /\ r.prio = a.prio /\ r.ready = a.ready /\ r.group = a.group /\ r.defunct = a.defunct
  BY <1>1, <1>3 DEF Kernel
<1>7. r.slice = a.slice /\ r.lock = a.lock /\ r.current = a.current /\ r.switch = a.switch
  BY <1>1, <1>3 DEF Kernel
<1>8. Rows(r) /\ Queue(r) = Queue(q)
  BY <1>1, <1>2, <1>5, <1>6, SameLists
<1>9. \A u \in Threads : r.stat[u] = IF u = t THEN "SUSPEND" ELSE q.stat[u]
  BY <1>0, <1>6 DEF st
<1>10. Lists(r, VictimsOf(f))
  <2>1. /\ \A u \in Queue(r) : r.stat[u] = "READY"
        /\ \A u \in Threads \ VictimsOf(f) : r.stat[u] = "READY" => u \in Queue(r)
    <3>1. Queue(q) \subseteq Threads
      BY DEF Queue
    <3> QED BY <1>0, <1>8, <1>9, <3>1 DEF Good, Lists
  <2>2. \A u \in r.timers \cup r.waits : r.stat[u] = "SUSPEND"
    BY <1>0, <1>6, <1>9 DEF Good, Lists
  <2>3. IsInjective(r.defunct) /\ ToSet(r.defunct) = {u \in Threads : r.stat[u] = "CLOSE"}
    <3>1. \A u \in Threads : r.stat[u] = "CLOSE" <=> q.stat[u] = "CLOSE"
      BY <1>9
    <3> QED BY <1>2, <1>6, <3>1 DEF Good, Lists
  <2>4. r.stat[r.current] # "READY"
    BY <1>0, <1>1, <1>7, <1>9
  <2>5. r.stat[Idle] = (IF r.current = Idle THEN "RUNNING" ELSE "READY") /\ Idle \notin VictimsOf(f)
    BY <1>1, <1>7, <1>9, SchedulerAssumption DEF Good, Lists, SchedulerAssumption
  <2> QED BY <1>8, <2>1, <2>2, <2>3, <2>4, <2>5 DEF Lists
<1>11. Deletions(r, f)
  <2>1. ASSUME NEW v \in Threads, f[v].at = "delete" PROVE Doomed(r, f, v)
    <3>1. Doomed(q, f, v) /\ f[v].of \in Threads /\ f[v].of # t /\ v # t
      BY <2>1 DEF Good, Deletions, Doomed
    <3>2. r.stat[v] = q.stat[v] /\ r.stat[f[v].of] = q.stat[f[v].of]
      BY <1>9, <3>1
    <3>3. r.waits \subseteq q.waits \cup {t} /\ r.timers \subseteq q.timers \cup {t}
      BY <1>0, <1>6
    <3> QED BY <1>1, <1>7, <1>8, <3>1, <3>2, <3>3 DEF Doomed
  <2> QED BY <1>0, <1>9, <2>1 DEF Good, Deletions
<1>12. Contexts(r, c) /\ Ongoing(r, f) /\ Sliced(r)
  <2>1. c # Nobody => r.stat[c] # "FREE"
    <3>1. c # Nobody => c \in Threads
      <4>1. q.switch \in [pending : BOOLEAN, from : Threads \cup {Nobody}, to : Threads]
        BY <1>0, KernelHas
      <4> QED BY <1>0, <4>1 DEF Good, Contexts
    <3> QED BY <1>9, <3>1 DEF Good, Contexts
  <2> QED BY <1>0, <1>1, <1>7, <1>9, <2>1 DEF Good, Contexts, Ongoing, Sliced
<1> QED BY <1>1, <1>5, <1>7, <1>10, <1>11, <1>12 DEF Good

LEMMA ContextIs ==
    ASSUME NEW c, NEW q \in Kernel, Contexts(q, c)
    PROVE  c # Nobody => c \in Threads
<1>1. q.switch \in [pending : BOOLEAN, from : Threads \cup {Nobody}, to : Threads]
      /\ q.current \in Threads
  BY KernelHas
<1> QED BY <1>1 DEF Contexts

\* The priorities may change as long as every list keeps to its own.
LEMMA QueueGood ==
    ASSUME NEW f \in Procs, NEW c, NEW q, Good(q, f, c),
           NEW r \in Kernel, Rows(r), Queue(r) = Queue(q),
           r.stat = q.stat, r.waits = q.waits, r.timers = q.timers, r.defunct = q.defunct,
           r.current = q.current, r.switch = q.switch, r.lock = q.lock, r.slice = q.slice
    PROVE  Good(r, f, c)
<1>1. Lists(r, VictimsOf(f)) /\ Contexts(r, c) /\ Ongoing(r, f) /\ Sliced(r)
  BY DEF Good, Lists, Contexts, Ongoing, Sliced
<1>2. Deletions(r, f)
  BY DEF Good, Deletions, Doomed
<1> QED BY <1>1, <1>2 DEF Good

Ranked(q, u, p) == [q EXCEPT !.prio[u] = p]

LEMMA PrioSet ==
    ASSUME NEW q \in Kernel, Rows(q), NEW u \in Threads \ Queue(q), NEW p \in Levels,
           NEW r, r = Ranked(q, u, p)
    PROVE  /\ r \in Kernel /\ Rows(r) /\ Queue(r) = Queue(q)
           /\ r.stat = q.stat /\ r.waits = q.waits /\ r.defunct = q.defunct
           /\ (\A t \in Threads : t # u => r.prio[t] = q.prio[t]) /\ r.slice = q.slice /\ r.timers = q.timers
           /\ r.lock = q.lock /\ r.current = q.current /\ r.switch = q.switch
<1> DEFINE pr == [q.prio EXCEPT ![u] = p]
<1>0. pr \in [Threads -> Levels] /\ pr[u] = p /\ \A t \in Threads : t # u => pr[t] = q.prio[t]
  BY KernelHas
<1>1. r = [q EXCEPT !.prio = pr]
  BY DEF Ranked, Kernel
<1> HIDE DEF pr
<1>2. r \in Kernel
  BY <1>0, <1>1 DEF Kernel
<1>3. /\ r.stat = q.stat /\ r.waits = q.waits /\ r.defunct = q.defunct
      /\ r.prio = pr /\ r.slice = q.slice /\ r.timers = q.timers
  BY <1>1 DEF Kernel
<1>4. /\ r.lock = q.lock /\ r.current = q.current /\ r.switch = q.switch
      /\ r.ready = q.ready /\ r.group = q.group
  BY <1>1 DEF Kernel
<1>5. \A o \in Levels : u \notin ToSet(q.ready[o]) /\ ToSet(q.ready[o]) \subseteq Threads
  BY OffLists, KernelHas, ToSetIn
<1>6. Rows(r)
  BY <1>0, <1>3, <1>4, <1>5 DEF Rows
<1>7. Queue(r) = Queue(q)
  <2>1. \A t \in Threads : t \in ToSet(r.ready[r.prio[t]]) <=> t \in ToSet(q.ready[q.prio[t]])
    BY <1>0, <1>3, <1>4, <1>5, KernelHas
  <2> QED BY <2>1 DEF Queue
<1> QED BY <1>0, <1>2, <1>3, <1>4, <1>6, <1>7

\* Unlinking what is on no list changes at most the defunct list.
LEMMA UnlinkedSame ==
    ASSUME NEW q \in Kernel, Rows(q), IsInjective(q.defunct),
           NEW t \in Threads \ Queue(q), t \notin q.waits
    PROVE  Unlinked(q, t) = [q EXCEPT !.defunct = Without(q.defunct, t)]
<1>1. \A p \in Levels : q.ready[p] \in Seq(Threads) /\ Without(q.ready[p], t) = q.ready[p]
  <2>1. \A p \in Levels : q.ready[p] \in Seq(Threads) /\ IsInjective(q.ready[p]) /\ t \notin ToSet(q.ready[p])
    BY OffLists, KernelHas DEF Rows
  <2> QED BY <2>1, WithoutIs
<1>2. [p \in Levels |-> Without(q.ready[p], t)] = q.ready
  BY <1>1, KernelHas
<1>3. q.waits \ {t} = q.waits
  OBVIOUS
<1> DEFINE d == Without(q.defunct, t)
<1>4. Unlinked(q, t) = [q EXCEPT !.ready = q.ready, !.waits = q.waits, !.defunct = d]
  <2>1. Unlinked(q, t) = [q EXCEPT !.ready = [p \in Levels |-> Without(q.ready[p], t)],
                                  !.waits = q.waits \ {t}, !.defunct = d]
    BY DEF Unlinked, Kernel
  <2> QED BY <1>2, <1>3, <2>1
<1> HIDE DEF d
<1>5. Unlinked(q, t) = [q EXCEPT !.defunct = d]
  BY <1>4 DEF Kernel
<1> QED BY <1>5 DEF d

\* Removing what is on no list changes nothing.
LEMMA RemovedSame ==
    ASSUME NEW q \in Kernel, Rows(q), IsInjective(q.defunct),
           NEW t \in Threads \ Queue(q), t \notin q.waits, t \notin ToSet(q.defunct)
    PROVE  Removed(q, t) = q
<1>2. Without(q.defunct, t) = q.defunct
  BY WithoutIs, KernelHas
<1>5. Unlinked(q, t) = q
  <2>1. Unlinked(q, t) = [q EXCEPT !.defunct = q.defunct]
    BY <1>2, UnlinkedSame
  <2> QED BY <2>1 DEF Kernel
<1>6. (IF q.ready[q.prio[t]] = <<>> THEN q.group \ {q.prio[t]} ELSE q.group) = q.group
  <2>1. q.prio[t] \in Levels
    BY KernelHas
  <2>2. q.ready[q.prio[t]] = <<>> => q.prio[t] \notin q.group
    BY <2>1 DEF Rows
  <2> QED BY <2>2
<1>7. Removed(q, t) = [q EXCEPT !.group = q.group]
  BY <1>5, <1>6 DEF Removed
<1> QED BY <1>5, <1>7 DEF Kernel

\* A new or a started thread: it was and is on no list.
LEMMA FreshGood ==
    ASSUME NEW f \in Procs, NEW c, NEW q, Good(q, f, c),
           NEW u \in Threads \ VictimsOf(f), q.stat[u] \in {"INIT", "FREE"},
           u # q.current, u # c, f[u].at # "delete",
           NEW x \in {"INIT", "SUSPEND"},
           NEW r \in Kernel, Rows(r), Queue(r) = Queue(q), Sliced(r),
           \A t \in Threads : r.stat[t] = IF t = u THEN x ELSE q.stat[t],
           r.waits = q.waits, r.timers = q.timers, r.defunct = q.defunct,
           r.current = q.current, r.switch = q.switch, r.lock = q.lock
    PROVE  Good(r, f, c)
<1>0. /\ q \in Kernel /\ q.current \in Threads /\ q.stat \in [Threads -> Stats]
      /\ u \notin Queue(q) /\ u # Idle /\ Queue(q) \subseteq Threads
      /\ q.timers \cup q.waits \subseteq Threads /\ u \notin q.timers \cup q.waits
  BY KernelHas DEF Good, Lists, Queue
<1>1. \A t \in Threads : r.stat[t] = IF t = u THEN x ELSE q.stat[t]
  OBVIOUS
<1>2. Lists(r, VictimsOf(f))
  <2>1. /\ \A t \in Queue(r) : r.stat[t] = "READY"
        /\ \A t \in Threads \ VictimsOf(f) : r.stat[t] = "READY" => t \in Queue(r)
        /\ \A t \in r.timers \cup r.waits : r.stat[t] = "SUSPEND"
    BY <1>0, <1>1 DEF Good, Lists
  <2>2. IsInjective(r.defunct) /\ ToSet(r.defunct) = {t \in Threads : r.stat[t] = "CLOSE"}
    <3>1. \A t \in Threads : r.stat[t] = "CLOSE" <=> q.stat[t] = "CLOSE"
      BY <1>1
    <3> QED BY <3>1 DEF Good, Lists
  <2>3. r.stat[r.current] # "READY"
    BY <1>0, <1>1 DEF Good, Lists
  <2>4. r.stat[Idle] = (IF r.current = Idle THEN "RUNNING" ELSE "READY") /\ Idle \notin VictimsOf(f)
    BY <1>0, <1>1, SchedulerAssumption DEF Good, Lists, SchedulerAssumption
  <2> QED BY <2>1, <2>2, <2>3, <2>4 DEF Lists
<1>3. Deletions(r, f)
  <2>1. ASSUME NEW t \in Threads, f[t].at = "delete" PROVE Doomed(r, f, t)
    <3>1. Doomed(q, f, t) /\ f[t].of \in Threads /\ f[t].of # u /\ t # u
      BY <2>1 DEF Good, Deletions, Doomed, VictimsOf
    <3>2. r.stat[t] = q.stat[t] /\ r.stat[f[t].of] = q.stat[f[t].of]
      BY <1>1, <3>1
    <3> QED BY <3>1, <3>2 DEF Doomed
  <2> QED BY <1>1, <2>1 DEF Good, Deletions
<1>4. Contexts(r, c) /\ Ongoing(r, f)
  <2>1. c # Nobody => r.stat[c] # "FREE"
    BY <1>0, <1>1, ContextIs DEF Good, Contexts
  <2> QED BY <1>0, <1>1, <2>1 DEF Good, Contexts, Ongoing
<1> QED BY <1>2, <1>3, <1>4 DEF Good

\* The end of a thread that is on no list.
LEMMA ClosedGood ==
    ASSUME NEW f \in Procs, NEW c, NEW q \in Kernel, NEW u \in Threads \ {Idle},
           Lists(q, VictimsOf(f) \cup {u}), Deletions(q, f), Ongoing(q, f), Contexts(q, c), Sliced(q),
           u \notin VictimsOf(f), f[u].at # "delete",
           u \notin Queue(q), u \notin q.waits, q.stat[u] \notin {"CLOSE", "FREE"},
           u = q.current => f[u].at = "schedule" /\ q.lock = 0,
           NEW r, r = Closed(q, u)
    PROVE  /\ Good(r, f, c) /\ r.prio = q.prio
           /\ r.switch = q.switch /\ r.lock = q.lock /\ r.current = q.current
           /\ \A t \in Threads : r.stat[t] = IF t = u THEN "CLOSE" ELSE q.stat[t]
<1> DEFINE st == [q.stat EXCEPT ![u] = "CLOSE"]
           d  == <<u>> \o q.defunct
<1>0. /\ q.current \in Threads /\ q.stat \in [Threads -> Stats] /\ Queue(q) \subseteq Threads
      /\ q.timers \subseteq Threads /\ q.waits \subseteq Threads /\ q.yields \subseteq Threads
      /\ q.defunct \in Seq(Threads) /\ IsInjective(q.defunct)
      /\ u \notin ToSet(q.defunct)
  BY KernelHas DEF Lists, Queue
<1>1. d \in Seq(Threads) /\ IsInjective(d) /\ ToSet(d) = ToSet(q.defunct) \cup {u}
  BY <1>0, ConsOf
<1>2. st \in [Threads -> Stats]
  BY <1>0 DEF Stats
<1>3. r = [q EXCEPT !.timers = q.timers \ {u}, !.stat = st, !.yields = q.yields \ {u}, !.defunct = d]
  BY DEF Closed, Kernel
<1> HIDE DEF st, d
<1>4. r \in Kernel
  <2>1. q.timers \ {u} \in SUBSET Threads /\ q.yields \ {u} \in SUBSET Threads
    BY <1>0
  <2> QED BY <1>1, <1>2, <1>3, <2>1 DEF Kernel
<1>5. /\ r.stat = st /\ r.waits = q.waits /\ r.timers = q.timers \ {u} /\ r.defunct = d
      /\ r.prio = q.prio /\ r.ready = q.ready /\ r.group = q.group
  BY <1>3 DEF Kernel
<1>6. r.slice = q.slice /\ r.lock = q.lock /\ r.current = q.current /\ r.switch = q.switch
  BY <1>3 DEF Kernel
<1>7. Rows(r) /\ Queue(r) = Queue(q)
  BY <1>4, <1>5, SameLists DEF Lists
<1>8. \A t \in Threads : r.stat[t] = IF t = u THEN "CLOSE" ELSE q.stat[t]
  BY <1>0, <1>5 DEF st
<1>9. Lists(r, VictimsOf(f))
  <2>1. /\ \A t \in Queue(r) : r.stat[t] = "READY"
        /\ \A t \in Threads \ VictimsOf(f) : r.stat[t] = "READY" => t \in Queue(r)
    BY <1>0, <1>7, <1>8 DEF Lists
  <2>2. \A t \in r.timers \cup r.waits : r.stat[t] = "SUSPEND"
    BY <1>0, <1>5, <1>8 DEF Lists
  <2>3. IsInjective(r.defunct) /\ ToSet(r.defunct) = {t \in Threads : r.stat[t] = "CLOSE"}
    BY <1>1, <1>5, <1>8 DEF Lists
  <2>4. r.stat[r.current] # "READY"
    BY <1>0, <1>6, <1>8 DEF Lists
  <2>5. r.stat[Idle] = (IF r.current = Idle THEN "RUNNING" ELSE "READY") /\ Idle \notin VictimsOf(f)
    BY <1>6, <1>8, SchedulerAssumption DEF Lists, SchedulerAssumption
  <2> QED BY <1>7, <2>1, <2>2, <2>3, <2>4, <2>5 DEF Lists
<1>10. Deletions(r, f)
  <2>1. ASSUME NEW t \in Threads, f[t].at = "delete" PROVE Doomed(r, f, t)
    <3>1. Doomed(q, f, t) /\ f[t].of \in Threads /\ f[t].of # u /\ t # u
      BY <2>1 DEF Deletions, Doomed, VictimsOf
    <3>2. r.stat[t] = q.stat[t] /\ r.stat[f[t].of] = q.stat[f[t].of]
      BY <1>8, <3>1
    <3> QED BY <1>5, <1>6, <1>7, <3>1, <3>2 DEF Doomed
  <2> QED BY <1>8, <2>1 DEF Deletions
<1>11. Contexts(r, c) /\ Ongoing(r, f) /\ Sliced(r)
  <2>1. c # Nobody => r.stat[c] # "FREE"
    BY <1>8, ContextIs DEF Contexts
  <2>2. Ongoing(r, f)
    BY <1>0, <1>6, <1>8 DEF Ongoing
  <2> QED BY <1>6, <2>1, <2>2 DEF Contexts, Sliced
<1> QED BY <1>4, <1>5, <1>6, <1>8, <1>9, <1>10, <1>11 DEF Good

-----------------------------------------------------------------------------
Stages == {"expired", "check", "timers", "woke"}

Inv ==
    /\ pc \in Procs /\ isr \in Seq(Stages) /\ cpu \in Threads \cup {Nobody} /\ outdated \in BOOLEAN
    /\ Good(k, pc, cpu)
    /\ HighestRuns

LEMMA CallsAre ==
    /\ At("run") \in Calling /\ At("schedule") \in Calling
    /\ At("run").at = "run" /\ At("schedule").at = "schedule"
    /\ \A u \in Threads : Deletes(u) \in Calling /\ Cleans(u) \in Calling
                         /\ Deletes(u).at = "delete" /\ Cleans(u).at = "clean"
                         /\ Deletes(u).of = u /\ Cleans(u).of = u
BY DEF At, Deletes, Cleans, Calling

\* What is known when a thread's code runs.
LEMMA RunsIs ==
    ASSUME Inv, NEW t \in Threads, OnCpu(t)
    PROVE  /\ k \in Kernel /\ k.current = t /\ cpu = t /\ t # Nobody /\ ~k.switch.pending /\ isr = <<>>
           /\ pc[t].at # "schedule" => k.stat[t] = "RUNNING"
           /\ pc[t].at # "delete" => t \notin VictimsOf(pc)
<1>1. k.current = t /\ cpu = t /\ ~k.switch.pending /\ isr = <<>> /\ k \in Kernel
  BY DEF OnCpu, Inv, Good, Contexts
<1>2. t # Nobody
  BY SchedulerAssumption DEF SchedulerAssumption
<1>3. pc[t].at # "schedule" => k.stat[t] = "RUNNING"
  BY <1>1 DEF Inv, Good, Ongoing
<1>4. ASSUME t \in VictimsOf(pc) PROVE pc[t].at = "delete"
  <2>1. PICK v \in Threads : pc[v].at = "delete" /\ pc[v].of = t
    BY <1>4, VictimIs DEF Inv
  <2>2. Doomed(k, pc, v)
    BY <2>1 DEF Inv, Good, Deletions
  <2> QED BY <1>1, <2>1, <2>2 DEF Doomed
<1> QED BY <1>1, <1>2, <1>3, <1>4

\* A step that ends with rt_schedule.
LEMMA SchedulesInv ==
    ASSUME Inv, NEW q, Good(q, pc, cpu), Schedules(q), UNCHANGED cpu, isr' \in Seq(Stages),
           \/ UNCHANGED pc
           \/ \E t \in Threads : pc[t].at = "schedule" /\ pc' = [pc EXCEPT ![t] = At("run")]
    PROVE  Inv'
<1>1. k' = Schedule(q) /\ pc \in Procs
  BY DEF Schedules, Inv
<1>2. /\ Good(k', pc, cpu) /\ k'.stat[k'.current] = "RUNNING" /\ k'.lock = q.lock
      /\ q.lock = 0 => Leads(k', VictimsOf(pc))
  BY <1>1, ScheduleGood
<1>3. pc' \in Procs /\ Good(k', pc', cpu) /\ VictimsOf(pc') = VictimsOf(pc)
  <2>1. CASE UNCHANGED pc
    BY <1>1, <1>2, <2>1
  <2>2. ASSUME NEW t \in Threads, pc[t].at = "schedule", pc' = [pc EXCEPT ![t] = At("run")]
        PROVE  pc' \in Procs /\ Good(k', pc', cpu) /\ VictimsOf(pc') = VictimsOf(pc)
    <3> DEFINE x == At("run")
    <3>1. x \in Calling /\ x.at = "run"
      BY CallsAre
    <3>2. pc' = [pc EXCEPT ![t] = x]
      BY <2>2
    <3> HIDE DEF x
    <3>3. pc[t].at # "delete" /\ x.at # "delete" /\ x.at # "clean"
      BY <2>2, <3>1
    <3> DEFINE q1 == k'
               g  == pc'
    <3>4. /\ Good(q1, pc, cpu) /\ q1.stat[q1.current] = "RUNNING"
          /\ g \in Procs /\ g[t] = x /\ \A u \in Threads : u # t => g[u] = pc[u]
      BY <1>1, <1>2, <3>1, <3>2 DEF Procs
    <3> HIDE DEF q1, g
    <3>5. Good(q1, g, cpu) /\ VictimsOf(g) = VictimsOf(pc)
      BY <1>1, <3>1, <3>3, <3>4, CallGood
    <3> QED BY <3>4, <3>5 DEF q1, g
  <2> QED BY <2>1, <2>2
<1>4. HighestRuns'
  BY <1>2, <1>3 DEF HighestRuns, Leads, IsReady, Victims, VictimsOf
<1>5. outdated' \in BOOLEAN
  BY DEF Schedules, Inv
<1> QED BY <1>3, <1>4, <1>5 DEF Inv

\* A step after which the thread still has to call rt_schedule.
LEMMA OwedInv ==
    ASSUME Inv, NEW t \in Threads, OnCpu(t), pc' \in Procs, pc'[t] = At("schedule"),
           Good(k', pc', cpu), k'.switch = k.switch, UNCHANGED <<isr, cpu, outdated>>
    PROVE  Inv'
<1>1. ~k.switch.pending /\ cpu = t /\ t # Nobody
  BY RunsIs
<1>2. Owed'
  BY <1>1 DEF Owed
<1> QED BY <1>2 DEF Inv, HighestRuns

\* A step of a running thread that needs no rt_schedule.
LEMMA QuietInv ==
    ASSUME Inv, NEW t \in Threads, OnCpu(t), pc[t].at # "schedule", pc' \in Procs,
           Good(k', pc', cpu), UNCHANGED <<isr, cpu, outdated>>,
           \/ k'.lock # 0
           \/ k'.lock = k.lock /\ (Leads(k, VictimsOf(pc)) => Leads(k', VictimsOf(pc')))
    PROVE  Inv'
<1>1. cpu = t /\ isr = <<>>
  BY RunsIs
<1>2. ~Owed
  BY <1>1 DEF Owed, At
<1>3. HighestRuns'
  <2>1. k.lock = 0 /\ ~outdated => Leads(k, VictimsOf(pc))
    BY <1>2 DEF Inv, HighestRuns, Leads, IsReady, Victims, VictimsOf
  <2>2. k'.lock = 0 /\ ~outdated' => Leads(k', VictimsOf(pc'))
    BY <2>1
  <2> QED BY <2>2 DEF HighestRuns, Leads, IsReady, Victims, VictimsOf
<1> QED BY <1>3 DEF Inv

LEMMA ThenIs ==
    ASSUME pc \in Procs, NEW t \in Threads, NEW x \in Calling, Then(t, x)
    PROVE  pc' \in Procs /\ pc'[t] = x /\ \A u \in Threads : u # t => pc'[u] = pc[u]
BY DEF Then, Procs

\* A call has begun and will end with rt_schedule.
LEMMA BeginsIs ==
    ASSUME Inv, NEW t \in Threads, Runs(t), Then(t, At("schedule"))
    PROVE  /\ pc' \in Procs /\ pc'[t] = At("schedule") /\ \A u \in Threads : u # t => pc'[u] = pc[u]
           /\ Good(k, pc', cpu) /\ VictimsOf(pc') = VictimsOf(pc)
<1> DEFINE x == At("schedule")
           g == pc'
<1>1. x \in Calling /\ x.at = "schedule" /\ pc \in Procs
  BY CallsAre DEF Inv
<1>2. g \in Procs /\ g[t] = x /\ \A u \in Threads : u # t => g[u] = pc[u]
  BY <1>1, ThenIs
<1>3. OnCpu(t) /\ pc[t].at = "run"
  BY CallsAre DEF Runs
<1>4. k.stat[k.current] = "RUNNING"
  BY <1>3, RunsIs
<1> HIDE DEF x, g
<1>5. Good(k, pc, cpu)
  BY DEF Inv
<1>6. Good(k, g, cpu) /\ VictimsOf(g) = VictimsOf(pc)
  BY <1>1, <1>2, <1>3, <1>4, <1>5, CallGood
<1> QED BY <1>2, <1>6 DEF x, g

LEMMA InvCallSchedules ==
    ASSUME Inv, NEW t \in Threads, CallSchedules(t) PROVE Inv'
<1>1. /\ pc[t].at = "schedule" /\ pc' = [pc EXCEPT ![t] = At("run")]
      /\ Schedules(k) /\ UNCHANGED <<isr, cpu>>
  BY CallsAre DEF CallSchedules, Then
<1>2. Good(k, pc, cpu) /\ isr' \in Seq(Stages)
  BY <1>1 DEF Inv
<1> QED BY <1>1, <1>2, SchedulesInv

LEMMA InvStartup ==
    ASSUME Inv, NEW t \in Threads, NEW u \in Threads, Startup(t, u) PROVE Inv'
<1> DEFINE st == [k.stat EXCEPT ![u] = "SUSPEND"]
           q  == [k EXCEPT !.stat = st, !.yields = k.yields \ {u}]
<1>1. /\ Runs(t) /\ OnCpu(t) /\ Usable(u) /\ k.stat[u] = "INIT"
      /\ k' = Resumed([k EXCEPT !.stat[u] = "SUSPEND", !.yields = @ \ {u}], u)
      /\ Then(t, At("schedule")) /\ UNCHANGED <<isr, cpu, outdated>>
  BY DEF Startup, Runs
<1>2. /\ pc' \in Procs /\ pc'[t] = At("schedule") /\ \A v \in Threads : v # t => pc'[v] = pc[v]
      /\ Good(k, pc', cpu) /\ VictimsOf(pc') = VictimsOf(pc)
  BY <1>1, BeginsIs
<1>3. /\ k \in Kernel /\ k.current = t /\ cpu = t /\ k.stat[t] = "RUNNING"
  BY <1>1, RunsIs, CallsAre DEF Runs
<1>4. u # t /\ u # Idle /\ u \notin VictimsOf(pc')
  BY <1>1, <1>2, <1>3 DEF Usable, Victims, VictimsOf
<1>5. k' = Resumed(q, u)
  BY <1>1, <1>3 DEF Kernel
<1>6. st \in [Threads -> Stats] /\ k.yields \ {u} \in SUBSET Threads
  BY <1>3, KernelHas DEF Stats
<1> HIDE DEF st
<1>7. q \in Kernel
  BY <1>3, <1>6 DEF Kernel
<1>8. /\ q.stat = st /\ q.waits = k.waits /\ q.timers = k.timers /\ q.defunct = k.defunct
      /\ q.prio = k.prio /\ q.ready = k.ready /\ q.group = k.group
  BY <1>3 DEF Kernel
<1>9. q.slice = k.slice /\ q.lock = k.lock /\ q.current = k.current /\ q.switch = k.switch
  BY <1>3 DEF Kernel
<1> HIDE DEF q
<1>10. Rows(q) /\ Queue(q) = Queue(k) /\ Sliced(q)
  BY <1>3, <1>7, <1>8, <1>9, SameLists DEF Inv, Good, Lists, Sliced
<1>11. pc'[u].at # "delete"
  <2>1. pc[u].at = "delete" => Doomed(k, pc, u)
    BY DEF Inv, Good, Deletions
  <2>2. pc[u].at # "delete"
    BY <1>1, <2>1 DEF Doomed
  <2> QED BY <1>2, <1>4, <2>2
<1> DEFINE g == pc'
           x == "SUSPEND"
<1>12. /\ g \in Procs /\ Good(k, g, cpu) /\ u \in Threads \ VictimsOf(g)
       /\ k.stat[u] \in {"INIT", "FREE"} /\ u # k.current /\ u # cpu /\ g[u].at # "delete"
       /\ x \in {"INIT", "SUSPEND"}
       /\ \A v \in Threads : q.stat[v] = IF v = u THEN x ELSE k.stat[v]
  BY <1>1, <1>2, <1>3, <1>4, <1>8, <1>11, KernelHas DEF st
<1> HIDE DEF g, x
<1>13. Good(q, g, cpu)
  BY <1>7, <1>8, <1>9, <1>10, <1>12, FreshGood
<1>14. q.stat[u] = "SUSPEND"
  BY <1>3, <1>8, KernelHas DEF st
<1>15. Good(k', g, cpu) /\ k'.switch = q.switch
  BY <1>4, <1>5, <1>12, <1>13, <1>14, ResumedGood DEF g
<1> QED BY <1>1, <1>2, <1>9, <1>15, OwedInv DEF g

LEMMA InvSuspends ==
    ASSUME Inv, NEW t \in Threads \ {Idle}, NEW listed \in BOOLEAN, NEW timed \in BOOLEAN,
           Suspends(t, listed, timed)
    PROVE  Inv'
<1> DEFINE W == IF listed THEN {t} ELSE {}
           T == IF timed THEN {t} ELSE {}
           g == pc'
<1>1. /\ Runs(t) /\ OnCpu(t) /\ k.lock = 0
      /\ k' = [Suspended(k, t) EXCEPT !.waits = IF listed THEN @ \cup {t} ELSE @,
                                      !.timers = IF timed THEN @ \cup {t} ELSE @]
      /\ Then(t, At("schedule")) /\ UNCHANGED <<isr, cpu, outdated>>
  BY DEF Suspends, Runs
<1>2. g \in Procs /\ g[t] = At("schedule") /\ Good(k, g, cpu) /\ g[t].at = "schedule"
  BY <1>1, BeginsIs, CallsAre
<1>3. k.current = t /\ k.stat[t] = "RUNNING"
  BY <1>1, RunsIs, CallsAre DEF Runs
<1>4. k' = Slept(k, t, W, T)
  <2>1. /\ \A s : (IF listed THEN s \cup {t} ELSE s) = s \cup W
        /\ \A s : (IF timed THEN s \cup {t} ELSE s) = s \cup T
    OBVIOUS
  <2> HIDE DEF W, T
  <2> QED BY <1>1, <2>1 DEF Slept
<1>5. AtMost(W, t) /\ AtMost(T, t)
  BY DEF AtMost
<1> DEFINE r == k'
<1>6. /\ g \in Procs /\ Good(k, g, cpu) /\ g[t].at = "schedule"
      /\ t = k.current /\ t # Idle /\ k.stat[t] = "RUNNING" /\ k.lock = 0
      /\ AtMost(W, t) /\ AtMost(T, t) /\ r = Slept(k, t, W, T)
  BY <1>1, <1>2, <1>3, <1>4, <1>5
<1> HIDE DEF g, W, T, r
<1>7. Good(r, g, cpu) /\ r.switch = k.switch
  BY <1>6, SuspendedGood
<1> QED BY <1>1, <1>2, <1>7, OwedInv DEF g, r

LEMMA InvWakes ==
    ASSUME Inv, NEW t \in Threads, NEW u \in Threads, Wakes(t, u) PROVE Inv'
<1> DEFINE g == pc'
<1>1. /\ Runs(t) /\ OnCpu(t) /\ u \in k.waits /\ k' = Resumed(k, u)
      /\ Then(t, At("schedule")) /\ UNCHANGED <<isr, cpu, outdated>>
  BY DEF Wakes, Runs
<1>2. g \in Procs /\ g[t] = At("schedule") /\ Good(k, g, cpu)
  BY <1>1, BeginsIs
<1> HIDE DEF g
<1>3. u \in Threads \ {Idle} /\ u \notin VictimsOf(g) /\ k.stat[u] = "SUSPEND"
  BY <1>1, <1>2, SleeperIs
<1>4. Good(k', g, cpu) /\ k'.switch = k.switch
  BY <1>1, <1>2, <1>3, ResumedGood
<1> QED BY <1>1, <1>2, <1>4, OwedInv DEF g

\* A new slice and a new set of those that have yielded.
Tuned(q, t, n, Y) == [q EXCEPT !.slice[t] = n, !.yields = Y]

LEMMA SliceGood ==
    ASSUME NEW f \in Procs, NEW c, NEW q, Good(q, f, c), NEW t \in Threads,
           NEW n \in 1 .. Slice[t], NEW Y \in SUBSET Threads,
           NEW r, r = Tuned(q, t, n, Y)
    PROVE  /\ Good(r, f, c) /\ r.lock = q.lock /\ r.switch = q.switch
           /\ \A V : Leads(q, V) => Leads(r, V)
<1> DEFINE sl == [q.slice EXCEPT ![t] = n]
<1>1. q \in Kernel /\ q.slice \in [Threads -> Nat] /\ Slice[t] \in Nat /\ Sliced(q)
  BY KernelHas, SchedulerAssumption DEF Good, SchedulerAssumption
<1>2. sl \in [Threads -> Nat] /\ \A u \in Threads : sl[u] \in 1 .. Slice[u]
  BY <1>1 DEF Sliced
<1>3. r = [q EXCEPT !.slice = sl, !.yields = Y]
  BY <1>1 DEF Tuned, Kernel
<1> HIDE DEF sl
<1>4. r \in Kernel
  BY <1>1, <1>2, <1>3 DEF Kernel
<1>5. /\ r.stat = q.stat /\ r.prio = q.prio /\ r.ready = q.ready /\ r.group = q.group
      /\ r.waits = q.waits /\ r.timers = q.timers
  BY <1>1, <1>3 DEF Kernel
<1>6. /\ r.defunct = q.defunct /\ r.current = q.current /\ r.switch = q.switch
      /\ r.lock = q.lock /\ r.slice = sl
  BY <1>1, <1>3 DEF Kernel
<1>7. Sliced(r)
  BY <1>1, <1>2, <1>6 DEF Sliced
<1>8. Good(r, f, c)
  BY <1>4, <1>5, <1>6, <1>7, SameGood
<1>9. \A V : Leads(q, V) => Leads(r, V)
  BY <1>5, <1>6 DEF Leads
<1> QED BY <1>6, <1>8, <1>9

LEMMA InvYields ==
    ASSUME Inv, NEW t \in Threads, Yields(t) PROVE Inv'
<1> DEFINE q == [k EXCEPT !.slice[t] = Slice[t], !.yields = @ \cup {t}]
           Y == k.yields \cup {t}
<1>1. Schedules(q) /\ UNCHANGED <<pc, isr, cpu>>
  BY DEF Yields
<1>2. k \in Kernel /\ Good(k, pc, cpu) /\ pc \in Procs /\ isr' \in Seq(Stages)
  BY <1>1 DEF Inv, Good
<1>3. Y \in SUBSET Threads /\ Slice[t] \in 1 .. Slice[t]
  BY <1>2, KernelHas, SchedulerAssumption DEF SchedulerAssumption
<1>4. q = Tuned(k, t, Slice[t], Y)
  BY <1>2 DEF Tuned, Kernel
<1> HIDE DEF q, Y
<1>5. Good(q, pc, cpu)
  BY <1>2, <1>3, <1>4, SliceGood
<1> QED BY <1>1, <1>2, <1>5, SchedulesInv

\* A new depth of the lock, by a thread between two calls or about to reschedule.
LEMMA LockGood ==
    ASSUME NEW f \in Procs, NEW c, NEW q, Good(q, f, c), NEW n \in 0 .. LockMax,
           q.stat[q.current] = "RUNNING", f[q.current].at # "delete",
           NEW r, r = [q EXCEPT !.lock = n]
    PROVE  Good(r, f, c) /\ r.lock = n /\ r.switch = q.switch
<1>1. q \in Kernel /\ n \in Nat /\ Sliced(q)
  BY SchedulerAssumption DEF Good, SchedulerAssumption
<1>2. r \in Kernel
  BY <1>1 DEF Kernel
<1>3. /\ r.stat = q.stat /\ r.prio = q.prio /\ r.ready = q.ready /\ r.group = q.group
      /\ r.waits = q.waits /\ r.timers = q.timers
  BY <1>1 DEF Kernel
<1>4. /\ r.defunct = q.defunct /\ r.current = q.current /\ r.switch = q.switch
      /\ r.lock = n /\ r.slice = q.slice
  BY <1>1 DEF Kernel
<1>5. Sliced(r)
  BY <1>1, <1>4 DEF Sliced
<1> QED BY <1>2, <1>3, <1>4, <1>5, SameGood

LEMMA InvEntersCritical ==
    ASSUME Inv, NEW t \in Threads, EntersCritical(t) PROVE Inv'
<1> DEFINE n == k.lock + 1
           r == k'
<1>1. /\ Runs(t) /\ OnCpu(t) /\ pc[t].at = "run" /\ k.lock < LockMax
      /\ r = [k EXCEPT !.lock = n] /\ UNCHANGED <<pc, isr, cpu, outdated>>
  BY CallsAre DEF EntersCritical, Runs
<1>2. k.current = t /\ k.stat[t] = "RUNNING" /\ Good(k, pc, cpu) /\ pc \in Procs /\ k \in Kernel
  BY <1>1, RunsIs DEF Inv
<1>3. n \in 0 .. LockMax /\ n # 0
  <2>1. k.lock \in Nat /\ LockMax \in Nat
    BY <1>2, KernelHas, SchedulerAssumption DEF SchedulerAssumption
  <2> QED BY <1>1, <2>1
<1> HIDE DEF n, r
<1>4. Good(r, pc, cpu) /\ r.lock = n
  BY <1>1, <1>2, <1>3, LockGood
<1>5. Good(k', pc', cpu) /\ k'.lock # 0 /\ pc' \in Procs /\ pc[t].at # "schedule"
  BY <1>1, <1>2, <1>3, <1>4 DEF r
<1> QED BY <1>1, <1>5, QuietInv

LEMMA InvExitsCritical ==
    ASSUME Inv, NEW t \in Threads, ExitsCritical(t) PROVE Inv'
<1> DEFINE n == k.lock - 1
           r == k'
           g == pc'
<1>1. /\ Runs(t) /\ OnCpu(t) /\ pc[t].at = "run" /\ k.lock > 0
      /\ r = [k EXCEPT !.lock = n] /\ UNCHANGED <<isr, cpu, outdated>>
      /\ IF k.lock = 1 THEN Then(t, At("schedule")) ELSE UNCHANGED pc
  BY CallsAre DEF ExitsCritical, Runs
<1>2. k.current = t /\ k.stat[t] = "RUNNING" /\ Good(k, pc, cpu) /\ pc \in Procs /\ k \in Kernel
  BY <1>1, RunsIs DEF Inv
<1>3. n \in 0 .. LockMax /\ (k.lock # 1 => n # 0)
  <2>1. k.lock \in 0 .. LockMax /\ k.lock \in Nat /\ LockMax \in Nat
    BY <1>2, KernelHas, SchedulerAssumption DEF SchedulerAssumption, Good, Sliced
  <2> QED BY <1>1, <2>1
<1>4. CASE k.lock = 1
  <2>1. g \in Procs /\ g[t] = At("schedule") /\ Good(k, g, cpu)
    BY <1>1, <1>4, BeginsIs
  <2>2. g[k.current].at # "delete"
    BY <1>2, <2>1, CallsAre
  <2> HIDE DEF n, r, g
  <2>3. Good(r, g, cpu) /\ r.switch = k.switch
    BY <1>1, <1>2, <1>3, <2>1, <2>2, LockGood
  <2> QED BY <1>1, <2>1, <2>3, OwedInv DEF r, g
<1>5. CASE k.lock # 1
  <2> HIDE DEF n, r
  <2>1. Good(r, pc, cpu) /\ r.lock = n
    BY <1>1, <1>2, <1>3, LockGood
  <2>2. Good(k', pc', cpu) /\ k'.lock # 0 /\ pc' \in Procs /\ pc[t].at # "schedule"
    BY <1>1, <1>2, <1>3, <1>5, <2>1 DEF r
  <2> QED BY <1>1, <2>2, QuietInv
<1> QED BY <1>4, <1>5

\* A changed priority: a ready thread goes to the end of its new list.
LEMMA PrioGood ==
    ASSUME NEW f \in Procs, NEW c, NEW q, Good(q, f, c),
           NEW u \in Threads \ VictimsOf(f), NEW p \in Levels,
           NEW r, r = (IF q.stat[u] = "READY" THEN Inserted(Ranked(Removed(q, u), u, p), u)
                       ELSE Ranked(q, u, p))
    PROVE  Good(r, f, c)
<1>0. /\ q \in Kernel /\ Rows(q) /\ IsInjective(q.defunct) /\ q.stat \in [Threads -> Stats]
      /\ q.defunct \in Seq(Threads) /\ Queue(q) \subseteq Threads
  BY KernelHas DEF Good, Lists, Queue
<1>1. CASE q.stat[u] = "READY"
  <2> DEFINE a == Removed(q, u)
             b == Ranked(a, u, p)
  <2>1. /\ u \in Queue(q) /\ u \notin ToSet(q.defunct) /\ u # q.current
        /\ u \notin q.waits
    BY <1>0, <1>1 DEF Good, Lists
  <2>2. /\ a \in Kernel /\ Rows(a) /\ Queue(a) = Queue(q) \ {u}
        /\ a.waits = q.waits \ {u} /\ a.defunct = Without(q.defunct, u)
        /\ a.stat = q.stat /\ a.slice = q.slice
        /\ a.timers = q.timers /\ a.lock = q.lock /\ a.current = q.current
        /\ a.switch = q.switch
    BY <1>0, RemovedIs
  <2> HIDE DEF a
  <2>3. a.waits = q.waits /\ a.defunct = q.defunct
    BY <1>0, <2>1, <2>2, WithoutIs
  <2>4. u \in Threads \ Queue(a)
    BY <2>2
  <2>5. /\ b \in Kernel /\ Rows(b) /\ Queue(b) = Queue(a)
        /\ b.stat = a.stat /\ b.waits = a.waits /\ b.defunct = a.defunct
        /\ b.slice = a.slice /\ b.timers = a.timers
        /\ b.lock = a.lock /\ b.current = a.current /\ b.switch = a.switch
    BY <2>2, <2>4, PrioSet
  <2>6. r = Inserted(b, u)
    BY <1>1 DEF a
  <2> HIDE DEF b
  <2>7. u \in Threads \ Queue(b) /\ u # b.current
    BY <2>1, <2>2, <2>4, <2>5
  <2>8. /\ r \in Kernel /\ Rows(r) /\ Queue(r) = Queue(b) \cup {u}
        /\ r.stat = [b.stat EXCEPT ![u] = "READY"]
        /\ r.waits = b.waits /\ r.defunct = b.defunct /\ r.slice = b.slice
        /\ r.timers = b.timers /\ r.lock = b.lock /\ r.current = b.current
        /\ r.switch = b.switch
    BY <2>5, <2>6, <2>7, InsertedIs
  <2>9. r.stat = q.stat
    BY <1>0, <1>1, <2>2, <2>5, <2>8
  <2>10. Queue(r) = Queue(q)
    BY <2>1, <2>2, <2>5, <2>8
  <2>11. /\ r.waits = q.waits /\ r.timers = q.timers /\ r.defunct = q.defunct
         /\ r.current = q.current /\ r.switch = q.switch /\ r.lock = q.lock /\ r.slice = q.slice
    BY <2>2, <2>3, <2>5, <2>8
  <2> QED BY <2>8, <2>9, <2>10, <2>11, QueueGood
<1>2. CASE q.stat[u] # "READY"
  <2>1. r = Ranked(q, u, p) /\ u \in Threads \ Queue(q)
    BY <1>2 DEF Good, Lists
  <2>2. /\ r \in Kernel /\ Rows(r) /\ Queue(r) = Queue(q)
        /\ r.stat = q.stat /\ r.waits = q.waits /\ r.defunct = q.defunct
        /\ r.slice = q.slice /\ r.timers = q.timers
        /\ r.lock = q.lock /\ r.current = q.current /\ r.switch = q.switch
    BY <1>0, <2>1, PrioSet
  <2> QED BY <2>2, QueueGood
<1> QED BY <1>1, <1>2

LEMMA InvChangesPriority ==
    ASSUME Inv, NEW t \in Threads, NEW u \in Threads, NEW p \in Levels, ChangesPriority(t, u, p)
    PROVE  Inv'
<1>1. Usable(u) /\ outdated' = TRUE /\ UNCHANGED <<pc, isr, cpu>>
  BY DEF ChangesPriority
<1>2. k' = (IF k.stat[u] = "READY" THEN Inserted(Ranked(Removed(k, u), u, p), u)
            ELSE Ranked(k, u, p))
  BY DEF ChangesPriority, Ranked
<1>3. Good(k, pc, cpu) /\ pc \in Procs /\ u \in Threads \ VictimsOf(pc)
  BY <1>1 DEF Inv, Usable, Victims, VictimsOf
<1>4. Good(k', pc, cpu)
  BY <1>2, <1>3, PrioGood
<1> QED BY <1>1, <1>4 DEF Inv, HighestRuns

LEMMA InvExits ==
    ASSUME Inv, NEW t \in Threads \ {Idle}, Exits(t) PROVE Inv'
<1> DEFINE g == pc'
           r == k'
<1>1. /\ Runs(t) /\ OnCpu(t) /\ pc[t].at = "run" /\ k.lock = 0 /\ k' = Closed(Removed(k, t), t)
      /\ Then(t, At("schedule")) /\ UNCHANGED <<isr, cpu, outdated>>
  BY CallsAre DEF Exits, Runs
<1>2. g \in Procs /\ g[t] = At("schedule") /\ g[t].at = "schedule" /\ Good(k, g, cpu)
      /\ VictimsOf(g) = VictimsOf(pc)
  BY <1>1, BeginsIs, CallsAre
<1>3. k.current = t /\ k.stat[t] = "RUNNING" /\ t \notin VictimsOf(g) /\ k \in Kernel
  BY <1>1, <1>2, RunsIs
<1> HIDE DEF g, r
<1>4. /\ t \notin Queue(k) /\ t \notin k.waits /\ t \notin ToSet(k.defunct)
      /\ Rows(k) /\ IsInjective(k.defunct)
  BY <1>2, <1>3, KernelHas DEF Good, Lists
<1>5. r = Closed(k, t)
  BY <1>1, <1>3, <1>4, RemovedSame DEF r
<1>6. /\ Lists(k, VictimsOf(g) \cup {t}) /\ Deletions(k, g) /\ Ongoing(k, g)
      /\ Contexts(k, cpu) /\ Sliced(k)
  BY <1>2 DEF Good, Lists
<1>7. Good(r, g, cpu) /\ r.switch = k.switch
  BY <1>1, <1>2, <1>3, <1>4, <1>5, <1>6, ClosedGood
<1> QED BY <1>1, <1>2, <1>7, OwedInv DEF g, r

\* A thread is taken off its list to be deleted.
LEMMA DoomedGood ==
    ASSUME NEW f \in Procs, NEW c, NEW q, Good(q, f, c),
           NEW t \in Threads \ {Idle}, t = q.current, q.stat[t] = "RUNNING",
           f[t].at = "run", t \notin VictimsOf(f),
           NEW u \in Threads \ {Idle}, u \notin VictimsOf(f), f[u].at # "delete",
           q.stat[u] \notin {"CLOSE", "FREE"}, u \notin q.timers, u = t => q.lock = 0,
           NEW g \in Procs, g[t].at = "delete", g[t].of = u,
           \A v \in Threads : v # t => g[v] = f[v],
           NEW r \in Kernel, Rows(r), Queue(r) = Queue(q) \ {u}, r.waits = q.waits \ {u},
           r.stat = q.stat, r.prio = q.prio, r.timers = q.timers, r.defunct = q.defunct,
           r.current = q.current, r.switch = q.switch, r.lock = q.lock, r.slice = q.slice
    PROVE  Good(r, g, c) /\ (Leads(q, VictimsOf(f)) => Leads(r, VictimsOf(g)))
<1>1. VictimsOf(g) = VictimsOf(f) \cup {u}
  BY DEF VictimsOf
<1>2. Lists(r, VictimsOf(g)) /\ Contexts(r, c) /\ Ongoing(r, g) /\ Sliced(r)
  <2>1. Lists(r, VictimsOf(g))
    BY <1>1 DEF Good, Lists
  <2> QED BY <2>1 DEF Good, Contexts, Ongoing, Sliced
<1>3. Deletions(r, g)
  <2>1. ASSUME NEW v \in Threads, g[v].at = "delete" PROVE Doomed(r, g, v)
    <3>1. CASE v = t
      BY <2>1, <3>1 DEF Doomed
    <3>2. CASE v # t
      <4> DEFINE w == f[v].of
      <4>1. g[v] = f[v] /\ f[v].at = "delete" /\ Doomed(q, f, v) /\ w \in Threads
        BY <2>1, <3>2 DEF Good, Deletions, Doomed
      <4>2. w # u /\ w # t
        BY <4>1 DEF VictimsOf
      <4>3. g[w] = f[w]
        BY <4>1, <4>2
      <4> QED BY <3>2, <4>1, <4>2, <4>3 DEF Doomed
    <3> QED BY <3>1, <3>2
  <2>2. ASSUME NEW v \in Threads, NEW w \in Threads,
               g[v].at = "delete", g[w].at = "delete", g[v].of = g[w].of
        PROVE  v = w
    <3>1. \A x \in Threads : x # t /\ g[x].at = "delete" => g[x].of # u
      BY DEF VictimsOf
    <3> QED BY <2>2, <3>1 DEF Good, Deletions
  <2>3. g[Idle].at = "clean" => g[Idle].of \in Threads /\ r.stat[g[Idle].of] = "CLOSE"
    <3>1. Idle \in Threads
      BY SchedulerAssumption DEF SchedulerAssumption
    <3>2. g[Idle] = f[Idle]
      BY <3>1
    <3> QED BY <3>2 DEF Good, Deletions
  <2> QED BY <2>1, <2>2, <2>3 DEF Deletions
<1>4. Leads(q, VictimsOf(f)) => Leads(r, VictimsOf(g))
  BY <1>1 DEF Leads
<1> QED BY <1>2, <1>3, <1>4 DEF Good

LEMMA InvDeleteBegins ==
    ASSUME ~DeleteTimed, Inv, NEW t \in Threads \ {Idle}, NEW u \in Threads, DeleteBegins(t, u)
    PROVE  Inv'
<1> DEFINE g == pc'
           r == k'
<1>1. /\ Runs(t) /\ OnCpu(t) /\ pc[t].at = "run" /\ Usable(u) /\ pc[u].at # "delete"
      /\ u \notin k.timers /\ (u = t => k.lock = 0)
      /\ r = (IF k.stat[u] = "INIT" THEN k ELSE Removed(k, u))
      /\ Then(t, Deletes(u)) /\ UNCHANGED <<isr, cpu, outdated>>
  BY CallsAre DEF DeleteBegins, Runs
<1>2. /\ g \in Procs /\ g[t].at = "delete" /\ g[t].of = u
      /\ \A v \in Threads : v # t => g[v] = pc[v]
  BY <1>1, ThenIs, CallsAre DEF Inv
<1>3. /\ k.current = t /\ k.stat[t] = "RUNNING" /\ t \notin VictimsOf(pc) /\ k \in Kernel
      /\ Good(k, pc, cpu) /\ pc \in Procs /\ Rows(k) /\ IsInjective(k.defunct)
  BY <1>1, RunsIs DEF Inv, Good, Lists
<1>4. u # Idle /\ k.stat[u] \notin {"CLOSE", "FREE"} /\ u \notin VictimsOf(pc)
  BY <1>1 DEF Usable, Victims, VictimsOf
<1> HIDE DEF g, r
<1>5. /\ r \in Kernel /\ Rows(r) /\ Queue(r) = Queue(k) \ {u} /\ r.waits = k.waits \ {u}
      /\ r.stat = k.stat /\ r.prio = k.prio /\ r.timers = k.timers /\ r.defunct = k.defunct
      /\ r.current = k.current /\ r.switch = k.switch /\ r.lock = k.lock /\ r.slice = k.slice
  <2>1. CASE k.stat[u] = "INIT"
    BY <1>1, <1>3, <2>1 DEF Good, Lists
  <2>2. CASE k.stat[u] # "INIT"
    <3>1. r = Removed(k, u) /\ u \notin ToSet(k.defunct) /\ k.defunct \in Seq(Threads)
      BY <1>1, <1>3, <1>4, <2>2, KernelHas DEF Good, Lists
    <3>2. /\ r \in Kernel /\ Rows(r) /\ Queue(r) = Queue(k) \ {u}
          /\ r.waits = k.waits \ {u} /\ r.defunct = Without(k.defunct, u)
          /\ r.stat = k.stat /\ r.prio = k.prio /\ r.slice = k.slice
          /\ r.timers = k.timers /\ r.lock = k.lock /\ r.current = k.current
          /\ r.switch = k.switch
      BY <1>3, <3>1, RemovedIs
    <3>3. r.defunct = k.defunct
      BY <1>3, <3>1, <3>2, WithoutIs
    <3> QED BY <3>2, <3>3
  <2> QED BY <2>1, <2>2
<1>6. Good(r, g, cpu) /\ (Leads(k, VictimsOf(pc)) => Leads(r, VictimsOf(g)))
  BY <1>1, <1>2, <1>3, <1>4, <1>5, DoomedGood
<1>7. /\ pc[t].at # "schedule" /\ pc' \in Procs /\ Good(k', pc', cpu) /\ k'.lock = k.lock
      /\ (Leads(k, VictimsOf(pc)) => Leads(k', VictimsOf(pc')))
  BY <1>1, <1>2, <1>5, <1>6 DEF g, r
<1> QED BY <1>1, <1>7, QuietInv

LEMMA InvDeleteEnds ==
    ASSUME Inv, NEW t \in Threads, DeleteEnds(t) PROVE Inv'
<1> DEFINE u == pc[t].of
           x == IF u = t THEN At("schedule") ELSE At("run")
           g == pc'
           r == k'
<1>1. /\ OnCpu(t) /\ pc[t].at = "delete" /\ r = Closed(k, u)
      /\ Then(t, x) /\ UNCHANGED <<isr, cpu, outdated>>
  BY DEF DeleteEnds
<1>2. g \in Procs /\ g[t] = x /\ \A v \in Threads : v # t => g[v] = pc[v]
  <2>1. x \in Calling
    BY CallsAre
  <2> HIDE DEF x
  <2> QED BY <1>1, <2>1, ThenIs DEF Inv
<1>3. g[t].at = IF u = t THEN "schedule" ELSE "run"
  BY <1>2, CallsAre
<1>4. /\ k.current = t /\ k.stat[t] = "RUNNING" /\ k \in Kernel
      /\ Good(k, pc, cpu) /\ pc \in Procs /\ Doomed(k, pc, t)
  BY <1>1, RunsIs DEF Inv, Good, Deletions
<1>5. /\ u \in Threads \ {Idle} /\ k.stat[u] \notin {"CLOSE", "FREE"}
      /\ u # t => u \notin Queue(k) /\ u \notin k.waits /\ u # k.current /\ pc[u].at # "delete"
      /\ u = t => k.lock = 0
  BY <1>4 DEF Doomed
<1>6. u \notin Queue(k) /\ u \notin k.waits
  BY <1>4, <1>5 DEF Good, Lists
<1>7. \A v \in Threads : v # t /\ pc[v].at = "delete" => pc[v].of # u
  BY <1>1, <1>4 DEF Good, Deletions
<1> HIDE DEF g, r, x, u
<1>8. \A v \in Threads : g[v].at = "delete" <=> v # t /\ pc[v].at = "delete"
  BY <1>2, <1>3
<1>9. VictimsOf(pc) = VictimsOf(g) \cup {u} /\ u \notin VictimsOf(g)
  BY <1>1, <1>2, <1>7, <1>8 DEF VictimsOf, u
<1>10. g[u].at # "delete" /\ (u = k.current => g[u].at = "schedule" /\ k.lock = 0)
  BY <1>2, <1>3, <1>4, <1>5, <1>8
<1>11. Deletions(k, g)
  <2>1. ASSUME NEW v \in Threads, g[v].at = "delete" PROVE Doomed(k, g, v)
    <3>1. g[v] = pc[v] /\ Doomed(k, pc, v) /\ pc[v].of \in Threads
      BY <1>2, <1>4, <1>8, <2>1 DEF Good, Deletions, Doomed
    <3> QED BY <1>8, <3>1 DEF Doomed
  <2>2. \A v, w \in Threads : g[v].at = "delete" /\ g[w].at = "delete" /\ g[v].of = g[w].of => v = w
    BY <1>2, <1>4, <1>8 DEF Good, Deletions
  <2>3. g[Idle].at = "clean" => g[Idle].of \in Threads /\ k.stat[g[Idle].of] = "CLOSE"
    <3>1. Idle \in Threads
      BY SchedulerAssumption DEF SchedulerAssumption
    <3> QED BY <1>2, <1>3, <1>4, <3>1 DEF Good, Deletions
  <2> QED BY <2>1, <2>2, <2>3 DEF Deletions
<1>12. Lists(k, VictimsOf(g) \cup {u}) /\ Ongoing(k, g) /\ Contexts(k, cpu) /\ Sliced(k)
  BY <1>4, <1>9 DEF Good, Ongoing
<1>13. /\ Good(r, g, cpu) /\ r.prio = k.prio
       /\ r.switch = k.switch /\ r.lock = k.lock /\ r.current = k.current
       /\ \A v \in Threads : r.stat[v] = IF v = u THEN "CLOSE" ELSE k.stat[v]
  BY <1>1, <1>2, <1>4, <1>5, <1>6, <1>9, <1>10, <1>11, <1>12, ClosedGood
<1>14. CASE u = t
  <2>1. pc' \in Procs /\ pc'[t] = At("schedule") /\ Good(k', pc', cpu) /\ k'.switch = k.switch
    BY <1>2, <1>13, <1>14 DEF g, r, x
  <2> QED BY <1>1, <2>1, OwedInv
<1>15. CASE u # t
  <2>1. Leads(k, VictimsOf(pc)) => Leads(r, VictimsOf(g))
    BY <1>4, <1>9, <1>13, <1>15 DEF Leads
  <2>2. /\ pc[t].at # "schedule" /\ pc' \in Procs /\ Good(k', pc', cpu) /\ k'.lock = k.lock
        /\ (Leads(k, VictimsOf(pc)) => Leads(k', VictimsOf(pc')))
    BY <1>1, <1>2, <1>13, <2>1 DEF g, r
  <2> QED BY <1>1, <2>2, QuietInv
<1> QED BY <1>14, <1>15

LEMMA InvIdleLooks ==
    ASSUME Inv, IdleLooks PROVE Inv'
<1> DEFINE x == Cleans(Head(k.defunct))
           g == pc'
<1>1. /\ Runs(Idle) /\ OnCpu(Idle) /\ pc[Idle].at = "run" /\ k.defunct # <<>>
      /\ Then(Idle, x) /\ UNCHANGED <<k, isr, cpu, outdated>>
  BY CallsAre DEF IdleLooks, Runs
<1>2. Idle \in Threads
  BY SchedulerAssumption DEF SchedulerAssumption
<1>3. k.current = Idle /\ k.stat[Idle] = "RUNNING" /\ Good(k, pc, cpu) /\ pc \in Procs /\ k \in Kernel
  BY <1>1, <1>2, RunsIs DEF Inv
<1>4. Head(k.defunct) \in ToSet(k.defunct) /\ Head(k.defunct) \in Threads
  <2>1. k.defunct \in Seq(Threads) /\ k.defunct # <<>> /\ IsInjective(k.defunct)
    BY <1>1, <1>3, KernelHas DEF Good, Lists
  <2>2. k.defunct[1] \in ToSet(k.defunct)
    BY <2>1, TailOf
  <2>3. Head(k.defunct) = k.defunct[1] /\ Head(k.defunct) \in Threads
    BY <2>1
  <2> QED BY <2>2, <2>3
<1>5. x \in Calling /\ x.at = "clean" /\ x.of \in Threads /\ k.stat[x.of] = "CLOSE"
  BY <1>3, <1>4, CallsAre DEF Good, Lists
<1>6. g \in Procs /\ g[Idle] = x /\ \A v \in Threads : v # Idle => g[v] = pc[v]
  <2> HIDE DEF x
  <2> QED BY <1>1, <1>2, <1>5, ThenIs DEF Inv
<1> HIDE DEF g, x
<1>7. Good(k, g, cpu) /\ VictimsOf(g) = VictimsOf(pc)
  BY <1>1, <1>2, <1>3, <1>5, <1>6, CallGood
<1>8. /\ pc[Idle].at # "schedule" /\ pc' \in Procs /\ Good(k', pc', cpu) /\ k'.lock = k.lock
      /\ (Leads(k, VictimsOf(pc)) => Leads(k', VictimsOf(pc')))
  BY <1>1, <1>6, <1>7 DEF g
<1> QED BY <1>1, <1>2, <1>8, QuietInv

\* The idle thread releases a closed thread.
Freed(q, u) == [Unlinked(q, u) EXCEPT !.stat[u] = "FREE"]

LEMMA FreedGood ==
    ASSUME NEW f \in Procs, NEW c, NEW q, Good(q, f, c),
           NEW u \in Threads, q.stat[u] = "CLOSE", c = q.current, ~q.switch.pending,
           q.stat[q.current] = "RUNNING", f[Idle].at # "clean",
           NEW r, r = Freed(q, u)
    PROVE  /\ Good(r, f, c) /\ r.lock = q.lock
           /\ Leads(q, VictimsOf(f)) => Leads(r, VictimsOf(f))
<1>0. /\ q \in Kernel /\ Rows(q) /\ IsInjective(q.defunct) /\ q.stat \in [Threads -> Stats]
      /\ q.defunct \in Seq(Threads) /\ Queue(q) \subseteq Threads /\ u \notin Queue(q)
      /\ q.waits \subseteq Threads /\ q.timers \subseteq Threads
      /\ u \notin q.waits \cup q.timers /\ u # q.current /\ u # Idle /\ q.current \in Threads
  BY KernelHas DEF Good, Lists, Queue
<1> DEFINE a  == Unlinked(q, u)
           st == [q.stat EXCEPT ![u] = "FREE"]
           d  == Without(q.defunct, u)
<1>1. d \in Seq(Threads) /\ IsInjective(d) /\ ToSet(d) = ToSet(q.defunct) \ {u}
  BY <1>0, WithoutIs
<1>2. a = [q EXCEPT !.defunct = d]
  BY <1>0, UnlinkedSame
<1> HIDE DEF a, d
<1>3. a \in Kernel
  BY <1>0, <1>1, <1>2 DEF Kernel
<1>4. /\ a.ready = q.ready /\ a.waits = q.waits /\ a.defunct = d /\ a.stat = q.stat
      /\ a.prio = q.prio /\ a.group = q.group
  BY <1>0, <1>2 DEF Kernel
<1>5. /\ a.timers = q.timers /\ a.lock = q.lock /\ a.current = q.current
      /\ a.switch = q.switch /\ a.slice = q.slice
  BY <1>0, <1>2 DEF Kernel
<1>6. r = [a EXCEPT !.stat = st]
  <2>1. r = [a EXCEPT !.stat[u] = "FREE"]
    BY DEF Freed, a
  <2>2. r = [a EXCEPT !.stat = [a.stat EXCEPT ![u] = "FREE"]]
    BY <1>3, <2>1 DEF Kernel
  <2> QED BY <1>4, <2>2
<1>7. st \in [Threads -> Stats]
  BY <1>0 DEF Stats
<1> HIDE DEF st
<1>8. /\ r \in Kernel /\ (Rows(a) => Rows(r)) /\ Queue(r) = Queue(a)
       /\ r.stat = st /\ r.waits = a.waits /\ r.defunct = a.defunct
       /\ r.prio = a.prio /\ r.slice = a.slice
       /\ r.timers = a.timers /\ r.lock = a.lock /\ r.current = a.current
       /\ r.switch = a.switch
  BY <1>6, <1>7, <1>3, StatSet
<1>9. Rows(r) /\ Queue(r) = Queue(q)
  BY <1>0, <1>4, <1>8, <1>3, SameLists
<1>10. \A v \in Threads : r.stat[v] = IF v = u THEN "FREE" ELSE q.stat[v]
  BY <1>0, <1>8 DEF st
<1>11. Lists(r, VictimsOf(f))
  <2>1. /\ \A v \in Queue(r) : r.stat[v] = "READY"
        /\ \A v \in Threads \ VictimsOf(f) : r.stat[v] = "READY" => v \in Queue(r)
    BY <1>0, <1>9, <1>10 DEF Good, Lists
  <2>2. \A v \in r.timers \cup r.waits : r.stat[v] = "SUSPEND"
    BY <1>0, <1>4, <1>5, <1>8, <1>10 DEF Good, Lists
  <2>3. IsInjective(r.defunct) /\ ToSet(r.defunct) = {v \in Threads : r.stat[v] = "CLOSE"}
    BY <1>1, <1>4, <1>8, <1>10 DEF Good, Lists
  <2>4. r.stat[r.current] # "READY"
    BY <1>0, <1>5, <1>8, <1>10
  <2>5. r.stat[Idle] = (IF r.current = Idle THEN "RUNNING" ELSE "READY") /\ Idle \notin VictimsOf(f)
    BY <1>0, <1>5, <1>8, <1>10, SchedulerAssumption DEF Good, Lists, SchedulerAssumption
  <2> QED BY <1>9, <2>1, <2>2, <2>3, <2>4, <2>5 DEF Lists
<1>12. Deletions(r, f)
  <2>1. ASSUME NEW v \in Threads, f[v].at = "delete" PROVE Doomed(r, f, v)
    <3>1. Doomed(q, f, v) /\ f[v].of \in Threads /\ f[v].of # u /\ v # u
      BY <2>1 DEF Good, Deletions, Doomed
    <3>2. r.stat[v] = q.stat[v] /\ r.stat[f[v].of] = q.stat[f[v].of]
      BY <1>10, <3>1
    <3> QED BY <1>4, <1>5, <1>8, <1>9, <3>1, <3>2 DEF Doomed
  <2> QED BY <2>1 DEF Good, Deletions
<1>13. Contexts(r, c) /\ Ongoing(r, f) /\ Sliced(r)
  BY <1>0, <1>5, <1>8, <1>10 DEF Good, Contexts, Ongoing, Sliced
<1>14. Leads(q, VictimsOf(f)) => Leads(r, VictimsOf(f))
  BY <1>0, <1>4, <1>5, <1>8, <1>10 DEF Leads
<1> QED BY <1>5, <1>8, <1>11, <1>12, <1>13, <1>14 DEF Good

LEMMA InvIdleFrees ==
    ASSUME Inv, IdleFrees PROVE Inv'
<1> DEFINE u == pc[Idle].of
           x == At("run")
           g == pc'
           r == k'
<1>1. /\ OnCpu(Idle) /\ pc[Idle].at = "clean" /\ r = Freed(k, u)
      /\ Then(Idle, x) /\ UNCHANGED <<isr, cpu, outdated>>
  BY DEF IdleFrees, Freed
<1>2. Idle \in Threads
  BY SchedulerAssumption DEF SchedulerAssumption
<1>3. /\ k.current = Idle /\ cpu = Idle /\ ~k.switch.pending /\ k.stat[Idle] = "RUNNING"
      /\ Good(k, pc, cpu) /\ pc \in Procs /\ k \in Kernel
  BY <1>1, <1>2, RunsIs DEF Inv
<1>4. u \in Threads /\ k.stat[u] = "CLOSE"
  BY <1>1, <1>3 DEF Good, Deletions
<1>5. x \in Calling /\ x.at = "run"
  BY CallsAre
<1>6. g \in Procs /\ g[Idle] = x /\ \A v \in Threads : v # Idle => g[v] = pc[v]
  <2> HIDE DEF x
  <2> QED BY <1>1, <1>2, <1>5, ThenIs DEF Inv
<1> HIDE DEF g, x, r, u
<1>7. Good(k, g, cpu) /\ VictimsOf(g) = VictimsOf(pc)
  BY <1>1, <1>2, <1>3, <1>5, <1>6, CallGood
<1>8. g[Idle].at # "clean" /\ cpu = k.current /\ k.stat[k.current] = "RUNNING"
  BY <1>3, <1>5, <1>6
<1>9. /\ Good(r, g, cpu) /\ r.lock = k.lock
      /\ Leads(k, VictimsOf(g)) => Leads(r, VictimsOf(g))
  BY <1>1, <1>3, <1>4, <1>6, <1>7, <1>8, FreedGood
<1>10. /\ pc[Idle].at # "schedule" /\ pc' \in Procs /\ Good(k', pc', cpu) /\ k'.lock = k.lock
       /\ (Leads(k, VictimsOf(pc)) => Leads(k', VictimsOf(pc')))
  BY <1>1, <1>6, <1>7, <1>9 DEF g, r
<1> QED BY <1>1, <1>2, <1>10, QuietInv

\* rt_thread_init of a free object.
Created(q, u) == [q EXCEPT !.stat[u] = "INIT", !.prio[u] = Prio[u], !.slice[u] = Slice[u]]

LEMMA CreatedGood ==
    ASSUME NEW f \in Procs, NEW c, NEW q, Good(q, f, c), c = q.current,
           NEW u \in Threads \ VictimsOf(f), q.stat[u] = "FREE", u # q.current, f[u].at # "delete",
           NEW r, r = Created(q, u)
    PROVE  /\ Good(r, f, c) /\ r.lock = q.lock
           /\ Leads(q, VictimsOf(f)) => Leads(r, VictimsOf(f))
<1> DEFINE a  == Ranked(q, u, Prio[u])
           st == [q.stat EXCEPT ![u] = "INIT"]
           sl == [q.slice EXCEPT ![u] = Slice[u]]
<1>1. /\ q \in Kernel /\ Rows(q) /\ q.stat \in [Threads -> Stats] /\ q.slice \in [Threads -> Nat]
      /\ u \in Threads \ Queue(q) /\ Prio[u] \in Levels /\ Slice[u] \in Nat \ {0}
      /\ q.current \in Threads /\ Sliced(q)
  BY KernelHas, SchedulerAssumption DEF Good, Lists, SchedulerAssumption
<1>2. /\ a \in Kernel /\ Rows(a) /\ Queue(a) = Queue(q)
      /\ a.stat = q.stat /\ a.waits = q.waits /\ a.defunct = q.defunct
      /\ (\A t \in Threads : t # u => a.prio[t] = q.prio[t]) /\ a.slice = q.slice
      /\ a.timers = q.timers /\ a.lock = q.lock /\ a.current = q.current /\ a.switch = q.switch
  BY <1>1, PrioSet
<1>3. r = [a EXCEPT !.stat[u] = "INIT", !.slice[u] = Slice[u]]
  BY <1>1 DEF Created, Ranked, Kernel
<1> HIDE DEF a
<1>4. r = [a EXCEPT !.stat = st, !.slice = sl]
  <2>1. r = [a EXCEPT !.stat = [a.stat EXCEPT ![u] = "INIT"],
                      !.slice = [a.slice EXCEPT ![u] = Slice[u]]]
    BY <1>2, <1>3 DEF Kernel
  <2> QED BY <1>2, <2>1
<1>5. /\ st \in [Threads -> Stats] /\ sl \in [Threads -> Nat]
      /\ \A t \in Threads : st[t] = IF t = u THEN "INIT" ELSE q.stat[t]
      /\ \A t \in Threads : sl[t] = IF t = u THEN Slice[t] ELSE q.slice[t]
  BY <1>1 DEF Stats
<1> HIDE DEF st, sl
<1>6. r \in Kernel
  BY <1>2, <1>4, <1>5 DEF Kernel
<1>7. /\ r.stat = st /\ r.slice = sl /\ r.waits = a.waits /\ r.timers = a.timers
      /\ r.prio = a.prio /\ r.ready = a.ready /\ r.group = a.group
  BY <1>2, <1>4 DEF Kernel
<1>8. /\ r.lock = a.lock /\ r.current = a.current /\ r.switch = a.switch /\ r.defunct = a.defunct
  BY <1>2, <1>4 DEF Kernel
<1>9. Rows(r) /\ Queue(r) = Queue(q)
  BY <1>2, <1>6, <1>7, SameLists
<1>10. Sliced(r)
  <2>1. \A t \in Threads : r.slice[t] \in 1 .. Slice[t]
    BY <1>1, <1>5, <1>7 DEF Sliced
  <2> QED BY <1>1, <1>2, <1>8, <2>1 DEF Sliced
<1>11. /\ r.waits = q.waits /\ r.timers = q.timers /\ r.defunct = q.defunct
       /\ r.current = q.current /\ r.switch = q.switch /\ r.lock = q.lock
       /\ \A t \in Threads : r.stat[t] = IF t = u THEN "INIT" ELSE q.stat[t]
  BY <1>2, <1>5, <1>7, <1>8
<1> DEFINE x == "INIT"
<1>12. /\ x \in {"INIT", "SUSPEND"} /\ q.stat[u] \in {"INIT", "FREE"} /\ u # c
       /\ \A t \in Threads : r.stat[t] = IF t = u THEN x ELSE q.stat[t]
  BY <1>11
<1> HIDE DEF x
<1>13. Good(r, f, c)
  BY <1>6, <1>9, <1>10, <1>11, <1>12, FreshGood
<1>14. Leads(q, VictimsOf(f)) => Leads(r, VictimsOf(f))
  BY <1>1, <1>2, <1>7, <1>11 DEF Leads
<1> QED BY <1>11, <1>13, <1>14

LEMMA InvCreates ==
    ASSUME Inv, NEW t \in Threads, NEW u \in Threads, Creates(t, u) PROVE Inv'
<1> DEFINE x == At("run")
           g == pc'
           r == k'
<1>1. /\ Runs(t) /\ OnCpu(t) /\ pc[t].at = "run" /\ k.stat[u] = "FREE" /\ r = Created(k, u)
      /\ Then(u, x) /\ UNCHANGED <<isr, cpu, outdated>>
  BY CallsAre DEF Creates, Created, Runs
<1>2. /\ k.current = t /\ cpu = t /\ k.stat[t] = "RUNNING" /\ k \in Kernel
      /\ Good(k, pc, cpu) /\ pc \in Procs /\ u # t
  BY <1>1, RunsIs DEF Inv
<1>3. u # Idle
  BY <1>1 DEF Inv, Good, Lists
<1>4. \A v \in Threads : pc[v].at = "delete" => v # u /\ pc[v].of # u
  BY <1>1, <1>2 DEF Good, Deletions, Doomed
<1>5. u \notin VictimsOf(pc) /\ pc[u].at # "delete"
  BY <1>4 DEF VictimsOf
<1>6. x \in Calling /\ x.at = "run"
  BY CallsAre
<1>7. g \in Procs /\ g[u] = x /\ \A v \in Threads : v # u => g[v] = pc[v]
  <2> HIDE DEF x
  <2> QED BY <1>1, <1>6, ThenIs DEF Inv
<1> HIDE DEF g, x, r
<1>8. Good(k, g, cpu) /\ VictimsOf(g) = VictimsOf(pc)
  BY <1>2, <1>3, <1>5, <1>6, <1>7, CallGood
<1>9. /\ u \in Threads \ VictimsOf(g) /\ cpu = k.current /\ u # k.current /\ g[u].at # "delete"
  BY <1>2, <1>5, <1>6, <1>7, <1>8
<1>10. /\ Good(r, g, cpu) /\ r.lock = k.lock
       /\ Leads(k, VictimsOf(g)) => Leads(r, VictimsOf(g))
  BY <1>1, <1>7, <1>8, <1>9, CreatedGood
<1>11. /\ pc[t].at # "schedule" /\ pc' \in Procs /\ Good(k', pc', cpu) /\ k'.lock = k.lock
       /\ (Leads(k, VictimsOf(pc)) => Leads(k', VictimsOf(pc')))
  BY <1>1, <1>7, <1>8, <1>10 DEF g, r
<1> QED BY <1>1, <1>11, QuietInv

(***************************************************************************)
(* The interrupts.                                                         *)
(***************************************************************************)
LEMMA HandlersAre ==
    /\ \A s \in Seq(Stages), x \in Stages :
          /\ Append(s, x) \in Seq(Stages)
          /\ \E i \in DOMAIN Append(s, x) : Append(s, x)[i] = x
          /\ x \notin {"expired", "woke"} =>
                ((\E i \in DOMAIN Append(s, x) : Append(s, x)[i] \in {"expired", "woke"})
                   <=> \E i \in DOMAIN s : s[i] \in {"expired", "woke"})
    /\ \A s \in Seq(Stages) : s # <<>> =>
          /\ Front(s) \in Seq(Stages)
          /\ \A x \in Stages : [s EXCEPT ![Len(s)] = x] \in Seq(Stages)
          /\ Last(s) \notin {"expired", "woke"} =>
                ((\E i \in DOMAIN Front(s) : Front(s)[i] \in {"expired", "woke"})
                   <=> \E i \in DOMAIN s : s[i] \in {"expired", "woke"})
<1>1. ASSUME NEW s \in Seq(Stages), NEW x \in Stages
      PROVE  /\ Append(s, x) \in Seq(Stages) /\ Len(s) \in Nat
             /\ DOMAIN s = 1 .. Len(s) /\ DOMAIN Append(s, x) = 1 .. Len(s) + 1
             /\ Append(s, x)[Len(s) + 1] = x
             /\ \A i \in 1 .. Len(s) : Append(s, x)[i] = s[i]
  BY AppendProperties, LenProperties
<1>2. ASSUME NEW s \in Seq(Stages), s # <<>>
      PROVE  /\ Front(s) \in Seq(Stages) /\ Len(s) \in Nat \ {0} /\ Last(s) = s[Len(s)]
             /\ DOMAIN s = 1 .. Len(s) /\ DOMAIN Front(s) = 1 .. Len(s) - 1
             /\ \A i \in 1 .. Len(s) - 1 : Front(s)[i] = s[i]
             /\ \A x \in Stages : [s EXCEPT ![Len(s)] = x] \in Seq(Stages)
  <2>1. Len(s) \in Nat \ {0} /\ DOMAIN s = 1 .. Len(s)
    BY <1>2, LenProperties, EmptySeq
  <2>2. Front(s) \in Seq(Stages) /\ DOMAIN Front(s) = 1 .. Len(s) - 1
        /\ \A i \in 1 .. Len(s) - 1 : Front(s)[i] = s[i]
    <3>1. Front(s) = SubSeq(s, 1, Len(s) - 1)
      BY DEF Front
    <3> DEFINE m == Len(s) - 1
    <3>2. m \in 0 .. Len(s) /\ \A i \in 1 .. m : s[i] \in Stages
      BY <2>1, ElementOfSeq
    <3> HIDE DEF m
    <3>3. SubSeq(s, 1, m) \in Seq(Stages) /\ Len(SubSeq(s, 1, m)) = m
          /\ \A i \in 1 .. m : SubSeq(s, 1, m)[i] = s[i]
      BY <2>1, <3>2, SubSeqProperties
    <3>4. DOMAIN SubSeq(s, 1, m) = 1 .. m
      BY <3>3, LenProperties
    <3> QED BY <3>1, <3>3, <3>4 DEF m
  <2>3. \A x \in Stages : [s EXCEPT ![Len(s)] = x] \in Seq(Stages)
    BY ExceptSeq, <2>1
  <2> QED BY <2>1, <2>2, <2>3 DEF Last
<1>3. ASSUME NEW n \in Nat, n # 0 PROVE \A i \in 1 .. n : i = n \/ i \in 1 .. n - 1
  BY <1>3
<1>4. ASSUME NEW n \in Nat PROVE \A i \in 1 .. n + 1 : i = n + 1 \/ i \in 1 .. n
  OBVIOUS
<1>5. ASSUME NEW n \in Nat, n # 0 PROVE n \in 1 .. n /\ \A i \in 1 .. n - 1 : i \in 1 .. n
  BY <1>5
<1>6. ASSUME NEW n \in Nat PROVE n + 1 \in 1 .. n + 1 /\ \A i \in 1 .. n : i \in 1 .. n + 1
  OBVIOUS
<1>7. ASSUME NEW s \in Seq(Stages), NEW x \in Stages
      PROVE  /\ Append(s, x) \in Seq(Stages)
             /\ \E i \in DOMAIN Append(s, x) : Append(s, x)[i] = x
             /\ x \notin {"expired", "woke"} =>
                   ((\E i \in DOMAIN Append(s, x) : Append(s, x)[i] \in {"expired", "woke"})
                      <=> \E i \in DOMAIN s : s[i] \in {"expired", "woke"})
  <2> DEFINE a == Append(s, x)
             n == Len(s)
  <2>1. /\ a \in Seq(Stages) /\ n \in Nat
        /\ DOMAIN s = 1 .. n /\ DOMAIN a = 1 .. n + 1
        /\ a[n + 1] = x /\ \A i \in 1 .. n : a[i] = s[i]
    BY <1>1
  <2> HIDE DEF a, n
  <2>2. /\ n + 1 \in 1 .. n + 1
        /\ \A i \in 1 .. n + 1 : i = n + 1 \/ i \in 1 .. n
        /\ \A j \in 1 .. n : j \in 1 .. n + 1
    BY <1>4, <1>6, <2>1
  <2>3. /\ \E i \in DOMAIN a : a[i] = x
        /\ x \notin {"expired", "woke"} =>
              ((\E i \in DOMAIN a : a[i] \in {"expired", "woke"})
                 <=> \E i \in DOMAIN s : s[i] \in {"expired", "woke"})
    BY <2>1, <2>2
  <2> QED BY <2>1, <2>3 DEF a
<1>8. ASSUME NEW s \in Seq(Stages), s # <<>>, Last(s) \notin {"expired", "woke"}
      PROVE  (\E i \in DOMAIN Front(s) : Front(s)[i] \in {"expired", "woke"})
               <=> \E i \in DOMAIN s : s[i] \in {"expired", "woke"}
  <2> DEFINE a == Front(s)
             n == Len(s)
  <2>1. /\ n \in Nat \ {0} /\ Last(s) = s[n]
        /\ DOMAIN s = 1 .. n /\ DOMAIN a = 1 .. n - 1
        /\ \A i \in 1 .. n - 1 : a[i] = s[i]
    BY <1>2, <1>8
  <2> HIDE DEF a, n
  <2>2. \A i \in 1 .. n : i = n \/ i \in 1 .. n - 1
    BY <1>3, <2>1
  <2>3. \A j \in 1 .. n - 1 : j \in 1 .. n
    BY <1>5, <2>1
  <2>4. (\E i \in DOMAIN a : a[i] \in {"expired", "woke"})
          <=> \E i \in DOMAIN s : s[i] \in {"expired", "woke"}
    BY <1>8, <2>1, <2>2, <2>3
  <2> QED BY <2>4 DEF a
<1> QED BY <1>2, <1>7, <1>8

\* Whether a handler still owes a rt_schedule.
Owing(s) == \E i \in DOMAIN s : s[i] \in {"expired", "woke"}

LEMMA OwingIs ==
    /\ \A s \in Seq(Stages), x \in Stages :
          /\ Append(s, x) \in Seq(Stages)
          /\ IF x \in {"expired", "woke"} THEN Owing(Append(s, x)) ELSE Owing(Append(s, x)) <=> Owing(s)
    /\ \A s \in Seq(Stages) : s # <<>> =>
          /\ Front(s) \in Seq(Stages)
          /\ \A x \in Stages : [s EXCEPT ![Len(s)] = x] \in Seq(Stages)
          /\ Last(s) \notin {"expired", "woke"} => (Owing(Front(s)) <=> Owing(s))
<1>1. ASSUME NEW s \in Seq(Stages), NEW x \in Stages
      PROVE  /\ Append(s, x) \in Seq(Stages)
             /\ IF x \in {"expired", "woke"} THEN Owing(Append(s, x)) ELSE Owing(Append(s, x)) <=> Owing(s)
  <2>1. /\ Append(s, x) \in Seq(Stages)
        /\ \E i \in DOMAIN Append(s, x) : Append(s, x)[i] = x
        /\ x \notin {"expired", "woke"} =>
              ((\E i \in DOMAIN Append(s, x) : Append(s, x)[i] \in {"expired", "woke"})
                 <=> \E i \in DOMAIN s : s[i] \in {"expired", "woke"})
    BY HandlersAre
  <2> DEFINE a == Append(s, x)
  <2> HIDE DEF a
  <2>2. CASE x \in {"expired", "woke"}
    BY <2>1, <2>2 DEF Owing, a
  <2>3. CASE x \notin {"expired", "woke"}
    BY <2>1, <2>3 DEF Owing, a
  <2> QED BY <2>1, <2>2, <2>3
<1>2. ASSUME NEW s \in Seq(Stages), s # <<>>
      PROVE  /\ Front(s) \in Seq(Stages)
             /\ \A x \in Stages : [s EXCEPT ![Len(s)] = x] \in Seq(Stages)
             /\ Last(s) \notin {"expired", "woke"} => (Owing(Front(s)) <=> Owing(s))
  BY <1>2, HandlersAre DEF Owing
<1> QED BY <1>1, <1>2

\* A step of an interrupt handler without rt_schedule.
LEMMA InterruptInv ==
    ASSUME Inv, isr' \in Seq(Stages), Good(k', pc, cpu), UNCHANGED <<pc, cpu, outdated>>,
           \/ Owing(isr')
           \/ /\ Owing(isr') <=> Owing(isr)
              /\ k'.lock = k.lock /\ k'.switch = k.switch
              /\ Leads(k, VictimsOf(pc)) => Leads(k', VictimsOf(pc))
    PROVE  Inv'
<1>1. pc' = pc /\ cpu' = cpu /\ outdated' = outdated
  OBVIOUS
<1>2. HighestRuns'
  <2>1. CASE Owing(isr')
    BY <2>1 DEF HighestRuns, Owed, Owing
  <2>2. CASE ~Owing(isr') /\ ~Owing(isr) /\ k'.lock = k.lock /\ k'.switch = k.switch
    <3>1. Leads(k, VictimsOf(pc)) => Leads(k', VictimsOf(pc))
      BY <2>2
    <3>2. Owed <=> ~k.switch.pending /\ cpu # Nobody /\ pc[cpu] = At("schedule")
      BY <2>2 DEF Owed, Owing
    <3>3. Owed' <=> ~k.switch.pending /\ cpu # Nobody /\ pc[cpu] = At("schedule")
      BY <1>1, <2>2 DEF Owed, Owing
    <3>4. k.lock = 0 /\ ~outdated /\ ~Owed => Leads(k, VictimsOf(pc))
      BY DEF Inv, HighestRuns, Leads, IsReady, Victims, VictimsOf
    <3>5. k'.lock = 0 /\ ~outdated' /\ ~Owed' => Leads(k', VictimsOf(pc))
      BY <1>1, <2>2, <3>1, <3>2, <3>3, <3>4
    <3> QED BY <1>1, <3>5 DEF HighestRuns, Leads, IsReady, Victims, VictimsOf
  <2> QED BY <2>1, <2>2
<1> QED BY <1>1, <1>2 DEF Inv

LEMMA InvTickBegins ==
    ASSUME Inv, TickBegins PROVE Inv'
<1> DEFINE t == k.current
           r == k'
<1>1. UNCHANGED <<pc, cpu, outdated>>
  BY DEF TickBegins
<1>2. /\ k \in Kernel /\ Good(k, pc, cpu) /\ pc \in Procs /\ isr \in Seq(Stages)
      /\ t \in Threads /\ k.slice[t] \in 1 .. Slice[t] /\ Slice[t] \in Nat \ {0}
      /\ k.yields \in SUBSET Threads
  BY KernelHas, SchedulerAssumption DEF Inv, Good, Sliced, SchedulerAssumption
<1>3. CASE k.slice[t] = 1
  <2> DEFINE Y == k.yields \cup {t}
             n == Slice[t]
  <2>1. r = Tuned(k, t, n, Y) /\ isr' = Append(isr, "expired")
    BY <1>2, <1>3 DEF TickBegins, Tuned, Kernel
  <2>2. n \in 1 .. Slice[t] /\ Y \in SUBSET Threads
    BY <1>2
  <2> HIDE DEF Y, n, r, t
  <2>3. Good(r, pc, cpu)
    BY <1>2, <2>1, <2>2, SliceGood
  <2>4. isr' \in Seq(Stages) /\ Owing(isr')
    BY <1>2, <2>1, OwingIs DEF Stages
  <2> QED BY <1>1, <2>3, <2>4, InterruptInv DEF r
<1>4. CASE k.slice[t] # 1
  <2> DEFINE n == k.slice[t] - 1
             Y == k.yields
  <2>1. r = Tuned(k, t, n, Y) /\ isr' = Append(isr, "check")
    BY <1>2, <1>4 DEF TickBegins, Tuned, Kernel
  <2>2. n \in 1 .. Slice[t] /\ Y \in SUBSET Threads
    BY <1>2, <1>4
  <2> HIDE DEF Y, n, r, t
  <2>3. /\ Good(r, pc, cpu) /\ r.lock = k.lock /\ r.switch = k.switch
        /\ \A V : Leads(k, V) => Leads(r, V)
    BY <1>2, <2>1, <2>2, SliceGood
  <2>4. isr' \in Seq(Stages) /\ (Owing(isr') <=> Owing(isr))
    BY <1>2, <2>1, OwingIs DEF Stages
  <2>5. Leads(k, VictimsOf(pc)) => Leads(r, VictimsOf(pc))
    BY <2>3
  <2> QED BY <1>1, <2>3, <2>4, <2>5, InterruptInv DEF r
<1> QED BY <1>3, <1>4

LEMMA InvTickSchedules ==
    ASSUME Inv, TickSchedules PROVE Inv'
<1>1. isr # <<>> /\ isr' = [isr EXCEPT ![Len(isr)] = "check"] /\ Schedules(k) /\ UNCHANGED <<pc, cpu>>
  BY DEF TickSchedules, Becomes
<1>2. isr' \in Seq(Stages)
  BY <1>1, OwingIs DEF Inv, Stages
<1>3. Good(k, pc, cpu)
  BY DEF Inv
<1> QED BY <1>1, <1>2, <1>3, SchedulesInv

LEMMA InvTimerFires ==
    ASSUME Inv, NEW t \in Threads, TimerFires(t) PROVE Inv'
<1> DEFINE q == Resumed(k, t)
<1>1. /\ isr # <<>> /\ isr' = [isr EXCEPT ![Len(isr)] = "timers"] /\ t \in k.timers
      /\ Schedules(q) /\ UNCHANGED <<pc, cpu>>
  BY DEF TimerFires, Becomes, Resumed
<1>2. isr' \in Seq(Stages)
  BY <1>1, OwingIs DEF Inv, Stages
<1>3. Good(k, pc, cpu) /\ pc \in Procs
  BY DEF Inv
<1>4. t \in Threads \ {Idle} /\ t \notin VictimsOf(pc) /\ k.stat[t] = "SUSPEND"
  BY <1>1, <1>3, SleeperIs
<1>5. q = Resumed(k, t)
  OBVIOUS
<1> HIDE DEF q
<1>6. Good(q, pc, cpu)
  BY <1>3, <1>4, <1>5, ResumedGood
<1> QED BY <1>1, <1>2, <1>6, SchedulesInv

LEMMA InvTickEnds ==
    ASSUME Inv, TickEnds PROVE Inv'
<1>1. isr # <<>> /\ Last(isr) \in {"check", "timers"} /\ isr' = Front(isr)
      /\ UNCHANGED <<k, pc, cpu, outdated>>
  BY DEF TickEnds, Top
<1>2. isr' \in Seq(Stages) /\ (Owing(isr') <=> Owing(isr))
  BY <1>1, OwingIs DEF Inv
<1>3. Good(k', pc, cpu)
  BY <1>1 DEF Inv
<1> QED BY <1>1, <1>2, <1>3, InterruptInv

LEMMA InvHandlerWakes ==
    ASSUME Inv, NEW u \in Threads, HandlerWakes(u) PROVE Inv'
<1> DEFINE r == k'
<1>1. u \in k.waits /\ r = Resumed(k, u) /\ isr' = Append(isr, "woke") /\ UNCHANGED <<pc, cpu, outdated>>
  BY DEF HandlerWakes
<1>2. isr' \in Seq(Stages) /\ Owing(isr')
  BY <1>1, OwingIs DEF Inv, Stages
<1>3. Good(k, pc, cpu) /\ pc \in Procs
  BY DEF Inv
<1>4. u \in Threads \ {Idle} /\ u \notin VictimsOf(pc) /\ k.stat[u] = "SUSPEND"
  BY <1>1, <1>3, SleeperIs
<1> HIDE DEF r
<1>5. Good(r, pc, cpu)
  BY <1>1, <1>3, <1>4, ResumedGood
<1> QED BY <1>1, <1>2, <1>5, InterruptInv DEF r

LEMMA InvHandlerEnds ==
    ASSUME Inv, HandlerEnds PROVE Inv'
<1>1. isr # <<>> /\ isr' = Front(isr) /\ Schedules(k) /\ UNCHANGED <<pc, cpu>>
  BY DEF HandlerEnds
<1>2. isr' \in Seq(Stages)
  BY <1>1, OwingIs DEF Inv
<1>3. Good(k, pc, cpu)
  BY DEF Inv
<1> QED BY <1>1, <1>2, <1>3, SchedulesInv

LEMMA InvPendSV ==
    ASSUME Inv, PendSV PROVE Inv'
<1> DEFINE sw == [k.switch EXCEPT !.pending = FALSE]
           r  == k'
           c  == cpu'
<1>1. /\ isr = <<>> /\ k.switch.pending /\ c = k.switch.to
      /\ UNCHANGED <<pc, isr, outdated>>
  BY DEF PendSV
<1>2. k \in Kernel /\ Good(k, pc, cpu) /\ pc \in Procs
  BY DEF Inv, Good
<1>3. r = [k EXCEPT !.switch = sw]
  BY <1>2 DEF PendSV, Kernel
<1>4. sw \in [pending : BOOLEAN, from : Threads \cup {Nobody}, to : Threads] /\ ~sw.pending
  BY <1>2, KernelHas
<1> HIDE DEF sw, r
<1>5. r \in Kernel
  BY <1>2, <1>3, <1>4 DEF Kernel
<1>6. /\ r.stat = k.stat /\ r.prio = k.prio /\ r.ready = k.ready /\ r.group = k.group
      /\ r.waits = k.waits /\ r.timers = k.timers
  BY <1>2, <1>3 DEF Kernel
<1>7. /\ r.defunct = k.defunct /\ r.current = k.current /\ r.switch = sw
      /\ r.lock = k.lock /\ r.slice = k.slice
  BY <1>2, <1>3 DEF Kernel
<1>8. Rows(r) /\ Queue(r) = Queue(k)
  BY <1>2, <1>5, <1>6, SameLists DEF Good, Lists
<1>9. c = k.current /\ c \in Threads
  BY <1>1, <1>2, KernelHas DEF Good, Contexts
<1>10. Lists(r, VictimsOf(pc)) /\ Deletions(r, pc) /\ Ongoing(r, pc) /\ Sliced(r)
  <2>1. Lists(r, VictimsOf(pc)) /\ Ongoing(r, pc) /\ Sliced(r)
    BY <1>2, <1>6, <1>7, <1>8 DEF Good, Lists, Ongoing, Sliced
  <2>2. Deletions(r, pc)
    BY <1>2, <1>6, <1>7, <1>8 DEF Good, Deletions, Doomed
  <2> QED BY <2>1, <2>2
<1>11. Contexts(r, c)
  <2>1. k.stat[k.current] # "FREE"
    BY <1>2 DEF Good, Ongoing
  <2> QED BY <1>4, <1>6, <1>7, <1>9, <2>1 DEF Contexts
<1>12. Good(r, pc, c)
  BY <1>5, <1>10, <1>11 DEF Good
<1>13. HighestRuns'
  <2>1. ~Owed
    BY <1>1 DEF Owed
  <2>2. /\ k'.lock = k.lock /\ k'.stat = k.stat /\ k'.prio = k.prio /\ k'.current = k.current
        /\ pc' = pc /\ outdated' = outdated
    BY <1>1, <1>6, <1>7 DEF r
  <2> QED BY <2>1, <2>2 DEF Inv, HighestRuns, IsReady, Victims
<1>14. cpu' \in Threads \cup {Nobody} /\ Good(k', pc', cpu')
  BY <1>1, <1>9, <1>12 DEF r
<1> QED BY <1>1, <1>13, <1>14 DEF Inv

-----------------------------------------------------------------------------
LEMMA InvInit ==
    ASSUME Init PROVE Inv
<1>1. /\ {Idle, First} \subseteq Threads /\ Idle # First /\ Nobody \notin Threads
      /\ Levels \subseteq Nat
      /\ Prio \in [Threads -> Levels] /\ Slice \in [Threads -> Nat \ {0}]
      /\ Prio[First] < Prio[Idle] /\ LockMax \in Nat /\ Prio[Idle] \in Levels
  BY SchedulerAssumption DEF SchedulerAssumption
<1> DEFINE st == [t \in Threads |-> CASE t = First -> "RUNNING"
                                      [] t = Idle  -> "READY"
                                      [] OTHER     -> "INIT"]
           rd == [p \in Levels |-> IF p = Prio[Idle] THEN <<Idle>> ELSE <<>>]
           sw == [pending |-> TRUE, from |-> Nobody, to |-> First]
<1>2. /\ k.stat = st /\ k.yields = {} /\ k.prio = Prio /\ k.slice = Slice
      /\ k.ready = rd /\ k.group = {Prio[Idle]}
  BY DEF Init
<1>3. /\ k.waits = {} /\ k.defunct = <<>> /\ k.timers = {} /\ k.lock = 0
      /\ k.current = First /\ k.switch = sw
  BY DEF Init
<1>4. \A t \in Threads : st[t] = IF t = First THEN "RUNNING" ELSE IF t = Idle THEN "READY" ELSE "INIT"
  BY <1>1
<1>5. /\ <<Idle>> \in Seq(Threads) /\ Len(<<Idle>>) = 1 /\ <<Idle>>[1] = Idle
      /\ <<>> \in Seq(Threads)
  BY <1>1
<1>6. /\ IsInjective(<<Idle>>) /\ ToSet(<<Idle>>) = {Idle} /\ <<Idle>> # <<>>
      /\ ToSet(<<>>) = {} /\ \A s : s = <<>> => IsInjective(s)
  <2>1. DOMAIN <<Idle>> = {1}
    BY <1>5
  <2>2. IsInjective(<<Idle>>) /\ ToSet(<<Idle>>) = {Idle}
    BY <1>5, <2>1 DEF IsInjective, ToSet
  <2>3. \A s : s = <<>> => DOMAIN s = {}
    OBVIOUS
  <2>4. ToSet(<<>>) = {} /\ \A s : s = <<>> => IsInjective(s)
    BY <2>3 DEF IsInjective, ToSet
  <2> QED BY <1>5, <2>2, <2>4
<1>7. k \in Kernel
  <2>1. st \in [Threads -> Stats]
    BY DEF Stats
  <2>2. rd \in [Levels -> Seq(Threads)]
    BY <1>5
  <2>3. sw \in [pending : BOOLEAN, from : Threads \cup {Nobody}, to : Threads]
    BY <1>1
  <2> HIDE DEF st, rd, sw
  <2>4. k = [stat |-> st, yields |-> {}, prio |-> Prio, slice |-> Slice, ready |-> rd,
             group |-> {Prio[Idle]}, waits |-> {}, defunct |-> <<>>, timers |-> {},
             lock |-> 0, current |-> First, switch |-> sw]
    BY DEF Init, st, rd, sw
  <2>5. Slice \in [Threads -> Nat] /\ {Prio[Idle]} \in SUBSET Levels /\ First \in Threads
    BY <1>1
  <2> QED BY <1>1, <1>5, <2>1, <2>2, <2>3, <2>4, <2>5 DEF Kernel
<1>8. \A p \in Levels : rd[p] = IF p = Prio[Idle] THEN <<Idle>> ELSE <<>>
  OBVIOUS
<1> HIDE DEF st, rd
<1>9. Rows(k)
  BY <1>2, <1>6, <1>8 DEF Rows
<1>10. Queue(k) = {Idle}
  BY <1>1, <1>2, <1>6, <1>8 DEF Queue
<1>11. pc \in Procs /\ \A t \in Threads : pc[t].at = "run"
  BY CallsAre DEF Init, Procs
<1>12. VictimsOf(pc) = {}
  BY <1>11 DEF VictimsOf
<1>13. Lists(k, {})
  <2>1. IsInjective(k.defunct) /\ ToSet(k.defunct) = {t \in Threads : k.stat[t] = "CLOSE"}
    BY <1>2, <1>3, <1>4, <1>6
  <2>2. k.stat[Idle] = "READY" /\ k.current # Idle /\ k.stat[k.current] = "RUNNING"
    BY <1>1, <1>2, <1>3, <1>4
  <2>3. \A t \in Threads \ {} : k.stat[t] = "READY" => t \in Queue(k)
    BY <1>2, <1>4, <1>10
  <2> QED BY <1>3, <1>9, <1>10, <2>1, <2>2, <2>3 DEF Lists
<1>14. Deletions(k, pc)
  BY <1>1, <1>11 DEF Deletions
<1>15. Ongoing(k, pc)
  BY <1>1, <1>2, <1>3, <1>4 DEF Ongoing
<1>16. cpu = Nobody /\ isr = <<>> /\ outdated = FALSE
  BY DEF Init
<1>17. Contexts(k, cpu)
  BY <1>3, <1>16 DEF Contexts
<1>18. Sliced(k)
  BY <1>1, <1>2, <1>3 DEF Sliced
<1>19. HighestRuns
  <2>1. k.stat[k.current] = "RUNNING"
    BY <1>1, <1>2, <1>3, <1>4
  <2>2. \A t \in Threads : k.stat[t] = "READY" => k.prio[k.current] <= k.prio[t]
    <3>1. \A t \in Threads : k.stat[t] = "READY" => t = Idle
      BY <1>2, <1>4
    <3>2. Prio[First] \in Nat /\ Prio[Idle] \in Nat /\ First \in Threads
      BY <1>1
    <3>3. Prio[First] <= Prio[Idle]
      BY <1>1, <3>2
    <3>4. k.prio[k.current] = Prio[First] /\ k.prio[Idle] = Prio[Idle]
      BY <1>2, <1>3
    <3> QED BY <3>1, <3>3, <3>4
  <2> QED BY <2>1, <2>2 DEF HighestRuns, IsReady
<1>20. Good(k, pc, cpu)
  BY <1>7, <1>12, <1>13, <1>14, <1>15, <1>17, <1>18 DEF Good
<1>21. isr \in Seq(Stages)
  BY <1>16, EmptySeq
<1>22. cpu \in Threads \cup {Nobody} /\ outdated \in BOOLEAN
  BY <1>16
<1> QED BY <1>11, <1>19, <1>20, <1>21, <1>22 DEF Inv

LEMMA InvCalls ==
    ASSUME ~DeleteTimed, Inv, NEW t \in Threads \ {Idle}, Calls(t) PROVE Inv'
<1>1. CASE Yields(t) \/ EntersCritical(t) \/ ExitsCritical(t) \/ Exits(t)
  BY <1>1, InvYields, InvEntersCritical, InvExitsCritical, InvExits
<1>2. ASSUME NEW listed \in BOOLEAN, NEW timed \in BOOLEAN, Suspends(t, listed, timed) PROVE Inv'
  BY <1>2, InvSuspends
<1>3. ASSUME NEW u \in Threads,
             Startup(t, u) \/ Wakes(t, u) \/ Creates(t, u) \/ DeleteBegins(t, u)
      PROVE  Inv'
  BY <1>3, InvStartup, InvWakes, InvCreates, InvDeleteBegins
<1>4. ASSUME NEW u \in Threads, NEW p \in Levels, ChangesPriority(t, u, p) PROVE Inv'
  BY <1>4, InvChangesPriority
<1> QED BY <1>1, <1>2, <1>3, <1>4 DEF Calls

LEMMA InvStep ==
    ASSUME ~DeleteTimed, Inv, [Next]_vars PROVE Inv'
<1>1. CASE \E t \in Threads \ {Idle} : Calls(t) \/ TimerFires(t) \/ HandlerWakes(t)
  <2>1. PICK t \in Threads \ {Idle} : Calls(t) \/ TimerFires(t) \/ HandlerWakes(t)
    BY <1>1
  <2> QED BY <2>1, InvCalls, InvTimerFires, InvHandlerWakes
<1>2. CASE IdleLooks \/ Continues
  BY <1>2, InvIdleLooks, InvCallSchedules, InvDeleteEnds, InvIdleFrees DEF Continues
<1>3. CASE TickBegins \/ TickSchedules \/ TickEnds \/ HandlerEnds \/ PendSV
  BY <1>3, InvTickBegins, InvTickSchedules, InvTickEnds, InvHandlerEnds, InvPendSV
<1>4. CASE UNCHANGED vars
  BY <1>4 DEF vars, Inv, Good, HighestRuns, IsReady, Victims, Owed
<1> QED BY <1>1, <1>2, <1>3, <1>4 DEF Next

\* Inv is an invariant of every behaviour.
LEMMA InvAlways == ASSUME ~DeleteTimed PROVE Spec => []Inv
<1>1. Init => Inv
  BY InvInit
<1>2. Inv /\ [Next]_vars => Inv'
  BY InvStep
<1> QED BY <1>1, <1>2, PTL DEF Spec

-----------------------------------------------------------------------------
LEMMA InvGives == Inv => TypeOK /\ ListsAgree /\ ContextsKept /\ FreedIsGone
<1> SUFFICES ASSUME Inv PROVE TypeOK /\ ListsAgree /\ ContextsKept /\ FreedIsGone
  OBVIOUS
<1>1. k \in Kernel /\ Lists(k, VictimsOf(pc)) /\ Contexts(k, cpu) /\ Sliced(k) /\ Ongoing(k, pc)
  BY DEF Inv, Good
<1>2. VictimsOf(pc) = Victims
  BY DEF Victims, VictimsOf
<1>3. TypeOK
  BY <1>1, KernelHas DEF Inv, Procs, Calling, Stages, Sliced, TypeOK
<1>4. ListsAgree
  <2>1. \A p \in Levels : \A t \in ToSet(k.ready[p]) : k.stat[t] = "READY" /\ k.prio[t] = p
    <3>1. \A p \in Levels : ToSet(k.ready[p]) \subseteq Threads
      BY <1>1, KernelHas, ToSetIn
    <3>2. \A p \in Levels : \A t \in ToSet(k.ready[p]) : k.prio[t] = p
      BY <1>1 DEF Lists, Rows
    <3>3. \A p \in Levels : \A t \in ToSet(k.ready[p]) : t \in Queue(k)
      BY <3>1, <3>2 DEF Queue
    <3> QED BY <1>1, <3>2, <3>3 DEF Lists
  <2>2. \A p \in Levels : IsInjective(k.ready[p]) /\ (p \in k.group <=> k.ready[p] # <<>>)
    BY <1>1 DEF Lists, Rows
  <2>3. \A t \in Threads : IsReady(t) => t \in ToSet(k.ready[k.prio[t]])
    BY <1>1, <1>2 DEF Lists, Queue, IsReady
  <2>4. \A t \in k.timers \cup k.waits : k.stat[t] = "SUSPEND"
    BY <1>1 DEF Lists
  <2> QED BY <2>1, <2>2, <2>3, <2>4 DEF ListsAgree
<1>5. ContextsKept
  BY <1>1 DEF Contexts, ContextsKept
<1>6. FreedIsGone
  <2>1. IsInjective(k.defunct) /\ ToSet(k.defunct) = {t \in Threads : k.stat[t] = "CLOSE"}
    BY <1>1 DEF Lists
  <2>2. ASSUME NEW t \in Threads, k.stat[t] = "FREE"
        PROVE  /\ t \notin k.waits \cup k.timers \cup {k.current, cpu}
               /\ k.switch.pending => t \notin {k.switch.from, k.switch.to}
    <3>1. t # k.current
      BY <1>1, <2>2 DEF Ongoing
    <3>2. t # cpu
      <4>1. Nobody \notin Threads
        BY SchedulerAssumption DEF SchedulerAssumption
      <4> QED BY <1>1, <2>2, <4>1 DEF Contexts
    <3>3. t \notin k.waits \cup k.timers
      BY <1>1, <2>2 DEF Lists
    <3> QED BY <1>1, <3>1, <3>2, <3>3 DEF Contexts
  <2> QED BY <2>1, <2>2 DEF FreedIsGone
<1> QED BY <1>3, <1>4, <1>5, <1>6

\* The state keeps its type: whatever is scheduled, preempted or deleted, the lock
\* stays in its bounds and every slice is between 1 and what it was set to.
THEOREM SchedulerTyped == ASSUME ~DeleteTimed PROVE Spec => []TypeOK
<1>1. Spec => []Inv
  BY InvAlways
<1>2. Inv => TypeOK
  BY InvGives
<1> QED BY <1>1, <1>2, PTL

\* Every thread is on the list that its state names, once, and on no other, and the
\* bits of the group tell the lists that are not empty; only a suspended thread waits
\* or has a timer.
THEOREM ListsAlwaysAgree == ASSUME ~DeleteTimed PROVE Spec => []ListsAgree
<1>1. Spec => []Inv
  BY InvAlways
<1>2. Inv => ListsAgree
  BY InvGives
<1> QED BY <1>1, <1>2, PTL

\* Unless the scheduler is locked, a rt_schedule is owed or a priority was changed since
\* the last one, the current thread is running and nobody ready is above it.
THEOREM HighestAlwaysRuns == ASSUME ~DeleteTimed PROVE Spec => []HighestRuns
<1>1. Spec => []Inv
  BY InvAlways
<1>2. Inv => HighestRuns
  BY DEF Inv
<1> QED BY <1>1, <1>2, PTL

\* PendSV saves the registers for the thread whose they are and loads those of the
\* current thread, however many switches were asked for since.
THEOREM ContextsAlwaysKept == ASSUME ~DeleteTimed PROVE Spec => []ContextsKept
<1>1. Spec => []Inv
  BY InvAlways
<1>2. Inv => ContextsKept
  BY InvGives
<1> QED BY <1>1, <1>2, PTL

\* The idle thread never frees what is on a list, has a timer, runs or is about to be
\* switched from or to, and frees nothing twice.
THEOREM FreedStaysGone == ASSUME ~DeleteTimed PROVE Spec => []FreedIsGone
<1>1. Spec => []Inv
  BY InvAlways
<1>2. Inv => FreedIsGone
  BY InvGives
<1> QED BY <1>1, <1>2, PTL
=============================================================================
