--------------------------- MODULE MsgQueueProofs ---------------------------
(***************************************************************************)
(* Proofs about MsgQueue, for any callers, priorities, depth and flag.     *)
(***************************************************************************)
EXTENDS MsgQueue, ListLemmas, SequenceTheorems, FiniteSetTheorems, TLAPS

\* A thread holds a slot exactly while it copies, and knows what it sends.
CallsSound ==
    \A t \in Threads :
        /\ th[t].slot # Nil <=> th[t].pc \in {"fill", "fillUrgent", "drain"}
        /\ th[t].pc \in {"send", "fill", "fillUrgent"} => th[t].msg \in Message

Inv == TypeOK /\ ListsSpelled /\ SlotsConserved /\ CallsSound

USE MsgQueueAssumption DEF Nil

\* Where slots move between the three places, the pool stays one.
LEMMA InvClaim ==
    ASSUME Inv, NEW t \in Threads, NEW m \in Message, NEW pc \in {"fill", "fillUrgent"},
           th[t].slot = Nil, Claim(t, m, pc),
           buf' \in [Threads -> Message \cup {NoMsg}]
    PROVE  Inv'
<1>1. /\ free # Nil /\ free' = next[free] /\ avail' = Tail(avail)
      /\ th' = [th EXCEPT ![t] = [Idle EXCEPT !.pc = pc, !.msg = m, !.slot = free]]
      /\ UNCHANGED <<head, tail, next, data, entry, linked, receivers, senders>>
  BY DEF Claim, waiting
<1>2. /\ linked \in Seq(Slots) /\ avail \in Seq(Slots)
      /\ IsInjective(linked) /\ IsInjective(avail)
  BY DEF Inv, TypeOK, SlotsConserved
<1>3. avail # <<>> /\ free = avail[1]
  BY <1>1 DEF Inv, ListsSpelled, Spells
<1>4. /\ avail' \in Seq(Slots) /\ Len(avail) \in Nat \ {0} /\ Len(avail') = Len(avail) - 1
      /\ \A i \in 1 .. Len(avail) - 1 : avail'[i] = avail[i + 1]
      /\ IsInjective(avail') /\ free \in ToSet(avail)
      /\ ToSet(avail') = ToSet(avail) \ {free}
  BY <1>1, <1>2, <1>3, TailOf
<1>5. free \in Slots
  BY <1>2, <1>3, <1>4
<1>6. th' \in [Threads -> [pc : PCs, msg : Message \cup {NoMsg}, slot : Slots \cup {Nil},
                 timeout : Timeouts, error : {"EOK", "ETIMEOUT", "ERROR"}]]
  BY <1>1, <1>5 DEF Inv, TypeOK, Idle, PCs, Timeouts
<1>7. TypeOK'
  BY <1>1, <1>2, <1>4, <1>5, <1>6 DEF Inv, TypeOK
<1>8. ListsSpelled'
  <2>1. Spells(head, linked)'
    BY <1>1 DEF Inv, ListsSpelled, Spells
  <2>2. next[free] = IF Len(avail) = 1 THEN Nil ELSE avail[2]
    BY <1>3, <1>4 DEF Inv, ListsSpelled, Spells
  <2>3. avail' = <<>> <=> Len(avail) = 1
    BY <1>4, EmptySeq
  <2>4. free' = IF avail' = <<>> THEN Nil ELSE avail'[1]
    BY <1>1, <1>4, <2>2, <2>3
  <2>5. ASSUME NEW i \in 1 .. Len(avail')
        PROVE  next'[avail'[i]] = IF i = Len(avail') THEN Nil ELSE avail'[i + 1]
    <3>1. /\ i + 1 \in 1 .. Len(avail) /\ avail'[i] = avail[i + 1]
          /\ i # Len(avail') => avail'[i + 1] = avail[i + 2]
      BY <1>4, <2>5
    <3>2. next[avail[i + 1]] = IF i + 1 = Len(avail) THEN Nil ELSE avail[i + 2]
      BY <3>1 DEF Inv, ListsSpelled, Spells
    <3> QED BY <1>1, <1>4, <3>1, <3>2
  <2> QED BY <1>1, <2>1, <2>4, <2>5 DEF Inv, ListsSpelled, Spells
<1>9. SlotsConserved'
  <2>1. Held' = Held \cup {t} /\ t \notin Held /\ th'[t].slot = free
    BY <1>1, <1>5, <1>6 DEF Held, Inv, TypeOK, Idle, Slots
  <2>2. \A u \in Held : th'[u].slot = th[u].slot
    BY <1>1, <2>1 DEF Held, Inv, TypeOK
  <2>3. HeldSlots' = HeldSlots \cup {free}
    BY <2>1, <2>2 DEF HeldSlots
  <2>4. free \notin HeldSlots /\ free \notin ToSet(linked)
    BY <1>4 DEF Inv, SlotsConserved
  <2>5. \A u, v \in Held' : th'[u].slot = th'[v].slot => u = v
    BY <2>1, <2>2, <2>4 DEF Inv, SlotsConserved, HeldSlots
  <2>6. HeldSlots' = Slots \ (ToSet(linked) \cup ToSet(avail'))
    BY <1>4, <1>5, <2>3, <2>4 DEF Inv, SlotsConserved
  <2> QED BY <1>1, <1>4, <2>5, <2>6 DEF Inv, SlotsConserved
<1>10. CallsSound'
  BY <1>1, <1>5 DEF Inv, CallsSound, TypeOK, Idle, Slots
<1> QED BY <1>7, <1>8, <1>9, <1>10 DEF Inv

\* A step that leaves the pool alone and moves no slot.
LEMMA InvQuiet ==
    ASSUME Inv, UNCHANGED pool,
           receivers' \in Seq(Threads), senders' \in Seq(Threads),
           th' \in [Threads -> [pc : PCs, msg : Message \cup {NoMsg}, slot : Slots \cup {Nil},
                               timeout : Timeouts, error : {"EOK", "ETIMEOUT", "ERROR"}]],
           \A t \in Threads : th'[t].slot = th[t].slot,
           CallsSound',
           buf' \in [Threads -> Message \cup {NoMsg}]
    PROVE  Inv'
<1>1. TypeOK'
  BY DEF Inv, TypeOK, pool
<1>2. ListsSpelled'
  BY DEF Inv, ListsSpelled, Spells, pool
<1>3. Held' = Held /\ HeldSlots' = HeldSlots
  <2>1. Held' = Held
    BY DEF Held
  <2> QED BY <2>1 DEF Held, HeldSlots
<1>4. SlotsConserved'
  BY <1>3 DEF Inv, SlotsConserved, pool, Held
<1> QED BY <1>1, <1>2, <1>4 DEF Inv

\* What a thread that copies holds.
LEMMA HolderFacts ==
    ASSUME Inv, NEW t \in Threads, th[t].pc \in {"fill", "fillUrgent", "drain"}
    PROVE  /\ th[t].slot \in Slots /\ t \in Held
           /\ th[t].slot \notin ToSet(linked) /\ th[t].slot \notin ToSet(avail)
           /\ \A u \in Held : u # t => th[u].slot # th[t].slot
           /\ th[t].pc # "drain" => th[t].msg \in Message
<1>1. th[t].slot # Nil /\ th[t].slot \in Slots
  BY DEF Inv, CallsSound, TypeOK
<1>2. t \in Held /\ th[t].slot \in HeldSlots
  BY <1>1 DEF Held, HeldSlots
<1> QED BY <1>1, <1>2 DEF Inv, SlotsConserved, CallsSound

\* The holder returns: its slot is no longer held, the others' are.
LEMMA HolderReturns ==
    ASSUME Inv, NEW t \in Threads, t \in Held, Returns(t)
    PROVE  /\ Held' = Held \ {t} /\ HeldSlots' = HeldSlots \ {th[t].slot}
           /\ \A u, v \in Held' : th'[u].slot = th'[v].slot => u = v
           /\ CallsSound'
           /\ th' \in [Threads -> [pc : PCs, msg : Message \cup {NoMsg}, slot : Slots \cup {Nil},
                   timeout : Timeouts, error : {"EOK", "ETIMEOUT", "ERROR"}]]
<1>1. /\ th' \in [Threads -> [pc : PCs, msg : Message \cup {NoMsg}, slot : Slots \cup {Nil},
                   timeout : Timeouts, error : {"EOK", "ETIMEOUT", "ERROR"}]]
      /\ th'[t] = Idle /\ \A u \in Threads : u # t => th'[u] = th[u]
  BY DEF Returns, Inv, TypeOK, Idle, PCs, Timeouts
<1>2. Held' = Held \ {t}
  BY <1>1 DEF Held, Idle
<1>3. \A u \in Held' : th'[u].slot = th[u].slot /\ u \in Threads
  BY <1>1, <1>2 DEF Held
<1>4. HeldSlots' = HeldSlots \ {th[t].slot}
  BY <1>2, <1>3 DEF Inv, SlotsConserved, HeldSlots
<1>5. CallsSound'
  BY <1>1 DEF Inv, CallsSound, Idle
<1> QED BY <1>1, <1>2, <1>3, <1>4, <1>5 DEF Inv, SlotsConserved

\* A queue that misses a slot is not full.
LEMMA NotFull ==
    ASSUME NEW q \in Seq(Slots), IsInjective(q), NEW s \in Slots, s \notin ToSet(q)
    PROVE  Len(q) \in Nat /\ Len(q) < MaxMsgs
<1> DEFINE f == Append(q, s)
<1>1. /\ f \in Seq(Slots) /\ Len(q) \in Nat /\ Len(f) = Len(q) + 1 /\ IsInjective(f)
  BY AppendOf
<1>2. f \in Injection(1 .. Len(q) + 1, Slots)
  BY <1>1, LenProperties DEF Injection
<1>3. Cardinality(1 .. Len(q) + 1) <= Cardinality(Slots)
  BY <1>2, FS_Injection, FS_Interval, MsgQueueAssumption DEF Slots, MsgQueueAssumption
<1> QED BY <1>1, <1>3, FS_Interval, MsgQueueAssumption DEF Slots, MsgQueueAssumption

LEMMA InvSendLink ==
    ASSUME Inv, NEW t \in Threads, SendLink(t)
    PROVE  Inv'
<1> DEFINE s == th[t].slot
<1>1. /\ th[t].pc = "fill" /\ Announce /\ Returns(t)
      /\ data' = [data EXCEPT ![s] = th[t].msg]
      /\ next' = IF tail = Nil THEN [next EXCEPT ![s] = Nil]
                               ELSE [next EXCEPT ![s] = Nil, ![tail] = s]
      /\ tail' = s /\ head' = IF head = Nil THEN s ELSE head
      /\ linked' = Append(linked, s)
      /\ UNCHANGED <<free, avail, senders, buf>>
  BY DEF SendLink
<1>2. /\ s \in Slots /\ t \in Held /\ s \notin ToSet(linked) /\ s \notin ToSet(avail)
      /\ th[t].msg \in Message
  BY <1>1, HolderFacts
<1> HIDE DEF s
<1>3. /\ linked \in Seq(Slots) /\ avail \in Seq(Slots)
      /\ IsInjective(linked) /\ IsInjective(avail)
      /\ Len(linked) \in Nat /\ DOMAIN linked = 1 .. Len(linked)
      /\ Len(avail) \in Nat /\ DOMAIN avail = 1 .. Len(avail)
      /\ entry = Len(linked)
  BY LenProperties DEF Inv, TypeOK, SlotsConserved
<1>4. /\ linked' \in Seq(Slots) /\ linked' # <<>> /\ Len(linked') = Len(linked) + 1
      /\ \A i \in 1 .. Len(linked) : linked'[i] = linked[i]
      /\ linked'[Len(linked) + 1] = s
      /\ IsInjective(linked') /\ ToSet(linked') = ToSet(linked) \cup {s}
  BY <1>1, <1>2, <1>3, AppendOf
<1>5. entry' = entry + 1 /\ entry + 1 \in 0 .. MaxMsgs /\ receivers' = Resume(receivers)
  BY <1>1, <1>2, <1>3, NotFull, MsgQueueAssumption DEF Announce, MsgQueueAssumption
<1>6. receivers' \in Seq(Threads)
  BY <1>5, HeadTailProperties DEF Inv, TypeOK, Resume
<1>7. /\ Held' = Held \ {t} /\ HeldSlots' = HeldSlots \ {s}
      /\ \A u, v \in Held' : th'[u].slot = th'[v].slot => u = v
      /\ CallsSound'
      /\ th' \in [Threads -> [pc : PCs, msg : Message \cup {NoMsg}, slot : Slots \cup {Nil},
                 timeout : Timeouts, error : {"EOK", "ETIMEOUT", "ERROR"}]]
  BY <1>1, <1>2, HolderReturns DEF s
<1>8. /\ linked = <<>> => head = Nil /\ tail = Nil /\ Len(linked) = 0
      /\ linked # <<>> => /\ Len(linked) \in 1 .. Len(linked) /\ 1 \in 1 .. Len(linked)
                         /\ tail = linked[Len(linked)] /\ head = linked[1]
                         /\ tail \in Slots /\ tail # s /\ tail \in ToSet(linked)
                         /\ head \in Slots
  <2>1. linked = <<>> => head = Nil /\ tail = Nil /\ Len(linked) = 0
    BY EmptySeq DEF Inv, ListsSpelled, Spells
  <2>2. CASE linked # <<>>
    <3>1. Len(linked) \in 1 .. Len(linked) /\ 1 \in 1 .. Len(linked)
      BY <1>3, <2>2, EmptySeq
    <3>2. tail = linked[Len(linked)] /\ head = linked[1]
      BY <2>2 DEF Inv, ListsSpelled, Spells
    <3> QED BY <1>2, <1>3, <3>1, <3>2 DEF ToSet
  <2> QED BY <2>1, <2>2
<1>9. TypeOK'
  BY <1>1, <1>2, <1>3, <1>4, <1>5, <1>6, <1>7 DEF Inv, TypeOK
<1>10. ListsSpelled'
  <2>1. next'[s] = Nil
    BY <1>1, <1>2, <1>8 DEF Inv, TypeOK
  <2>2. linked # <<>> => next'[tail] = s
    BY <1>1, <1>2, <1>8 DEF Inv, TypeOK, Slots
  <2>3. \A r \in Slots : r # s /\ r # tail => next'[r] = next[r]
    BY <1>1, <1>2 DEF Inv, TypeOK
  <2>4. Spells(head, linked)'
    <3>1. head' = linked'[1]
      BY <1>1, <1>3, <1>4, <1>8 DEF Slots
    <3>2. ASSUME NEW i \in 1 .. Len(linked')
          PROVE  next'[linked'[i]] = IF i = Len(linked') THEN Nil ELSE linked'[i + 1]
      <4>1. CASE i = Len(linked) + 1
        BY <1>4, <2>1, <4>1
      <4>2. CASE i = Len(linked)
        <5>1. linked # <<>> /\ i \in 1 .. Len(linked)
          BY <1>3, <3>2, <4>2, EmptySeq
        <5>2. linked'[i] = tail /\ linked'[i + 1] = s /\ i # Len(linked')
          BY <1>3, <1>4, <1>8, <4>2, <5>1
        <5> QED BY <2>2, <5>1, <5>2
      <4>3. CASE i < Len(linked)
        <5>1. /\ i \in 1 .. Len(linked) /\ i + 1 \in 1 .. Len(linked)
              /\ linked[i] \in Slots /\ linked[i] # s
              /\ linked[i] # linked[Len(linked)]
          BY <1>2, <1>3, <4>3 DEF ToSet, IsInjective
        <5>2. next[linked[i]] = linked[i + 1]
          BY <5>1, <4>3 DEF Inv, ListsSpelled, Spells
        <5>3. linked[i] # tail
          BY <1>8, <5>1
        <5> QED BY <1>4, <2>3, <4>3, <5>1, <5>2, <5>3
      <4>4. i = Len(linked) + 1 \/ i = Len(linked) \/ i < Len(linked)
        <5>1. i \in 1 .. Len(linked) + 1
          BY <1>4, <3>2
        <5>2. Len(linked) \in Nat
          BY <1>3
        <5> QED BY <5>1, <5>2, Positions
      <4> QED BY <4>1, <4>2, <4>3, <4>4
    <3> QED BY <1>4, <3>1, <3>2 DEF Spells
  <2>5. Spells(free, avail)'
    <3>1. \A i \in 1 .. Len(avail) : avail[i] \in Slots /\ avail[i] \in ToSet(avail)
      BY <1>3 DEF ToSet
    <3>0. /\ \A x \in ToSet(avail) : x \notin ToSet(linked)
      BY DEF Inv, SlotsConserved
    <3>3. \A i \in 1 .. Len(avail) : avail[i] # s /\ (linked # <<>> => avail[i] # tail)
      BY <1>2, <1>8, <3>1, <3>0
    <3>2. \A i \in 1 .. Len(avail) : next'[avail[i]] = next[avail[i]]
      BY <1>8, <2>3, <3>1, <3>3 DEF Slots
    <3> QED BY <1>1, <3>2 DEF Inv, ListsSpelled, Spells
  <2> QED BY <1>1, <1>4, <2>4, <2>5 DEF ListsSpelled
<1>11. SlotsConserved'
  BY <1>1, <1>2, <1>3, <1>4, <1>5, <1>7 DEF Inv, SlotsConserved
<1> QED BY <1>7, <1>9, <1>10, <1>11 DEF Inv

LEMMA InvUrgentLink ==
    ASSUME Inv, NEW t \in Threads, UrgentLink(t)
    PROVE  Inv'
<1> DEFINE s == th[t].slot
<1>1. /\ th[t].pc = "fillUrgent" /\ Announce /\ Returns(t)
      /\ data' = [data EXCEPT ![s] = th[t].msg]
      /\ next' = [next EXCEPT ![s] = head]
      /\ head' = s /\ tail' = IF tail = Nil THEN s ELSE tail
      /\ linked' = <<s>> \o linked
      /\ UNCHANGED <<free, avail, senders, buf>>
  BY DEF UrgentLink
<1>2. /\ s \in Slots /\ t \in Held /\ s \notin ToSet(linked) /\ s \notin ToSet(avail)
      /\ th[t].msg \in Message
  BY <1>1, HolderFacts
<1> HIDE DEF s
<1>3. /\ linked \in Seq(Slots) /\ avail \in Seq(Slots)
      /\ IsInjective(linked) /\ IsInjective(avail)
      /\ Len(linked) \in Nat /\ DOMAIN linked = 1 .. Len(linked)
      /\ Len(avail) \in Nat /\ DOMAIN avail = 1 .. Len(avail)
      /\ entry = Len(linked)
  BY LenProperties DEF Inv, TypeOK, SlotsConserved
<1>4. /\ linked' \in Seq(Slots) /\ linked' # <<>> /\ Len(linked') = Len(linked) + 1
      /\ linked'[1] = s
      /\ \A i \in 1 .. Len(linked) : linked'[i + 1] = linked[i]
      /\ IsInjective(linked') /\ ToSet(linked') = ToSet(linked) \cup {s}
  BY <1>1, <1>2, <1>3, ConsOf
<1>5. entry' = entry + 1 /\ entry + 1 \in 0 .. MaxMsgs /\ receivers' = Resume(receivers)
  BY <1>1, <1>2, <1>3, NotFull, MsgQueueAssumption DEF Announce, MsgQueueAssumption
<1>6. receivers' \in Seq(Threads)
  BY <1>5, HeadTailProperties DEF Inv, TypeOK, Resume
<1>7. /\ Held' = Held \ {t} /\ HeldSlots' = HeldSlots \ {s}
      /\ \A u, v \in Held' : th'[u].slot = th'[v].slot => u = v
      /\ CallsSound'
      /\ th' \in [Threads -> [pc : PCs, msg : Message \cup {NoMsg}, slot : Slots \cup {Nil},
                 timeout : Timeouts, error : {"EOK", "ETIMEOUT", "ERROR"}]]
  BY <1>1, <1>2, HolderReturns DEF s
<1>8. TypeOK'
  BY <1>1, <1>2, <1>3, <1>4, <1>5, <1>6, <1>7 DEF Inv, TypeOK
<1>9. ListsSpelled'
  <2>1. next'[s] = head /\ \A r \in Slots : r # s => next'[r] = next[r]
    BY <1>1, <1>2 DEF Inv, TypeOK
  <2>2. \A i \in 1 .. Len(linked) : /\ linked[i] \in Slots /\ linked[i] # s
                                    /\ next'[linked[i]] = next[linked[i]]
    BY <1>2, <1>3, <2>1 DEF ToSet
  <2>3. \A i \in 1 .. Len(avail) : next'[avail[i]] = next[avail[i]]
    BY <1>2, <1>3, <2>1 DEF ToSet
  <2>4. Spells(head, linked)'
    <3>1. ASSUME NEW i \in 1 .. Len(linked')
          PROVE  next'[linked'[i]] = IF i = Len(linked') THEN Nil ELSE linked'[i + 1]
      <4>1. CASE i = 1
        <5>1. linked = <<>> <=> Len(linked) = 0
          BY <1>3, EmptySeq
        <5>2. head = IF Len(linked) = 0 THEN Nil ELSE linked[1]
          BY <5>1 DEF Inv, ListsSpelled, Spells
        <5> QED BY <1>3, <1>4, <2>1, <4>1, <5>2
      <4>2. CASE i # 1
        <5> DEFINE j == i - 1
        <5>1. j \in 1 .. Len(linked) /\ i = j + 1
          BY <1>3, <1>4, <3>1, <4>2
        <5> HIDE DEF j
        <5>2. /\ linked'[i] = linked[j]
              /\ next[linked[j]] = IF j = Len(linked) THEN Nil ELSE linked[j + 1]
          BY <1>4, <5>1 DEF Inv, ListsSpelled, Spells
        <5>3. CASE j = Len(linked)
          BY <1>4, <2>2, <5>1, <5>2, <5>3
        <5>4. CASE j # Len(linked)
          <6>1. j + 1 \in 1 .. Len(linked) /\ i # Len(linked')
            <7>1. Len(linked) \in Nat /\ Len(linked') = Len(linked) + 1
              BY <1>3, <1>4
            <7> QED BY <5>1, <5>4, <7>1, Positions
          <6> QED BY <1>4, <2>2, <5>1, <5>2, <5>4, <6>1
        <5> QED BY <5>3, <5>4
      <4> QED BY <4>1, <4>2
    <3> QED BY <1>1, <1>4, <3>1 DEF Spells
  <2>5. Spells(free, avail)'
    BY <1>1, <2>3 DEF Inv, ListsSpelled, Spells
  <2>6. tail' = linked'[Len(linked')]
    <3>1. CASE linked = <<>>
      <4>1. tail = Nil /\ Len(linked') = 1
        BY <1>3, <1>4, <3>1, EmptySeq DEF Inv, ListsSpelled
      <4> QED BY <1>1, <1>4, <4>1
    <3>2. CASE linked # <<>>
      <4>1. Len(linked) \in 1 .. Len(linked)
        BY <1>3, <3>2, EmptySeq
      <4>2. tail = linked[Len(linked)] /\ tail \in Slots
        BY <1>3, <3>2, <4>1 DEF Inv, ListsSpelled
      <4> QED BY <1>1, <1>4, <4>1, <4>2 DEF Slots
    <3> QED BY <3>1, <3>2
  <2> QED BY <1>4, <2>4, <2>5, <2>6 DEF ListsSpelled
<1>10. SlotsConserved'
  BY <1>1, <1>2, <1>3, <1>4, <1>5, <1>7 DEF Inv, SlotsConserved
<1> QED BY <1>7, <1>8, <1>9, <1>10 DEF Inv

LEMMA InvUnlink ==
    ASSUME Inv, NEW t \in Threads, th[t].slot = Nil, entry # 0, Unlink(t),
           buf' \in [Threads -> Message \cup {NoMsg}]
    PROVE  Inv'
<1>1. /\ head' = next[head] /\ tail' = IF tail = head THEN Nil ELSE tail
      /\ entry' = IF entry > 0 THEN entry - 1 ELSE entry
      /\ linked' = Tail(linked)
      /\ th' = [th EXCEPT ![t] = [Idle EXCEPT !.pc = "drain", !.slot = head]]
      /\ UNCHANGED <<free, next, data, avail, receivers, senders>>
  BY DEF Unlink, waiting
<1>2. /\ linked \in Seq(Slots) /\ avail \in Seq(Slots)
      /\ IsInjective(linked) /\ IsInjective(avail)
      /\ entry = Len(linked) /\ DOMAIN linked = 1 .. Len(linked)
  BY LenProperties DEF Inv, TypeOK, SlotsConserved
<1>3. linked # <<>> /\ head = linked[1] /\ tail = linked[Len(linked)]
  <2>1. linked # <<>>
    BY <1>2, EmptySeq
  <2> QED BY <2>1 DEF Inv, ListsSpelled, Spells
<1>4. /\ linked' \in Seq(Slots) /\ Len(linked) \in Nat \ {0} /\ Len(linked') = Len(linked) - 1
      /\ \A i \in 1 .. Len(linked) - 1 : linked'[i] = linked[i + 1]
      /\ IsInjective(linked') /\ head \in ToSet(linked)
      /\ ToSet(linked') = ToSet(linked) \ {head}
  BY <1>1, <1>2, <1>3, TailOf
<1>5. head \in Slots /\ tail \in Slots /\ entry' \in 0 .. MaxMsgs /\ entry' = Len(linked')
  <2>1. head \in Slots /\ tail \in Slots
    BY <1>2, <1>3, <1>4
  <2>2. entry' = entry - 1 /\ entry - 1 \in 0 .. MaxMsgs
    BY <1>1, <1>2, <1>4 DEF Inv, TypeOK
  <2> QED BY <1>2, <1>4, <2>1, <2>2
<1>6. th' \in [Threads -> [pc : PCs, msg : Message \cup {NoMsg}, slot : Slots \cup {Nil},
                 timeout : Timeouts, error : {"EOK", "ETIMEOUT", "ERROR"}]]
  <2> DEFINE r == [Idle EXCEPT !.pc = "drain", !.slot = head]
  <2>1. "drain" \in PCs /\ head \in Slots \cup {Nil}
    BY <1>5 DEF PCs
  <2>2. Idle \in [pc : PCs, msg : Message \cup {NoMsg}, slot : Slots \cup {Nil},
                  timeout : Timeouts, error : {"EOK", "ETIMEOUT", "ERROR"}]
    BY DEF Idle, PCs, Timeouts
  <2>4. r \in [pc : PCs, msg : Message \cup {NoMsg}, slot : Slots \cup {Nil},
               timeout : Timeouts, error : {"EOK", "ETIMEOUT", "ERROR"}]
    BY <2>1, <2>2
  <2> HIDE DEF r
  <2>3. th' = [th EXCEPT ![t] = r]
    BY <1>1 DEF r
  <2> QED BY <2>3, <2>4 DEF Inv, TypeOK
<1>7. TypeOK'
  BY <1>1, <1>2, <1>4, <1>5, <1>6 DEF Inv, TypeOK
<1>8. ListsSpelled'
  <2>1. Spells(free, avail)'
    BY <1>1 DEF Inv, ListsSpelled, Spells
  <2>2. next[head] = IF Len(linked) = 1 THEN Nil ELSE linked[2]
    <3>1. 1 \in 1 .. Len(linked)
      BY <1>4
    <3>2. next[linked[1]] = IF 1 = Len(linked) THEN Nil ELSE linked[1 + 1]
      BY <3>1 DEF Inv, ListsSpelled, Spells
    <3> QED BY <1>3, <3>2
  <2>3. linked' = <<>> <=> Len(linked) = 1
    <3>1. Len(linked') = 0 <=> Len(linked) = 1
      BY <1>4
    <3>2. linked' = <<>> <=> Len(linked') = 0
      BY <1>4, EmptySeq
    <3> QED BY <3>1, <3>2
  <2>4. head' = IF linked' = <<>> THEN Nil ELSE linked'[1]
    BY <1>1, <1>4, <2>2, <2>3
  <2>5. ASSUME NEW i \in 1 .. Len(linked')
        PROVE  next'[linked'[i]] = IF i = Len(linked') THEN Nil ELSE linked'[i + 1]
    <3>1. /\ i + 1 \in 1 .. Len(linked) /\ linked'[i] = linked[i + 1]
          /\ i # Len(linked') => linked'[i + 1] = linked[i + 2]
      BY <1>4, <2>5
    <3>2. next[linked[i + 1]] = IF i + 1 = Len(linked) THEN Nil ELSE linked[i + 2]
      BY <3>1 DEF Inv, ListsSpelled, Spells
    <3> QED BY <1>1, <1>4, <3>1, <3>2
  <2>6. tail = head <=> Len(linked) = 1
    BY <1>2, <1>3, <1>4 DEF IsInjective
  <2>7. tail' = IF linked' = <<>> THEN Nil ELSE linked'[Len(linked')]
    BY <1>1, <1>3, <1>4, <2>3, <2>6
  <2> QED BY <2>1, <2>4, <2>5, <2>7 DEF ListsSpelled, Spells
<1>9. SlotsConserved'
  <2>1. Held' = Held \cup {t} /\ t \notin Held /\ th'[t].slot = head
    <3>1. th'[t] = [Idle EXCEPT !.pc = "drain", !.slot = head]
      BY <1>1 DEF Inv, TypeOK
    <3>2. th'[t].slot = head /\ head # Nil
      BY <1>5, <3>1 DEF Idle, Slots
    <3>3. \A u \in Threads : u # t => th'[u] = th[u]
      BY <1>1 DEF Inv, TypeOK
    <3> QED BY <3>2, <3>3 DEF Held
  <2>2. \A u \in Held : th'[u].slot = th[u].slot
    BY <1>1, <2>1 DEF Held, Inv, TypeOK
  <2>3. HeldSlots' = HeldSlots \cup {head}
    BY <2>1, <2>2 DEF HeldSlots
  <2>4. head \notin HeldSlots /\ head \notin ToSet(avail)
    BY <1>4 DEF Inv, SlotsConserved
  <2>5. \A u, v \in Held' : th'[u].slot = th'[v].slot => u = v
    BY <2>1, <2>2, <2>4 DEF Inv, SlotsConserved, HeldSlots
  <2>6. HeldSlots' = Slots \ (ToSet(linked') \cup ToSet(avail))
    BY <1>4, <1>5, <2>3, <2>4 DEF Inv, SlotsConserved
  <2> QED BY <1>1, <1>4, <1>5, <2>5, <2>6 DEF Inv, SlotsConserved
<1>10. CallsSound'
  <2>1. th'[t].pc = "drain" /\ th'[t].slot = head
    <3>1. th'[t] = [Idle EXCEPT !.pc = "drain", !.slot = head]
      BY <1>1 DEF Inv, TypeOK
    <3> QED BY <3>1 DEF Idle
  <2>2. \A u \in Threads : u # t => th'[u] = th[u]
    BY <1>1 DEF Inv, TypeOK
  <2>3. head # Nil
    BY <1>5 DEF Slots
  <2> QED BY <2>1, <2>2, <2>3 DEF Inv, CallsSound
<1> QED BY <1>7, <1>8, <1>9, <1>10 DEF Inv

LEMMA InvRecvFree ==
    ASSUME Inv, NEW t \in Threads, RecvFree(t)
    PROVE  Inv'
<1> DEFINE s == th[t].slot
<1>1. /\ th[t].pc = "drain" /\ Returns(t)
      /\ buf' = [buf EXCEPT ![t] = data[s]]
      /\ next' = [next EXCEPT ![s] = free]
      /\ free' = s /\ avail' = <<s>> \o avail
      /\ senders' = Resume(senders)
      /\ UNCHANGED <<head, tail, data, entry, linked, receivers>>
  BY DEF RecvFree
<1>2. s \in Slots /\ t \in Held /\ s \notin ToSet(linked) /\ s \notin ToSet(avail)
  BY <1>1, HolderFacts
<1> HIDE DEF s
<1>3. /\ linked \in Seq(Slots) /\ avail \in Seq(Slots)
      /\ IsInjective(linked) /\ IsInjective(avail)
      /\ Len(linked) \in Nat /\ DOMAIN linked = 1 .. Len(linked)
      /\ Len(avail) \in Nat /\ DOMAIN avail = 1 .. Len(avail)
  BY LenProperties DEF Inv, TypeOK, SlotsConserved
<1>4. /\ avail' \in Seq(Slots) /\ avail' # <<>> /\ Len(avail') = Len(avail) + 1
      /\ avail'[1] = s
      /\ \A i \in 1 .. Len(avail) : avail'[i + 1] = avail[i]
      /\ IsInjective(avail') /\ ToSet(avail') = ToSet(avail) \cup {s}
  BY <1>1, <1>2, <1>3, ConsOf
<1>5. senders' \in Seq(Threads)
  BY <1>1, HeadTailProperties DEF Inv, TypeOK, Resume
<1>6. /\ Held' = Held \ {t} /\ HeldSlots' = HeldSlots \ {s}
      /\ \A u, v \in Held' : th'[u].slot = th'[v].slot => u = v
      /\ CallsSound'
      /\ th' \in [Threads -> [pc : PCs, msg : Message \cup {NoMsg}, slot : Slots \cup {Nil},
                 timeout : Timeouts, error : {"EOK", "ETIMEOUT", "ERROR"}]]
  BY <1>1, <1>2, HolderReturns DEF s
<1>7. TypeOK'
  BY <1>1, <1>2, <1>3, <1>4, <1>5, <1>6 DEF Inv, TypeOK
<1>8. ListsSpelled'
  <2>1. next'[s] = free /\ \A r \in Slots : r # s => next'[r] = next[r]
    BY <1>1, <1>2 DEF Inv, TypeOK
  <2>2. \A i \in 1 .. Len(avail) : /\ avail[i] \in Slots /\ avail[i] # s
                                   /\ next'[avail[i]] = next[avail[i]]
    BY <1>2, <1>3, <2>1 DEF ToSet
  <2>3. \A i \in 1 .. Len(linked) : next'[linked[i]] = next[linked[i]]
    BY <1>2, <1>3, <2>1 DEF ToSet
  <2>4. Spells(free, avail)'
    <3>1. ASSUME NEW i \in 1 .. Len(avail')
          PROVE  next'[avail'[i]] = IF i = Len(avail') THEN Nil ELSE avail'[i + 1]
      <4>1. CASE i = 1
        <5>1. avail = <<>> <=> Len(avail) = 0
          BY <1>3, EmptySeq
        <5>2. free = IF Len(avail) = 0 THEN Nil ELSE avail[1]
          BY <5>1 DEF Inv, ListsSpelled, Spells
        <5> QED BY <1>3, <1>4, <2>1, <4>1, <5>2
      <4>2. CASE i # 1
        <5> DEFINE j == i - 1
        <5>1. j \in 1 .. Len(avail) /\ i = j + 1
          BY <1>3, <1>4, <3>1, <4>2
        <5> HIDE DEF j
        <5>2. /\ avail'[i] = avail[j]
              /\ next[avail[j]] = IF j = Len(avail) THEN Nil ELSE avail[j + 1]
          BY <1>4, <5>1 DEF Inv, ListsSpelled, Spells
        <5>3. CASE j = Len(avail)
          BY <1>4, <2>2, <5>1, <5>2, <5>3
        <5>4. CASE j # Len(avail)
          <6>1. j + 1 \in 1 .. Len(avail) /\ i # Len(avail')
            <7>1. Len(avail) \in Nat /\ Len(avail') = Len(avail) + 1
              BY <1>3, <1>4
            <7> QED BY <5>1, <5>4, <7>1, Positions
          <6> QED BY <1>4, <2>2, <5>1, <5>2, <5>4, <6>1
        <5> QED BY <5>3, <5>4
      <4> QED BY <4>1, <4>2
    <3> QED BY <1>1, <1>4, <3>1 DEF Spells
  <2>5. Spells(head, linked)'
    BY <1>1, <2>3 DEF Inv, ListsSpelled, Spells
  <2> QED BY <1>1, <2>4, <2>5 DEF Inv, ListsSpelled
<1>9. SlotsConserved'
  BY <1>1, <1>2, <1>3, <1>4, <1>6 DEF Inv, SlotsConserved
<1> QED BY <1>6, <1>7, <1>8, <1>9 DEF Inv

LEMMA InsertType ==
    ASSUME NEW S, NEW s \in Seq(S), NEW e \in S, NEW i \in 1 .. Len(s) + 1
    PROVE  InsertAt(s, i, e) \in Seq(S)
<1>1. Len(s) \in Nat /\ i - 1 \in 0 .. Len(s) /\ <<e>> \in Seq(S)
  BY LenProperties
<1>2. SubSeq(s, 1, i - 1) \in Seq(S) /\ SubSeq(s, i, Len(s)) \in Seq(S)
  BY <1>1, SubSeqProperties
<1>3. SubSeq(s, 1, i - 1) \o <<e>> \in Seq(S)
  BY <1>1, <1>2, ConcatProperties
<1> QED BY <1>2, <1>3, ConcatProperties DEF InsertAt

LEMMA RemoveType ==
    ASSUME NEW S, NEW s \in Seq(S), NEW i \in 1 .. Len(s)
    PROVE  RemoveAt(s, i) \in Seq(S)
<1>1. Len(s) \in Nat /\ i - 1 \in 0 .. Len(s)
  BY LenProperties
<1>2. SubSeq(s, 1, i - 1) \in Seq(S) /\ SubSeq(s, i + 1, Len(s)) \in Seq(S)
  BY <1>1, SubSeqProperties
<1> QED BY <1>2, ConcatProperties DEF RemoveAt

LEMMA InvTimeout ==
    ASSUME Inv, NEW t \in Threads, Timeout(t)
    PROVE  Inv'
<1>1. /\ th' = [th EXCEPT ![t].error = "ETIMEOUT"]
      /\ UNCHANGED pool /\ UNCHANGED buf
  BY DEF Timeout
<1>2. receivers' \in Seq(Threads) /\ senders' \in Seq(Threads)
  BY RemoveType DEF Inv, TypeOK, Timeout
<1>3. /\ th' \in [Threads -> [pc : PCs, msg : Message \cup {NoMsg}, slot : Slots \cup {Nil},
                 timeout : Timeouts, error : {"EOK", "ETIMEOUT", "ERROR"}]]
      /\ \A u \in Threads : /\ th'[u].slot = th[u].slot
                            /\ th'[u].pc = th[u].pc /\ th'[u].msg = th[u].msg
  BY <1>1 DEF Inv, TypeOK
<1>4. CallsSound'
  BY <1>3 DEF Inv, CallsSound
<1> QED BY <1>1, <1>2, <1>3, <1>4, InvQuiet DEF Inv, TypeOK

\* A thread without a slot that goes to sleep or returns.
LEMMA InvRests ==
    ASSUME Inv, NEW t \in Threads, th[t].slot = Nil, UNCHANGED pool,
           receivers' \in Seq(Threads), senders' \in Seq(Threads),
           buf' \in [Threads -> Message \cup {NoMsg}],
           \/ Returns(t)
           \/ \E w \in Timeouts : Waits(t, "recv", NoMsg, w)
           \/ \E w \in Timeouts, m \in Message : Waits(t, "send", m, w)
    PROVE  Inv'
<1> DEFINE Calls == [pc : PCs, msg : Message \cup {NoMsg}, slot : Slots \cup {Nil},
                     timeout : Timeouts, error : {"EOK", "ETIMEOUT", "ERROR"}]
<1>1. PICK r \in Calls : /\ th' = [th EXCEPT ![t] = r]
                         /\ r.slot = Nil
                         /\ \/ r.pc \in {"idle", "recv"}
                            \/ r.pc = "send" /\ r.msg \in Message
  <2>0. Idle \in Calls /\ Idle.slot = Nil /\ Idle.pc = "idle" /\ {"recv", "send"} \subseteq PCs
    BY DEF Idle, PCs, Timeouts
  <2>1. CASE Returns(t)
    BY <2>0, <2>1 DEF Returns
  <2>2. ASSUME NEW w \in Timeouts, Waits(t, "recv", NoMsg, w)
        PROVE  \E r \in Calls : /\ th' = [th EXCEPT ![t] = r]
                                /\ r.slot = Nil /\ r.pc = "recv"
    <3> DEFINE r == [Idle EXCEPT !.pc = "recv", !.msg = NoMsg, !.timeout = w]
    <3>1. r \in Calls /\ r.slot = Nil /\ r.pc = "recv"
      BY <2>0, <2>2
    <3>2. th' = [th EXCEPT ![t] = r]
      BY <2>2 DEF Waits
    <3> HIDE DEF r
    <3> QED BY <3>1, <3>2
  <2>3. ASSUME NEW w \in Timeouts, NEW m \in Message, Waits(t, "send", m, w)
        PROVE  \E r \in Calls : /\ th' = [th EXCEPT ![t] = r]
                                /\ r.slot = Nil /\ r.pc = "send" /\ r.msg \in Message
    <3> DEFINE r == [Idle EXCEPT !.pc = "send", !.msg = m, !.timeout = w]
    <3>1. r \in Calls /\ r.slot = Nil /\ r.pc = "send" /\ r.msg \in Message
      BY <2>0, <2>3
    <3>2. th' = [th EXCEPT ![t] = r]
      BY <2>3 DEF Waits
    <3> HIDE DEF r
    <3> QED BY <3>1, <3>2
  <2> QED BY <2>1, <2>2, <2>3
<1>2. th' \in [Threads -> Calls] /\ th'[t] = r /\ \A u \in Threads : u # t => th'[u] = th[u]
  BY <1>1 DEF Inv, TypeOK
<1>3. \A u \in Threads : th'[u].slot = th[u].slot
  BY <1>1, <1>2
<1>4. CallsSound'
  BY <1>1, <1>2 DEF Inv, CallsSound
<1> QED BY <1>2, <1>3, <1>4, InvQuiet

LEMMA InvSendLoop ==
    ASSUME Inv, NEW t \in Threads, th[t].slot = Nil,
           NEW m \in Message, NEW w \in Timeouts, SendLoop(t, m, w),
           buf' \in [Threads -> Message \cup {NoMsg}]
    PROVE  Inv'
<1>1. CASE Claim(t, m, "fill")
  BY <1>1, InvClaim
<1>2. CASE free = Nil /\ w = "zero" /\ Returns(t) /\ UNCHANGED <<pool, waiting>>
  BY <1>2, InvRests DEF Inv, TypeOK, waiting
<1>3. ASSUME NEW i \in Place(senders, t), senders' = InsertAt(senders, i, t),
             Waits(t, "send", m, w), UNCHANGED <<pool, receivers>>
      PROVE  Inv'
  <2>1. receivers' \in Seq(Threads) /\ senders' \in Seq(Threads)
    BY <1>3, InsertType DEF Inv, TypeOK, Place
  <2> QED BY <1>3, <2>1, InvRests
<1> QED BY <1>1, <1>2, <1>3 DEF SendLoop

LEMMA InvRecvLoop ==
    ASSUME Inv, NEW t \in Threads, th[t].slot = Nil, NEW w \in Timeouts, RecvLoop(t, w),
           buf' \in [Threads -> Message \cup {NoMsg}]
    PROVE  Inv'
<1>1. CASE entry # 0 /\ Unlink(t)
  BY <1>1, InvUnlink
<1>2. CASE entry = 0 /\ w = "zero" /\ Returns(t) /\ UNCHANGED <<pool, waiting>>
  BY <1>2, InvRests DEF Inv, TypeOK, waiting
<1>3. ASSUME NEW i \in Place(receivers, t), receivers' = InsertAt(receivers, i, t),
             Waits(t, "recv", NoMsg, w), UNCHANGED <<pool, senders>>
      PROVE  Inv'
  <2>1. receivers' \in Seq(Threads) /\ senders' \in Seq(Threads)
    BY <1>3, InsertType DEF Inv, TypeOK, Place
  <2> QED BY <1>3, <2>1, InvRests
<1> QED BY <1>1, <1>2, <1>3 DEF RecvLoop

LEMMA ReverseOf ==
    ASSUME NEW S, NEW s \in Seq(S), IsInjective(s)
    PROVE  /\ Reverse(s) \in Seq(S) /\ Len(Reverse(s)) = Len(s) /\ Len(s) \in Nat
           /\ \A i \in 1 .. Len(s) : Reverse(s)[i] = s[Len(s) - i + 1]
           /\ IsInjective(Reverse(s))
           /\ ToSet(Reverse(s)) = ToSet(s)
<1> DEFINE n == Len(s)
           r == Reverse(s)
<1>1. n \in Nat /\ DOMAIN s = 1 .. n /\ \A i \in 1 .. n : s[i] \in S
  BY LenProperties
<1>2. r = [i \in 1 .. n |-> s[n - i + 1]]
  BY DEF Reverse
<1> HIDE DEF r, n
<1>3. \A i \in 1 .. n : n - i + 1 \in 1 .. n
  BY <1>1
<1>4. r \in [1 .. n -> S] /\ \A i \in 1 .. n : r[i] = s[n - i + 1]
  BY <1>1, <1>2, <1>3
<1>5. r \in Seq(S)
  BY <1>1, <1>4, SeqDef
<1>6. Len(r) = n /\ DOMAIN r = 1 .. n
  BY <1>1, <1>4, <1>5, LenProperties
<1>7. IsInjective(r)
  <2>1. ASSUME NEW i \in 1 .. n, NEW j \in 1 .. n, r[i] = r[j] PROVE i = j
    <3>1. s[n - i + 1] = s[n - j + 1]
      BY <1>4, <2>1
    <3>2. n - i + 1 = n - j + 1
      BY <1>1, <1>3, <3>1 DEF IsInjective
    <3> QED BY <1>1, <3>2
  <2> QED BY <1>6, <2>1 DEF IsInjective
<1>8. ToSet(r) = ToSet(s)
  <2>1. ASSUME NEW x \in ToSet(r) PROVE x \in ToSet(s)
    <3>1. PICK i \in 1 .. n : x = r[i]
      BY <1>6, <2>1 DEF ToSet
    <3>2. n - i + 1 \in 1 .. n /\ x = s[n - i + 1]
      BY <1>3, <1>4, <3>1
    <3> QED BY <1>1, <3>2 DEF ToSet
  <2>2. ASSUME NEW x \in ToSet(s) PROVE x \in ToSet(r)
    <3>1. PICK i \in 1 .. n : x = s[i]
      BY <1>1, <2>2 DEF ToSet
    <3>2. n - i + 1 \in 1 .. n /\ n - (n - i + 1) + 1 = i
      BY <1>1, <3>1
    <3>3. r[n - i + 1] = x
      BY <1>4, <3>1, <3>2
    <3> QED BY <1>6, <3>2, <3>3 DEF ToSet
  <2> QED BY <2>1, <2>2
<1> QED BY <1>1, <1>4, <1>5, <1>6, <1>7, <1>8 DEF n, r

LEMMA JoinOf ==
    ASSUME NEW S, NEW a \in Seq(S), NEW b \in Seq(S), IsInjective(a), IsInjective(b),
           ToSet(a) \cap ToSet(b) = {}
    PROVE  /\ a \o b \in Seq(S) /\ Len(a \o b) = Len(a) + Len(b)
           /\ Len(a) \in Nat /\ Len(b) \in Nat
           /\ \A i \in 1 .. Len(a) : (a \o b)[i] = a[i]
           /\ \A i \in 1 .. Len(b) : (a \o b)[Len(a) + i] = b[i]
           /\ IsInjective(a \o b)
           /\ ToSet(a \o b) = ToSet(a) \cup ToSet(b)
<1> DEFINE n == Len(a)
           k == Len(b)
           c == a \o b
<1>1. /\ n \in Nat /\ DOMAIN a = 1 .. n /\ k \in Nat /\ DOMAIN b = 1 .. k
      /\ c \in Seq(S) /\ Len(c) = n + k /\ DOMAIN c = 1 .. n + k
      /\ \A i \in 1 .. n + k : c[i] = IF i <= n THEN a[i] ELSE b[i - n]
  BY LenProperties, ConcatProperties
<1> HIDE DEF n, k, c
<1>2. \A i \in 1 .. n : i \in 1 .. n + k /\ c[i] = a[i]
  BY <1>1
<1>3. \A i \in 1 .. k : n + i \in 1 .. n + k /\ c[n + i] = b[i]
  <2> TAKE i \in 1 .. k
  <2>1. n + i \in 1 .. n + k /\ ~(n + i <= n) /\ n + i - n = i
    BY <1>1
  <2> QED BY <1>1, <2>1
<1>4. \A i \in 1 .. n + k : \/ i \in 1 .. n /\ c[i] = a[i]
                            \/ i - n \in 1 .. k /\ c[i] = b[i - n]
  BY <1>1
<1>5. ToSet(c) = ToSet(a) \cup ToSet(b)
  <2>1. ToSet(c) \subseteq ToSet(a) \cup ToSet(b)
    BY <1>1, <1>4 DEF ToSet
  <2>2. ToSet(a) \subseteq ToSet(c)
    BY <1>1, <1>2 DEF ToSet
  <2>3. ToSet(b) \subseteq ToSet(c)
    BY <1>1, <1>3 DEF ToSet
  <2> QED BY <2>1, <2>2, <2>3
<1>6. IsInjective(c)
  <2>1. ASSUME NEW i \in 1 .. n + k, NEW j \in 1 .. n + k, c[i] = c[j] PROVE i = j
    <3>1. \A x \in 1 .. n, y \in 1 .. k : a[x] # b[y]
      BY <1>1 DEF ToSet
    <3>2. \/ i \in 1 .. n /\ j \in 1 .. n /\ a[i] = a[j]
          \/ i - n \in 1 .. k /\ j - n \in 1 .. k /\ b[i - n] = b[j - n]
      BY <1>4, <2>1, <3>1
    <3>3. i = j \/ i - n = j - n
      BY <1>1, <3>2 DEF IsInjective
    <3> QED BY <1>1, <2>1, <3>3
  <2> QED BY <1>1, <2>1 DEF IsInjective
<1> QED BY <1>1, <1>2, <1>3, <1>5, <1>6 DEF n, k, c

LEMMA InvReset ==
    ASSUME Inv, NEW t \in Threads, Reset(t)
    PROVE  Inv'
<1> DEFINE n == Len(linked)
           k == Len(avail)
<1>1. /\ th' = [u \in Threads |-> IF u \in WaitersFailed
                                  THEN [th[u] EXCEPT !.error = "ERROR"] ELSE th[u]]
      /\ buf' = [buf EXCEPT ![t] = NoMsg]
      /\ receivers' = <<>> /\ senders' = <<>>
      /\ head' = Nil /\ tail' = Nil /\ entry' = 0 /\ next' = NextEmptied
      /\ free' = IF head = Nil THEN free ELSE tail
      /\ linked' = <<>> /\ avail' = Reverse(linked) \o avail
      /\ UNCHANGED data
  BY DEF Reset, Begins
<1>2. /\ linked \in Seq(Slots) /\ avail \in Seq(Slots)
      /\ IsInjective(linked) /\ IsInjective(avail)
      /\ n \in Nat /\ DOMAIN linked = 1 .. n /\ k \in Nat /\ DOMAIN avail = 1 .. k
      /\ \A i \in 1 .. n : linked[i] \in Slots
      /\ \A i \in 1 .. k : avail[i] \in Slots
      /\ ToSet(linked) \cap ToSet(avail) = {}
  BY LenProperties DEF Inv, TypeOK, SlotsConserved
<1>3. /\ avail' \in Seq(Slots) /\ Len(avail') = n + k
      /\ \A i \in 1 .. n : avail'[i] = linked[n - i + 1]
      /\ \A i \in 1 .. k : avail'[n + i] = avail[i]
      /\ IsInjective(avail') /\ ToSet(avail') = ToSet(linked) \cup ToSet(avail)
  <2> DEFINE r == Reverse(linked)
  <2>1. /\ r \in Seq(Slots) /\ Len(r) = n /\ IsInjective(r) /\ ToSet(r) = ToSet(linked)
        /\ \A i \in 1 .. n : r[i] = linked[n - i + 1]
    BY <1>2, ReverseOf
  <2>2. avail' = r \o avail
    BY <1>1
  <2> HIDE DEF r
  <2>3. /\ r \o avail \in Seq(Slots) /\ Len(r \o avail) = n + k
        /\ \A i \in 1 .. Len(r) : (r \o avail)[i] = r[i]
        /\ \A i \in 1 .. k : (r \o avail)[Len(r) + i] = avail[i]
        /\ IsInjective(r \o avail) /\ ToSet(r \o avail) = ToSet(r) \cup ToSet(avail)
    <3>1. ToSet(r) \cap ToSet(avail) = {}
      BY <1>2, <2>1
    <3>2. /\ r \o avail \in Seq(Slots) /\ Len(r \o avail) = Len(r) + Len(avail)
          /\ \A i \in 1 .. Len(r) : (r \o avail)[i] = r[i]
          /\ \A i \in 1 .. Len(avail) : (r \o avail)[Len(r) + i] = avail[i]
          /\ IsInjective(r \o avail) /\ ToSet(r \o avail) = ToSet(r) \cup ToSet(avail)
      <4>1. r \in Seq(Slots) /\ avail \in Seq(Slots) /\ IsInjective(r) /\ IsInjective(avail)
        BY <1>2, <2>1
      <4> QED BY <3>1, <4>1, JoinOf
    <3>3. Len(r) = n /\ Len(avail) = k
      BY <2>1
    <3> HIDE DEF n, k
    <3> QED BY <3>2, <3>3
  <2> HIDE DEF n, k
  <2> QED BY <2>1, <2>2, <2>3
<1>4. /\ \A i \in 1 .. n : next'[linked[i]] = IF i = 1 THEN free ELSE linked[i - 1]
      /\ \A s \in Slots : s \notin ToSet(linked) => next'[s] = next[s]
  <2>1. ASSUME NEW i \in 1 .. n
        PROVE  next'[linked[i]] = IF i = 1 THEN free ELSE linked[i - 1]
    <3>1. \A j \in 1 .. n : linked[j] = linked[i] => j = i
      BY <1>2 DEF IsInjective
    <3>2. (CHOOSE j \in 1 .. n : linked[j] = linked[i]) = i
      BY <3>1
    <3> QED BY <1>1, <1>2, <3>2 DEF NextEmptied
  <2>2. ASSUME NEW s \in Slots, s \notin ToSet(linked) PROVE next'[s] = next[s]
    BY <1>1, <1>2, <2>2 DEF NextEmptied, ToSet
  <2> QED BY <2>1, <2>2
<1>5. /\ n = 0 => head = Nil
      /\ n # 0 => head # Nil /\ tail = linked[n] /\ n \in 1 .. n
      /\ free = IF k = 0 THEN Nil ELSE avail[1]
  <2>1. (n = 0 <=> linked = <<>>) /\ (k = 0 <=> avail = <<>>)
    BY <1>2, EmptySeq
  <2>2. n # 0 => 1 \in 1 .. n /\ n \in 1 .. n
    BY <1>2
  <2>3. n # 0 => head = linked[1] /\ linked[1] \in Slots
    BY <1>2, <2>1, <2>2 DEF Inv, ListsSpelled, Spells
  <2> QED BY <2>1, <2>2, <2>3 DEF Inv, ListsSpelled, Spells, Slots
<1> HIDE DEF n, k
<1>6. free' \in Slots \cup {Nil} /\ next' \in [Slots -> Slots \cup {Nil}]
  <2>1. free' \in Slots \cup {Nil}
    BY <1>1 DEF Inv, TypeOK
  <2>2. ASSUME NEW s \in Slots PROVE next'[s] \in Slots \cup {Nil}
    <3>1. CASE s \in ToSet(linked)
      <4>1. PICK i \in 1 .. n : s = linked[i]
        BY <1>2, <3>1 DEF ToSet
      <4>2. i # 1 => i - 1 \in 1 .. n
        BY <1>2
      <4> QED BY <1>2, <1>4, <4>1, <4>2 DEF Inv, TypeOK
    <3>2. CASE s \notin ToSet(linked)
      BY <1>4, <3>2 DEF Inv, TypeOK
    <3> QED BY <3>1, <3>2
  <2>3. next' = [s \in Slots |-> next'[s]]
    BY <1>1 DEF NextEmptied
  <2> QED BY <2>1, <2>2, <2>3
<1>7. /\ th' \in [Threads -> [pc : PCs, msg : Message \cup {NoMsg}, slot : Slots \cup {Nil},
                 timeout : Timeouts, error : {"EOK", "ETIMEOUT", "ERROR"}]]
      /\ \A u \in Threads : /\ th'[u].slot = th[u].slot
                            /\ th'[u].pc = th[u].pc /\ th'[u].msg = th[u].msg
  BY <1>1 DEF Inv, TypeOK
<1>8. TypeOK'
  BY <1>1, <1>3, <1>6, <1>7 DEF Inv, TypeOK
<1>9. Spells(free, avail)'
  <2>1. ASSUME NEW i \in 1 .. Len(avail')
        PROVE  next'[avail'[i]] = IF i = Len(avail') THEN Nil ELSE avail'[i + 1]
    <3>1. i \in 1 .. n + k
      BY <1>3, <2>1
    <3>2. CASE i < n
      <4>1. /\ i \in 1 .. n /\ i + 1 \in 1 .. n /\ i # n + k /\ n - i + 1 \in 1 .. n
            /\ n - i + 1 # 1 /\ n - i + 1 - 1 = n - (i + 1) + 1
        BY <1>2, <3>1, <3>2
      <4> DEFINE p == n - i + 1
      <4>2. p \in 1 .. n /\ p # 1 /\ p - 1 = n - (i + 1) + 1
        BY <1>2, <3>1, <3>2
      <4>3. avail'[i] = linked[p]
        BY <1>3, <4>1
      <4> HIDE DEF p
      <4>4. next'[avail'[i]] = linked[n - (i + 1) + 1]
        BY <1>4, <4>2, <4>3
      <4> QED BY <1>3, <4>1, <4>4
    <3>3. CASE i = n
      <4>1. i \in 1 .. n /\ n - i + 1 = 1 /\ 1 \in 1 .. n
        BY <1>2, <3>1, <3>3
      <4>2. next'[avail'[i]] = free
        BY <1>3, <1>4, <4>1
      <4>3. CASE k = 0
        BY <1>2, <1>3, <1>5, <3>3, <4>2, <4>3
      <4>4. CASE k # 0
        <5>1. 1 \in 1 .. k /\ i # n + k
          BY <1>2, <3>3, <4>4
        <5> QED BY <1>3, <1>5, <3>3, <4>2, <4>4, <5>1
      <4> QED BY <4>3, <4>4
    <3>4. CASE i > n
      <4> DEFINE j == i - n
      <4>1. j \in 1 .. k /\ i = n + j
        BY <1>2, <3>1, <3>4
      <4> HIDE DEF j
      <4>2. avail'[i] = avail[j] /\ avail[j] \in Slots /\ avail[j] \notin ToSet(linked)
        <5>1. avail'[i] = avail[j] /\ avail[j] \in Slots
          BY <1>2, <1>3, <4>1
        <5>2. avail[j] \in ToSet(avail)
          BY <1>2, <4>1 DEF ToSet
        <5> QED BY <1>2, <5>1, <5>2
      <4>3. next'[avail'[i]] = IF j = k THEN Nil ELSE avail[j + 1]
        BY <1>4, <4>1, <4>2 DEF Inv, ListsSpelled, Spells, k
      <4>4. j = k <=> i = n + k
        BY <1>2, <4>1
      <4>5. j # k => j + 1 \in 1 .. k /\ n + (j + 1) = i + 1
        BY <1>2, <4>1
      <4>6. j # k => avail'[i + 1] = avail[j + 1]
        BY <1>3, <4>5
      <4> QED BY <1>3, <4>3, <4>4, <4>6
    <3> QED BY <1>2, <3>1, <3>2, <3>3, <3>4
  <2>2. free' = IF avail' = <<>> THEN Nil ELSE avail'[1]
    <3>1. avail' = <<>> <=> n + k = 0
      BY <1>3, EmptySeq
    <3>2. CASE n = 0
      <4>1. k # 0 => 1 \in 1 .. k /\ n + 1 = 1
        BY <1>2, <3>2
      <4>2. n + k = 0 <=> k = 0
        BY <1>2, <3>2
      <4>3. k # 0 => avail'[1] = avail[1]
        BY <1>3, <4>1
      <4> QED BY <1>1, <1>5, <3>1, <3>2, <4>2, <4>3
    <3>3. CASE n # 0
      <4>1. 1 \in 1 .. n /\ n - 1 + 1 = n /\ n + k # 0
        BY <1>2, <3>3
      <4>2. avail'[1] = linked[n]
        BY <1>3, <4>1
      <4> QED BY <1>1, <1>5, <3>1, <3>3, <4>1, <4>2
    <3> QED BY <3>2, <3>3
  <2> QED BY <2>1, <2>2 DEF Spells
<1>10. ListsSpelled'
  <2>1. linked' = <<>> /\ 1 .. Len(linked') = {}
    BY <1>1
  <2>2. Spells(head, linked)'
    BY <1>1, <2>1 DEF Spells
  <2>3. tail' = IF linked' = <<>> THEN Nil ELSE linked'[Len(linked')]
    BY <1>1
  <2> QED BY <1>9, <2>2, <2>3 DEF ListsSpelled
<1>11. SlotsConserved'
  <2>1. Held' = Held
    BY <1>7 DEF Held
  <2>2. HeldSlots' = HeldSlots
    BY <1>7, <2>1 DEF HeldSlots, Held
  <2>3. IsInjective(linked') /\ ToSet(linked') = {} /\ Len(linked') = 0
    BY <1>1 DEF IsInjective, ToSet
  <2> QED BY <1>1, <1>3, <1>7, <2>1, <2>2, <2>3 DEF Inv, SlotsConserved, Held
<1>12. CallsSound'
  BY <1>7 DEF Inv, CallsSound
<1> QED BY <1>8, <1>10, <1>11, <1>12 DEF Inv

(***************************************************************************)
(* The invariant.                                                          *)
(***************************************************************************)
LEMMA InvInit == Init => Inv
<1> SUFFICES ASSUME Init PROVE Inv
  OBVIOUS
<1>1. /\ avail \in Seq(Slots) /\ Len(avail) = MaxMsgs /\ DOMAIN avail = Slots
      /\ \A i \in Slots : avail[i] = MaxMsgs + 1 - i
  <2>1. avail \in [1 .. MaxMsgs -> Slots]
    BY DEF Init, Slots
  <2>2. avail \in Seq(Slots)
    BY <2>1, SeqDef
  <2> QED BY <2>1, <2>2, LenProperties DEF Init, Slots
<1>2. linked = <<>> /\ linked \in Seq(Slots) /\ Len(linked) = 0
  BY DEF Init
<1>3. next = [s \in Slots |-> s - 1] /\ next \in [Slots -> Slots \cup {Nil}]
  BY DEF Init, Slots
<1>4. /\ Idle \in [pc : PCs, msg : Message \cup {NoMsg}, slot : Slots \cup {Nil},
                  timeout : Timeouts, error : {"EOK", "ETIMEOUT", "ERROR"}]
      /\ Idle.slot = Nil /\ Idle.pc = "idle"
  BY DEF Idle, PCs, Timeouts
<1>5. TypeOK
  <2>1. <<>> \in Seq(Threads)
    OBVIOUS
  <2>2. /\ {head, tail, free} \subseteq Slots \cup {Nil} /\ entry \in 0 .. MaxMsgs
        /\ data \in [Slots -> Message \cup {NoMsg}] /\ buf \in [Threads -> Message \cup {NoMsg}]
    BY DEF Init, Slots
  <2>3. th \in [Threads -> [pc : PCs, msg : Message \cup {NoMsg}, slot : Slots \cup {Nil},
               timeout : Timeouts, error : {"EOK", "ETIMEOUT", "ERROR"}]]
    BY <1>4 DEF Init
  <2> QED BY <1>1, <1>2, <1>3, <2>1, <2>2, <2>3 DEF Init, TypeOK
<1>6. ListsSpelled
  <2>1. avail # <<>>
    BY <1>1, EmptySeq
  <2>2. free = avail[1]
    BY <1>1 DEF Init, Slots
  <2>3. ASSUME NEW i \in Slots
        PROVE  next[avail[i]] = IF i = MaxMsgs THEN Nil ELSE avail[i + 1]
    <3>1. /\ MaxMsgs + 1 - i \in Slots /\ MaxMsgs + 1 - i - 1 = MaxMsgs - i
          /\ i # MaxMsgs => i + 1 \in Slots /\ MaxMsgs + 1 - (i + 1) = MaxMsgs - i
          /\ i = MaxMsgs => MaxMsgs - i = 0
      BY DEF Slots
    <3>2. avail[i] = MaxMsgs + 1 - i /\ (i # MaxMsgs => avail[i + 1] = MaxMsgs - i)
      BY <1>1, <3>1
    <3>3. next[avail[i]] = MaxMsgs - i
      BY <1>3, <3>1, <3>2
    <3> QED BY <3>1, <3>2, <3>3
  <2>4. Spells(free, avail)
    BY <1>1, <2>1, <2>2, <2>3 DEF Spells, Slots
  <2>5. Spells(head, linked)
    <3>1. 1 .. Len(linked) = {}
      BY <1>2
    <3> QED BY <1>2, <3>1 DEF Init, Spells
  <2> QED BY <1>2, <2>4, <2>5 DEF Init, ListsSpelled
<1>7. SlotsConserved
  <2>1. Held = {} /\ HeldSlots = {}
    BY <1>4 DEF Init, Held, HeldSlots
  <2>2. IsInjective(linked) /\ ToSet(linked) = {}
    BY <1>2 DEF IsInjective, ToSet
  <2>3. IsInjective(avail)
    BY <1>1 DEF IsInjective, Slots
  <2>4. ToSet(avail) = Slots
    <3>1. ASSUME NEW s \in Slots PROVE s \in ToSet(avail)
      <4>1. MaxMsgs + 1 - s \in Slots /\ avail[MaxMsgs + 1 - s] = s
        BY <1>1 DEF Slots
      <4> QED BY <1>1, <4>1 DEF ToSet
    <3>2. ToSet(avail) \subseteq Slots
      BY <1>1 DEF ToSet, Slots
    <3> QED BY <3>1, <3>2
  <2> QED BY <1>2, <2>1, <2>2, <2>3, <2>4 DEF Init, SlotsConserved
<1>8. CallsSound
  BY <1>4 DEF Init, CallsSound
<1> QED BY <1>5, <1>6, <1>7, <1>8 DEF Inv

LEMMA InvNext == Inv /\ [Next]_vars => Inv'
<1> SUFFICES ASSUME Inv, [Next]_vars PROVE Inv'
  OBVIOUS
<1>1. CASE UNCHANGED vars
  <2>1. UNCHANGED pool /\ UNCHANGED <<receivers, senders, th, buf>>
    BY <1>1 DEF vars, waiting
  <2>2. CallsSound'
    BY <2>1 DEF Inv, CallsSound
  <2> QED BY <2>1, <2>2, InvQuiet DEF Inv, TypeOK
<1> SUFFICES ASSUME NEW t \in Threads,
                    \/ \E m \in Message, w \in Timeouts : m.from = t /\ Send(t, m, w)
                    \/ \E m \in Message : m.from = t /\ Urgent(t, m)
                    \/ \E w \in Timeouts : Recv(t, w)
                    \/ Reset(t)
                    \/ Timeout(t)
                    \/ SendResumed(t) \/ SendLink(t) \/ UrgentLink(t)
                    \/ RecvResumed(t) \/ RecvFree(t)
             PROVE  Inv'
  BY <1>1 DEF Next
<1>2. Begins(t) => buf' \in [Threads -> Message \cup {NoMsg}] /\ th[t].slot = Nil
  BY DEF Begins, Inv, TypeOK, CallsSound
<1>3. /\ buf \in [Threads -> Message \cup {NoMsg}]
      /\ th[t].timeout \in Timeouts /\ Left(th[t].timeout) \subseteq Timeouts
      /\ th[t].pc = "send" => th[t].slot = Nil /\ th[t].msg \in Message
      /\ th[t].pc = "recv" => th[t].slot = Nil
      /\ receivers \in Seq(Threads) /\ senders \in Seq(Threads)
  BY DEF Inv, TypeOK, CallsSound, Left, Timeouts
<1>4. ASSUME NEW m \in Message, NEW w \in Timeouts, Send(t, m, w) PROVE Inv'
  BY <1>2, <1>4, InvSendLoop DEF Send
<1>5. ASSUME NEW m \in Message, Urgent(t, m) PROVE Inv'
  <2>1. CASE Claim(t, m, "fillUrgent")
    BY <1>2, <1>5, <2>1, InvClaim DEF Urgent
  <2>2. CASE free = Nil /\ UNCHANGED <<pool, waiting, th>>
    <3>1. CallsSound' /\ UNCHANGED <<receivers, senders, th>>
      BY <2>2 DEF Inv, CallsSound, waiting
    <3> QED BY <1>2, <1>3, <1>5, <2>2, <3>1, InvQuiet DEF Urgent, Inv, TypeOK
  <2> QED BY <1>5, <2>1, <2>2 DEF Urgent
<1>6. ASSUME NEW w \in Timeouts, Recv(t, w) PROVE Inv'
  BY <1>2, <1>6, InvRecvLoop DEF Recv
<1>7. CASE SendResumed(t)
  <2>1. th[t].slot = Nil /\ th[t].msg \in Message /\ buf' = buf
    BY <1>3, <1>7 DEF SendResumed, IsResumed
  <2>2. CASE Returns(t) /\ UNCHANGED <<pool, waiting>>
    BY <1>3, <2>1, <2>2, InvRests DEF waiting
  <2>3. ASSUME NEW w \in Left(th[t].timeout), SendLoop(t, th[t].msg, w) PROVE Inv'
    BY <1>3, <2>1, <2>3, InvSendLoop
  <2> QED BY <1>7, <2>2, <2>3 DEF SendResumed
<1>8. CASE RecvResumed(t)
  <2>1. th[t].slot = Nil /\ buf' = buf
    BY <1>3, <1>8 DEF RecvResumed, IsResumed
  <2>2. CASE Returns(t) /\ UNCHANGED <<pool, waiting>>
    BY <1>3, <2>1, <2>2, InvRests DEF waiting
  <2>3. ASSUME NEW w \in Left(th[t].timeout), RecvLoop(t, w) PROVE Inv'
    BY <1>3, <2>1, <2>3, InvRecvLoop
  <2> QED BY <1>8, <2>2, <2>3 DEF RecvResumed
<1> QED
  BY <1>4, <1>5, <1>6, <1>7, <1>8, InvReset, InvTimeout, InvSendLink, InvUrgentLink, InvRecvFree

\* The parts of the invariant hold together, none without the others.
THEOREM QueueInvariant == Spec => []Inv
<1>1. Init => Inv
  BY InvInit
<1>2. Inv /\ [Next]_vars => Inv'
  BY InvNext
<1> QED BY <1>1, <1>2, PTL DEF Spec

\* The state keeps its type whatever the callers do, and entry stays within the
\* pool.
THEOREM QueueTypes == Spec => []TypeOK
BY QueueInvariant, PTL DEF Inv

\* The pointers of the pool spell the queued messages in order and the unused
\* slots after every stretch of every call, for any number of callers and slots.
THEOREM QueueListsSpelled == Spec => []ListsSpelled
BY QueueInvariant, PTL DEF Inv

\* No slot is lost or in two places over any sequence of calls, and entry is the
\* number of queued messages.
THEOREM QueueSlotsConserved == Spec => []SlotsConserved
BY QueueInvariant, PTL DEF Inv

-----------------------------------------------------------------------------
(***************************************************************************)
(* Who waits, and for what: beside the invariant of the pool, each wait    *)
(* list holds calls that may wait there, in order, and what is there to    *)
(* fetch is owed to calls that were woken.                                 *)
(***************************************************************************)
OnCall(pc)  == {t \in Threads : th[t].pc = pc /\ th[t].error = "EOK"}
MayWait(pc) == {t \in OnCall(pc) : th[t].timeout \in {"ticks", "forever"}}

InLine(list, M) ==
    /\ IsInjective(list)
    /\ ToSet(list) \subseteq M
    /\ Flag = "PRIO" => Sorted(list, Prio)

WakeInv ==
    /\ InLine(receivers, MayWait("recv")) /\ Promised(entry, receivers, OnCall("recv"))
    /\ InLine(senders, MayWait("send")) /\ Promised(Len(avail), senders, OnCall("send"))

\* A call joins a line where Place says.
LEMMA LineJoined ==
    ASSUME NEW list \in Seq(Threads), NEW M, InLine(list, M), NEW t \in Threads,
           t \notin ToSet(list), NEW i \in Place(list, t), NEW N, ToSet(list) \subseteq N, t \in N
    PROVE  InLine(InsertAt(list, i, t), N)
<1>1. i \in 1 .. Len(list) + 1
  BY DEF Place
<1>2. /\ ToSet(InsertAt(list, i, t)) = ToSet(list) \cup {t}
      /\ IsInjective(InsertAt(list, i, t))
  BY <1>1, InsertAtOf DEF InLine
<1>3. ASSUME Flag = "PRIO" PROVE Sorted(InsertAt(list, i, t), Prio)
  <2>1. Len(list) \in Nat /\ \A j \in 1 .. Len(list) : list[j] \in Threads
    BY LenProperties, ElementOfSeq
  <2>2. i <= Len(list) => Prio[t] < Prio[list[i]]
    BY <1>3 DEF Place
  <2>3. \A j \in 1 .. i - 1 : Prio[t] >= Prio[list[j]]
    BY <1>3 DEF Place
  <2>4. Prio \in [Threads -> Nat]
    BY MsgQueueAssumption DEF MsgQueueAssumption
  <2>5. i <= Len(list) => Prio[t] <= Prio[list[i]]
    <3>1. i <= Len(list) => i \in 1 .. Len(list)
      BY <1>1, <2>1
    <3>2. i <= Len(list) => Prio[list[i]] \in Nat /\ Prio[t] \in Nat
      BY <2>1, <2>4, <3>1
    <3> QED BY <2>2, <3>2
  <2>6. Sorted(list, Prio)
    BY <1>3 DEF InLine
  <2> QED BY <1>1, <2>3, <2>4, <2>5, <2>6, InsertSorted
<1> QED BY <1>2, <1>3 DEF InLine

\* A call leaves a line, from anywhere in it.
LEMMA LineLeft ==
    ASSUME NEW list \in Seq(Threads), NEW M, InLine(list, M), NEW i \in 1 .. Len(list),
           NEW N, M \subseteq N \cup {list[i]}
    PROVE  InLine(RemoveAt(list, i), N)
<1>1. /\ ToSet(RemoveAt(list, i)) = ToSet(list) \ {list[i]}
      /\ IsInjective(RemoveAt(list, i))
  BY RemoveAtOf DEF InLine
<1>2. Flag = "PRIO" => Sorted(RemoveAt(list, i), Prio)
  BY RemoveSorted DEF InLine
<1> QED BY <1>1, <1>2 DEF InLine

\* The first of a line is resumed, if there is one, for one thing more to fetch.
LEMMA LineResumed ==
    ASSUME NEW list \in Seq(Threads), NEW M, NEW N, InLine(list, M), M \subseteq N,
           NEW n \in Nat, NEW W, NEW X, IsFiniteSet(X), M \subseteq W, W \subseteq X, Promised(n, list, W)
    PROVE  Resume(list) \in Seq(Threads) /\ InLine(Resume(list), N) /\ Promised(n + 1, Resume(list), X)
<1>1. CASE list = <<>>
  <2>1. InLine(list, N)
    BY DEF InLine
  <2> QED BY <1>1, <2>1 DEF Resume, Promised
<1>2. CASE list # <<>>
  <2>1. Resume(list) = Tail(list)
    BY <1>2 DEF Resume
  <2>2. /\ Tail(list) \in Seq(Threads) /\ IsInjective(Tail(list))
        /\ ToSet(Tail(list)) \subseteq ToSet(list)
    BY <1>2, TailOf DEF InLine
  <2>3. Flag = "PRIO" => Sorted(Tail(list), Prio)
    BY <1>2, TailSorted DEF InLine
  <2>4. Promised(n + 1, Tail(list), X)
    <3>1. IsInjective(list) /\ ToSet(list) \subseteq W
      BY DEF InLine
    <3> QED BY <1>2, <3>1, OwedPaid
  <2>5. InLine(Tail(list), N)
    BY <2>2, <2>3 DEF InLine
  <2> QED BY <2>1, <2>2, <2>4, <2>5
<1> QED BY <1>1, <1>2

\* When only t's call moves on, the others may wait as before.
LEMMA OnlyOne ==
    ASSUME NEW t \in Threads, \A u \in Threads : u # t => th'[u] = th[u], NEW pc
    PROVE  /\ OnCall(pc) \subseteq OnCall(pc)' \cup {t} /\ MayWait(pc) \subseteq MayWait(pc)' \cup {t}
           /\ t \notin OnCall(pc) => OnCall(pc) \subseteq OnCall(pc)' /\ MayWait(pc) \subseteq MayWait(pc)'
           /\ MayWait(pc) \subseteq OnCall(pc)
           /\ IsFiniteSet(OnCall(pc)')
<1>1. IsFiniteSet(OnCall(pc)')
  <2>1. IsFiniteSet(Threads)
    BY MsgQueueAssumption DEF MsgQueueAssumption
  <2>2. OnCall(pc)' \in SUBSET Threads
    BY DEF OnCall
  <2> QED BY <2>1, <2>2, FS_Subset
<1> QED BY <1>1 DEF OnCall, MayWait

\* A list that t's step leaves alone, and t not on a call that waits there.
LEMMA SideStays ==
    ASSUME NEW t \in Threads, \A u \in Threads : u # t => th'[u] = th[u], NEW pc,
           t \notin OnCall(pc),
           NEW list, NEW n \in Nat, InLine(list, MayWait(pc)), Promised(n, list, OnCall(pc))
    PROVE  InLine(list, MayWait(pc)') /\ Promised(n, list, OnCall(pc)')
<1>1. OnCall(pc) \subseteq OnCall(pc)' /\ MayWait(pc) \subseteq MayWait(pc)' /\ IsFiniteSet(OnCall(pc)')
  BY OnlyOne
<1>2. Promised(n, list, OnCall(pc)')
  BY <1>1, OwedStays
<1> QED BY <1>1, <1>2 DEF InLine

\* What the invariant of the pool says of the numbers in WakeInv.
LEMMA PoolNumbers ==
    ASSUME Inv
    PROVE  /\ entry \in Nat /\ Len(avail) \in Nat
           /\ receivers \in Seq(Threads) /\ senders \in Seq(Threads)
           /\ free = Nil => Len(avail) = 0
           /\ free # Nil => Len(avail) \in Nat \ {0} /\ Len(Tail(avail)) = Len(avail) - 1
           /\ th \in [Threads -> [pc : PCs, msg : Message \cup {NoMsg}, slot : Slots \cup {Nil},
                                 timeout : Timeouts, error : {"EOK", "ETIMEOUT", "ERROR"}]]
<1>1. avail \in Seq(Slots) /\ free = IF avail = <<>> THEN Nil ELSE avail[1]
  BY DEF Inv, TypeOK, ListsSpelled, Spells
<1>2. avail # <<>> => Len(avail) \in Nat \ {0} /\ avail[1] \in Slots /\ Len(Tail(avail)) = Len(avail) - 1
  <2>1. avail # <<>> => Len(avail) \in Nat \ {0} /\ Len(Tail(avail)) = Len(avail) - 1
    BY <1>1, EmptySeq, HeadTailProperties
  <2>2. avail # <<>> => 1 \in 1 .. Len(avail)
    BY <2>1
  <2> QED BY <1>1, <2>1, <2>2, ElementOfSeq
<1>3. avail = <<>> => Len(avail) = 0
  OBVIOUS
<1>4. Len(avail) \in Nat
  BY <1>1, LenProperties
<1>5. free = Nil => Len(avail) = 0
  BY <1>1, <1>2, <1>3 DEF Slots
<1>6. free # Nil => Len(avail) \in Nat \ {0} /\ Len(Tail(avail)) = Len(avail) - 1
  BY <1>1, <1>2
<1>7. entry \in Nat
  BY DEF Inv, TypeOK
<1> QED BY <1>4, <1>5, <1>6, <1>7 DEF Inv, TypeOK

\* A call that returns or goes on to copy changes its own thread only.
LEMMA MovesOn ==
    ASSUME Inv, NEW t \in Threads, NEW r, th' = [th EXCEPT ![t] = r]
    PROVE  th'[t] = r /\ \A u \in Threads : u # t => th'[u] = th[u]
BY PoolNumbers

LEMMA WakeSendLoop ==
    ASSUME Inv, WakeInv, NEW t \in Threads, th[t].pc \in {"idle", "send"}, t \notin ToSet(senders),
           NEW m \in Message, NEW w \in Timeouts, SendLoop(t, m, w)
    PROVE  WakeInv'
<1>1. t \notin OnCall("recv") /\ t \notin ToSet(receivers)
  BY DEF OnCall, WakeInv, InLine, MayWait
<1>2. CASE Claim(t, m, "fill")
  <2>1. /\ \A u \in Threads : u # t => th'[u] = th[u]
        /\ UNCHANGED <<entry, receivers, senders>> /\ avail' = Tail(avail) /\ free # Nil
    BY <1>2, MovesOn DEF Claim, waiting
  <2>2. InLine(receivers, MayWait("recv")') /\ Promised(entry, receivers, OnCall("recv")')
    BY <1>1, <2>1, SideStays, PoolNumbers DEF WakeInv
  <2>3. InLine(senders, MayWait("send")')
    BY <2>1, OnlyOne DEF WakeInv, InLine
  <2>4. Promised(Len(avail) - 1, senders, OnCall("send")')
    <3>1. Len(avail) \in Nat \ {0} /\ Promised(Len(avail), senders, OnCall("send"))
      BY <2>1, PoolNumbers DEF WakeInv
    <3>2. IsFiniteSet(OnCall("send")') /\ OnCall("send") \subseteq OnCall("send")' \cup {t}
      BY <2>1, OnlyOne
    <3> QED BY <3>1, <3>2, OwedSpent
  <2>5. Len(avail') = Len(avail) - 1
    BY <2>1, PoolNumbers
  <2> QED BY <2>1, <2>2, <2>3, <2>4, <2>5 DEF WakeInv
<1>3. CASE free = Nil /\ w = "zero" /\ Returns(t) /\ UNCHANGED <<pool, waiting>>
  <2>1. /\ \A u \in Threads : u # t => th'[u] = th[u]
        /\ UNCHANGED <<entry, receivers, senders, avail>> /\ Len(avail) = 0
    BY <1>3, MovesOn, PoolNumbers DEF Returns, pool, waiting
  <2>2. InLine(receivers, MayWait("recv")') /\ Promised(entry, receivers, OnCall("recv")')
    BY <1>1, <2>1, SideStays, PoolNumbers DEF WakeInv
  <2>3. InLine(senders, MayWait("send")') /\ Promised(0, senders, OnCall("send")')
    BY <2>1, OnlyOne, OwedZero DEF WakeInv, InLine
  <2> QED BY <2>1, <2>2, <2>3 DEF WakeInv
<1>4. ASSUME free = Nil, w # "zero", NEW i \in Place(senders, t), senders' = InsertAt(senders, i, t),
             Waits(t, "send", m, w), UNCHANGED <<pool, receivers>>
      PROVE  WakeInv'
  <2>1. /\ th'[t] = [Idle EXCEPT !.pc = "send", !.msg = m, !.timeout = w]
        /\ \A u \in Threads : u # t => th'[u] = th[u]
    BY <1>4, MovesOn DEF Waits
  <2>2. UNCHANGED <<entry, receivers, avail>> /\ Len(avail) = 0
    BY <1>4, PoolNumbers DEF pool
  <2>3. InLine(receivers, MayWait("recv")') /\ Promised(entry, receivers, OnCall("recv")')
    BY <1>1, <2>1, SideStays, PoolNumbers DEF WakeInv
  <2>4. t \in MayWait("send")'
    BY <1>4, <2>1 DEF MayWait, OnCall, Idle, Timeouts
  <2>5. ToSet(senders) \subseteq MayWait("send")'
    BY <2>1, OnlyOne DEF WakeInv, InLine
  <2>6. InLine(senders', MayWait("send")')
    BY <1>4, <2>4, <2>5, LineJoined, PoolNumbers DEF WakeInv
  <2>7. Promised(0, senders', OnCall("send")')
    BY <2>1, OnlyOne, OwedZero
  <2> QED BY <2>2, <2>3, <2>6, <2>7 DEF WakeInv
<1> QED BY <1>2, <1>3, <1>4 DEF SendLoop

LEMMA WakeRecvLoop ==
    ASSUME Inv, WakeInv, NEW t \in Threads, th[t].pc \in {"idle", "recv"}, t \notin ToSet(receivers),
           NEW w \in Timeouts, RecvLoop(t, w)
    PROVE  WakeInv'
<1>1. t \notin OnCall("send") /\ t \notin ToSet(senders)
  BY DEF OnCall, WakeInv, InLine, MayWait
<1>2. CASE entry # 0 /\ Unlink(t)
  <2>1. /\ \A u \in Threads : u # t => th'[u] = th[u]
        /\ UNCHANGED <<avail, receivers, senders>> /\ entry' = entry - 1 /\ entry \in Nat \ {0}
    BY <1>2, MovesOn, PoolNumbers DEF Unlink, waiting
  <2>2. InLine(senders, MayWait("send")') /\ Promised(Len(avail), senders, OnCall("send")')
    BY <1>1, <2>1, SideStays, PoolNumbers DEF WakeInv
  <2>3. InLine(receivers, MayWait("recv")')
    BY <2>1, OnlyOne DEF WakeInv, InLine
  <2>4. Promised(entry - 1, receivers, OnCall("recv")')
    <3>1. entry \in Nat \ {0} /\ Promised(entry, receivers, OnCall("recv"))
      BY <2>1 DEF WakeInv
    <3>2. IsFiniteSet(OnCall("recv")') /\ OnCall("recv") \subseteq OnCall("recv")' \cup {t}
      BY <2>1, OnlyOne
    <3> QED BY <3>1, <3>2, OwedSpent
  <2> QED BY <2>1, <2>2, <2>3, <2>4 DEF WakeInv
<1>3. CASE entry = 0 /\ w = "zero" /\ Returns(t) /\ UNCHANGED <<pool, waiting>>
  <2>1. /\ \A u \in Threads : u # t => th'[u] = th[u]
        /\ UNCHANGED <<entry, receivers, senders, avail>> /\ entry = 0
    BY <1>3, MovesOn DEF Returns, pool, waiting
  <2>2. InLine(senders, MayWait("send")') /\ Promised(Len(avail), senders, OnCall("send")')
    BY <1>1, <2>1, SideStays, PoolNumbers DEF WakeInv
  <2>3. InLine(receivers, MayWait("recv")') /\ Promised(0, receivers, OnCall("recv")')
    BY <2>1, OnlyOne, OwedZero DEF WakeInv, InLine
  <2> QED BY <2>1, <2>2, <2>3 DEF WakeInv
<1>4. ASSUME entry = 0, w # "zero", NEW i \in Place(receivers, t),
             receivers' = InsertAt(receivers, i, t),
             Waits(t, "recv", NoMsg, w), UNCHANGED <<pool, senders>>
      PROVE  WakeInv'
  <2>1. /\ th'[t] = [Idle EXCEPT !.pc = "recv", !.msg = NoMsg, !.timeout = w]
        /\ \A u \in Threads : u # t => th'[u] = th[u]
    BY <1>4, MovesOn DEF Waits
  <2>2. UNCHANGED <<entry, senders, avail>> /\ entry = 0
    BY <1>4 DEF pool
  <2>3. InLine(senders, MayWait("send")') /\ Promised(Len(avail), senders, OnCall("send")')
    BY <1>1, <2>1, SideStays, PoolNumbers DEF WakeInv
  <2>4. t \in MayWait("recv")'
    BY <1>4, <2>1 DEF MayWait, OnCall, Idle, Timeouts
  <2>5. ToSet(receivers) \subseteq MayWait("recv")'
    BY <2>1, OnlyOne DEF WakeInv, InLine
  <2>6. InLine(receivers', MayWait("recv")')
    BY <1>4, <2>4, <2>5, LineJoined, PoolNumbers DEF WakeInv
  <2>7. Promised(0, receivers', OnCall("recv")')
    BY <2>1, OnlyOne, OwedZero
  <2> QED BY <2>2, <2>3, <2>6, <2>7 DEF WakeInv
<1> QED BY <1>2, <1>3, <1>4 DEF RecvLoop

\* A message is linked, at either end, and a receiver resumed for it.
LEMMA WakeLink ==
    ASSUME Inv, WakeInv, NEW t \in Threads, th[t].pc \in {"fill", "fillUrgent"},
           Returns(t), Announce, UNCHANGED <<avail, senders>>
    PROVE  WakeInv'
<1>1. /\ \A u \in Threads : u # t => th'[u] = th[u]
      /\ t \notin OnCall("recv") /\ t \notin OnCall("send")
  BY MovesOn DEF Returns, OnCall
<1>2. entry < EntryMax
  <2>1. th[t].slot \in Slots /\ th[t].slot \notin ToSet(linked)
    BY HolderFacts
  <2>2. Len(linked) < MaxMsgs /\ Len(linked) \in Nat
    BY <2>1, NotFull DEF Inv, TypeOK, SlotsConserved
  <2> QED BY <2>2, MsgQueueAssumption DEF Inv, SlotsConserved, MsgQueueAssumption
<1>3. entry' = entry + 1 /\ receivers' = Resume(receivers)
  BY <1>2 DEF Announce
<1>4. InLine(senders, MayWait("send")') /\ Promised(Len(avail), senders, OnCall("send")')
  BY <1>1, SideStays, PoolNumbers DEF WakeInv
<1>5. /\ MayWait("recv") \subseteq MayWait("recv")' /\ OnCall("recv") \subseteq OnCall("recv")'
      /\ MayWait("recv") \subseteq OnCall("recv") /\ IsFiniteSet(OnCall("recv")')
  BY <1>1, OnlyOne
<1>6. /\ entry \in Nat /\ receivers \in Seq(Threads)
      /\ InLine(receivers, MayWait("recv")) /\ Promised(entry, receivers, OnCall("recv"))
  BY PoolNumbers DEF WakeInv
<1>7. InLine(Resume(receivers), MayWait("recv")') /\ Promised(entry + 1, Resume(receivers), OnCall("recv")')
  BY <1>5, <1>6, LineResumed
<1> QED BY <1>3, <1>4, <1>7 DEF WakeInv

LEMMA WakeRecvFree ==
    ASSUME Inv, WakeInv, NEW t \in Threads, RecvFree(t)
    PROVE  WakeInv'
<1>1. /\ \A u \in Threads : u # t => th'[u] = th[u]
      /\ t \notin OnCall("recv") /\ t \notin OnCall("send")
  BY MovesOn DEF RecvFree, Returns, OnCall
<1>2. /\ senders' = Resume(senders) /\ avail' = <<th[t].slot>> \o avail
      /\ UNCHANGED <<entry, receivers>>
  BY DEF RecvFree
<1>3. Len(avail') = Len(avail) + 1
  <2>1. th[t].slot \in Slots /\ th[t].slot \notin ToSet(avail)
    BY HolderFacts DEF RecvFree
  <2> QED BY <1>2, <2>1, ConsOf DEF Inv, TypeOK, SlotsConserved
<1>4. InLine(receivers, MayWait("recv")') /\ Promised(entry, receivers, OnCall("recv")')
  BY <1>1, SideStays, PoolNumbers DEF WakeInv
<1>5. /\ MayWait("send") \subseteq MayWait("send")' /\ OnCall("send") \subseteq OnCall("send")'
      /\ MayWait("send") \subseteq OnCall("send") /\ IsFiniteSet(OnCall("send")')
  BY <1>1, OnlyOne
<1>6. /\ Len(avail) \in Nat /\ senders \in Seq(Threads)
      /\ InLine(senders, MayWait("send")) /\ Promised(Len(avail), senders, OnCall("send"))
  BY PoolNumbers DEF WakeInv
<1>7. InLine(Resume(senders), MayWait("send")') /\ Promised(Len(avail) + 1, Resume(senders), OnCall("send")')
  BY <1>5, <1>6, LineResumed
<1> QED BY <1>2, <1>3, <1>4, <1>7 DEF WakeInv

LEMMA WakeTimeout ==
    ASSUME Inv, WakeInv, NEW t \in Threads, Timeout(t)
    PROVE  WakeInv'
<1>1. /\ \A u \in Threads : u # t => th'[u] = th[u]
      /\ UNCHANGED <<entry, avail>>
  BY PoolNumbers DEF Timeout, pool
<1>2. /\ receivers \in Seq(Threads) /\ senders \in Seq(Threads) /\ entry \in Nat /\ Len(avail) \in Nat
      /\ DOMAIN receivers = 1 .. Len(receivers) /\ DOMAIN senders = 1 .. Len(senders)
  BY PoolNumbers, LenProperties
<1>3. ASSUME NEW i \in 1 .. Len(receivers), receivers[i] = t, receivers' = RemoveAt(receivers, i),
             UNCHANGED senders
      PROVE  WakeInv'
  <2>1. t \notin OnCall("send")
    BY <1>2, <1>3 DEF WakeInv, InLine, MayWait, OnCall, ToSet
  <2>2. InLine(senders, MayWait("send")') /\ Promised(Len(avail), senders, OnCall("send")')
    BY <1>1, <1>2, <2>1, SideStays DEF WakeInv
  <2>3. /\ MayWait("recv") \subseteq MayWait("recv")' \cup {receivers[i]}
        /\ OnCall("recv") \subseteq OnCall("recv")' \cup {receivers[i]}
        /\ IsFiniteSet(OnCall("recv")')
    BY <1>1, <1>3, OnlyOne
  <2>4. InLine(receivers, MayWait("recv")) /\ Promised(entry, receivers, OnCall("recv")) /\ IsInjective(receivers)
    BY DEF WakeInv, InLine
  <2>5. InLine(receivers', MayWait("recv")')
    BY <1>2, <1>3, <2>3, <2>4, LineLeft
  <2>6. Promised(entry, receivers', OnCall("recv")')
    BY <1>2, <1>3, <2>3, <2>4, OwedLeft
  <2> QED BY <1>1, <1>3, <2>2, <2>5, <2>6 DEF WakeInv
<1>4. ASSUME NEW i \in 1 .. Len(senders), senders[i] = t, senders' = RemoveAt(senders, i),
             UNCHANGED receivers
      PROVE  WakeInv'
  <2>1. t \notin OnCall("recv")
    BY <1>2, <1>4 DEF WakeInv, InLine, MayWait, OnCall, ToSet
  <2>2. InLine(receivers, MayWait("recv")') /\ Promised(entry, receivers, OnCall("recv")')
    BY <1>1, <1>2, <2>1, SideStays DEF WakeInv
  <2>3. /\ MayWait("send") \subseteq MayWait("send")' \cup {senders[i]}
        /\ OnCall("send") \subseteq OnCall("send")' \cup {senders[i]}
        /\ IsFiniteSet(OnCall("send")')
    BY <1>1, <1>4, OnlyOne
  <2>4. InLine(senders, MayWait("send")) /\ Promised(Len(avail), senders, OnCall("send")) /\ IsInjective(senders)
    BY DEF WakeInv, InLine
  <2>5. InLine(senders', MayWait("send")')
    BY <1>2, <1>4, <2>3, <2>4, LineLeft
  <2>6. Promised(Len(avail), senders', OnCall("send")')
    BY <1>2, <1>4, <2>3, <2>4, OwedLeft
  <2> QED BY <1>1, <1>4, <2>2, <2>5, <2>6 DEF WakeInv
<1> QED BY <1>3, <1>4 DEF Timeout

\* Nobody waits any more.
LEMMA NobodyInLine ==
    ASSUME NEW M, NEW W, NEW n
    PROVE  InLine(<<>>, M) /\ Promised(n, <<>>, W)
<1>1. ToSet(<<>>) = {} /\ IsInjective(<<>>) /\ Len(<<>>) = 0
  BY DEF ToSet, IsInjective
<1>2. Sorted(<<>>, Prio)
  BY <1>1 DEF Sorted
<1> QED BY <1>1, <1>2 DEF InLine, Promised

\* A call that has failed, or a step that changes no call.
LEMMA WakeFailed ==
    ASSUME Inv, WakeInv, NEW t \in Threads, th[t].error # "EOK" \/ th' = th,
           \A u \in Threads : u # t => th'[u] = th[u],
           UNCHANGED <<pool, waiting>>
    PROVE  WakeInv'
<1>1. UNCHANGED <<entry, avail, receivers, senders>>
  BY DEF pool, waiting
<1>2. CASE th' = th
  BY <1>1, <1>2 DEF WakeInv, MayWait, OnCall
<1>3. CASE th[t].error # "EOK"
  <2>1. t \notin OnCall("recv") /\ t \notin OnCall("send")
    BY <1>3 DEF OnCall
  <2>2. InLine(receivers, MayWait("recv")') /\ Promised(entry, receivers, OnCall("recv")')
    BY <2>1, SideStays, PoolNumbers DEF WakeInv
  <2>3. InLine(senders, MayWait("send")') /\ Promised(Len(avail), senders, OnCall("send")')
    BY <2>1, SideStays, PoolNumbers DEF WakeInv
  <2> QED BY <1>1, <2>2, <2>3 DEF WakeInv
<1> QED BY <1>2, <1>3

LEMMA WakeInit == Init => WakeInv
<1> SUFFICES ASSUME Init PROVE WakeInv
  OBVIOUS
<1> QED BY NobodyInLine DEF Init, WakeInv

LEMMA WakeNext == Inv /\ WakeInv /\ [Next]_vars => WakeInv'
<1> SUFFICES ASSUME Inv, WakeInv, [Next]_vars PROVE WakeInv'
  OBVIOUS
<1>1. CASE UNCHANGED vars
  <2>1. UNCHANGED <<entry, avail, receivers, senders, th>>
    BY <1>1 DEF vars, pool, waiting
  <2> QED BY <2>1 DEF WakeInv, MayWait, OnCall
<1> SUFFICES ASSUME NEW t \in Threads,
                    \/ \E m \in Message, w \in Timeouts : m.from = t /\ Send(t, m, w)
                    \/ \E m \in Message : m.from = t /\ Urgent(t, m)
                    \/ \E w \in Timeouts : Recv(t, w)
                    \/ Reset(t)
                    \/ Timeout(t)
                    \/ SendResumed(t) \/ SendLink(t) \/ UrgentLink(t)
                    \/ RecvResumed(t) \/ RecvFree(t)
             PROVE  WakeInv'
  BY <1>1 DEF Next
<1>2. th[t].pc = "idle" => t \notin ToSet(receivers) /\ t \notin ToSet(senders)
  BY DEF WakeInv, InLine, MayWait, OnCall
<1>3. ASSUME NEW m \in Message, NEW w \in Timeouts, Send(t, m, w) PROVE WakeInv'
  BY <1>2, <1>3, WakeSendLoop DEF Send, Begins
<1>4. ASSUME NEW m \in Message, Urgent(t, m) PROVE WakeInv'
  <2>1. th[t].pc = "idle"
    BY <1>4 DEF Urgent, Begins
  <2>2. CASE Claim(t, m, "fillUrgent")
    <3>1. /\ \A u \in Threads : u # t => th'[u] = th[u]
          /\ UNCHANGED <<entry, receivers, senders>> /\ avail' = Tail(avail) /\ free # Nil
          /\ t \notin OnCall("recv") /\ t \notin OnCall("send")
      BY <2>1, <2>2, MovesOn DEF Claim, waiting, OnCall
    <3>2. InLine(receivers, MayWait("recv")') /\ Promised(entry, receivers, OnCall("recv")')
      BY <3>1, SideStays, PoolNumbers DEF WakeInv
    <3>3. InLine(senders, MayWait("send")')
      BY <3>1, SideStays, PoolNumbers DEF WakeInv
    <3>4. Promised(Len(avail) - 1, senders, OnCall("send")')
      <4>1. Len(avail) \in Nat \ {0} /\ Promised(Len(avail), senders, OnCall("send"))
        BY <3>1, PoolNumbers DEF WakeInv
      <4>2. IsFiniteSet(OnCall("send")') /\ OnCall("send") \subseteq OnCall("send")' \cup {t}
        BY <3>1, OnlyOne
      <4> QED BY <4>1, <4>2, OwedSpent
    <3>5. Len(avail') = Len(avail) - 1
      BY <3>1, PoolNumbers
    <3> QED BY <3>1, <3>2, <3>3, <3>4, <3>5 DEF WakeInv
  <2>3. CASE free = Nil /\ UNCHANGED <<pool, waiting, th>>
    BY <2>3, WakeFailed
  <2> QED BY <1>4, <2>2, <2>3 DEF Urgent
<1>5. ASSUME NEW w \in Timeouts, Recv(t, w) PROVE WakeInv'
  BY <1>2, <1>5, WakeRecvLoop DEF Recv, Begins
<1>6. CASE Reset(t)
  <2>1. receivers' = <<>> /\ senders' = <<>>
    BY <1>6 DEF Reset
  <2> QED BY <2>1, NobodyInLine DEF WakeInv
<1>7. CASE SendResumed(t)
  <2>1. th[t].pc = "send" /\ t \notin ToSet(senders)
    BY <1>7 DEF SendResumed, IsResumed
  <2>2. th[t].msg \in Message /\ Left(th[t].timeout) \subseteq Timeouts
    BY <2>1 DEF Inv, TypeOK, CallsSound, Left, Timeouts
  <2>3. CASE th[t].error # "EOK" /\ Returns(t) /\ UNCHANGED <<pool, waiting>>
    BY <2>3, MovesOn, WakeFailed DEF Returns
  <2>4. ASSUME NEW w \in Left(th[t].timeout), SendLoop(t, th[t].msg, w) PROVE WakeInv'
    BY <2>1, <2>2, <2>4, WakeSendLoop
  <2> QED BY <1>7, <2>3, <2>4 DEF SendResumed
<1>8. CASE RecvResumed(t)
  <2>1. th[t].pc = "recv" /\ t \notin ToSet(receivers)
    BY <1>8 DEF RecvResumed, IsResumed
  <2>2. Left(th[t].timeout) \subseteq Timeouts
    BY DEF Inv, TypeOK, Left, Timeouts
  <2>3. CASE th[t].error # "EOK" /\ Returns(t) /\ UNCHANGED <<pool, waiting>>
    BY <2>3, MovesOn, WakeFailed DEF Returns
  <2>4. ASSUME NEW w \in Left(th[t].timeout), RecvLoop(t, w) PROVE WakeInv'
    BY <2>1, <2>2, <2>4, WakeRecvLoop
  <2> QED BY <1>8, <2>3, <2>4 DEF RecvResumed
<1>9. CASE SendLink(t)
  BY <1>9, WakeLink DEF SendLink
<1>10. CASE UrgentLink(t)
  BY <1>10, WakeLink DEF UrgentLink
<1> QED
  BY <1>3, <1>4, <1>5, <1>6, <1>7, <1>8, <1>9, <1>10, WakeTimeout, WakeRecvFree

\* WakeInv says what the two properties of the runs say.
LEMMA WakeInvSays == WakeInv => NoLostWakeUp /\ WaitersInOrder
<1> SUFFICES ASSUME WakeInv PROVE NoLostWakeUp /\ WaitersInOrder
  OBVIOUS
<1>1. \A list : Resumed("recv", list) = OnCall("recv") \ ToSet(list)
                /\ Resumed("send", list) = OnCall("send") \ ToSet(list)
  BY DEF Resumed, IsResumed, OnCall
<1>2. NoLostWakeUp
  BY <1>1 DEF WakeInv, Promised, NoLostWakeUp
<1>3. WaitersInOrder
  BY DEF WakeInv, InLine, MayWait, OnCall, WaitersInOrder, WaitsFor, Sorted
<1> QED BY <1>2, <1>3

THEOREM QueueWakes == Spec => [](NoLostWakeUp /\ WaitersInOrder)
<1>1. Init => Inv /\ WakeInv
  BY InvInit, WakeInit
<1>2. Inv /\ WakeInv /\ [Next]_vars => Inv' /\ WakeInv'
  BY InvNext, WakeNext
<1>3. Inv /\ WakeInv => NoLostWakeUp /\ WaitersInOrder
  BY WakeInvSays
<1> QED BY <1>1, <1>2, <1>3, PTL DEF Spec

\* Beside a sleeping receiver there are never more messages than receivers on
\* their way, beside a sleeping sender never more unused slots than senders,
\* whatever calls that never slept take from them.
THEOREM QueueLosesNoWakeUp == Spec => []NoLostWakeUp
BY QueueWakes, PTL

\* The two wait lists hold each sleeping call once, on the list it waits on, in
\* the order of the queue's flag, and none of them has time zero left.
THEOREM QueueWaitersInOrder == Spec => []WaitersInOrder
BY QueueWakes, PTL

-----------------------------------------------------------------------------
(***************************************************************************)
(* The queue implements Channel: what the mapping makes of each step.      *)
(***************************************************************************)
ChanOf == [i \in 1 .. Len(linked) |-> data[linked[i]]]
GotOf  == [t \in Threads |-> IF th[t].pc = "drain" THEN data[th[t].slot] ELSE buf[t]]

\* The line of messages, read off the slots.
LEMMA ChanIs ==
    ASSUME Inv
    PROVE  /\ Len(linked) \in Nat /\ \A i \in 1 .. Len(linked) : linked[i] \in ToSet(linked)
           /\ ChanOf \in Seq(Message \cup {NoMsg}) /\ Len(ChanOf) = Len(linked)
           /\ \A i \in 1 .. Len(linked) : ChanOf[i] = data[linked[i]]
<1>1. Len(linked) \in Nat /\ \A i \in 1 .. Len(linked) : linked[i] \in Slots /\ linked[i] \in ToSet(linked)
  BY LenProperties, ElementOfSeq DEF Inv, TypeOK, ToSet
<1>2. ChanOf \in [1 .. Len(linked) -> Message \cup {NoMsg}]
  BY <1>1 DEF ChanOf, Inv, TypeOK
<1>3. ChanOf \in Seq(Message \cup {NoMsg})
  BY <1>1, <1>2, SeqDef
<1>4. Len(ChanOf) = Len(linked)
  BY <1>1, <1>2, <1>3, LenProperties
<1> QED BY <1>1, <1>3, <1>4 DEF ChanOf

LEMMA ChanIsNext ==
    Inv' => /\ ChanOf' \in Seq(Message \cup {NoMsg}) /\ Len(ChanOf') = Len(linked')
            /\ \A i \in 1 .. Len(linked') : ChanOf'[i] = data'[linked'[i]]
<1>1. Inv => /\ ChanOf \in Seq(Message \cup {NoMsg}) /\ Len(ChanOf) = Len(linked)
             /\ \A i \in 1 .. Len(linked) : ChanOf[i] = data[linked[i]]
  BY ChanIs
<1>2. (Inv => /\ ChanOf \in Seq(Message \cup {NoMsg}) /\ Len(ChanOf) = Len(linked)
              /\ \A i \in 1 .. Len(linked) : ChanOf[i] = data[linked[i]])'
  BY <1>1, PTL
<1> QED BY <1>2

\* As long as the queued slots keep their messages, and the threads that copy
\* one out theirs, the channel does not see what happens.
LEMMA ChanStays ==
    ASSUME linked' = linked, Inv, \A s \in ToSet(linked) : data'[s] = data[s]
    PROVE  ChanOf' = ChanOf
<1>1. \A i \in 1 .. Len(linked) : linked[i] \in ToSet(linked)
  BY ChanIs
<1>2. \A i \in 1 .. Len(linked) : data'[linked'[i]] = data[linked[i]]
  BY <1>1
<1> QED BY <1>2 DEF ChanOf

GotBy(t) == IF th[t].pc = "drain" THEN data[th[t].slot] ELSE buf[t]

LEMMA GotIs == GotOf = [t \in Threads |-> GotBy(t)]
BY DEF GotOf, GotBy

LEMMA GotStays ==
    ASSUME \A u \in Threads : GotBy(u)' = GotBy(u)
    PROVE  GotOf' = GotOf
<1>1. GotOf' = [u \in Threads |-> GotBy(u)']
  BY DEF GotOf, GotBy
<1> QED BY <1>1, GotIs

LEMMA GotChanges ==
    ASSUME NEW t \in Threads, NEW m, GotBy(t)' = m, \A u \in Threads : u # t => GotBy(u)' = GotBy(u)
    PROVE  GotOf' = [GotOf EXCEPT ![t] = m]
<1>1. GotOf' = [u \in Threads |-> GotBy(u)']
  BY DEF GotOf, GotBy
<1>2. GotOf = [u \in Threads |-> GotBy(u)]
  BY GotIs
<1>3. [GotOf EXCEPT ![t] = m] = [u \in Threads |-> IF u = t THEN m ELSE GotBy(u)]
  BY <1>2
<1>4. \A u \in Threads : GotBy(u)' = IF u = t THEN m ELSE GotBy(u)
  OBVIOUS
<1> QED BY <1>1, <1>3, <1>4

\* What the steps of Channel ask, in these words.
LEMMA ChannelSteps ==
    /\ ChanOf' = ChanOf /\ GotOf' = GotOf => UNCHANGED Chan!cvars
    /\ \A t \in Threads : ChanOf' = ChanOf /\ GotOf' = [GotOf EXCEPT ![t] = NoMsg] => Chan!Next
    /\ \A m \in Message :
          Len(ChanOf) < MaxMsgs /\ GotOf' = GotOf
          /\ (ChanOf' = Append(ChanOf, m) \/ ChanOf' = <<m>> \o ChanOf) => Chan!Next
    /\ \A t \in Threads :
          ChanOf # <<>> /\ ChanOf' = Tail(ChanOf) /\ GotOf' = [GotOf EXCEPT ![t] = Head(ChanOf)] => Chan!Next
    /\ \A t \in Threads : ChanOf' = <<>> /\ GotOf' = [GotOf EXCEPT ![t] = NoMsg] => Chan!Next
BY DEF ChanOf, GotOf, Chan!cvars, Chan!Next, Chan!Begin, Chan!Put, Chan!PutUrgent, Chan!Take, Chan!Clear

\* A step that moves no message: a call begins, waits, gives up or fails, or
\* takes an unused slot.
LEMMA RefQuiet ==
    ASSUME Inv, NEW t \in Threads, \A u \in Threads : u # t => th'[u] = th[u],
           UNCHANGED <<data, linked>>, th[t].pc # "drain", th'[t].pc # "drain",
           buf' = buf \/ buf' = [buf EXCEPT ![t] = NoMsg]
    PROVE  [Chan!Next]_(Chan!cvars)
<1>1. ChanOf' = ChanOf
  BY ChanStays
<1>2. buf \in [Threads -> Message \cup {NoMsg}]
  BY DEF Inv, TypeOK
<1>3. \A u \in Threads : u # t => GotBy(u)' = GotBy(u)
  BY <1>2 DEF GotBy
<1>4. CASE buf' = buf
  <2>1. GotBy(t)' = GotBy(t)
    BY <1>4 DEF GotBy
  <2>2. GotOf' = GotOf
    BY <1>3, <2>1, GotStays
  <2> QED BY <1>1, <2>2, ChannelSteps
<1>5. CASE buf' = [buf EXCEPT ![t] = NoMsg]
  <2>1. GotBy(t)' = NoMsg
    BY <1>2, <1>5 DEF GotBy
  <2>2. GotOf' = [GotOf EXCEPT ![t] = NoMsg]
    BY <1>3, <2>1, GotChanges
  <2> QED BY <1>1, <2>2, ChannelSteps
<1> QED BY <1>4, <1>5

\* The first message leaves the line when it is unlinked, although it is copied
\* later.
LEMMA RefUnlink ==
    ASSUME Inv, Inv', NEW t \in Threads, th[t].pc # "drain", entry # 0, Unlink(t),
           buf' = buf \/ buf' = [buf EXCEPT ![t] = NoMsg]
    PROVE  Chan!Next
<1>1. /\ linked' = Tail(linked) /\ data' = data
      /\ th'[t] = [Idle EXCEPT !.pc = "drain", !.slot = head]
      /\ \A u \in Threads : u # t => th'[u] = th[u]
  BY MovesOn DEF Unlink
<1>2. /\ linked \in Seq(Slots) /\ IsInjective(linked) /\ entry = Len(linked)
      /\ buf \in [Threads -> Message \cup {NoMsg}]
  BY DEF Inv, TypeOK, SlotsConserved
<1>3. linked # <<>>
  BY <1>2
<1>4. /\ Len(linked) \in Nat \ {0} /\ Len(linked') = Len(linked) - 1
      /\ \A i \in 1 .. Len(linked) - 1 : linked'[i] = linked[i + 1]
  BY <1>1, <1>2, <1>3, TailOf
<1>5. head = linked[1]
  BY <1>3 DEF Inv, ListsSpelled, Spells
<1> DEFINE M == Message \cup {NoMsg}
           n == Len(linked)
<1>6. /\ ChanOf \in Seq(M) /\ Len(ChanOf) = n
      /\ \A i \in 1 .. n : ChanOf[i] = data[linked[i]]
  BY ChanIs
<1>7. /\ ChanOf' \in Seq(M) /\ Len(ChanOf') = Len(linked')
      /\ \A i \in 1 .. Len(linked') : ChanOf'[i] = data'[linked'[i]]
  BY ChanIsNext
<1>8. ChanOf # <<>> /\ Head(ChanOf) = data[head]
  <2>1. ChanOf # <<>>
    BY <1>4, <1>6
  <2>2. 1 \in 1 .. n
    BY <1>4
  <2>3. Head(ChanOf) = ChanOf[1]
    BY <1>6, <2>1
  <2> QED BY <1>5, <1>6, <2>1, <2>2, <2>3
<1>9. ChanOf' = Tail(ChanOf)
  <2>1. /\ Tail(ChanOf) \in Seq(M) /\ Len(Tail(ChanOf)) = n - 1
        /\ \A i \in 1 .. n - 1 : Tail(ChanOf)[i] = ChanOf[i + 1]
    BY <1>6, <1>8, HeadTailProperties
  <2>2. \A i \in 1 .. n - 1 : i + 1 \in 1 .. n
    BY <1>4
  <2>3. \A i \in 1 .. n - 1 : ChanOf'[i] = Tail(ChanOf)[i]
    BY <1>1, <1>4, <1>6, <1>7, <2>1, <2>2
  <2>4. Len(ChanOf') = Len(Tail(ChanOf)) /\ Len(ChanOf') = n - 1
    BY <1>4, <1>7, <2>1
  <2> HIDE DEF M, n
  <2> QED BY <1>7, <2>1, <2>3, <2>4, SeqEqual
<1>10. GotOf' = [GotOf EXCEPT ![t] = data[head]]
  <2>1. GotBy(t)' = data[head]
    BY <1>1 DEF GotBy, Idle
  <2>2. \A u \in Threads : u # t => GotBy(u)' = GotBy(u)
    BY <1>1, <1>2 DEF GotBy
  <2> QED BY <2>1, <2>2, GotChanges
<1> QED BY <1>8, <1>9, <1>10, ChannelSteps

\* A message joins the line when its slot is linked, at the back or the front.
LEMMA RefLink ==
    ASSUME Inv, Inv', NEW t \in Threads, th[t].pc \in {"fill", "fillUrgent"}, Returns(t),
           NEW s, s = th[t].slot, data' = [data EXCEPT ![s] = th[t].msg], buf' = buf,
           linked' = Append(linked, s) \/ linked' = <<s>> \o linked
    PROVE  Chan!Next
<1> DEFINE m == th[t].msg
           n == Len(linked)
           M == Message \cup {NoMsg}
<1>1. /\ s \in Slots /\ s \notin ToSet(linked) /\ m \in Message
      /\ \A u \in Held : u # t => th[u].slot # s
  BY HolderFacts
<1>2. /\ th'[t] = Idle /\ \A u \in Threads : u # t => th'[u] = th[u]
      /\ buf \in [Threads -> M] /\ data \in [Slots -> M]
      /\ linked \in Seq(Slots) /\ IsInjective(linked) /\ n \in Nat
      /\ \A i \in 1 .. n : linked[i] \in Slots /\ linked[i] \in ToSet(linked)
  BY MovesOn, ChanIs, ElementOfSeq DEF Returns, Inv, TypeOK, SlotsConserved
<1>3. data'[s] = m /\ \A x \in Slots : x # s => data'[x] = data[x]
  BY <1>1, <1>2
<1>4. /\ ChanOf \in Seq(M) /\ Len(ChanOf) = n
      /\ \A i \in 1 .. n : ChanOf[i] = data[linked[i]]
  BY ChanIs
<1>5. /\ ChanOf' \in Seq(M) /\ Len(ChanOf') = Len(linked')
      /\ \A i \in 1 .. Len(linked') : ChanOf'[i] = data'[linked'[i]]
  BY ChanIsNext
<1>6. Len(ChanOf) < MaxMsgs
  BY <1>1, <1>2, <1>4, NotFull
<1>7. GotOf' = GotOf
  <2>1. GotBy(t)' = GotBy(t)
    BY <1>2 DEF GotBy, Idle
  <2>2. ASSUME NEW u \in Threads, u # t PROVE GotBy(u)' = GotBy(u)
    <3>1. th[u].pc = "drain" => th[u].slot \in Slots /\ th[u].slot # s
      <4>1. th[u].pc = "drain" => th[u].slot \in Slots /\ u \in Held
        BY HolderFacts
      <4> QED BY <1>1, <2>2, <4>1
    <3> QED BY <1>2, <1>3, <2>2, <3>1 DEF GotBy
  <2> QED BY <2>1, <2>2, GotStays
<1>8. CASE linked' = Append(linked, s)
  <2>1. /\ Len(linked') = n + 1 /\ linked'[n + 1] = s
        /\ \A i \in 1 .. n : linked'[i] = linked[i]
    BY <1>1, <1>2, <1>8, AppendOf
  <2>2. /\ Append(ChanOf, m) \in Seq(M) /\ Len(Append(ChanOf, m)) = n + 1
        /\ Append(ChanOf, m)[n + 1] = m
        /\ \A i \in 1 .. n : Append(ChanOf, m)[i] = ChanOf[i]
    <3>1. m \in M
      BY <1>1
    <3> HIDE DEF m, M, n
    <3> QED BY <1>4, <3>1, AppendProperties
  <2>3. \A i \in 1 .. n : ChanOf'[i] = data[linked[i]]
    <3> TAKE i \in 1 .. n
    <3>1. i \in 1 .. n + 1 /\ linked[i] # s /\ linked[i] \in Slots
      BY <1>1, <1>2
    <3> QED BY <1>3, <1>5, <2>1, <3>1
  <2>4. ChanOf'[n + 1] = m
    BY <1>2, <1>3, <1>5, <2>1
  <2>5. \A i \in 1 .. n + 1 : ChanOf'[i] = Append(ChanOf, m)[i]
    <3>1. \A i \in 1 .. n + 1 : i \in 1 .. n \/ i = n + 1
      BY <1>2
    <3> HIDE DEF m, M, n
    <3> QED BY <1>4, <2>2, <2>3, <2>4, <3>1
  <2>6. ChanOf' = Append(ChanOf, m)
    <3> HIDE DEF m, M, n
    <3> QED BY <1>5, <2>1, <2>2, <2>5, SeqEqual
  <2> QED BY <1>1, <1>6, <1>7, <2>6, ChannelSteps
<1>9. CASE linked' = <<s>> \o linked
  <2>1. /\ Len(linked') = n + 1 /\ linked'[1] = s
        /\ \A i \in 1 .. n : linked'[i + 1] = linked[i]
    BY <1>1, <1>2, <1>9, ConsOf
  <2> DEFINE c == <<m>> \o ChanOf
  <2>2. /\ c \in Seq(M) /\ Len(c) = n + 1
        /\ c[1] = m
        /\ \A i \in 1 .. n : c[i + 1] = ChanOf[i]
    <3>1. <<m>> \in Seq(M) /\ Len(<<m>>) = 1 /\ <<m>>[1] = m
      BY <1>1
    <3>2. /\ c \in Seq(M) /\ Len(c) = Len(<<m>>) + Len(ChanOf)
          /\ \A i \in 1 .. Len(<<m>>) + Len(ChanOf) :
                c[i] = IF i <= Len(<<m>>) THEN <<m>>[i] ELSE ChanOf[i - Len(<<m>>)]
      BY <1>4, <3>1, ConcatProperties
    <3> HIDE DEF c, M
    <3>3. \A i \in 1 .. n + 1 : c[i] = IF i <= 1 THEN m ELSE ChanOf[i - 1]
      BY <1>2, <1>4, <3>1, <3>2
    <3>4. \A i \in 1 .. n : i + 1 \in 1 .. n + 1 /\ ~ (i + 1 <= 1) /\ i + 1 - 1 = i
      BY <1>2
    <3>5. \A i \in 1 .. n : c[i + 1] = ChanOf[i]
      <4> TAKE i \in 1 .. n
      <4> DEFINE k == i + 1
      <4>1. k \in 1 .. n + 1 /\ ~ (k <= 1) /\ k - 1 = i
        BY <3>4
      <4> HIDE DEF k, m, n
      <4>2. c[k] = ChanOf[i]
        BY <3>3, <4>1
      <4> QED BY <4>2 DEF k
    <3>6. 1 \in 1 .. n + 1
      BY <1>2
    <3> QED BY <1>2, <1>4, <3>1, <3>2, <3>3, <3>5, <3>6
  <2> HIDE DEF c
  <2>3. \A i \in 1 .. n : ChanOf'[i + 1] = data[linked[i]]
    <3> TAKE i \in 1 .. n
    <3>1. i + 1 \in 1 .. n + 1 /\ linked[i] # s /\ linked[i] \in Slots
      BY <1>1, <1>2
    <3> QED BY <1>3, <1>5, <2>1, <3>1
  <2>4. ChanOf'[1] = m
    <3>1. 1 \in 1 .. n + 1
      BY <1>2
    <3> QED BY <1>3, <1>5, <2>1, <3>1
  <2>5. \A i \in 1 .. n + 1 : ChanOf'[i] = c[i]
    <3>1. \A i \in 1 .. n + 1 : i = 1 \/ (i - 1 \in 1 .. n /\ (i - 1) + 1 = i)
      BY <1>2
    <3> TAKE i \in 1 .. n + 1
    <3>2. CASE i = 1
      BY <2>2, <2>4, <3>2
    <3>3. CASE i - 1 \in 1 .. n /\ (i - 1) + 1 = i
      <4> DEFINE k == i - 1
      <4>1. k \in 1 .. n /\ i = k + 1
        BY <3>3
      <4> HIDE DEF k, n, m
      <4> QED BY <1>4, <2>2, <2>3, <4>1
    <3> QED BY <3>1, <3>2, <3>3
  <2>6. ChanOf' = c
    <3> HIDE DEF m, M, n
    <3> QED BY <1>5, <2>1, <2>2, <2>5, SeqEqual
  <2> QED BY <1>1, <1>6, <1>7, <2>6, ChannelSteps DEF c
<1> QED BY <1>8, <1>9

\* The receiver has its message since it unlinked it: copying it shows nothing.
LEMMA RefRecvFree ==
    ASSUME Inv, NEW t \in Threads, RecvFree(t)
    PROVE  UNCHANGED Chan!cvars
<1>1. /\ th[t].pc = "drain" /\ th'[t] = Idle /\ \A u \in Threads : u # t => th'[u] = th[u]
      /\ buf' = [buf EXCEPT ![t] = data[th[t].slot]] /\ UNCHANGED <<data, linked>>
      /\ buf \in [Threads -> Message \cup {NoMsg}]
  BY MovesOn DEF RecvFree, Returns, Inv, TypeOK
<1>2. GotBy(t)' = GotBy(t)
  BY <1>1 DEF GotBy, Idle
<1>3. \A u \in Threads : u # t => GotBy(u)' = GotBy(u)
  BY <1>1 DEF GotBy
<1>4. GotOf' = GotOf
  BY <1>2, <1>3, GotStays
<1>5. ChanOf' = ChanOf
  BY <1>1, ChanStays
<1> QED BY <1>4, <1>5, ChannelSteps

LEMMA RefReset ==
    ASSUME Inv, NEW t \in Threads, Reset(t)
    PROVE  Chan!Next
<1>1. /\ buf' = [buf EXCEPT ![t] = NoMsg] /\ data' = data /\ linked' = <<>> /\ th[t].pc = "idle"
      /\ buf \in [Threads -> Message \cup {NoMsg}]
  BY DEF Reset, Begins, Inv, TypeOK
<1>2. \A u \in Threads : th'[u].pc = th[u].pc /\ th'[u].slot = th[u].slot
  BY DEF Reset, Inv, TypeOK
<1>3. GotBy(t)' = NoMsg
  BY <1>1, <1>2 DEF GotBy
<1>4. \A u \in Threads : u # t => GotBy(u)' = GotBy(u)
  BY <1>1, <1>2 DEF GotBy
<1>5. GotOf' = [GotOf EXCEPT ![t] = NoMsg]
  BY <1>3, <1>4, GotChanges
<1>6. ChanOf' = <<>>
  <2>1. 1 .. Len(linked') = {}
    BY <1>1
  <2> QED BY <2>1 DEF ChanOf
<1> QED BY <1>5, <1>6, ChannelSteps

LEMMA RefTimeout ==
    ASSUME Inv, NEW t \in Threads, Timeout(t)
    PROVE  UNCHANGED Chan!cvars
<1>1. UNCHANGED <<data, linked, buf>>
  BY DEF Timeout, pool
<1>2. \A u \in Threads : th'[u].pc = th[u].pc /\ th'[u].slot = th[u].slot
  BY DEF Timeout, Inv, TypeOK
<1>3. GotOf' = GotOf
  BY <1>1, <1>2, GotStays DEF GotBy
<1>4. ChanOf' = ChanOf
  BY <1>1, ChanStays
<1> QED BY <1>3, <1>4, ChannelSteps

\* A call that waits or gives up is not copying.
LEMMA RefRests ==
    ASSUME Inv, NEW t \in Threads, th[t].pc # "drain", UNCHANGED pool,
           \/ Returns(t)
           \/ \E w \in Timeouts : Waits(t, "recv", NoMsg, w)
           \/ \E w \in Timeouts, m \in Message : Waits(t, "send", m, w),
           buf' = buf \/ buf' = [buf EXCEPT ![t] = NoMsg]
    PROVE  [Chan!Next]_(Chan!cvars)
<1>1. th'[t].pc # "drain" /\ \A u \in Threads : u # t => th'[u] = th[u]
  <2>1. CASE Returns(t)
    BY <2>1, MovesOn DEF Returns, Idle
  <2>2. ASSUME NEW w \in Timeouts, Waits(t, "recv", NoMsg, w)
        PROVE  th'[t].pc # "drain" /\ \A u \in Threads : u # t => th'[u] = th[u]
    <3> DEFINE r == [Idle EXCEPT !.pc = "recv", !.msg = NoMsg, !.timeout = w]
    <3>1. r.pc = "recv" /\ th' = [th EXCEPT ![t] = r]
      BY <2>2 DEF Waits, Idle
    <3> HIDE DEF r
    <3> QED BY <3>1, MovesOn
  <2>3. ASSUME NEW w \in Timeouts, NEW m \in Message, Waits(t, "send", m, w)
        PROVE  th'[t].pc # "drain" /\ \A u \in Threads : u # t => th'[u] = th[u]
    <3> DEFINE r == [Idle EXCEPT !.pc = "send", !.msg = m, !.timeout = w]
    <3>1. r.pc = "send" /\ th' = [th EXCEPT ![t] = r]
      BY <2>3 DEF Waits, Idle
    <3> HIDE DEF r
    <3> QED BY <3>1, MovesOn
  <2> QED BY <2>1, <2>2, <2>3
<1>2. UNCHANGED <<data, linked>>
  BY DEF pool
<1> QED BY <1>1, <1>2, RefQuiet

LEMMA RefClaim ==
    ASSUME Inv, NEW t \in Threads, th[t].pc # "drain", NEW m, NEW pc \in {"fill", "fillUrgent"},
           Claim(t, m, pc), buf' = buf \/ buf' = [buf EXCEPT ![t] = NoMsg]
    PROVE  [Chan!Next]_(Chan!cvars)
<1>1. th'[t].pc # "drain" /\ \A u \in Threads : u # t => th'[u] = th[u]
  BY MovesOn DEF Claim, Idle
<1>2. UNCHANGED <<data, linked>>
  BY DEF Claim
<1> QED BY <1>1, <1>2, RefQuiet

LEMMA RefSendLoop ==
    ASSUME Inv, NEW t \in Threads, th[t].pc # "drain", NEW m \in Message, NEW w \in Timeouts,
           SendLoop(t, m, w), buf' = buf \/ buf' = [buf EXCEPT ![t] = NoMsg]
    PROVE  [Chan!Next]_(Chan!cvars)
<1>1. CASE Claim(t, m, "fill")
  BY <1>1, RefClaim
<1>2. CASE Returns(t) /\ UNCHANGED <<pool, waiting>>
  BY <1>2, RefRests
<1>3. CASE Waits(t, "send", m, w) /\ UNCHANGED <<pool, receivers>>
  BY <1>3, RefRests
<1> QED BY <1>1, <1>2, <1>3 DEF SendLoop

LEMMA RefRecvLoop ==
    ASSUME Inv, Inv', NEW t \in Threads, th[t].pc # "drain", NEW w \in Timeouts,
           RecvLoop(t, w), buf' = buf \/ buf' = [buf EXCEPT ![t] = NoMsg]
    PROVE  [Chan!Next]_(Chan!cvars)
<1>1. CASE entry # 0 /\ Unlink(t)
  BY <1>1, RefUnlink
<1>2. CASE Returns(t) /\ UNCHANGED <<pool, waiting>>
  BY <1>2, RefRests
<1>3. CASE Waits(t, "recv", NoMsg, w) /\ UNCHANGED <<pool, senders>>
  BY <1>3, RefRests
<1> QED BY <1>1, <1>2, <1>3 DEF RecvLoop

LEMMA RefInit == Init => Chan!Init
<1> SUFFICES ASSUME Init PROVE Chan!Init
  OBVIOUS
<1>1. 1 .. Len(linked) = {} /\ \A t \in Threads : th[t].pc = "idle" /\ buf[t] = NoMsg
  BY DEF Init, Idle
<1>2. ChanOf = <<>>
  BY <1>1 DEF ChanOf
<1>3. GotOf = [t \in Threads |-> NoMsg]
  BY <1>1 DEF GotOf
<1> QED BY <1>2, <1>3 DEF Chan!Init, ChanOf, GotOf

LEMMA RefNext == Inv /\ Inv' /\ [Next]_vars => [Chan!Next]_(Chan!cvars)
<1> SUFFICES ASSUME Inv, Inv', [Next]_vars PROVE [Chan!Next]_(Chan!cvars)
  OBVIOUS
<1>1. CASE UNCHANGED vars
  <2>1. UNCHANGED <<data, linked, th, buf>>
    BY <1>1 DEF vars, pool
  <2>2. ChanOf' = ChanOf /\ GotOf' = GotOf
    BY <2>1 DEF ChanOf, GotOf
  <2> QED BY <2>2, ChannelSteps
<1> SUFFICES ASSUME NEW t \in Threads,
                    \/ \E m \in Message, w \in Timeouts : m.from = t /\ Send(t, m, w)
                    \/ \E m \in Message : m.from = t /\ Urgent(t, m)
                    \/ \E w \in Timeouts : Recv(t, w)
                    \/ Reset(t)
                    \/ Timeout(t)
                    \/ SendResumed(t) \/ SendLink(t) \/ UrgentLink(t)
                    \/ RecvResumed(t) \/ RecvFree(t)
             PROVE  [Chan!Next]_(Chan!cvars)
  BY <1>1 DEF Next
<1>2. ASSUME NEW m \in Message, NEW w \in Timeouts, Send(t, m, w) PROVE [Chan!Next]_(Chan!cvars)
  BY <1>2, RefSendLoop DEF Send, Begins
<1>3. ASSUME NEW m \in Message, Urgent(t, m) PROVE [Chan!Next]_(Chan!cvars)
  <2>1. th[t].pc = "idle" /\ buf' = [buf EXCEPT ![t] = NoMsg]
    BY <1>3 DEF Urgent, Begins
  <2>2. CASE Claim(t, m, "fillUrgent")
    BY <2>1, <2>2, RefClaim
  <2>3. CASE UNCHANGED <<pool, waiting, th>>
    <3>1. UNCHANGED <<data, linked, th>>
      BY <2>3 DEF pool
    <3> QED BY <2>1, <3>1, RefQuiet
  <2> QED BY <1>3, <2>2, <2>3 DEF Urgent
<1>4. ASSUME NEW w \in Timeouts, Recv(t, w) PROVE [Chan!Next]_(Chan!cvars)
  BY <1>4, RefRecvLoop DEF Recv, Begins
<1>5. CASE SendResumed(t)
  <2>1. th[t].pc = "send" /\ buf' = buf
    BY <1>5 DEF SendResumed, IsResumed
  <2>2. th[t].msg \in Message /\ Left(th[t].timeout) \subseteq Timeouts
    BY <2>1 DEF Inv, TypeOK, CallsSound, Left, Timeouts
  <2>3. CASE Returns(t) /\ UNCHANGED <<pool, waiting>>
    BY <2>1, <2>3, RefRests
  <2>4. ASSUME NEW w \in Left(th[t].timeout), SendLoop(t, th[t].msg, w)
        PROVE  [Chan!Next]_(Chan!cvars)
    BY <2>1, <2>2, <2>4, RefSendLoop
  <2> QED BY <1>5, <2>3, <2>4 DEF SendResumed
<1>6. CASE RecvResumed(t)
  <2>1. th[t].pc = "recv" /\ buf' = buf
    BY <1>6 DEF RecvResumed, IsResumed
  <2>2. Left(th[t].timeout) \subseteq Timeouts
    BY DEF Inv, TypeOK, Left, Timeouts
  <2>3. CASE Returns(t) /\ UNCHANGED <<pool, waiting>>
    BY <2>1, <2>3, RefRests
  <2>4. ASSUME NEW w \in Left(th[t].timeout), RecvLoop(t, w) PROVE [Chan!Next]_(Chan!cvars)
    BY <2>1, <2>2, <2>4, RefRecvLoop
  <2> QED BY <1>6, <2>3, <2>4 DEF RecvResumed
<1>7. CASE SendLink(t)
  BY <1>7, RefLink DEF SendLink
<1>8. CASE UrgentLink(t)
  BY <1>8, RefLink DEF UrgentLink
<1> QED
  BY <1>2, <1>3, <1>4, <1>5, <1>6, <1>7, <1>8, RefReset, RefTimeout, RefRecvFree

\* The queue keeps the promise of Channel for any number of slots, callers and
\* priorities: a message is taken once, whole, and in turn, although its bytes
\* are copied in and out with interrupts enabled and its slot serves again.
THEOREM QueueIsChannel == Spec => IsChannel
<1>1. Init => Chan!Init
  BY RefInit
<1>2. Inv /\ Inv' /\ [Next]_vars => [Chan!Next]_(Chan!cvars)
  BY RefNext
<1> QED BY <1>1, <1>2, QueueInvariant, PTL DEF Spec, IsChannel, Chan!Spec

-----------------------------------------------------------------------------
(***************************************************************************)
(* The reset: n turns of its loop move the first n messages, as After says *)
(* without the loop.                                                       *)
(***************************************************************************)
Turn(q) ==
    IF q.head = Nil THEN q
    ELSE [head |-> q.next[q.head], free |-> q.head,
          next |-> [q.next EXCEPT ![q.head] = q.free]]

NextAfter(k) ==
    [s \in Slots |->
        IF \E i \in 1 .. k : linked[i] = s
        THEN LET i == CHOOSE i \in 1 .. k : linked[i] = s
             IN IF i = 1 THEN free ELSE linked[i - 1]
        ELSE next[s]]

After(k) ==
    [head |-> IF k < Len(linked) THEN linked[k + 1] ELSE Nil,
     free |-> IF k = 0 THEN free ELSE linked[k],
     next |-> NextAfter(k)]

LEMMA LinkedElements ==
    ASSUME Inv
    PROVE  /\ Len(linked) \in Nat /\ DOMAIN linked = 1 .. Len(linked)
           /\ \A i \in 1 .. Len(linked) : linked[i] \in Slots
           /\ \A i, j \in 1 .. Len(linked) : linked[i] = linked[j] => i = j
<1>1. linked \in Seq(Slots)
  BY DEF Inv, TypeOK
<1>2. Len(linked) \in Nat /\ DOMAIN linked = 1 .. Len(linked)
  BY <1>1, LenProperties
<1>3. \A i \in 1 .. Len(linked) : linked[i] \in Slots
  BY <1>1, ElementOfSeq
<1>4. \A i, j \in 1 .. Len(linked) : linked[i] = linked[j] => i = j
  BY <1>2 DEF Inv, SlotsConserved, IsInjective
<1> QED BY <1>2, <1>3, <1>4

LEMMA NextAfterIs ==
    ASSUME Inv, NEW k \in 0 .. Len(linked)
    PROVE  /\ NextAfter(k) = [s \in Slots |-> NextAfter(k)[s]]
           /\ \A i \in 1 .. k : NextAfter(k)[linked[i]] = IF i = 1 THEN free ELSE linked[i - 1]
           /\ \A s \in Slots : (\A i \in 1 .. k : linked[i] # s) => NextAfter(k)[s] = next[s]
<1>1. /\ Len(linked) \in Nat /\ DOMAIN linked = 1 .. Len(linked)
      /\ \A i \in 1 .. Len(linked) : linked[i] \in Slots
      /\ \A i, j \in 1 .. Len(linked) : linked[i] = linked[j] => i = j
  BY LinkedElements
<1>2. \A i \in 1 .. k : i \in 1 .. Len(linked)
  BY <1>1
<1>3. ASSUME NEW i \in 1 .. k
      PROVE  NextAfter(k)[linked[i]] = IF i = 1 THEN free ELSE linked[i - 1]
  <2>1. \A j \in 1 .. k : linked[j] = linked[i] => j = i
    BY <1>1, <1>2
  <2>2. (CHOOSE j \in 1 .. k : linked[j] = linked[i]) = i
    BY <2>1
  <2> QED BY <1>1, <1>2, <2>2 DEF NextAfter
<1>4. ASSUME NEW s \in Slots, \A i \in 1 .. k : linked[i] # s
      PROVE  NextAfter(k)[s] = next[s]
  BY <1>4 DEF NextAfter
<1> QED BY <1>3, <1>4 DEF NextAfter

LEMMA AfterTurn ==
    ASSUME Inv, NEW k \in 0 .. Len(linked)
    PROVE  Turn(After(k)) = IF k < Len(linked) THEN After(k + 1) ELSE After(k)
<1>1. /\ Len(linked) \in Nat /\ DOMAIN linked = 1 .. Len(linked)
      /\ \A i \in 1 .. Len(linked) : linked[i] \in Slots
      /\ \A i, j \in 1 .. Len(linked) : linked[i] = linked[j] => i = j
  BY LinkedElements
<1>2. CASE ~ (k < Len(linked))
  BY <1>2 DEF Turn, After
<1>3. CASE k < Len(linked)
  <2> DEFINE h == linked[k + 1]
             n == Len(linked)
             f == IF k = 0 THEN free ELSE linked[k]
  <2>1. /\ k + 1 \in 1 .. n /\ h \in Slots /\ h # Nil
        /\ \A i \in 1 .. k : linked[i] # h
    <3>1. k + 1 \in 1 .. n /\ h \in Slots
      BY <1>1, <1>3
    <3>2. \A i \in 1 .. k : i \in 1 .. n /\ i # k + 1
      BY <1>1
    <3>3. \A i \in 1 .. k : linked[i] # h
      BY <1>1, <3>1, <3>2
    <3> QED BY <3>1, <3>3 DEF Slots
  <2>2. After(k).head = h /\ After(k).free = f /\ After(k).next = NextAfter(k)
    BY <1>3 DEF After
  <2>3. NextAfter(k)[h] = IF k + 1 < n THEN linked[k + 1 + 1] ELSE Nil
    <3>1. NextAfter(k)[h] = next[h]
      BY <2>1, NextAfterIs
    <3>2. next[linked[k + 1]] = IF k + 1 = n THEN Nil ELSE linked[k + 1 + 1]
      BY <2>1 DEF Inv, ListsSpelled, Spells
    <3>3. (k + 1 < n) <=> (k + 1 # n)
      <4>1. k \in Nat /\ n \in Nat /\ k < n
        BY <1>1, <1>3
      <4> HIDE DEF n
      <4> QED BY <4>1
    <3> QED BY <3>1, <3>2, <3>3
  <2>4. [NextAfter(k) EXCEPT ![h] = f] = NextAfter(k + 1)
    <3>0. k + 1 \in 0 .. n
      BY <2>1
    <3>1. /\ NextAfter(k) = [s \in Slots |-> NextAfter(k)[s]]
          /\ NextAfter(k + 1) = [s \in Slots |-> NextAfter(k + 1)[s]]
      BY <3>0, NextAfterIs
    <3>2. NextAfter(k + 1)[h] = f
      <4>1. NextAfter(k + 1)[linked[k + 1]] = IF k + 1 = 1 THEN free ELSE linked[k + 1 - 1]
        <5>1. k + 1 \in 1 .. k + 1
          BY <1>1
        <5> QED BY <3>0, <5>1, NextAfterIs
      <4>2. (k + 1 = 1 <=> k = 0) /\ k + 1 - 1 = k
        BY <1>1
      <4> QED BY <4>1, <4>2
    <3>3. ASSUME NEW s \in Slots, s # h PROVE NextAfter(k + 1)[s] = NextAfter(k)[s]
      <4>1. CASE \E i \in 1 .. k : linked[i] = s
        <5>1. PICK i \in 1 .. k : linked[i] = s
          BY <4>1
        <5>2. i \in 1 .. k + 1
          BY <1>1
        <5>3. NextAfter(k + 1)[s] = IF i = 1 THEN free ELSE linked[i - 1]
          BY <3>0, <5>1, <5>2, NextAfterIs
        <5>4. NextAfter(k)[s] = IF i = 1 THEN free ELSE linked[i - 1]
          BY <5>1, NextAfterIs
        <5> QED BY <5>3, <5>4
      <4>2. CASE ~ \E i \in 1 .. k : linked[i] = s
        <5>1. \A i \in 1 .. k + 1 : i \in 1 .. k \/ i = k + 1
          BY <1>1
        <5>2. \A i \in 1 .. k + 1 : linked[i] # s
          BY <3>3, <4>2, <5>1
        <5>3. NextAfter(k + 1)[s] = next[s]
          BY <3>0, <5>2, NextAfterIs
        <5>4. NextAfter(k)[s] = next[s]
          BY <4>2, NextAfterIs
        <5> QED BY <5>3, <5>4
      <4> QED BY <4>1, <4>2
    <3>4. [NextAfter(k) EXCEPT ![h] = f] = [s \in Slots |-> IF s = h THEN f ELSE NextAfter(k)[s]]
      <4> HIDE DEF h, f
      <4> QED BY <2>1, <3>1
    <3>5. \A s \in Slots : (IF s = h THEN f ELSE NextAfter(k)[s]) = NextAfter(k + 1)[s]
      BY <3>2, <3>3
    <3> HIDE DEF h, f
    <3> QED BY <3>1, <3>4, <3>5
  <2>5. Turn(After(k)) = [head |-> NextAfter(k)[h], free |-> h,
                          next |-> [NextAfter(k) EXCEPT ![h] = f]]
    <3> HIDE DEF h, f
    <3> QED BY <2>1, <2>2 DEF Turn
  <2>6. k + 1 # 0
    BY <1>1
  <2>7. After(k + 1) = [head |-> IF k + 1 < n THEN linked[k + 1 + 1] ELSE Nil,
                        free |-> h, next |-> NextAfter(k + 1)]
    BY <2>6 DEF After
  <2>8. Turn(After(k)) = After(k + 1)
    <3> HIDE DEF h, n, f
    <3> QED BY <2>3, <2>4, <2>5, <2>7
  <2> QED BY <1>3, <2>8
<1> QED BY <1>2, <1>3

\* What n turns do.
Turns(n) == After(IF n < Len(linked) THEN n ELSE Len(linked))

LEMMA EmptiedTurns ==
    ASSUME Inv
    PROVE  \A n \in Nat : Emptied[n] = Turns(n)
<1> DEFINE base == [head |-> head, free |-> free, next |-> next]
           Eq(g) == g = [n \in Nat |-> IF n = 0 THEN base ELSE Turn(g[n - 1])]
<1>1. Len(linked) \in Nat
  BY LenProperties DEF Inv, TypeOK
<1>2. Turns(0) = base
  <2>1. NextAfter(0) = next
    <3>1. 0 \in 0 .. Len(linked) /\ 1 .. 0 = {}
      BY <1>1
    <3>2. \A s \in Slots : NextAfter(0)[s] = next[s]
      BY <3>1, NextAfterIs
    <3>3. next = [s \in Slots |-> next[s]]
      BY DEF Inv, TypeOK
    <3> QED BY <3>1, <3>2, <3>3, NextAfterIs
  <2>2. head = IF 0 < Len(linked) THEN linked[0 + 1] ELSE Nil
    <3>1. head = IF linked = <<>> THEN Nil ELSE linked[1]
      BY DEF Inv, ListsSpelled, Spells
    <3>2. linked = <<>> <=> Len(linked) = 0
      BY EmptySeq DEF Inv, TypeOK
    <3> QED BY <1>1, <3>1, <3>2
  <2>3. (IF 0 < Len(linked) THEN 0 ELSE Len(linked)) = 0
    BY <1>1
  <2> QED BY <2>1, <2>2, <2>3 DEF Turns, After
<1>3. ASSUME NEW n \in Nat PROVE Turns(n + 1) = Turn(Turns(n))
  <2>1. CASE n < Len(linked)
    <3>1. n \in 0 .. Len(linked)
      BY <1>1, <2>1
    <3>2. Turn(After(n)) = After(n + 1)
      BY <2>1, <3>1, AfterTurn
    <3>3. (IF n + 1 < Len(linked) THEN n + 1 ELSE Len(linked)) = n + 1
      BY <1>1, <2>1
    <3> QED BY <2>1, <3>2, <3>3 DEF Turns
  <2>2. CASE ~ (n < Len(linked))
    <3>1. Len(linked) \in 0 .. Len(linked) /\ ~ (Len(linked) < Len(linked)) /\ ~ (n + 1 < Len(linked))
      BY <1>1, <2>2
    <3>2. Turn(After(Len(linked))) = After(Len(linked))
      BY <3>1, AfterTurn
    <3> QED BY <2>2, <3>1, <3>2 DEF Turns
  <2> QED BY <2>1, <2>2
<1>4. Emptied = CHOOSE g : Eq(g)
  BY DEF Emptied, Turn
<1> DEFINE T == [n \in Nat |-> Turns(n)]
<1>5. Eq(T)
  <2>1. \A n \in Nat : Turns(n) = IF n = 0 THEN base ELSE Turn(T[n - 1])
    <3> TAKE n \in Nat
    <3>1. CASE n = 0
      BY <1>2, <3>1
    <3>2. CASE n # 0
      <4>1. n - 1 \in Nat /\ n - 1 + 1 = n
        BY <3>2
      <4>2. T[n - 1] = Turns(n - 1) /\ Turns(n - 1 + 1) = Turn(Turns(n - 1))
        BY <1>3, <4>1
      <4> QED BY <3>2, <4>1, <4>2
    <3> QED BY <3>1, <3>2
  <2> QED BY <2>1
<1>6. Eq(Emptied)
  <2> HIDE DEF Eq, T
  <2> QED BY <1>4, <1>5
<1> DEFINE E == Emptied
<1>7. E[0] = base /\ \A n \in Nat : E[n + 1] = Turn(E[n])
  <2>1. \A n \in Nat : E[n] = IF n = 0 THEN base ELSE Turn(E[n - 1])
    <3> HIDE DEF E, base
    <3>1. E = [n \in Nat |-> IF n = 0 THEN base ELSE Turn(E[n - 1])]
      BY <1>6 DEF E
    <3> QED BY <3>1
  <2>2. \A n \in Nat : n + 1 \in Nat /\ n + 1 # 0 /\ n + 1 - 1 = n
    OBVIOUS
  <2>3. 0 \in Nat
    OBVIOUS
  <2> HIDE DEF E, base
  <2>4. ASSUME NEW n \in Nat PROVE E[n + 1] = Turn(E[n])
    <3>1. E[n + 1] = Turn(E[n + 1 - 1])
      BY <2>1, <2>2
    <3> QED BY <2>2, <3>1
  <2> QED BY <2>1, <2>3, <2>4
<1> DEFINE B == {n \in Nat : E[n] # Turns(n)}
<1> HIDE DEF E, base, Eq, T
<1>8. B = {}
  <2> SUFFICES ASSUME B # {} PROVE FALSE
    OBVIOUS
  <2>1. PICK n \in B : \A y \in B : n <= y
    <3>1. B \subseteq Nat
      OBVIOUS
    <3> HIDE DEF B
    <3> QED BY <3>1, NatMin
  <2>2. n \in Nat /\ E[n] # Turns(n) /\ n # 0
    BY <1>2, <1>7, <2>1
  <2> DEFINE k == n - 1
  <2>3. k \in Nat /\ n = k + 1 /\ ~ (n <= k)
    BY <2>2
  <2> HIDE DEF k
  <2>4. E[k] = Turns(k)
    BY <2>1, <2>3
  <2> QED BY <1>3, <1>7, <2>2, <2>3, <2>4
<1> QED BY <1>8 DEF E

LEMMA AllEmptied == Inv => ResetIsItsLoop
<1> SUFFICES ASSUME Inv PROVE ResetIsItsLoop
  OBVIOUS
<1> DEFINE n == Len(linked)
<1>1. n \in Nat /\ n <= MaxMsgs /\ MaxMsgs \in Nat
  BY MsgQueueAssumption, LinkedElements DEF Inv, TypeOK, SlotsConserved
<1>2. Emptied[MaxMsgs] = Turns(MaxMsgs)
  BY <1>1, EmptiedTurns
<1>3. Turns(MaxMsgs) = After(n)
  BY <1>1 DEF Turns
<1>4. After(n) = [head |-> Nil, free |-> IF n = 0 THEN free ELSE linked[n], next |-> NextAfter(n)]
  BY <1>1 DEF After
<1>5. (n = 0 <=> linked = <<>>) /\ (linked = <<>> <=> head = Nil)
  <2>1. linked \in Seq(Slots) /\ Spells(head, linked)
    BY DEF Inv, TypeOK, ListsSpelled
  <2>2. n = 0 <=> linked = <<>>
    BY <2>1, EmptySeq
  <2>3. linked # <<>> => linked[1] \in Slots
    BY <1>1, <2>2, LinkedElements
  <2> QED BY <2>1, <2>2, <2>3 DEF Spells, Slots
<1>6. head # Nil => tail = linked[n]
  BY <1>5 DEF Inv, ListsSpelled
<1>7. NextAfter(n) = NextEmptied
  BY DEF NextAfter, NextEmptied
<1> QED BY <1>2, <1>3, <1>4, <1>5, <1>6, <1>7 DEF ResetIsItsLoop

\* The loop of the reset, which moves the messages of the queue one at a time to
\* the free list, ends for any number of slots where the model says: the queue
\* empty, its slots unused in the opposite order, those unused before after them.
THEOREM QueueResetIsItsLoop == Spec => []ResetIsItsLoop
<1>1. Inv => ResetIsItsLoop
  BY AllEmptied
<1> QED BY <1>1, QueueInvariant, PTL
=============================================================================
