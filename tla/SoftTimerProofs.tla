---------------------------- MODULE SoftTimerProofs ----------------------------
(***************************************************************************)
(* The timers, proved: while ticks wrap, the timer thread stalls and       *)
(* callbacks sleep, start and stop timers, a soft timer goes off in its    *)
(* turn, the timer thread never sleeps past one, and a thread wakes at its *)
(* tick.                                                                   *)
(***************************************************************************)
EXTENDS SoftTimer, ListLemmas

Nap     == CHOOSE nap \in 1 .. Half - 1 : \E longest \in 1 .. Half - 1 : Timely(nap, longest)
Longest == CHOOSE longest \in 1 .. Half - 1 : Timely(Nap, longest)
Number  == Cardinality(SoftTimers)
Naps    == [k \in Nat |-> k * Nap]

Lefts == [t \in Timers |-> Left(t)]

\* What the sleep of a callback can still add to the lateness of the others.
Rest == IF pc = "callback" THEN Nap
        ELSE IF pc = "napped" /\ stat = "suspend" THEN Left(Own) ELSE 0

\* How late the soft timer at place i can be.
Late(i) == MaxStall + stall + Naps[Number + 1 - i] - 1 - Rest

ListsOrdered ==
    /\ IsInjective(timerList) /\ Sorted(timerList, Lefts)
    /\ IsInjective(softList) /\ Sorted(softList, Lefts)

Sleepers ==
    /\ \A h \in ToSet(timerList) : Left(h) \in 0 .. Half - 1 /\ (Left(h) = 0 => h = Own /\ ~ Busy)
    /\ Own \in ToSet(timerList) => stat = "suspend"

ThreadState ==
    /\ stat = "suspend" => pc \in {"check", "napped"}
    /\ stat = "suspend" /\ pc = "napped" => Own \in ToSet(timerList) /\ Left(Own) <= Nap
    /\ firing # Nobody <=> Busy
    /\ held => firing \notin ToSet(softList)

OnTheWay ==
    /\ pc = "stop" => softList = <<>>
    /\ pc \in {"look", "measure", "sleep"} /\ softList # <<>> => Lefts[softList[1]] + stall >= 1
    /\ pc = "measure" => softList # <<>> /\ seen = due[softList[1]]
    /\ pc = "sleep" => softList # <<>> /\ seen \in 0 .. Half - 1 /\ seen <= Lefts[softList[1]] + stall

Asleep ==
    stat = "suspend" /\ ~ Busy /\ softList # <<>> =>
        /\ Own \in ToSet(timerList)
        /\ Left(Own) <= Lefts[softList[1]] + MaxStall
        /\ 1 <= Lefts[softList[1]] + MaxStall

NotTooLate ==
    \A i \in 1 .. Len(softList) :
        Lefts[softList[i]] <= Longest /\ -Lefts[softList[i]] <= Late(i)

IInv ==
    /\ TypeOK /\ ListsOrdered /\ Sleepers /\ ThreadState /\ OnTheWay /\ Asleep /\ NotTooLate

-----------------------------------------------------------------------------
(* Arithmetic of ticks.                                                    *)

LEMMA Ranges ==
    /\ TickRange \in Nat \ {0} /\ MaxStall \in Nat
    /\ Half \in Nat /\ 2 * Half <= TickRange - 1
BY SoftTimerAssumption DEF SoftTimerAssumption, Half

\* A number less than one round off the range is brought back by one round.
LEMMA Rounds ==
    ASSUME NEW r \in Nat \ {0}, NEW x \in Int
    PROVE  /\ x \in 0 .. r - 1 => x % r = x
           /\ x \in r .. 2 * r - 1 => x % r = x - r
           /\ x \in -r .. -1 => x % r = x + r
OBVIOUS

\* How far ahead of now the time when is: what Left counts.
Away(when, now) ==
    LET ahead == Minus(when, now) IN IF ahead <= Half THEN ahead ELSE ahead - TickRange

LEMMA LeftIsAway ==
    ASSUME NEW t
    PROVE  Left(t) = Away(due[t], tick)
BY DEF Left, Away

LEMMA MinusIs ==
    ASSUME NEW a \in 0 .. TickRange - 1, NEW b \in 0 .. TickRange - 1
    PROVE  /\ Minus(a, b) = IF a >= b THEN a - b ELSE a - b + TickRange
           /\ Minus(a, b) \in 0 .. TickRange - 1
<1> DEFINE x == a - b
<1>1. /\ x \in Int /\ TickRange \in Nat \ {0}
      /\ (a >= b => x \in 0 .. TickRange - 1) /\ (~ a >= b => x \in -TickRange .. -1)
  BY Ranges
<1> HIDE DEF x
<1>2. /\ a >= b => x % TickRange = x
      /\ ~ a >= b => x % TickRange = x + TickRange
  BY <1>1, Rounds
<1>3. Minus(a, b) = IF a >= b THEN x ELSE x + TickRange
  BY <1>2 DEF Minus, x
<1>4. Minus(a, b) \in 0 .. TickRange - 1
  BY <1>1, <1>3
<1> QED BY <1>3, <1>4 DEF x

LEMMA PlusIs ==
    ASSUME NEW a \in 0 .. TickRange - 1, NEW b \in 0 .. TickRange - 1
    PROVE  /\ Plus(a, b) = IF a + b < TickRange THEN a + b ELSE a + b - TickRange
           /\ Plus(a, b) \in 0 .. TickRange - 1
<1> DEFINE x == a + b
<1>1. /\ x \in Int /\ TickRange \in Nat \ {0}
      /\ (x < TickRange => x \in 0 .. TickRange - 1)
      /\ (~ x < TickRange => x \in TickRange .. 2 * TickRange - 1)
  BY Ranges
<1> HIDE DEF x
<1>2. /\ x < TickRange => x % TickRange = x
      /\ ~ x < TickRange => x % TickRange = x - TickRange
  BY <1>1, Rounds
<1>3. Plus(a, b) = x % TickRange
  BY DEF Plus, x
<1>4. /\ Plus(a, b) = IF x < TickRange THEN x ELSE x - TickRange
      /\ Plus(a, b) \in 0 .. TickRange - 1
  BY <1>1, <1>2, <1>3
<1>5. a + b = x
  BY DEF x
<1> QED BY <1>1, <1>4, <1>5

LEMMA AwayIs ==
    ASSUME NEW when \in 0 .. TickRange - 1, NEW now \in 0 .. TickRange - 1
    PROVE  /\ Away(when, now) \in Int
           /\ Half - TickRange + 1 <= Away(when, now) /\ Away(when, now) <= Half
           /\ Away(when, now) >= 0 => Minus(when, now) = Away(when, now)
           /\ Away(when, now) < 0 => Minus(when, now) = Away(when, now) + TickRange
<1> DEFINE ahead == Minus(when, now)
<1>1. ahead \in 0 .. TickRange - 1
  BY MinusIs
<1>2. Away(when, now) = IF ahead <= Half THEN ahead ELSE ahead - TickRange
  BY DEF Away
<1> HIDE DEF ahead
<1>3. /\ Away(when, now) \in Int
      /\ Half - TickRange + 1 <= Away(when, now) /\ Away(when, now) <= Half
      /\ Away(when, now) >= 0 => ahead = Away(when, now)
      /\ Away(when, now) < 0 => ahead = Away(when, now) + TickRange
  BY <1>1, <1>2, Ranges
<1> QED BY <1>3 DEF ahead

\* A time that is set e ticks ahead is e ticks away.
LEMMA AwaySet ==
    ASSUME NEW now \in 0 .. TickRange - 1, NEW e \in 0 .. Half
    PROVE  Plus(now, e) \in 0 .. TickRange - 1 /\ Away(Plus(now, e), now) = e
<1>1. e \in 0 .. TickRange - 1
  BY Ranges
<1>2. /\ Plus(now, e) = IF now + e < TickRange THEN now + e ELSE now + e - TickRange
      /\ Plus(now, e) \in 0 .. TickRange - 1
  BY <1>1, PlusIs
<1> DEFINE next == Plus(now, e)
<1> HIDE DEF next
<1>3. Minus(next, now) = e
  <2>1. next = (IF now + e < TickRange THEN now + e ELSE now + e - TickRange) /\ next \in 0 .. TickRange - 1
    BY <1>2 DEF next
  <2>2. Minus(next, now) = IF next >= now THEN next - now ELSE next - now + TickRange
    BY <2>1, MinusIs
  <2> QED BY <1>1, <2>1, <2>2, Ranges
<1> QED BY <1>2, <1>3 DEF Away, next

\* A tick brings every time closer by one.
LEMMA AwayTick ==
    ASSUME NEW when \in 0 .. TickRange - 1, NEW now \in 0 .. TickRange - 1,
           Away(when, now) > Half - TickRange + 1, Half >= 1
    PROVE  Away(when, Plus(now, 1)) = Away(when, now) - 1
<1> DEFINE next == Plus(now, 1)
<1>1. 1 \in 0 .. TickRange - 1
  BY Ranges
<1>2. /\ next = IF now + 1 < TickRange THEN now + 1 ELSE now + 1 - TickRange
      /\ next \in 0 .. TickRange - 1
  BY <1>1, PlusIs
<1> HIDE DEF next
<1>3. Minus(when, next) = IF when >= next THEN when - next ELSE when - next + TickRange
  BY <1>2, MinusIs
<1>4. Minus(when, now) = IF when >= now THEN when - now ELSE when - now + TickRange
  BY MinusIs
<1> QED BY <1>2, <1>3, <1>4, Ranges DEF Away, next

\* What is not late by half the range is due when it is not ahead.
LEMMA AwayDue ==
    ASSUME NEW when \in 0 .. TickRange - 1, NEW now \in 0 .. TickRange - 1,
           Away(when, now) > -Half
    PROVE  Minus(now, when) < Half <=> Away(when, now) <= 0
<1>1. Minus(now, when) = IF now >= when THEN now - when ELSE now - when + TickRange
  BY MinusIs
<1>2. Minus(when, now) = IF when >= now THEN when - now ELSE when - now + TickRange
  BY MinusIs
<1> QED BY <1>1, <1>2, Ranges DEF Away

\* A time e ticks ahead compares with another as their distances do.
LEMMA AwayLater ==
    ASSUME NEW when \in 0 .. TickRange - 1, NEW now \in 0 .. TickRange - 1, NEW e \in 0 .. Half,
           Away(when, now) <= Half - 1, Away(when, now) - e >= Half - TickRange
    PROVE  Minus(when, Plus(now, e)) \in 1 .. Half - 1 <=> Away(when, now) > e
<1> DEFINE next == Plus(now, e)
<1>1. e \in 0 .. TickRange - 1
  BY Ranges
<1>2. /\ next = IF now + e < TickRange THEN now + e ELSE now + e - TickRange
      /\ next \in 0 .. TickRange - 1
  BY <1>1, PlusIs
<1> HIDE DEF next
<1>3. /\ Minus(when, next) = IF when >= next THEN when - next ELSE when - next + TickRange
      /\ Minus(when, next) \in 0 .. TickRange - 1
  BY <1>2, MinusIs
<1>4. Minus(when, now) = IF when >= now THEN when - now ELSE when - now + TickRange
  BY MinusIs
<1>5. Minus(when, next) \in 1 .. Half - 1 <=> Away(when, now) > e
  BY <1>2, <1>3, <1>4, Ranges DEF Away
<1> QED BY <1>5 DEF next

-----------------------------------------------------------------------------
(* The sorted lists.                                                       *)

LEMMA SortedSame ==
    ASSUME NEW S, NEW s \in Seq(S), NEW p, NEW q, Sorted(s, p),
           \A x \in ToSet(s) : q[x] = p[x]
    PROVE  Sorted(s, q)
<1>1. \A i \in 1 .. Len(s) : s[i] \in ToSet(s)
  BY LenProperties DEF ToSet
<1> QED BY <1>1 DEF Sorted

\* A tick brings all closer.
LEMMA SortedShift ==
    ASSUME NEW S, NEW s \in Seq(S), NEW p, NEW q, Sorted(s, p),
           \A x \in ToSet(s) : q[x] = p[x] - 1 /\ p[x] \in Int
    PROVE  Sorted(s, q)
<1>1. \A i \in 1 .. Len(s) : s[i] \in ToSet(s)
  BY LenProperties DEF ToSet
<1>2. ASSUME NEW i \in 1 .. Len(s), NEW j \in 1 .. Len(s), i < j PROVE q[s[i]] <= q[s[j]]
  <2>1. p[s[i]] <= p[s[j]]
    BY <1>2 DEF Sorted
  <2> QED BY <1>1, <2>1
<1> QED BY <1>2 DEF Sorted

LEMMA WithoutOf ==
    ASSUME NEW S, NEW list \in Seq(S), IsInjective(list), NEW t
    PROVE  /\ Without(list, t) \in Seq(S) /\ IsInjective(Without(list, t))
           /\ ToSet(Without(list, t)) = ToSet(list) \ {t}
           /\ \A j \in 1 .. Len(Without(list, t)) :
                 \E k \in 1 .. Len(list) : k >= j /\ list[k] = Without(list, t)[j]
           /\ \A p : Sorted(list, p) => Sorted(Without(list, t), p)
<1> DEFINE w == Without(list, t)
<1>1. DOMAIN list = 1 .. Len(list) /\ Len(list) \in Nat
  BY LenProperties
<1>2. CASE t \notin ToSet(list)
  <2>1. w = list
    BY <1>2 DEF Without
  <2> QED BY <1>1, <1>2, <2>1
<1>3. CASE t \in ToSet(list)
  <2> DEFINE i == CHOOSE i \in DOMAIN list : list[i] = t
  <2>1. \E n \in DOMAIN list : list[n] = t
    BY <1>3 DEF ToSet
  <2>2. i \in 1 .. Len(list) /\ list[i] = t
    BY <1>1, <2>1
  <2>3. w = RemoveAt(list, i)
    BY <1>3 DEF Without
  <2> HIDE DEF i, w
  <2>4. w \in Seq(S) /\ IsInjective(w) /\ ToSet(w) = ToSet(list) \ {t}
    BY <2>2, <2>3, RemoveAtOf
  <2>5. /\ Len(w) = Len(list) - 1
        /\ \A j \in 1 .. Len(list) - 1 : w[j] = IF j < i THEN list[j] ELSE list[j + 1]
    BY <2>2, <2>3, RemoveAtElements
  <2>6. ASSUME NEW j \in 1 .. Len(w)
        PROVE  \E k \in 1 .. Len(list) : k >= j /\ list[k] = w[j]
    <3>1. j \in 1 .. Len(list) /\ j + 1 \in 1 .. Len(list) /\ j + 1 >= j /\ j >= j
      BY <1>1, <2>5
    <3>2. w[j] = list[j] \/ w[j] = list[j + 1]
      BY <1>1, <2>5
    <3> QED BY <3>1, <3>2
  <2>7. ASSUME NEW p, Sorted(list, p) PROVE Sorted(w, p)
    BY <2>2, <2>3, <2>7, RemoveSorted
  <2> QED BY <2>4, <2>6, <2>7 DEF w
<1> QED BY <1>2, <1>3

\* rt_timer_start finds the place behind all that is due no later.
LEMMA PlaceIs ==
    ASSUME TypeOK, NEW list \in Seq(Timers), NEW d \in 0 .. Half,
           \A u \in ToSet(list) : Left(u) <= Half - 1 /\ Left(u) - d >= Half - TickRange
    PROVE  /\ Place(list, Plus(tick, d)) \in 1 .. Len(list) + 1
           /\ Place(list, Plus(tick, d)) <= Len(list) => Left(list[Place(list, Plus(tick, d))]) > d
           /\ \A j \in 1 .. Place(list, Plus(tick, d)) - 1 : Left(list[j]) <= d
<1> DEFINE when == Plus(tick, d)
           n == Len(list)
           later(j) == Minus(due[list[j]], when) \in 1 .. Half - 1
           P(i) == (i <= Len(list) => later(i)) /\ \A j \in 1 .. i - 1 : ~ later(j)
           I == {i \in 1 .. n + 1 : i = n + 1 \/ later(i)}
<1>1. n \in Nat /\ \A j \in 1 .. n : list[j] \in Timers /\ list[j] \in ToSet(list)
  BY LenProperties, ElementOfSeq DEF ToSet
<1>2. Place(list, when) = CHOOSE i \in 1 .. n + 1 : P(i)
  BY DEF Place
<1>3. ASSUME NEW j \in 1 .. n PROVE later(j) <=> Left(list[j]) > d
  <2>1. /\ due[list[j]] \in 0 .. TickRange - 1 /\ tick \in 0 .. TickRange - 1
        /\ Left(list[j]) <= Half - 1 /\ Left(list[j]) - d >= Half - TickRange
    BY <1>1 DEF TypeOK
  <2> QED BY <2>1, AwayLater, LeftIsAway
<1> HIDE DEF n, later, when
<1>4. I \subseteq Nat /\ n + 1 \in I
  BY <1>1
<1>5. PICK i \in I : \A y \in I : i <= y
  <2> HIDE DEF I
  <2> QED BY <1>4, NatMin
<1>6. i \in 1 .. n + 1 /\ P(i)
  <2>1. i \in 1 .. n + 1 /\ (i <= n => later(i))
    BY <1>1, <1>5
  <2>2. ASSUME NEW j \in 1 .. i - 1 PROVE ~ later(j)
    <3>1. j \in 1 .. n + 1 /\ ~ (i <= j)
      BY <1>1, <2>1
    <3> QED BY <1>5, <3>1
  <2> QED BY <2>1, <2>2 DEF n
<1> DEFINE at == Place(list, when)
<1> HIDE DEF P
<1>7. at \in 1 .. n + 1 /\ P(at)
  BY <1>2, <1>6
<1> HIDE DEF at
<1>8. at <= n => Left(list[at]) > d
  <2> SUFFICES ASSUME at <= n PROVE Left(list[at]) > d
    OBVIOUS
  <2>1. at \in 1 .. n /\ later(at)
    BY <1>1, <1>7 DEF P, n
  <2> QED BY <1>3, <2>1
<1>9. ASSUME NEW j \in 1 .. at - 1 PROVE Left(list[j]) <= d
  <2>1. j \in 1 .. n /\ ~ later(j)
    BY <1>1, <1>7 DEF P
  <2>2. Left(list[j]) \in Int
    BY <1>1, <2>1, AwayIs, LeftIsAway DEF TypeOK
  <2>3. ~ (Left(list[j]) > d)
    BY <1>3, <2>1
  <2> QED BY <2>2, <2>3
<1> QED BY <1>7, <1>8, <1>9 DEF at, when, n

\* The other timers of a list compare with one that is set d ticks ahead, and
\* q is how far they and t are ahead then.
Comparable(list, t, d) ==
    \A u \in ToSet(list) \ {t} : Left(u) <= Half - 1 /\ Left(u) - d >= Half - TickRange
AheadThen(list, t, d, q) ==
    q \in [Timers -> Int] /\ q[t] = d /\ \A u \in ToSet(list) \ {t} : q[u] = Left(u)

\* r is list with t at its place, and nothing comes later for it that is not
\* further ahead than t.
PutInto(r, list, t, d, q, S) ==
    /\ r \in Seq(S) /\ IsInjective(r) /\ Sorted(r, q)
    /\ ToSet(r) = ToSet(list) \cup {t}
    /\ \A j \in 1 .. Len(r) :
          \/ r[j] = t
          \/ q[r[j]] > d
          \/ \E k \in 1 .. Len(list) : k >= j /\ list[k] = r[j]

\* What _timer_remove and the search of rt_timer_start make of a list when t
\* is set d ticks ahead.
LEMMA QueuedOf ==
    ASSUME TypeOK, NEW S, S \subseteq Timers, NEW list \in Seq(S), IsInjective(list),
           Sorted(list, Lefts), NEW t \in S, NEW d \in 0 .. Half, Comparable(list, t, d),
           NEW q, AheadThen(list, t, d, q)
    PROVE  PutInto(Queued(list, t, Plus(tick, d)), list, t, d, q, S)
<1>0. /\ \A u \in ToSet(list) \ {t} : Left(u) <= Half - 1 /\ Left(u) - d >= Half - TickRange
      /\ q \in [Timers -> Int] /\ q[t] = d /\ \A u \in ToSet(list) \ {t} : q[u] = Left(u)
  BY DEF Comparable, AheadThen
<1> DEFINE w == Without(list, t)
           when == Plus(tick, d)
           i == Place(w, when)
           r == Queued(list, t, when)
<1>1. /\ w \in Seq(S) /\ IsInjective(w) /\ ToSet(w) = ToSet(list) \ {t}
      /\ \A j \in 1 .. Len(w) : \E k \in 1 .. Len(list) : k >= j /\ list[k] = w[j]
      /\ Sorted(w, Lefts)
  BY WithoutOf
<1>2. r = InsertAt(w, i, t)
  BY DEF Queued
<1> HIDE DEF w
<1>3. w \in Seq(Timers) /\ \A u \in ToSet(w) : u \in Timers
  <2>1. \A u \in ToSet(w) : u \in S
    BY <1>1, ElementOfSeq, LenProperties DEF ToSet
  <2>2. w \in Seq(Timers)
    BY <1>1, SeqDef
  <2> QED BY <2>1, <2>2
<1>4. \A u \in ToSet(w) : q[u] = Lefts[u] /\ q[u] = Left(u)
  BY <1>0, <1>1, <1>3 DEF Lefts
<1>5. Sorted(w, q)
  BY <1>1, <1>4, SortedSame
<1>6. /\ i \in 1 .. Len(w) + 1
      /\ i <= Len(w) => Left(w[i]) > d
      /\ \A j \in 1 .. i - 1 : Left(w[j]) <= d
  BY <1>0, <1>1, <1>3, PlaceIs
<1> HIDE DEF i, when, r
<1>7. Len(w) \in Nat /\ \A j \in 1 .. Len(w) : w[j] \in ToSet(w) /\ w[j] \in S
  BY <1>1, LenProperties, ElementOfSeq DEF ToSet
<1>8. /\ i <= Len(w) => q[w[i]] > d
      /\ \A j \in 1 .. i - 1 : q[w[j]] <= d
  <2>1. i <= Len(w) => i \in 1 .. Len(w)
    BY <1>6, <1>7
  <2>2. \A j \in 1 .. i - 1 : j \in 1 .. Len(w)
    BY <1>6, <1>7
  <2> QED BY <1>4, <1>6, <1>7, <2>1, <2>2
<1>9. /\ r \in Seq(S) /\ Len(r) = Len(w) + 1
      /\ \A j \in 1 .. Len(w) + 1 : r[j] = IF j < i THEN w[j] ELSE IF j = i THEN t ELSE w[j - 1]
      /\ ToSet(r) = ToSet(w) \cup {t} /\ IsInjective(r)
  <2>1. t \notin ToSet(w)
    BY <1>1
  <2> QED BY <1>1, <1>2, <1>6, <2>1, InsertAtOf
<1>10. Sorted(r, q)
  <2>1. q \in [Timers -> Int] /\ t \in Timers
    BY <1>0
  <2>2. i <= Len(w) => q[t] <= q[w[i]]
    <3>1. i <= Len(w) => i \in 1 .. Len(w)
      BY <1>6, <1>7
    <3> QED BY <1>0, <1>7, <1>8, <2>1, <3>1
  <2>3. \A j \in 1 .. i - 1 : q[t] >= q[w[j]]
    BY <1>0, <1>8
  <2> QED BY <1>2, <1>3, <1>5, <1>6, <2>1, <2>2, <2>3, InsertSorted
<1>11. ASSUME NEW j \in 1 .. Len(r)
       PROVE  \/ r[j] = t
              \/ q[r[j]] > d
              \/ \E k \in 1 .. Len(list) : k >= j /\ list[k] = r[j]
  <2>1. CASE j < i
    <3>1. j \in 1 .. Len(w) /\ r[j] = w[j]
      BY <1>6, <1>7, <1>9, <2>1
    <3> QED BY <1>1, <3>1
  <2>2. CASE j = i
    BY <1>6, <1>9, <2>2
  <2>3. CASE j > i
    <3>1. j - 1 \in 1 .. Len(w) /\ r[j] = w[j - 1] /\ i \in 1 .. Len(w) /\ i <= j - 1
      BY <1>6, <1>7, <1>9, <2>3
    <3>2. q[w[i]] <= q[w[j - 1]]
      <4>1. CASE i = j - 1
        BY <1>0, <1>3, <1>7, <3>1, <4>1
      <4>2. CASE i < j - 1
        BY <1>5, <3>1, <4>2 DEF Sorted
      <4> QED BY <1>0, <1>6, <1>7, <3>1, <4>1, <4>2
    <3>3. q[w[i]] \in Int /\ q[w[j - 1]] \in Int
      BY <1>0, <1>7, <3>1
    <3> QED BY <1>8, <3>1, <3>2, <3>3
  <2> QED BY <1>6, <1>9, <2>1, <2>2, <2>3
<1>12. ToSet(r) = ToSet(list) \cup {t}
  BY <1>1, <1>9
<1> QED BY <1>9, <1>10, <1>11, <1>12 DEF r, when, PutInto

-----------------------------------------------------------------------------
(* How late a soft timer can be.                                           *)

LEMMA NumbersHold ==
    /\ Nap \in 1 .. Half - 1 /\ Longest \in 1 .. Half - 1
    /\ Timely(Nap, Longest) /\ Number \in Nat
<1>1. \E nap, longest \in 1 .. Half - 1 : Timely(nap, longest)
  BY TimelyAssumption DEF TimelyAssumption
<1>2. Nap \in 1 .. Half - 1 /\ \E longest \in 1 .. Half - 1 : Timely(Nap, longest)
  BY <1>1 DEF Nap
<1>3. Longest \in 1 .. Half - 1 /\ Timely(Nap, Longest)
  BY <1>2 DEF Longest
<1>4. Number \in Nat
  BY TimelyAssumption, FS_CardinalityType DEF TimelyAssumption, Number
<1> QED BY <1>2, <1>3, <1>4

LEMMA Product ==
    ASSUME NEW k \in Nat, NEW m \in Nat, NEW a \in Nat
    PROVE  /\ k * a \in Nat /\ (k + 1) * a = k * a + a
           /\ k <= m => k * a <= m * a
<1>1. k * a \in Nat /\ (k + 1) * a = k * a + a
  OBVIOUS
<1>2. ASSUME k <= m PROVE k * a <= m * a
  <2>1. m - k \in Nat /\ (m - k) * a \in Nat /\ m * a = k * a + (m - k) * a
    BY <1>2
  <2> QED BY <1>1, <2>1
<1> QED BY <1>1, <1>2

LEMMA NapsAre ==
    ASSUME NEW k \in Nat
    PROVE  /\ Naps[k] \in Nat /\ Naps[k + 1] = Naps[k] + Nap
           /\ \A m \in Nat : k <= m => Naps[k] <= Naps[m]
<1>1. Nap \in Nat
  BY NumbersHold, Ranges
<1>2. Naps[k] = k * Nap /\ Naps[k + 1] = (k + 1) * Nap
  BY DEF Naps
<1>3. ASSUME NEW m \in Nat, k <= m PROVE Naps[k] <= Naps[m]
  <2>1. Naps[m] = m * Nap /\ k * Nap <= m * Nap
    BY <1>1, <1>3, Product DEF Naps
  <2> QED BY <1>2, <2>1
<1> QED BY <1>1, <1>2, <1>3, Product

LEMMA NapsPlenty ==
    ASSUME NEW i \in 1 .. Number
    PROVE  /\ Naps[Number + 1 - i] \in Nat /\ Nap \in Nat
           /\ Naps[Number + 1 - i] >= Nap /\ Naps[Number + 1 - i] >= 1
<1>1. Number \in Nat /\ Nap \in Nat \ {0}
  BY NumbersHold, Ranges
<1>2. Number + 1 - i \in Nat /\ Number - i \in Nat /\ (Number - i) + 1 = Number + 1 - i
  BY <1>1
<1>3. Naps[Number + 1 - i] = Naps[Number - i] + Nap /\ Naps[Number - i] \in Nat
  BY <1>2, NapsAre
<1> QED BY <1>1, <1>3

LEMMA NapsBound ==
    /\ Nap \in Nat \ {0} /\ Longest \in Nat \ {0} /\ Number \in Nat
    /\ Nap <= Half - 1 /\ Longest <= Half - 1
    /\ 2 * MaxStall + Naps[Number] - 1 < Half
    /\ 2 * MaxStall + Naps[Number] - 1 + Longest <= TickRange - Half
    /\ Half \in Nat \ {0} /\ Naps[Number] \in Nat
<1>1. Nap \in Nat \ {0} /\ Longest \in Nat \ {0} /\ Number \in Nat /\ Nap <= Half - 1 /\ Longest <= Half - 1
  BY NumbersHold, Ranges
<1>2. Naps[Number] = Cardinality(SoftTimers) * Nap
  BY <1>1 DEF Naps, Number
<1>3. /\ 2 * MaxStall + Naps[Number] - 1 < Half
      /\ 2 * MaxStall + Naps[Number] - 1 + Longest <= TickRange - Half
  BY <1>2, NumbersHold DEF Timely
<1>4. Half \in Nat \ {0} /\ Naps[Number] \in Nat
  BY <1>1, NapsAre, Ranges
<1> QED BY <1>1, <1>3, <1>4

LEMMA DelaysFit ==
    /\ \A d \in DelaysOf[Own] : d \in 1 .. Half - 1 /\ d <= Nap
    /\ \A t \in SoftTimers : \A d \in DelaysOf[t] : d \in 1 .. Half - 1 /\ d <= Longest
    /\ \A t \in ThreadTimers : \A d \in DelaysOf[t] : d \in 1 .. Half - 1
<1>1. \A t \in SoftTimers \cup ThreadTimers \cup {Own} : DelaysOf[t] \subseteq 1 .. Half - 1
  BY SoftTimerAssumption DEF SoftTimerAssumption
<1>2. /\ \A d \in DelaysOf[Own] : d <= Nap
      /\ \A t \in SoftTimers : \A d \in DelaysOf[t] : d <= Longest
  BY NumbersHold DEF Timely
<1> QED BY <1>1, <1>2

LEMMA SoftListShort ==
    ASSUME NEW list \in Seq(SoftTimers), IsInjective(list)
    PROVE  Len(list) \in Nat /\ Len(list) <= Number
<1>1. /\ Len(list) \in Nat /\ DOMAIN list = 1 .. Len(list)
      /\ list \in [1 .. Len(list) -> SoftTimers]
  BY LenProperties
<1>2. list \in Injection(1 .. Len(list), SoftTimers)
  BY <1>1 DEF Injection, IsInjective
<1>3. Cardinality(1 .. Len(list)) <= Cardinality(SoftTimers)
  BY <1>2, TimelyAssumption, FS_Injection DEF TimelyAssumption
<1>4. Cardinality(1 .. Len(list)) = Len(list)
  BY <1>1, FS_Interval
<1> QED BY <1>1, <1>3, <1>4 DEF Number

\* The lists and how far their timers are ahead.
LEMMA ListsAre ==
    ASSUME IInv
    PROVE  /\ timerList \in Seq(HardTimers) /\ softList \in Seq(SoftTimers)
           /\ HardTimers \subseteq Timers /\ SoftTimers \subseteq Timers
           /\ ToSet(timerList) \subseteq HardTimers /\ ToSet(softList) \subseteq SoftTimers
           /\ \A t \in Timers : /\ Left(t) \in Int /\ Lefts[t] = Left(t)
                                /\ due[t] \in 0 .. TickRange - 1
           /\ Lefts \in [Timers -> Int] /\ tick \in 0 .. TickRange - 1
           /\ Own \in Timers /\ Own \notin SoftTimers /\ SoftTimers \cap HardTimers = {}
           /\ Len(softList) \in Nat /\ Len(softList) <= Number
           /\ \A i \in 1 .. Len(softList) : softList[i] \in ToSet(softList)
           /\ \A i \in 1 .. Len(softList) : Lefts[softList[1]] <= Lefts[softList[i]]
<1>1. /\ timerList \in Seq(HardTimers) /\ softList \in Seq(SoftTimers) /\ tick \in 0 .. TickRange - 1
      /\ due \in [Timers -> 0 .. TickRange - 1]
      /\ IsInjective(softList) /\ Sorted(softList, Lefts)
  BY DEF IInv, TypeOK, ListsOrdered
<1>2. HardTimers \subseteq Timers /\ SoftTimers \subseteq Timers /\ Own \in Timers
      /\ Own \notin SoftTimers /\ SoftTimers \cap HardTimers = {}
  BY SoftTimerAssumption DEF Timers, HardTimers, SoftTimerAssumption
<1>3. ToSet(timerList) \subseteq HardTimers /\ ToSet(softList) \subseteq SoftTimers
  BY <1>1, ElementOfSeq, LenProperties DEF ToSet
<1>4. \A t \in Timers : Left(t) \in Int /\ Lefts[t] = Left(t) /\ due[t] \in 0 .. TickRange - 1
  BY <1>1, AwayIs, LeftIsAway DEF Lefts
<1>5. Lefts \in [Timers -> Int]
  BY <1>4 DEF Lefts
<1>6. Len(softList) \in Nat /\ DOMAIN softList = 1 .. Len(softList) /\ softList \in [1 .. Len(softList) -> SoftTimers]
  BY <1>1, LenProperties
<1>7. Len(softList) <= Number
  BY <1>1, SoftListShort
<1>8. \A i \in 1 .. Len(softList) : softList[i] \in ToSet(softList) /\ softList[i] \in SoftTimers
  BY <1>6 DEF ToSet
<1>9. ASSUME NEW i \in 1 .. Len(softList) PROVE Lefts[softList[1]] <= Lefts[softList[i]]
  <2>1. 1 \in 1 .. Len(softList) /\ (i = 1 \/ 1 < i)
    BY <1>6
  <2>2. softList[1] \in Timers /\ softList[i] \in Timers
    BY <1>2, <1>8, <2>1
  <2>3. 1 < i => Lefts[softList[1]] <= Lefts[softList[i]]
    BY <1>1, <2>1 DEF Sorted
  <2> QED BY <1>4, <2>1, <2>2, <2>3
<1> QED BY <1>1, <1>2, <1>3, <1>4, <1>5, <1>6, <1>7, <1>8, <1>9

LEMMA RestIs ==
    ASSUME IInv
    PROVE  Rest \in Int /\ 0 <= Rest /\ Rest <= Nap /\ stall \in Nat /\ stall <= MaxStall
<1>1. Nap \in Nat \ {0} /\ MaxStall \in Nat
  BY NapsBound, Ranges
<1>2. stall \in Nat /\ stall <= MaxStall
  BY <1>1 DEF IInv, TypeOK
<1>3. ASSUME pc = "napped", stat = "suspend" PROVE Left(Own) \in Int /\ 0 <= Left(Own) /\ Left(Own) <= Nap
  BY <1>3, Ranges DEF IInv, ThreadState, Sleepers
<1> QED BY <1>1, <1>2, <1>3 DEF Rest

\* No soft timer is late by half the range, and none further ahead.
LEMMA SoftAhead ==
    ASSUME IInv
    PROVE  \A u \in ToSet(softList) :
              /\ u \in SoftTimers /\ Left(u) \in Int
              /\ Left(u) > -Half /\ Left(u) <= Half - 1
              /\ \A d \in 1 .. Longest : Left(u) - d >= Half - TickRange
<1> SUFFICES ASSUME NEW u \in ToSet(softList)
             PROVE  /\ u \in SoftTimers /\ Left(u) \in Int
                    /\ Left(u) > -Half /\ Left(u) <= Half - 1
                    /\ \A d \in 1 .. Longest : Left(u) - d >= Half - TickRange
  OBVIOUS
<1>1. u \in SoftTimers /\ Left(u) \in Int
  BY ListsAre
<1>2. PICK i \in 1 .. Len(softList) : softList[i] = u
  BY ListsAre, LenProperties DEF ToSet
<1>3. Left(u) <= Longest /\ -Left(u) <= Late(i)
  <2>1. Lefts[u] = Left(u)
    BY <1>1, ListsAre
  <2> QED BY <1>2, <2>1 DEF IInv, NotTooLate
<1>4. Number + 1 - i \in Nat /\ Number + 1 - i <= Number /\ Number \in Nat
  BY ListsAre, NapsBound
<1>5. Naps[Number + 1 - i] \in Nat /\ Naps[Number + 1 - i] <= Naps[Number] /\ Naps[Number] \in Nat
  BY <1>4, NapsAre
<1>6. Late(i) <= 2 * MaxStall + Naps[Number] - 1 /\ Late(i) \in Int
  <2> DEFINE some == Naps[Number + 1 - i]
             all  == Naps[Number]
  <2>1. Late(i) = MaxStall + stall + some - 1 - Rest
    BY DEF Late
  <2>2. some \in Nat /\ all \in Nat /\ some <= all
    BY <1>5
  <2> HIDE DEF some, all
  <2>3. Late(i) <= 2 * MaxStall + all - 1 /\ Late(i) \in Int
    BY <2>1, <2>2, RestIs, Ranges
  <2> QED BY <2>3 DEF all
<1>7. Left(u) > -Half
  BY <1>1, <1>3, <1>6, NapsBound, Ranges
<1>8. Left(u) <= Half - 1
  BY <1>1, <1>3, NapsBound, Ranges
<1>9. ASSUME NEW d \in 1 .. Longest PROVE Left(u) - d >= Half - TickRange
  <2> DEFINE most == 2 * MaxStall + Naps[Number] - 1
  <2>1. -Left(u) <= most /\ most \in Int
    BY <1>1, <1>3, <1>6, NapsBound, Ranges
  <2>2. most + Longest <= TickRange - Half /\ Longest \in Nat
    BY NapsBound
  <2> HIDE DEF most
  <2>3. TickRange \in Int /\ Half \in Int /\ d \in Int /\ d <= Longest
    BY <2>2, Ranges
  <2> QED BY <1>1, <2>1, <2>2, <2>3
<1> QED BY <1>1, <1>7, <1>8, <1>9

-----------------------------------------------------------------------------
(* What setting and removing a timer does to a list.                       *)

LEMMA LeftKept ==
    ASSUME tick' = tick, NEW t, due'[t] = due[t]
    PROVE  Left(t)' = Left(t)
BY DEF Left, Minus

LEMMA LeftsNext ==
    ASSUME due' \in [Timers -> 0 .. TickRange - 1], tick' \in 0 .. TickRange - 1
    PROVE  /\ \A t \in Timers : Left(t)' \in Int /\ Lefts'[t] = Left(t)'
           /\ Lefts' \in [Timers -> Int]
<1>1. \A t \in Timers : Left(t)' = Away(due'[t], tick') /\ due'[t] \in 0 .. TickRange - 1
  BY DEF Left, Away
<1>2. \A t \in Timers : Left(t)' \in Int
  BY <1>1, AwayIs
<1> QED BY <1>2 DEF Lefts

\* Timer t is set d ticks ahead.
LEMMA OneSet ==
    ASSUME IInv, NEW t \in Timers, NEW d \in 0 .. Half, tick' = tick,
           due' \in [Timers -> 0 .. TickRange - 1], due'[t] = Plus(tick, d)
    PROVE  Left(t)' = d
<1>1. Left(t)' = Away(due'[t], tick')
  BY DEF Left, Away
<1> QED BY <1>1, AwaySet, ListsAre

LEMMA HardSet ==
    ASSUME IInv, NEW h \in HardTimers, NEW d \in 0 .. Half - 1, tick' = tick,
           due' \in [Timers -> 0 .. TickRange - 1], due'[h] = Plus(tick, d),
           \A u \in ToSet(timerList) \ {h} : due'[u] = due[u],
           timerList' = Queued(timerList, h, Plus(tick, d))
    PROVE  /\ timerList' \in Seq(HardTimers) /\ IsInjective(timerList')
           /\ Sorted(timerList', Lefts')
           /\ ToSet(timerList') = ToSet(timerList) \cup {h}
           /\ Left(h)' = d
           /\ \A u \in ToSet(timerList) \ {h} : Left(u)' = Left(u)
<1>1. h \in Timers /\ d \in 0 .. Half
  BY ListsAre, Ranges
<1>2. Left(h)' = d
  BY <1>1, OneSet
<1>3. \A u \in ToSet(timerList) \ {h} : Left(u)' = Left(u)
  BY LeftKept
<1>4. /\ Lefts' \in [Timers -> Int] /\ Lefts'[h] = d
      /\ \A u \in ToSet(timerList) \ {h} : Lefts'[u] = Left(u)
  <2>1. tick' \in 0 .. TickRange - 1 /\ \A u \in ToSet(timerList) : u \in Timers
    BY ListsAre
  <2> QED BY <1>1, <1>2, <1>3, <2>1, LeftsNext
<1>5. Comparable(timerList, h, d)
  <2>1. \A u \in ToSet(timerList) : Left(u) \in 0 .. Half - 1
    BY DEF IInv, Sleepers
  <2> QED BY <2>1, Ranges DEF Comparable
<1>6. /\ TypeOK /\ HardTimers \subseteq Timers /\ timerList \in Seq(HardTimers)
      /\ IsInjective(timerList) /\ Sorted(timerList, Lefts)
  BY ListsAre DEF IInv, ListsOrdered
<1> DEFINE q == Lefts'
<1> HIDE DEF q
<1>7. AheadThen(timerList, h, d, q)
  BY <1>4 DEF q, AheadThen
<1> DEFINE r == Queued(timerList, h, Plus(tick, d))
<1>10. PutInto(r, timerList, h, d, q, HardTimers)
  BY <1>1, <1>5, <1>6, <1>7, QueuedOf
<1>8. /\ r \in Seq(HardTimers) /\ IsInjective(r)
      /\ Sorted(r, q) /\ ToSet(r) = ToSet(timerList) \cup {h}
  BY <1>10 DEF PutInto
<1>9. timerList' = r
  OBVIOUS
<1> HIDE DEF r
<1> QED BY <1>2, <1>3, <1>8, <1>9 DEF q

LEMMA HardGone ==
    ASSUME IInv, NEW h \in HardTimers, tick' = tick,
           due' \in [Timers -> 0 .. TickRange - 1],
           \A u \in ToSet(timerList) \ {h} : due'[u] = due[u],
           timerList' = Without(timerList, h)
    PROVE  /\ timerList' \in Seq(HardTimers) /\ IsInjective(timerList')
           /\ Sorted(timerList', Lefts')
           /\ ToSet(timerList') = ToSet(timerList) \ {h}
           /\ \A u \in ToSet(timerList) \ {h} : Left(u)' = Left(u)
<1>1. timerList \in Seq(HardTimers) /\ IsInjective(timerList) /\ Sorted(timerList, Lefts)
  BY ListsAre DEF IInv, ListsOrdered
<1>2. /\ timerList' \in Seq(HardTimers) /\ IsInjective(timerList')
      /\ ToSet(timerList') = ToSet(timerList) \ {h} /\ Sorted(timerList', Lefts)
  BY <1>1, WithoutOf
<1>3. \A u \in ToSet(timerList) \ {h} : Left(u)' = Left(u)
  BY LeftKept
<1>4. \A u \in ToSet(timerList') : Lefts'[u] = Lefts[u]
  <2>1. tick' \in 0 .. TickRange - 1 /\ \A u \in ToSet(timerList) : u \in Timers /\ Lefts[u] = Left(u)
    BY ListsAre
  <2>2. \A u \in Timers : Lefts'[u] = Left(u)'
    BY <2>1, LeftsNext
  <2> QED BY <1>2, <1>3, <2>1, <2>2
<1>5. Sorted(timerList', Lefts')
  BY <1>2, <1>4, SortedSame
<1> QED BY <1>2, <1>3, <1>5

\* A timer further in front may be later.
LEMMA LateFalls ==
    ASSUME IInv, NEW k \in 1 .. Len(softList), NEW j \in 1 .. k
    PROVE  Late(k) \in Int /\ Late(j) \in Int /\ Late(k) <= Late(j)
<1> DEFINE n == Len(softList)
           few  == Naps[Number + 1 - k]
           some == Naps[Number + 1 - j]
<1>1. n \in Nat /\ n <= Number /\ Number \in Nat
  BY ListsAre, NapsBound
<1>2. k \in 1 .. n /\ j \in 1 .. n /\ j <= k
  BY <1>1
<1> HIDE DEF n
<1>3. Number + 1 - k \in Nat /\ Number + 1 - j \in Nat /\ Number + 1 - k <= Number + 1 - j
  BY <1>1, <1>2
<1>4. few \in Nat /\ some \in Nat /\ few <= some
  BY <1>3, NapsAre
<1>5. /\ Late(k) = MaxStall + stall + few - 1 - Rest
      /\ Late(j) = MaxStall + stall + some - 1 - Rest
  BY DEF Late
<1> HIDE DEF few, some
<1> QED BY <1>4, <1>5, RestIs, Ranges

LEMMA SoftSet ==
    ASSUME IInv, NEW t \in SoftTimers, NEW d \in 1 .. Longest, tick' = tick,
           due' \in [Timers -> 0 .. TickRange - 1], due'[t] = Plus(tick, d),
           \A u \in ToSet(softList) \ {t} : due'[u] = due[u],
           softList' = Queued(softList, t, Plus(tick, d))
    PROVE  /\ softList' \in Seq(SoftTimers) /\ IsInjective(softList')
           /\ Sorted(softList', Lefts')
           /\ ToSet(softList') = ToSet(softList) \cup {t}
           /\ Left(t)' = d
           /\ \A u \in ToSet(softList) \ {t} : Left(u)' = Left(u)
           /\ \A j \in 1 .. Len(softList') :
                 /\ softList'[j] \in ToSet(softList') /\ Lefts'[softList'[j]] \in Int
                 /\ Lefts'[softList'[j]] <= Longest
                 /\ -Lefts'[softList'[j]] <= Late(j)
<1>0. Longest \in Nat \ {0} /\ Longest <= Half - 1
  BY NapsBound
<1>1. t \in Timers /\ d \in 0 .. Half /\ d \in 1 .. Half - 1
  BY <1>0, ListsAre, Ranges
<1>2. Left(t)' = d
  BY <1>1, OneSet
<1>3. \A u \in ToSet(softList) \ {t} : Left(u)' = Left(u)
  BY LeftKept
<1>4. /\ Lefts' \in [Timers -> Int] /\ Lefts'[t] = d
      /\ \A u \in ToSet(softList) \ {t} : Lefts'[u] = Left(u)
      /\ \A u \in SoftTimers : Lefts'[u] = Left(u)' /\ Left(u)' \in Int
  <2>1. tick' \in 0 .. TickRange - 1 /\ \A u \in ToSet(softList) : u \in Timers
    BY ListsAre
  <2> QED BY <1>1, <1>2, <1>3, <2>1, LeftsNext, ListsAre
<1>5. Comparable(softList, t, d)
  BY SoftAhead DEF Comparable
<1>6. /\ TypeOK /\ SoftTimers \subseteq Timers /\ softList \in Seq(SoftTimers)
      /\ IsInjective(softList) /\ Sorted(softList, Lefts)
  BY ListsAre DEF IInv, ListsOrdered
<1> DEFINE q == Lefts'
<1> HIDE DEF q
<1>7. AheadThen(softList, t, d, q)
  BY <1>4 DEF q, AheadThen
<1> DEFINE r == Queued(softList, t, Plus(tick, d))
<1>11. PutInto(r, softList, t, d, q, SoftTimers)
  BY <1>1, <1>5, <1>6, <1>7, QueuedOf
<1>8. /\ r \in Seq(SoftTimers) /\ IsInjective(r)
      /\ Sorted(r, q) /\ ToSet(r) = ToSet(softList) \cup {t}
      /\ \A j \in 1 .. Len(r) :
            \/ r[j] = t
            \/ q[r[j]] > d
            \/ \E k \in 1 .. Len(softList) : k >= j /\ softList[k] = r[j]
  BY <1>11 DEF PutInto
<1>10. softList' = r
  OBVIOUS
<1> HIDE DEF r
<1>9. ASSUME NEW j \in 1 .. Len(r)
      PROVE  /\ r[j] \in ToSet(r) /\ q[r[j]] \in Int
             /\ q[r[j]] <= Longest
             /\ -q[r[j]] <= Late(j)
  <2> DEFINE u == r[j]
  <2>1. u \in ToSet(r) /\ u \in SoftTimers
    BY <1>8, ElementOfSeq, LenProperties DEF ToSet
  <2>2. u \in Timers /\ q[u] \in Int
    BY <1>6, <1>7, <2>1 DEF AheadThen
  <2>3. q[u] <= Longest
    <3>1. u = t \/ u \in ToSet(softList) \ {t}
      BY <1>8, <2>1
    <3>2. CASE u = t
      BY <1>0, <1>7, <3>2 DEF AheadThen
    <3>3. CASE u \in ToSet(softList) \ {t}
      <4>1. PICK k \in 1 .. Len(softList) : softList[k] = u
        BY <1>6, <3>3, LenProperties DEF ToSet
      <4>2. Lefts[u] <= Longest /\ Lefts[u] = Left(u)
        BY <2>2, <4>1, ListsAre DEF IInv, NotTooLate
      <4> QED BY <1>7, <3>3, <4>2 DEF AheadThen
    <3> QED BY <3>1, <3>2, <3>3
  <2>4. /\ Number + 1 - j \in Nat /\ Naps[Number + 1 - j] \in Nat
        /\ Nap <= Naps[Number + 1 - j] /\ Late(j) \in Int /\ j \in 1 .. Number
    <3>1. j \in 1 .. Number /\ Number \in Nat
      <4>1. Len(r) \in Nat /\ Len(r) <= Number
        BY <1>8, SoftListShort
      <4> QED BY <4>1, NapsBound
    <3>2. Number + 1 - j \in Nat /\ Number - j \in Nat /\ (Number - j) + 1 = Number + 1 - j
      BY <3>1
    <3>3. Naps[Number + 1 - j] = Naps[Number - j] + Nap /\ Naps[Number - j] \in Nat /\ Nap \in Nat
      BY <3>2, NapsAre, NapsBound
    <3> DEFINE some == Naps[Number + 1 - j]
    <3>4. some \in Nat /\ Nap <= some
      BY <3>3
    <3>5. Late(j) = MaxStall + stall + some - 1 - Rest
      BY DEF Late
    <3> HIDE DEF some
    <3>6. Late(j) \in Int
      BY <3>4, <3>5, RestIs, Ranges
    <3> QED BY <3>1, <3>2, <3>4, <3>6 DEF some
  <2> SUFFICES -q[u] <= Late(j)
    BY <1>8, <2>1, <2>2, <2>3
  <2>5. ASSUME q[u] >= 1 PROVE -q[u] <= Late(j)
    <3> DEFINE some == Naps[Number + 1 - j]
    <3>1. Late(j) = MaxStall + stall + some - 1 - Rest
      BY DEF Late
    <3>2. some \in Nat /\ Nap <= some /\ Nap \in Nat
      BY <2>4, NapsBound
    <3> HIDE DEF some
    <3>3. Late(j) >= -1
      BY <3>1, <3>2, RestIs, Ranges
    <3> QED BY <2>2, <2>4, <2>5, <3>3
  <2>6. CASE u = t
    BY <1>0, <1>7, <2>5, <2>6 DEF AheadThen
  <2>7. CASE q[u] > d
    BY <1>0, <2>2, <2>5, <2>7
  <2>8. CASE u # t /\ \E k \in 1 .. Len(softList) : k >= j /\ softList[k] = u
    <3>1. PICK k \in 1 .. Len(softList) : k >= j /\ softList[k] = u
      BY <2>8
    <3>2. u \in ToSet(softList) \ {t}
      BY <2>8, <3>1, ListsAre
    <3>3. -q[u] <= Late(k)
      <4>1. -Lefts[u] <= Late(k) /\ Lefts[u] = Left(u)
        BY <2>2, <3>1, ListsAre DEF IInv, NotTooLate
      <4>2. q[u] = Left(u)
        BY <1>7, <3>2 DEF AheadThen
      <4> QED BY <4>1, <4>2
    <3>4. Late(k) <= Late(j) /\ Late(k) \in Int
      <4>1. j \in 1 .. k
        BY <2>4, <3>1
      <4> QED BY <4>1, LateFalls
    <3> QED BY <2>2, <2>4, <3>3, <3>4
  <2> QED BY <1>8, <2>6, <2>7, <2>8
<1> QED BY <1>2, <1>3, <1>8, <1>9, <1>10 DEF q

LEMMA SoftGone ==
    ASSUME IInv, NEW t, tick' = tick, due' \in [Timers -> 0 .. TickRange - 1],
           \A u \in ToSet(softList) \ {t} : due'[u] = due[u],
           softList' = Without(softList, t)
    PROVE  /\ softList' \in Seq(SoftTimers) /\ IsInjective(softList')
           /\ Sorted(softList', Lefts')
           /\ ToSet(softList') = ToSet(softList) \ {t}
           /\ \A u \in ToSet(softList) \ {t} : Left(u)' = Left(u)
           /\ \A j \in 1 .. Len(softList') :
                 /\ Lefts'[softList'[j]] \in Int
                 /\ Lefts'[softList'[j]] <= Longest
                 /\ -Lefts'[softList'[j]] <= Late(j)
                 /\ Lefts[softList[1]] <= Lefts'[softList'[j]]
<1> DEFINE w == Without(softList, t)
           q == Lefts'
<1>1. softList \in Seq(SoftTimers) /\ IsInjective(softList) /\ Sorted(softList, Lefts)
  BY ListsAre DEF IInv, ListsOrdered
<1>2. /\ w \in Seq(SoftTimers) /\ IsInjective(w)
      /\ ToSet(w) = ToSet(softList) \ {t} /\ Sorted(w, Lefts)
      /\ \A j \in 1 .. Len(w) : \E k \in 1 .. Len(softList) : k >= j /\ softList[k] = w[j]
  BY <1>1, WithoutOf
<1>3. \A u \in ToSet(softList) \ {t} : Left(u)' = Left(u)
  BY LeftKept
<1>4. \A u \in ToSet(softList) \ {t} : q[u] = Lefts[u] /\ q[u] \in Int
  <2>1. tick' \in 0 .. TickRange - 1 /\ \A u \in ToSet(softList) : u \in Timers /\ Lefts[u] = Left(u)
    BY ListsAre
  <2>2. \A u \in Timers : Lefts'[u] = Left(u)' /\ Left(u)' \in Int
    BY <2>1, LeftsNext
  <2> QED BY <1>3, <2>1, <2>2
<1> HIDE DEF w, q
<1>5. Sorted(w, q)
  BY <1>2, <1>4, SortedSame
<1>6. ASSUME NEW j \in 1 .. Len(w)
      PROVE  /\ q[w[j]] \in Int /\ q[w[j]] <= Longest /\ -q[w[j]] <= Late(j)
             /\ Lefts[softList[1]] <= q[w[j]]
  <2>1. PICK k \in 1 .. Len(softList) : k >= j /\ softList[k] = w[j]
    BY <1>2
  <2>2. w[j] \in ToSet(softList) \ {t} /\ j \in 1 .. k
    <3>1. Len(w) \in Nat /\ DOMAIN w = 1 .. Len(w) /\ Len(softList) \in Nat
      BY <1>2, ListsAre, LenProperties
    <3>2. w[j] \in ToSet(w)
      BY <3>1 DEF ToSet
    <3> QED BY <1>2, <2>1, <3>1, <3>2
  <2>3. /\ Lefts[softList[k]] <= Longest /\ -Lefts[softList[k]] <= Late(k)
    BY DEF IInv, NotTooLate
  <2>4. Lefts[softList[1]] <= Lefts[softList[k]]
    BY ListsAre
  <2>5. Late(k) \in Int /\ Late(j) \in Int /\ Late(k) <= Late(j)
    BY <2>2, LateFalls
  <2> QED BY <1>4, <2>1, <2>2, <2>3, <2>4, <2>5
<1>7. softList' = w
  BY DEF w
<1> QED BY <1>2, <1>3, <1>5, <1>6, <1>7 DEF q

\* A list stays as it is, and so do its timers.
LEMMA HardSame ==
    ASSUME IInv, tick' = tick, due' \in [Timers -> 0 .. TickRange - 1],
           \A u \in ToSet(timerList) : due'[u] = due[u], timerList' = timerList
    PROVE  /\ IsInjective(timerList') /\ Sorted(timerList', Lefts')
           /\ \A u \in ToSet(timerList) : Left(u)' = Left(u)
<1> DEFINE q == Lefts'
<1>1. timerList \in Seq(HardTimers) /\ IsInjective(timerList) /\ Sorted(timerList, Lefts)
  BY ListsAre DEF IInv, ListsOrdered
<1>2. \A u \in ToSet(timerList) : Left(u)' = Left(u)
  BY LeftKept
<1>3. \A u \in ToSet(timerList) : q[u] = Lefts[u]
  <2>1. tick' \in 0 .. TickRange - 1 /\ \A u \in ToSet(timerList) : u \in Timers /\ Lefts[u] = Left(u)
    BY ListsAre
  <2>2. \A u \in Timers : Lefts'[u] = Left(u)'
    BY <2>1, LeftsNext
  <2> QED BY <1>2, <2>1, <2>2
<1> HIDE DEF q
<1>4. Sorted(timerList, q)
  BY <1>1, <1>3, SortedSame
<1> QED BY <1>1, <1>2, <1>4 DEF q

LEMMA SoftSame ==
    ASSUME IInv, tick' = tick, due' \in [Timers -> 0 .. TickRange - 1],
           \A u \in ToSet(softList) : due'[u] = due[u], softList' = softList
    PROVE  /\ IsInjective(softList') /\ Sorted(softList', Lefts')
           /\ \A u \in ToSet(softList) : Left(u)' = Left(u)
           /\ \A i \in 1 .. Len(softList) : Lefts'[softList[i]] = Lefts[softList[i]]
           /\ softList # <<>> => Lefts'[softList[1]] = Lefts[softList[1]]
<1> DEFINE q == Lefts'
<1>1. softList \in Seq(SoftTimers) /\ IsInjective(softList) /\ Sorted(softList, Lefts)
  BY ListsAre DEF IInv, ListsOrdered
<1>2. \A u \in ToSet(softList) : Left(u)' = Left(u)
  BY LeftKept
<1>3. \A u \in ToSet(softList) : q[u] = Lefts[u]
  <2>1. tick' \in 0 .. TickRange - 1 /\ \A u \in ToSet(softList) : u \in Timers /\ Lefts[u] = Left(u)
    BY ListsAre
  <2>2. \A u \in Timers : Lefts'[u] = Left(u)'
    BY <2>1, LeftsNext
  <2> QED BY <1>2, <2>1, <2>2
<1> HIDE DEF q
<1>4. Sorted(softList, q)
  BY <1>1, <1>3, SortedSame
<1>5. \A i \in 1 .. Len(softList) : q[softList[i]] = Lefts[softList[i]]
  BY <1>3, ListsAre
<1>6. softList # <<>> => 1 \in 1 .. Len(softList)
  BY <1>1, EmptySeq
<1> QED BY <1>1, <1>2, <1>4, <1>5, <1>6 DEF q

-----------------------------------------------------------------------------
(* Every step keeps the invariant.                                         *)

LEMMA InvInit ==
    ASSUME Init
    PROVE  IInv
<1>1. /\ tick = 0 /\ timerList = <<>> /\ softList = <<>> /\ stat = "ready" /\ pc = "look"
      /\ seen = 0 /\ stall = 0 /\ firing = Nobody /\ held = FALSE
  BY DEF Init
<1>2. TypeOK
  <2>1. 0 \in 0 .. TickRange - 1 /\ 0 \in 0 .. MaxStall
    BY Ranges
  <2>2. timerList \in Seq(HardTimers) /\ softList \in Seq(SoftTimers)
    BY <1>1, EmptySeq
  <2>3. /\ due \in [Timers -> 0 .. TickRange - 1] /\ active \in [Timers -> BOOLEAN]
        /\ delay \in Settings /\ periodic \in [SoftTimers -> BOOLEAN]
    BY <2>1 DEF Init
  <2> QED BY <1>1, <2>1, <2>2, <2>3 DEF TypeOK
<1>3. ToSet(timerList) = {} /\ ToSet(softList) = {} /\ Len(timerList) = 0 /\ Len(softList) = 0
  BY <1>1 DEF ToSet
<1>4. ListsOrdered
  BY <1>1, <1>3 DEF ListsOrdered, IsInjective, Sorted
<1>5. Sleepers /\ ThreadState /\ OnTheWay /\ Asleep
  BY <1>1, <1>3 DEF Sleepers, ThreadState, OnTheWay, Asleep, Busy
<1>6. NotTooLate
  BY <1>3 DEF NotTooLate
<1> QED BY <1>2, <1>4, <1>5, <1>6 DEF IInv

LEMMA ListsKept ==
    ASSUME IInv, UNCHANGED <<tick, timerList, softList, due, stat, stall, callback>>,
           \/ pc' = pc
           \/ stat = "ready" /\ ~ Busy /\ ~ Busy',
           TypeOK', OnTheWay'
    PROVE  IInv'
<1>1. \A t : Left(t)' = Left(t)
  BY LeftKept
<1>2. Lefts' = Lefts
  BY <1>1 DEF Lefts
<1>3. Busy' = Busy
  BY DEF Busy
<1>4. ListsOrdered'
  BY <1>2 DEF IInv, ListsOrdered
<1>5. Sleepers'
  BY <1>1, <1>3 DEF IInv, Sleepers
<1>6. ThreadState'
  BY <1>1, <1>3 DEF IInv, ThreadState, callback, Busy
<1>7. Asleep'
  BY <1>1, <1>2, <1>3 DEF IInv, Asleep
<1>8. Rest' = Rest
  BY <1>1 DEF Rest, Busy
<1>9. NotTooLate'
  BY <1>2, <1>8 DEF IInv, NotTooLate, Late
<1> QED BY <1>4, <1>5, <1>6, <1>7, <1>9 DEF IInv

LEMMA ControlKeeps ==
    ASSUME IInv, NEW t \in SoftTimers, Control(t)
    PROVE  IInv'
<1>1. /\ UNCHANGED <<tick, timerList, softList, due, active, firing, held, stat, pc, seen, stall>>
      /\ \/ \E d \in DelaysOf[t] : delay' = [delay EXCEPT ![t] = d] /\ UNCHANGED periodic
         \/ \E p \in BOOLEAN : periodic' = [periodic EXCEPT ![t] = p] /\ UNCHANGED delay
  BY DEF Control, callback, thread
<1>2. delay \in Settings /\ periodic \in [SoftTimers -> BOOLEAN]
  BY DEF IInv, TypeOK
<1>3. delay' \in Settings /\ periodic' \in [SoftTimers -> BOOLEAN]
  <2>1. CASE \E d \in DelaysOf[t] : delay' = [delay EXCEPT ![t] = d] /\ UNCHANGED periodic
    <3>1. PICK d \in DelaysOf[t] : delay' = [delay EXCEPT ![t] = d]
      BY <2>1
    <3>2. d \in 1 .. Half - 1
      BY DelaysFit
    <3> QED BY <1>2, <2>1, <3>1, <3>2 DEF Settings
  <2>2. CASE \E p \in BOOLEAN : periodic' = [periodic EXCEPT ![t] = p] /\ UNCHANGED delay
    BY <1>2, <2>2
  <2> QED BY <1>1, <2>1, <2>2
<1>4. TypeOK'
  BY <1>1, <1>3 DEF IInv, TypeOK
<1>5. Lefts' = Lefts
  BY <1>1, LeftKept DEF Lefts
<1>6. OnTheWay'
  BY <1>1, <1>5 DEF IInv, OnTheWay
<1> QED BY <1>1, <1>4, <1>6, ListsKept DEF callback

\* The head of the soft list.
LEMMA HeadIs ==
    ASSUME IInv, softList # <<>>
    PROVE  /\ Head(softList) = softList[1] /\ 1 \in 1 .. Len(softList)
           /\ softList[1] \in SoftTimers /\ softList[1] \in Timers /\ softList[1] \in ToSet(softList)
           /\ Lefts[softList[1]] = Left(softList[1])
           /\ Left(softList[1]) \in Int
           /\ Left(softList[1]) > -Half /\ Left(softList[1]) <= Half - 1
           /\ IsDue(Head(softList), tick) <=> Left(softList[1]) <= 0
<1>1. softList \in Seq(SoftTimers)
  BY ListsAre
<1>2. Head(softList) = softList[1] /\ 1 \in 1 .. Len(softList)
  BY <1>1, HeadTailProperties, EmptySeq
<1>3. softList[1] \in ToSet(softList)
  BY <1>2, ListsAre
<1> DEFINE u == softList[1]
<1> HIDE DEF u
<1>4. u \in ToSet(softList)
  BY <1>3 DEF u
<1>5. /\ u \in SoftTimers /\ u \in Timers /\ Lefts[u] = Left(u) /\ Left(u) \in Int
      /\ Left(u) > -Half /\ Left(u) <= Half - 1
  BY <1>4, SoftAhead, ListsAre
<1>6. IsDue(u, tick) <=> Left(u) <= 0
  <2>1. due[u] \in 0 .. TickRange - 1 /\ tick \in 0 .. TickRange - 1 /\ Away(due[u], tick) > -Half
    BY <1>5, LeftIsAway, ListsAre
  <2> QED BY <2>1, AwayDue, LeftIsAway DEF IsDue
<1> QED BY <1>2, <1>4, <1>5, <1>6 DEF u

LEMMA LookKeeps ==
    ASSUME IInv, Look
    PROVE  IInv'
<1>1. /\ UNCHANGED <<tick, timerList, softList, due, active, stat, stall, delay, periodic, firing, held>>
      /\ stat = "ready" /\ pc = "look"
      /\ IF softList = <<>> THEN pc' = "stop" /\ UNCHANGED seen
         ELSE pc' = "measure" /\ seen' = due[Head(softList)]
  BY DEF Look, Runs, settings, callback
<1>2. softList # <<>> =>
          /\ Head(softList) = softList[1] /\ due[softList[1]] \in 0 .. TickRange - 1
          /\ Lefts[softList[1]] + stall >= 1
  <2>1. softList # <<>> => softList[1] \in Timers /\ Head(softList) = softList[1]
    BY HeadIs
  <2>2. \A t \in Timers : due[t] \in 0 .. TickRange - 1
    BY ListsAre
  <2> QED BY <1>1, <2>1, <2>2 DEF IInv, OnTheWay
<1>3. TypeOK'
  BY <1>1, <1>2 DEF IInv, TypeOK
<1>4. Lefts' = Lefts
  BY <1>1, LeftKept DEF Lefts
<1>5. OnTheWay'
  BY <1>1, <1>2, <1>4 DEF OnTheWay
<1> QED BY <1>1, <1>3, <1>5, ListsKept DEF callback, Busy

LEMMA MeasureKeeps ==
    ASSUME IInv, Measure
    PROVE  IInv'
<1>1. /\ UNCHANGED <<tick, timerList, softList, due, active, stat, stall, delay, periodic, firing, held>>
      /\ stat = "ready" /\ pc = "measure"
      /\ IF Minus(seen, tick) < Half
         THEN pc' = "sleep" /\ seen' = Minus(seen, tick)
         ELSE pc' = "check" /\ seen' = 0
  BY DEF Measure, Runs, settings, callback
<1>2. /\ softList # <<>> /\ seen = due[softList[1]]
      /\ Lefts[softList[1]] + stall >= 1
  BY <1>1 DEF IInv, OnTheWay
<1> DEFINE u == softList[1]
<1> HIDE DEF u
<1>3. /\ u \in Timers /\ Lefts[u] = Left(u) /\ Left(u) \in Int
      /\ Left(u) > -Half /\ Left(u) <= Half - 1
  BY <1>2, HeadIs DEF u
<1>4. due[u] \in 0 .. TickRange - 1 /\ tick \in 0 .. TickRange - 1 /\ Left(u) = Away(due[u], tick)
  BY <1>3, ListsAre, LeftIsAway
<1>5. /\ Minus(seen, tick) \in 0 .. TickRange - 1
      /\ Minus(seen, tick) < Half => Minus(seen, tick) = Left(u)
  <2>1. seen = due[u]
    BY <1>2 DEF u
  <2>2. Minus(due[u], tick) \in 0 .. TickRange - 1
    BY <1>4, MinusIs
  <2>3. /\ Left(u) >= 0 => Minus(due[u], tick) = Left(u)
        /\ Left(u) < 0 => Minus(due[u], tick) = Left(u) + TickRange
    BY <1>4, AwayIs
  <2> QED BY <1>3, <2>1, <2>2, <2>3, Ranges
<1>6. seen' \in 0 .. TickRange - 1
  BY <1>1, <1>5, Ranges
<1>7. TypeOK'
  BY <1>1, <1>6 DEF IInv, TypeOK
<1>8. Lefts' = Lefts
  BY <1>1, LeftKept DEF Lefts
<1>9. OnTheWay'
  <2>1. stall \in Nat
    BY RestIs
  <2>2. pc' = "sleep" => seen' \in 0 .. Half - 1 /\ seen' <= Lefts[u] + stall
    BY <1>1, <1>3, <1>5, <2>1, Ranges
  <2> QED BY <1>1, <1>2, <1>8, <2>2 DEF OnTheWay, u
<1> QED BY <1>1, <1>7, <1>9, ListsKept DEF callback, Busy

LEMMA LeaveKeeps ==
    ASSUME IInv, Leave
    PROVE  IInv'
<1>1. /\ UNCHANGED <<tick, timerList, softList, due, active, stat, stall, seen, delay, periodic, firing, held>>
      /\ stat = "ready" /\ pc \in {"check", "locked"} /\ pc' = "look"
      /\ softList # <<>> => ~ IsDue(Head(softList), tick)
  BY DEF Leave, Runs, settings, callback
<1>2. TypeOK'
  BY <1>1 DEF IInv, TypeOK
<1>3. Lefts' = Lefts
  BY <1>1, LeftKept DEF Lefts
<1>4. softList # <<>> => Lefts[softList[1]] + stall >= 1
  BY <1>1, HeadIs, RestIs
<1>5. OnTheWay'
  BY <1>1, <1>3, <1>4 DEF OnTheWay
<1> QED BY <1>1, <1>2, <1>5, ListsKept DEF callback, Busy

LEMMA LateNext ==
    ASSUME IInv, NEW i \in 1 .. Number, stall' \in Nat, Rest' \in Int,
           Rest' - stall' <= Rest - stall
    PROVE  Late(i) \in Int /\ Late(i)' \in Int /\ Late(i) <= Late(i)'
<1> DEFINE some == Naps[Number + 1 - i]
<1>1. Late(i) = MaxStall + stall + some - 1 - Rest
  BY DEF Late
<1>2. Late(i)' = MaxStall + stall' + some - 1 - Rest'
  BY DEF Late
<1>3. some \in Nat
  <2>1. Number + 1 - i \in Nat
    BY NapsBound
  <2> QED BY <2>1, NapsAre
<1> HIDE DEF some
<1> QED BY <1>1, <1>2, <1>3, RestIs, Ranges

LEMMA SameNotTooLate ==
    ASSUME IInv, tick' = tick, due' \in [Timers -> 0 .. TickRange - 1],
           \A u \in ToSet(softList) : due'[u] = due[u], softList' = softList,
           stall' \in Nat, Rest' \in Int, Rest' - stall' <= Rest - stall
    PROVE  NotTooLate'
<1>1. ASSUME NEW i \in 1 .. Len(softList)
      PROVE  Lefts'[softList[i]] <= Longest /\ -Lefts'[softList[i]] <= Late(i)'
  <2>1. Lefts'[softList[i]] = Lefts[softList[i]] /\ Lefts[softList[i]] \in Int
    BY SoftSame, ListsAre
  <2>2. Lefts[softList[i]] <= Longest /\ -Lefts[softList[i]] <= Late(i)
    BY DEF IInv, NotTooLate
  <2>3. i \in 1 .. Number
    BY ListsAre, NapsBound
  <2>4. Late(i) \in Int /\ Late(i)' \in Int /\ Late(i) <= Late(i)'
    BY <2>3, LateNext
  <2> QED BY <2>1, <2>2, <2>4
<1> QED BY <1>1 DEF NotTooLate

LEMMA SoftNotTooLate ==
    ASSUME IInv, softList' \in Seq(SoftTimers), IsInjective(softList'),
           \A j \in 1 .. Len(softList') :
                 /\ Lefts'[softList'[j]] \in Int
                 /\ Lefts'[softList'[j]] <= Longest
                 /\ -Lefts'[softList'[j]] <= Late(j),
           stall' \in Nat, Rest' \in Int, Rest' - stall' <= Rest - stall
    PROVE  NotTooLate'
<1>1. Len(softList') \in Nat /\ Len(softList') <= Number
  BY SoftListShort
<1>2. ASSUME NEW j \in 1 .. Len(softList') PROVE -Lefts'[softList'[j]] <= Late(j)'
  <2>1. j \in 1 .. Number
    BY <1>1, NapsBound
  <2>2. Late(j) \in Int /\ Late(j)' \in Int /\ Late(j) <= Late(j)'
    BY <2>1, LateNext
  <2> QED BY <2>2
<1> QED BY <1>2 DEF NotTooLate

LEMMA SuspendSelfKeeps ==
    ASSUME IInv, SuspendSelf
    PROVE  IInv'
<1>1. /\ UNCHANGED <<tick, softList, seen, delay, periodic, firing, held>>
      /\ stat = "ready" /\ pc = "stop" /\ pc' = "check"
      /\ stat' = "suspend" /\ stall' = 0
      /\ timerList' = Without(timerList, Own)
      /\ active' = [active EXCEPT ![Own] = FALSE] /\ due' = Cleared(due, Own)
  BY DEF SuspendSelf, Runs, settings, callback
<1>2. softList = <<>> /\ Own \notin ToSet(timerList) /\ Len(softList) = 0 /\ ToSet(softList) = {}
  BY <1>1, EmptySeq DEF IInv, OnTheWay, Sleepers, ToSet
<1>3. /\ due' \in [Timers -> 0 .. TickRange - 1] /\ active' \in [Timers -> BOOLEAN]
      /\ \A u \in ToSet(timerList) \ {Own} : due'[u] = due[u]
  BY <1>1, ListsAre, Ranges DEF IInv, TypeOK, Cleared
<1>4. /\ timerList' \in Seq(HardTimers) /\ IsInjective(timerList')
      /\ Sorted(timerList', Lefts')
      /\ ToSet(timerList') = ToSet(timerList) \ {Own}
      /\ \A u \in ToSet(timerList) \ {Own} : Left(u)' = Left(u)
  <2>1. Own \in HardTimers
    BY DEF HardTimers
  <2> QED BY <1>1, <1>3, <2>1, HardGone
<1>5. TypeOK'
  BY <1>1, <1>3, <1>4, Ranges DEF IInv, TypeOK
<1>6. ListsOrdered'
  BY <1>1, <1>2, <1>4 DEF IInv, ListsOrdered, Sorted
<1>7. Sleepers'
  BY <1>1, <1>2, <1>4 DEF IInv, Sleepers
<1>8. ThreadState' /\ OnTheWay' /\ Asleep' /\ NotTooLate'
  BY <1>1, <1>2 DEF IInv, ThreadState, OnTheWay, Asleep, NotTooLate, Busy
<1> QED BY <1>5, <1>6, <1>7, <1>8 DEF IInv

LEMMA SleepKeeps ==
    ASSUME IInv, Sleep
    PROVE  IInv'
<1>1. /\ UNCHANGED <<tick, softList, delay, periodic, firing, held>>
      /\ stat = "ready" /\ pc = "sleep" /\ pc' = "check"
      /\ stat' = "suspend" /\ stall' = 0 /\ seen' = 0
      /\ due' = [due EXCEPT ![Own] = Plus(tick, seen)]
      /\ timerList' = Queued(timerList, Own, due'[Own])
      /\ active' = [active EXCEPT ![Own] = TRUE]
  BY DEF Sleep, Runs, settings, callback, SleepFor
<1>2. /\ softList # <<>> /\ seen \in 0 .. Half - 1 /\ seen <= Lefts[softList[1]] + stall
      /\ Lefts[softList[1]] + stall >= 1
      /\ Own \notin ToSet(timerList)
  BY <1>1 DEF IInv, OnTheWay, Sleepers
<1>3. /\ due' \in [Timers -> 0 .. TickRange - 1] /\ active' \in [Timers -> BOOLEAN]
      /\ \A u \in Timers \ {Own} : due'[u] = due[u]
      /\ due'[Own] = Plus(tick, seen)
  <2>1. Own \in Timers /\ tick \in 0 .. TickRange - 1 /\ seen \in 0 .. Half
    BY <1>2, ListsAre, Ranges
  <2>2. Plus(tick, seen) \in 0 .. TickRange - 1
    BY <2>1, AwaySet
  <2> QED BY <1>1, <2>1, <2>2 DEF IInv, TypeOK
<1>4. /\ timerList' \in Seq(HardTimers) /\ IsInjective(timerList')
      /\ Sorted(timerList', Lefts')
      /\ ToSet(timerList') = ToSet(timerList) \cup {Own}
      /\ Left(Own)' = seen
      /\ \A u \in ToSet(timerList) \ {Own} : Left(u)' = Left(u)
  <2>1. Own \in HardTimers
    BY DEF HardTimers
  <2>2. \A u \in ToSet(timerList) \ {Own} : due'[u] = due[u]
    BY <1>3, ListsAre
  <2> QED BY <1>1, <1>2, <1>3, <2>1, <2>2, HardSet
<1>5. \A u \in ToSet(softList) : due'[u] = due[u]
  BY <1>3, ListsAre
<1>6. /\ IsInjective(softList') /\ Sorted(softList', Lefts')
      /\ \A u \in ToSet(softList) : Left(u)' = Left(u)
      /\ Lefts'[softList[1]] = Lefts[softList[1]]
      /\ \A i \in 1 .. Len(softList) : Lefts'[softList[i]] = Lefts[softList[i]]
  BY <1>1, <1>2, <1>3, <1>5, SoftSame
<1>7. TypeOK'
  BY <1>1, <1>3, <1>4, Ranges DEF IInv, TypeOK
<1>8. ListsOrdered'
  BY <1>4, <1>6 DEF ListsOrdered
<1>9. Sleepers'
  BY <1>1, <1>2, <1>4 DEF IInv, Sleepers, Busy
<1>10. ThreadState' /\ OnTheWay'
  BY <1>1 DEF IInv, ThreadState, OnTheWay, Busy
<1>11. Lefts[softList[1]] \in Int /\ stall \in Nat /\ stall <= MaxStall
  BY <1>2, HeadIs, RestIs
<1>12. Asleep'
  <2>1. seen <= Lefts[softList[1]] + MaxStall /\ 1 <= Lefts[softList[1]] + MaxStall
    BY <1>2, <1>11, Ranges
  <2>2. Own \in ToSet(timerList')
    BY <1>4
  <2> QED BY <1>1, <1>4, <1>6, <2>1, <2>2 DEF Asleep
<1>13. NotTooLate'
  <2>1. ASSUME NEW i \in 1 .. Len(softList)
        PROVE  Lefts'[softList[i]] <= Longest /\ -Lefts'[softList[i]] <= Late(i)'
    <3>1. /\ Lefts'[softList[i]] = Lefts[softList[i]] /\ Lefts[softList[i]] <= Longest
          /\ Lefts[softList[1]] <= Lefts[softList[i]] /\ Lefts[softList[i]] \in Int
      BY <1>6, ListsAre DEF IInv, NotTooLate
    <3>2. i \in 1 .. Number
      BY ListsAre, NapsBound
    <3> DEFINE some == Naps[Number + 1 - i]
    <3>3. some \in Nat /\ some >= 1
      BY <3>2, NapsPlenty
    <3>4. Late(i)' = MaxStall + some - 1
      <4>1. Late(i)' = MaxStall + stall' + some - 1 - Rest'
        BY DEF Late
      <4>2. Rest' = 0 /\ stall' = 0
        BY <1>1 DEF Rest
      <4> HIDE DEF some
      <4> QED BY <3>3, <4>1, <4>2, Ranges
    <3> HIDE DEF some
    <3> QED BY <1>2, <1>11, <3>1, <3>3, <3>4, Ranges
  <2> QED BY <1>1, <2>1 DEF NotTooLate
<1> QED BY <1>7, <1>8, <1>9, <1>10, <1>12, <1>13 DEF IInv

LEMMA CallbackNapsKeeps ==
    ASSUME IInv, CallbackNaps
    PROVE  IInv'
<1>1. PICK d \in DelaysOf[Own] :
         /\ UNCHANGED <<tick, softList, delay, periodic, seen, stall, firing, held>>
         /\ stat = "ready" /\ pc = "callback" /\ pc' = "napped" /\ stat' = "suspend"
         /\ due' = [due EXCEPT ![Own] = Plus(tick, d)]
         /\ timerList' = Queued(timerList, Own, due'[Own])
         /\ active' = [active EXCEPT ![Own] = TRUE]
  BY DEF CallbackNaps, Runs, settings, callback, SleepFor
<1>2. d \in 1 .. Half - 1 /\ d \in 0 .. Half - 1 /\ d \in 0 .. Half /\ d <= Nap
  BY DelaysFit, Ranges
<1>3. Own \notin ToSet(timerList) /\ Busy /\ Busy'
  BY <1>1 DEF IInv, Sleepers, Busy
<1>4. /\ due' \in [Timers -> 0 .. TickRange - 1] /\ active' \in [Timers -> BOOLEAN]
      /\ \A u \in Timers \ {Own} : due'[u] = due[u]
      /\ due'[Own] = Plus(tick, d)
  <2>1. Own \in Timers /\ tick \in 0 .. TickRange - 1
    BY ListsAre
  <2>2. Plus(tick, d) \in 0 .. TickRange - 1
    BY <1>2, <2>1, AwaySet
  <2> QED BY <1>1, <2>1, <2>2 DEF IInv, TypeOK
<1>5. /\ timerList' \in Seq(HardTimers) /\ IsInjective(timerList')
      /\ Sorted(timerList', Lefts')
      /\ ToSet(timerList') = ToSet(timerList) \cup {Own}
      /\ Left(Own)' = d
      /\ \A u \in ToSet(timerList) \ {Own} : Left(u)' = Left(u)
  <2>1. Own \in HardTimers
    BY DEF HardTimers
  <2>2. \A u \in ToSet(timerList) \ {Own} : due'[u] = due[u]
    BY <1>4, ListsAre
  <2> QED BY <1>1, <1>2, <1>4, <2>1, <2>2, HardSet
<1>6. \A u \in ToSet(softList) : due'[u] = due[u]
  BY <1>4, ListsAre
<1>7. IsInjective(softList') /\ Sorted(softList', Lefts')
  BY <1>1, <1>4, <1>6, SoftSame
<1>8. TypeOK'
  BY <1>1, <1>4, <1>5 DEF IInv, TypeOK
<1>9. ListsOrdered'
  BY <1>5, <1>7 DEF ListsOrdered
<1>10. Sleepers'
  BY <1>1, <1>2, <1>3, <1>5 DEF IInv, Sleepers
<1>11. ThreadState' /\ OnTheWay' /\ Asleep'
  BY <1>1, <1>2, <1>3, <1>5 DEF IInv, ThreadState, OnTheWay, Asleep, Busy
<1>12. NotTooLate'
  <2>1. Rest = Nap /\ Rest' = d
    BY <1>1, <1>5 DEF Rest
  <2>2. stall' \in Nat /\ Rest' \in Int /\ Rest' - stall' <= Rest - stall
    BY <1>1, <1>2, <2>1, RestIs, NapsBound, Ranges
  <2> QED BY <1>1, <1>4, <1>6, <2>2, SameNotTooLate
<1> QED BY <1>8, <1>9, <1>10, <1>11, <1>12 DEF IInv

\* What the other threads do on the list of the thread timers.
LEMMA OtherKeeps ==
    ASSUME IInv, NEW h \in ThreadTimers,
           UNCHANGED <<tick, softList, delay, periodic, seen, stall, firing, held, stat, pc>>,
           due' \in [Timers -> 0 .. TickRange - 1], active' \in [Timers -> BOOLEAN],
           \A u \in Timers \ {h} : due'[u] = due[u],
           timerList' \in Seq(HardTimers), IsInjective(timerList'), Sorted(timerList', Lefts'),
           \/ ToSet(timerList') = ToSet(timerList) \ {h}
           \/ ToSet(timerList') = ToSet(timerList) \cup {h} /\ Left(h)' \in 1 .. Half - 1,
           \A u \in ToSet(timerList) \ {h} : Left(u)' = Left(u)
    PROVE  IInv'
<1>1. h # Own /\ h \notin SoftTimers /\ Busy' = Busy
  BY SoftTimerAssumption DEF SoftTimerAssumption, Busy
<1>2. \A u \in ToSet(softList) : due'[u] = due[u]
  BY <1>1, ListsAre
<1>3. /\ IsInjective(softList') /\ Sorted(softList', Lefts')
      /\ softList # <<>> => Lefts'[softList[1]] = Lefts[softList[1]]
  BY <1>2, SoftSame
<1>4. /\ Left(Own)' = Left(Own) /\ due'[Own] = due[Own]
      /\ Own \in ToSet(timerList') <=> Own \in ToSet(timerList)
  <2>1. due'[Own] = due[Own]
    BY <1>1, ListsAre
  <2>2. Left(Own)' = Left(Own)
    BY <2>1, LeftKept
  <2> QED BY <1>1, <2>1, <2>2
<1>5. TypeOK'
  BY DEF IInv, TypeOK
<1>6. ListsOrdered'
  BY <1>3 DEF ListsOrdered
<1>7. Sleepers'
  <2>1. ASSUME NEW g \in ToSet(timerList')
        PROVE  Left(g)' \in 0 .. Half - 1 /\ (Left(g)' = 0 => g = Own /\ ~ Busy)
    <3>1. CASE g = h
      <4>1. Left(h)' \in 1 .. Half - 1
        BY <2>1, <3>1
      <4> QED BY <3>1, <4>1
    <3>2. CASE g # h
      <4>1. g \in ToSet(timerList) \ {h}
        BY <2>1, <3>2
      <4> QED BY <4>1 DEF IInv, Sleepers
    <3> QED BY <3>1, <3>2
  <2> QED BY <1>1, <1>4, <2>1 DEF IInv, Sleepers
<1>8. ThreadState'
  BY <1>1, <1>4 DEF IInv, ThreadState, Busy
<1>9. OnTheWay'
  <2>1. pc = "measure" => softList # <<>> /\ due'[softList[1]] = due[softList[1]]
    BY <1>2, HeadIs DEF IInv, OnTheWay
  <2> QED BY <1>3, <2>1 DEF IInv, OnTheWay
<1>10. Asleep'
  BY <1>1, <1>3, <1>4 DEF IInv, Asleep
<1>11. NotTooLate'
  <2>1. Rest' = Rest
    BY <1>4 DEF Rest
  <2>2. stall' \in Nat /\ Rest' \in Int /\ Rest' - stall' <= Rest - stall
    BY <2>1, RestIs
  <2> QED BY <1>2, <2>2, SameNotTooLate
<1> QED BY <1>5, <1>6, <1>7, <1>8, <1>9, <1>10, <1>11 DEF IInv

LEMMA OtherSleepsKeeps ==
    ASSUME IInv, NEW h \in ThreadTimers, OtherSleeps(h)
    PROVE  IInv'
<1>1. PICK d \in DelaysOf[h] :
         /\ UNCHANGED <<tick, softList, delay, periodic, seen, stall, firing, held, stat, pc>>
         /\ due' = [due EXCEPT ![h] = Plus(tick, d)]
         /\ timerList' = Queued(timerList, h, due'[h])
         /\ active' = [active EXCEPT ![h] = TRUE]
  BY DEF OtherSleeps, settings, callback, thread, SleepFor
<1>2. d \in 1 .. Half - 1 /\ d \in 0 .. Half - 1 /\ d \in 0 .. Half
  BY DelaysFit, Ranges
<1>3. h \in HardTimers /\ h \in Timers
  BY DEF HardTimers, Timers
<1>4. /\ due' \in [Timers -> 0 .. TickRange - 1] /\ active' \in [Timers -> BOOLEAN]
      /\ \A u \in Timers \ {h} : due'[u] = due[u]
      /\ due'[h] = Plus(tick, d)
  <2>1. Plus(tick, d) \in 0 .. TickRange - 1
    BY <1>2, AwaySet, ListsAre
  <2> QED BY <1>1, <1>3, <2>1 DEF IInv, TypeOK
<1>5. /\ timerList' \in Seq(HardTimers) /\ IsInjective(timerList')
      /\ Sorted(timerList', Lefts')
      /\ ToSet(timerList') = ToSet(timerList) \cup {h}
      /\ Left(h)' = d
      /\ \A u \in ToSet(timerList) \ {h} : Left(u)' = Left(u)
  <2>1. \A u \in ToSet(timerList) \ {h} : due'[u] = due[u]
    BY <1>4, ListsAre
  <2> QED BY <1>1, <1>2, <1>3, <1>4, <2>1, HardSet
<1> QED BY <1>1, <1>2, <1>4, <1>5, OtherKeeps

LEMMA OtherWokenKeeps ==
    ASSUME IInv, NEW h \in ThreadTimers, OtherWoken(h)
    PROVE  IInv'
<1>1. /\ UNCHANGED <<tick, softList, delay, periodic, seen, stall, firing, held, stat, pc>>
      /\ timerList' = Without(timerList, h)
      /\ active' = [active EXCEPT ![h] = FALSE] /\ due' = Cleared(due, h)
  BY DEF OtherWoken, settings, callback, thread
<1>2. h \in HardTimers /\ h \in Timers
  BY DEF HardTimers, Timers
<1>3. /\ due' \in [Timers -> 0 .. TickRange - 1] /\ active' \in [Timers -> BOOLEAN]
      /\ \A u \in Timers \ {h} : due'[u] = due[u]
  BY <1>1, <1>2, Ranges DEF IInv, TypeOK, Cleared
<1>4. /\ timerList' \in Seq(HardTimers) /\ IsInjective(timerList')
      /\ Sorted(timerList', Lefts')
      /\ ToSet(timerList') = ToSet(timerList) \ {h}
      /\ \A u \in ToSet(timerList) \ {h} : Left(u)' = Left(u)
  <2>1. \A u \in ToSet(timerList) \ {h} : due'[u] = due[u]
    BY <1>3, ListsAre
  <2> QED BY <1>1, <1>2, <1>3, <2>1, HardGone
<1> QED BY <1>1, <1>3, <1>4, OtherKeeps

LEMMA CallerIs ==
    ASSUME IInv, MayCall
    PROVE  pc \in {"check", "napped", "callback"}
BY DEF IInv, ThreadState, MayCall, Busy

LEMMA StopKeeps ==
    ASSUME IInv, NEW t \in SoftTimers, Stop(t)
    PROVE  IInv'
<1>1. /\ UNCHANGED <<tick, timerList, delay, periodic, firing, stat, pc, seen, stall>>
      /\ softList' = Without(softList, t)
      /\ held' = (held /\ firing # t)
      /\ active' = [active EXCEPT ![t] = FALSE] /\ due' = Cleared(due, t)
      /\ pc \in {"check", "napped", "callback"}
  BY CallerIs DEF Stop, settings, thread
<1>2. /\ due' \in [Timers -> 0 .. TickRange - 1] /\ active' \in [Timers -> BOOLEAN]
      /\ \A u \in Timers \ {t} : due'[u] = due[u]
  BY <1>1, ListsAre, Ranges DEF IInv, TypeOK, Cleared
<1>3. /\ softList' \in Seq(SoftTimers) /\ IsInjective(softList')
      /\ Sorted(softList', Lefts')
      /\ ToSet(softList') = ToSet(softList) \ {t}
      /\ \A j \in 1 .. Len(softList') :
            /\ Lefts'[softList'[j]] \in Int
            /\ Lefts'[softList'[j]] <= Longest
            /\ -Lefts'[softList'[j]] <= Late(j)
            /\ Lefts[softList[1]] <= Lefts'[softList'[j]]
  <2>1. \A u \in ToSet(softList) \ {t} : due'[u] = due[u]
    BY <1>2, ListsAre
  <2> QED BY <1>1, <1>2, <2>1, SoftGone
<1>4. /\ IsInjective(timerList') /\ Sorted(timerList', Lefts')
      /\ \A u \in ToSet(timerList) : Left(u)' = Left(u)
  <2>1. \A u \in ToSet(timerList) : due'[u] = due[u]
    BY <1>2, ListsAre
  <2> QED BY <1>1, <1>2, <2>1, HardSame
<1>5. TypeOK'
  BY <1>1, <1>2, <1>3 DEF IInv, TypeOK
<1>6. ListsOrdered'
  BY <1>3, <1>4 DEF ListsOrdered
<1>7. Sleepers' /\ ThreadState' /\ OnTheWay'
  BY <1>1, <1>3, <1>4 DEF IInv, Sleepers, ThreadState, OnTheWay, Busy
<1>8. Asleep'
  <2> SUFFICES ASSUME stat = "suspend", ~ Busy, softList' # <<>>
               PROVE  /\ Own \in ToSet(timerList)
                      /\ Left(Own)' <= Lefts'[softList'[1]] + MaxStall
                      /\ 1 <= Lefts'[softList'[1]] + MaxStall
    BY <1>1 DEF Asleep, Busy
  <2>1. 1 \in 1 .. Len(softList') /\ softList # <<>>
    <3>1. 1 \in 1 .. Len(softList')
      BY <1>3, EmptySeq
    <3>2. softList'[1] \in ToSet(softList')
      BY <1>3, <3>1, LenProperties DEF ToSet
    <3>3. ToSet(softList) # {}
      BY <1>3, <3>2
    <3>4. softList # <<>>
      BY <3>3 DEF ToSet
    <3> QED BY <3>1, <3>4
  <2>2. Lefts'[softList'[1]] \in Int /\ Lefts[softList[1]] <= Lefts'[softList'[1]]
    BY <1>3, <2>1
  <2>3. /\ Own \in ToSet(timerList) /\ Left(Own) <= Lefts[softList[1]] + MaxStall
        /\ 1 <= Lefts[softList[1]] + MaxStall
    BY <2>1 DEF IInv, Asleep
  <2>4. Left(Own)' = Left(Own) /\ Left(Own) \in Int /\ Lefts[softList[1]] \in Int
    BY <1>4, <2>1, <2>3, HeadIs, ListsAre
  <2> QED BY <2>2, <2>3, <2>4, Ranges
<1>9. NotTooLate'
  <2>1. Rest' = Rest
    <3>1. pc = "napped" /\ stat = "suspend" => Left(Own)' = Left(Own)
      BY <1>4 DEF IInv, ThreadState
    <3> QED BY <1>1, <3>1 DEF Rest
  <2>2. stall' \in Nat /\ Rest' \in Int /\ Rest' - stall' <= Rest - stall
    BY <1>1, <2>1, RestIs
  <2> QED BY <1>3, <2>2, SoftNotTooLate
<1> QED BY <1>5, <1>6, <1>7, <1>8, <1>9 DEF IInv

LEMMA StartKeeps ==
    ASSUME IInv, NEW t \in SoftTimers, Start(t)
    PROVE  IInv'
<1> DEFINE when == Plus(tick, delay[t])
           d == delay[t]
<1>1. /\ UNCHANGED <<tick, delay, periodic, firing, pc, seen, stall>>
      /\ softList' = Queued(softList, t, when)
      /\ stat' = IF Waits THEN "ready" ELSE stat
      /\ timerList' = IF Waits THEN Without(timerList, Own) ELSE timerList
      /\ active' = [active EXCEPT ![t] = TRUE, ![Own] = @ /\ ~ Waits]
      /\ due' = [due EXCEPT ![t] = when, ![Own] = IF Waits THEN 0 ELSE @]
      /\ held' = (held /\ firing # t)
      /\ pc \in {"check", "napped", "callback"}
  BY CallerIs DEF Start, Starting, settings
<1>2. d \in 1 .. Longest /\ d \in 0 .. Half
  <2>1. d \in 1 .. Half - 1 /\ d \in DelaysOf[t]
    BY DEF IInv, TypeOK, Settings
  <2> HIDE DEF d
  <2>2. d <= Longest
    BY <2>1, DelaysFit
  <2> QED BY <2>1, <2>2, NapsBound, Ranges
<1> HIDE DEF d
<1>3. when = Plus(tick, d) /\ when \in 0 .. TickRange - 1
  BY <1>2, AwaySet, ListsAre DEF d
<1> HIDE DEF when
<1>4. /\ due' \in [Timers -> 0 .. TickRange - 1] /\ active' \in [Timers -> BOOLEAN]
      /\ \A u \in Timers \ {t, Own} : due'[u] = due[u]
      /\ due'[t] = when
      /\ ~ Waits => due'[Own] = due[Own]
  <2>1. due \in [Timers -> 0 .. TickRange - 1] /\ active \in [Timers -> BOOLEAN] /\ 0 \in 0 .. TickRange - 1
    BY Ranges DEF IInv, TypeOK
  <2>2. t \in Timers /\ Own \in Timers /\ t # Own
    BY ListsAre
  <2>3. due' \in [Timers -> 0 .. TickRange - 1]
    BY <1>1, <1>3, <2>1, <2>2
  <2>4. active' \in [Timers -> BOOLEAN]
    <3>1. (active[Own] /\ ~ Waits) \in BOOLEAN
      OBVIOUS
    <3> QED BY <1>1, <2>1, <2>2, <3>1
  <2>5. /\ \A u \in Timers \ {t, Own} : due'[u] = due[u]
        /\ due'[t] = when
        /\ ~ Waits => due'[Own] = due[Own]
    BY <1>1, <2>1, <2>2
  <2> QED BY <2>3, <2>4, <2>5
<1>5. /\ softList' \in Seq(SoftTimers) /\ IsInjective(softList')
      /\ Sorted(softList', Lefts')
      /\ ToSet(softList') = ToSet(softList) \cup {t}
      /\ \A j \in 1 .. Len(softList') :
            /\ Lefts'[softList'[j]] \in Int
            /\ Lefts'[softList'[j]] <= Longest
            /\ -Lefts'[softList'[j]] <= Late(j)
  <2>1. \A u \in ToSet(softList) \ {t} : due'[u] = due[u]
    BY <1>4, ListsAre
  <2> QED BY <1>1, <1>2, <1>3, <1>4, <2>1, SoftSet
<1>6. /\ timerList' \in Seq(HardTimers) /\ IsInjective(timerList') /\ Sorted(timerList', Lefts')
      /\ ToSet(timerList') = IF Waits THEN ToSet(timerList) \ {Own} ELSE ToSet(timerList)
      /\ \A u \in ToSet(timerList') : Left(u)' = Left(u)
  <2>0. t \notin ToSet(timerList)
    BY ListsAre
  <2>1. CASE Waits
    <3>1. \A u \in ToSet(timerList) \ {Own} : due'[u] = due[u]
      BY <1>4, <2>0, ListsAre
    <3>2. Own \in HardTimers
      BY DEF HardTimers
    <3>3. timerList' = Without(timerList, Own)
      BY <1>1, <2>1
    <3>4. /\ timerList' \in Seq(HardTimers) /\ IsInjective(timerList')
          /\ Sorted(timerList', Lefts')
          /\ ToSet(timerList') = ToSet(timerList) \ {Own}
          /\ \A u \in ToSet(timerList) \ {Own} : Left(u)' = Left(u)
      BY <1>1, <1>4, <3>1, <3>2, <3>3, HardGone
    <3> QED BY <2>1, <3>4
  <2>2. CASE ~ Waits
    <3>1. \A u \in ToSet(timerList) : due'[u] = due[u]
      BY <1>4, <2>0, <2>2, ListsAre
    <3>2. timerList' = timerList /\ timerList \in Seq(HardTimers)
      BY <1>1, <2>2, ListsAre
    <3> QED BY <1>1, <1>4, <2>2, <3>1, <3>2, HardSame
  <2> QED BY <2>1, <2>2
<1>7. stat' \in {"ready", "suspend"}
  BY <1>1 DEF IInv, TypeOK
<1>8. TypeOK'
  BY <1>1, <1>4, <1>5, <1>6, <1>7 DEF IInv, TypeOK
<1>9. ListsOrdered'
  BY <1>5, <1>6 DEF ListsOrdered
<1>10. Sleepers' /\ ThreadState' /\ OnTheWay'
  <2>1. Waits => stat' = "ready" /\ Own \notin ToSet(timerList')
    BY <1>1, <1>6
  <2>2. ~ Waits => stat' = stat /\ ToSet(timerList') = ToSet(timerList)
    BY <1>1, <1>6
  <2>3. Sleepers'
    BY <1>1, <1>6, <2>1, <2>2 DEF IInv, Sleepers, Busy
  <2>4. ThreadState'
    BY <1>1, <1>5, <1>6, <2>1, <2>2 DEF IInv, ThreadState, Busy
  <2>5. OnTheWay'
    BY <1>1 DEF OnTheWay
  <2> QED BY <2>3, <2>4, <2>5
<1>11. Asleep'
  BY <1>1 DEF Asleep, Waits, Busy
<1>12. NotTooLate'
  <2>1. Rest' = Rest
    <3>1. pc = "napped" => ~ Waits
      BY DEF Waits, Busy
    <3>2. pc = "napped" /\ stat = "suspend" => Left(Own)' = Left(Own)
      BY <1>6, <3>1 DEF IInv, ThreadState
    <3> QED BY <1>1, <3>1, <3>2 DEF Rest
  <2>2. stall' \in Nat /\ Rest' \in Int /\ Rest' - stall' <= Rest - stall
    BY <1>1, <2>1, RestIs
  <2> QED BY <1>5, <2>2, SoftNotTooLate
<1> QED BY <1>8, <1>9, <1>10, <1>11, <1>12 DEF IInv

LEMMA FireKeeps ==
    ASSUME IInv, Fire
    PROVE  IInv'
<1> DEFINE t == softList[1]
           q == Lefts'
<1>1. /\ UNCHANGED <<tick, timerList, delay, periodic, stat, stall, seen>>
      /\ stat = "ready" /\ pc \in {"check", "locked"} /\ pc' = "callback"
      /\ softList # <<>> /\ IsDue(Head(softList), tick)
      /\ firing' = Head(softList) /\ held' = TRUE
      /\ active' = [active EXCEPT ![Head(softList)] = periodic[Head(softList)]]
      /\ due' = Cleared(due, Head(softList))
      /\ softList' = Tail(softList)
  BY DEF Fire, Runs, settings
<1>2. Head(softList) = t /\ t \in SoftTimers /\ t \in Timers
  BY <1>1, HeadIs
<1> HIDE DEF t
<1>3. /\ due' \in [Timers -> 0 .. TickRange - 1] /\ active' \in [Timers -> BOOLEAN]
      /\ \A u \in Timers \ {t} : due'[u] = due[u]
  BY <1>1, <1>2, Ranges DEF IInv, TypeOK, Cleared
<1>4. /\ Tail(softList) \in Seq(SoftTimers) /\ IsInjective(Tail(softList))
      /\ ToSet(Tail(softList)) = ToSet(softList) \ {t}
      /\ Len(softList) \in Nat \ {0} /\ Len(Tail(softList)) = Len(softList) - 1
      /\ \A i \in 1 .. Len(softList) - 1 : Tail(softList)[i] = softList[i + 1]
      /\ Sorted(Tail(softList), Lefts)
  <2>1. softList \in Seq(SoftTimers) /\ IsInjective(softList) /\ Sorted(softList, Lefts)
    BY ListsAre DEF IInv, ListsOrdered
  <2> QED BY <1>1, <2>1, TailOf, TailSorted DEF t
<1>5. \A u \in ToSet(softList) \ {t} : q[u] = Lefts[u] /\ q[u] \in Int
  <2>1. tick' \in 0 .. TickRange - 1 /\ \A u \in ToSet(softList) : u \in Timers /\ Lefts[u] = Left(u)
    BY <1>1, ListsAre
  <2>2. \A u \in Timers : Lefts'[u] = Left(u)' /\ Left(u)' \in Int
    BY <1>3, <2>1, LeftsNext
  <2>3. \A u \in ToSet(softList) \ {t} : Left(u)' = Left(u)
    BY <1>1, <1>3, <2>1, LeftKept
  <2> QED BY <2>1, <2>2, <2>3
<1> HIDE DEF q
<1>6. Sorted(Tail(softList), q)
  BY <1>4, <1>5, SortedSame
<1>7. /\ IsInjective(timerList') /\ Sorted(timerList', Lefts')
      /\ \A u \in ToSet(timerList) : Left(u)' = Left(u)
  <2>1. \A u \in ToSet(timerList) : due'[u] = due[u]
    BY <1>2, <1>3, ListsAre
  <2> QED BY <1>1, <1>3, <2>1, HardSame
<1>8. TypeOK'
  BY <1>1, <1>2, <1>3, <1>4 DEF IInv, TypeOK
<1>9. ListsOrdered'
  BY <1>1, <1>4, <1>6, <1>7 DEF ListsOrdered, q
<1>10. Own \notin ToSet(timerList) /\ t # Nobody
  BY <1>1, <1>2, SoftTimerAssumption DEF IInv, Sleepers, SoftTimerAssumption
<1>11. Sleepers'
  BY <1>1, <1>7, <1>10 DEF IInv, Sleepers
<1>12. ThreadState'
  BY <1>1, <1>2, <1>4, <1>10 DEF ThreadState, Busy
<1>13. OnTheWay' /\ Asleep'
  BY <1>1 DEF OnTheWay, Asleep
<1>14. NotTooLate'
  <2>1. ASSUME NEW i \in 1 .. Len(softList) - 1
        PROVE  q[Tail(softList)[i]] <= Longest /\ -q[Tail(softList)[i]] <= Late(i)'
    <3>1. i + 1 \in 1 .. Len(softList) /\ Tail(softList)[i] = softList[i + 1]
      BY <1>4
    <3>2. softList[i + 1] \in ToSet(softList) \ {t}
      <4>1. Tail(softList)[i] \in ToSet(Tail(softList))
        BY <1>4, LenProperties DEF ToSet
      <4> QED BY <1>4, <3>1, <4>1
    <3>3. q[Tail(softList)[i]] = Lefts[softList[i + 1]] /\ Lefts[softList[i + 1]] \in Int
      BY <1>5, <3>1, <3>2
    <3>4. Lefts[softList[i + 1]] <= Longest /\ -Lefts[softList[i + 1]] <= Late(i + 1)
      BY <3>1 DEF IInv, NotTooLate
    <3>5. Late(i)' = Late(i + 1)
      <4>1. i \in 1 .. Number /\ i + 1 \in 1 .. Number /\ i \in Nat /\ Number \in Nat
        BY <1>4, ListsAre, NapsBound
      <4>2. /\ Number + 1 - i = Number - i + 1 /\ Number + 1 - (i + 1) = Number - i
            /\ Number - i \in Nat
        BY <4>1
      <4> DEFINE some == Naps[Number - i]
                 more == Naps[Number + 1 - i]
                 same == Naps[Number + 1 - (i + 1)]
      <4>3. some \in Nat /\ more = some + Nap /\ Nap \in Nat /\ same = some
        BY <4>2, NapsAre, NapsBound
      <4>4. Late(i + 1) = MaxStall + stall + same - 1 - Rest
        BY DEF Late
      <4>5. Late(i)' = MaxStall + stall' + more - 1 - Rest'
        BY DEF Late
      <4>6. Rest = 0 /\ Rest' = Nap /\ stall' = stall
        BY <1>1 DEF Rest
      <4> HIDE DEF some, more, same
      <4> QED BY <4>3, <4>4, <4>5, <4>6, RestIs, Ranges
    <3> QED BY <3>3, <3>4, <3>5
  <2> QED BY <1>1, <1>4, <2>1 DEF NotTooLate, q
<1> QED BY <1>8, <1>9, <1>11, <1>12, <1>13, <1>14 DEF IInv

LEMMA CallbackReturnsKeeps ==
    ASSUME IInv, CallbackReturns
    PROVE  IInv'
<1> DEFINE again == held /\ periodic[firing] /\ active[firing]
           when == Plus(tick, delay[firing])
           d == delay[firing]
<1>1. /\ UNCHANGED <<tick, timerList, delay, periodic, active, stat, stall, seen>>
      /\ stat = "ready" /\ pc \in {"callback", "napped"} /\ pc' = "locked"
      /\ firing' = Nobody /\ held' = FALSE
      /\ again => due' = [due EXCEPT ![firing] = when] /\ softList' = Queued(softList, firing, due'[firing])
      /\ ~ again => UNCHANGED <<due, softList>>
  BY DEF CallbackReturns, Runs, settings
<1>2. firing \in SoftTimers /\ firing \in Timers /\ Own \notin ToSet(timerList)
  BY <1>1, ListsAre DEF IInv, ThreadState, Sleepers, TypeOK, Busy
<1>3. d \in 1 .. Longest /\ d \in 0 .. Half
  <2>1. d \in 1 .. Half - 1 /\ d \in DelaysOf[firing]
    BY <1>2 DEF IInv, TypeOK, Settings
  <2> HIDE DEF d
  <2>2. d <= Longest
    BY <1>2, <2>1, DelaysFit
  <2> QED BY <2>1, <2>2, NapsBound, Ranges
<1> HIDE DEF d
<1>4. when = Plus(tick, d) /\ when \in 0 .. TickRange - 1
  BY <1>3, AwaySet, ListsAre DEF d
<1> HIDE DEF when, again
<1>5. /\ due' \in [Timers -> 0 .. TickRange - 1]
      /\ \A u \in Timers \ {firing} : due'[u] = due[u]
      /\ again => due'[firing] = when
  <2>1. due \in [Timers -> 0 .. TickRange - 1]
    BY DEF IInv, TypeOK
  <2> QED BY <1>1, <1>2, <1>4, <2>1
<1>6. Rest' = 0 /\ stall' = stall
  BY <1>1 DEF Rest
<1>7. stall' \in Nat /\ Rest' \in Int /\ Rest' - stall' <= Rest - stall
  BY <1>6, RestIs
<1>8. /\ softList' \in Seq(SoftTimers) /\ IsInjective(softList') /\ Sorted(softList', Lefts')
      /\ NotTooLate'
  <2>1. CASE again
    <3>1. \A u \in ToSet(softList) \ {firing} : due'[u] = due[u]
      BY <1>5, ListsAre
    <3>2. due'[firing] = Plus(tick, d) /\ softList' = Queued(softList, firing, Plus(tick, d))
      BY <1>1, <1>4, <1>5, <2>1
    <3>3. /\ softList' \in Seq(SoftTimers) /\ IsInjective(softList')
          /\ Sorted(softList', Lefts')
          /\ \A j \in 1 .. Len(softList') :
                /\ Lefts'[softList'[j]] \in Int
                /\ Lefts'[softList'[j]] <= Longest
                /\ -Lefts'[softList'[j]] <= Late(j)
      BY <1>1, <1>2, <1>3, <1>5, <3>1, <3>2, SoftSet
    <3> QED BY <1>7, <3>3, SoftNotTooLate
  <2>2. CASE ~ again
    <3>1. softList' = softList /\ \A u \in ToSet(softList) : due'[u] = due[u]
      BY <1>1, <2>2
    <3>2. softList \in Seq(SoftTimers)
      BY ListsAre
    <3> QED BY <1>1, <1>5, <1>7, <3>1, <3>2, SoftSame, SameNotTooLate
  <2> QED BY <2>1, <2>2
<1>9. /\ IsInjective(timerList') /\ Sorted(timerList', Lefts')
      /\ \A u \in ToSet(timerList) : Left(u)' = Left(u)
  <2>1. \A u \in ToSet(timerList) : due'[u] = due[u]
    BY <1>2, <1>5, ListsAre
  <2> QED BY <1>1, <1>5, <2>1, HardSame
<1>10. TypeOK'
  BY <1>1, <1>5, <1>8 DEF IInv, TypeOK
<1>11. ListsOrdered'
  BY <1>8, <1>9 DEF ListsOrdered
<1>12. Sleepers'
  BY <1>1, <1>2, <1>9 DEF IInv, Sleepers
<1>13. ThreadState' /\ OnTheWay' /\ Asleep'
  BY <1>1 DEF ThreadState, OnTheWay, Asleep, Busy
<1> QED BY <1>8, <1>10, <1>11, <1>12, <1>13 DEF IInv

-----------------------------------------------------------------------------
(* The tick interrupt.                                                     *)

\* A list is its first n elements and the others.
LEMMA Split ==
    ASSUME NEW S, NEW s \in Seq(S), IsInjective(s), NEW n \in 0 .. Len(s)
    PROVE  /\ Len(SubSeq(s, 1, n)) = n
           /\ ToSet(SubSeq(s, 1, n)) = {s[i] : i \in 1 .. n}
           /\ SubSeq(s, n + 1, Len(s)) \in Seq(S) /\ IsInjective(SubSeq(s, n + 1, Len(s)))
           /\ ToSet(SubSeq(s, n + 1, Len(s))) = {s[i] : i \in n + 1 .. Len(s)}
           /\ \A p : Sorted(s, p) => Sorted(SubSeq(s, n + 1, Len(s)), p)
<1> DEFINE m == Len(s)
           a == SubSeq(s, 1, n)
           b == SubSeq(s, n + 1, m)
<1>1. m \in Nat /\ DOMAIN s = 1 .. m /\ \A i \in 1 .. m : s[i] \in S
  BY LenProperties, ElementOfSeq
<1>2. /\ n \in Nat /\ n <= m
      /\ \A i \in 1 .. n : s[i] \in S
      /\ \A i \in n + 1 .. m : s[i] \in S
  BY <1>1
<1>3. /\ Len(a) = n /\ DOMAIN a = 1 .. n /\ \A i \in 1 .. n : a[i] = s[i]
  <2>1. \A i \in 1 .. n : s[i] \in S
    BY <1>2
  <2>2. /\ SubSeq(s, 1, n) \in Seq(S)
        /\ Len(SubSeq(s, 1, n)) = IF 1 <= n THEN n - 1 + 1 ELSE 0
        /\ \A i \in 1 .. n - 1 + 1 : SubSeq(s, 1, n)[i] = s[1 + i - 1]
    BY <1>1, <1>2, SubSeqProperties
  <2>3. Len(a) = n
    BY <1>2, <2>2
  <2>4. DOMAIN a = 1 .. n
    BY <2>2, <2>3, LenProperties
  <2>5. ASSUME NEW i \in 1 .. n PROVE a[i] = s[i]
    <3>1. i \in 1 .. n - 1 + 1 /\ 1 + i - 1 = i
      BY <1>2
    <3> QED BY <2>2, <3>1
  <2> QED BY <2>3, <2>4, <2>5
<1>4. /\ b \in Seq(S) /\ Len(b) = m - n /\ DOMAIN b = 1 .. m - n
      /\ \A i \in 1 .. m - n : b[i] = s[n + i]
  <2>1. /\ b \in Seq(S)
        /\ Len(b) = IF n + 1 <= m THEN m - (n + 1) + 1 ELSE 0
        /\ \A i \in 1 .. m - (n + 1) + 1 : b[i] = s[n + 1 + i - 1]
    BY <1>1, <1>2, SubSeqProperties
  <2>2. Len(b) = m - n
    <3> DEFINE l == Len(b)
    <3>1. l = IF n + 1 <= m THEN m - (n + 1) + 1 ELSE 0
      BY <2>1
    <3>2. m \in Nat /\ n \in Nat /\ n <= m
      BY <1>1, <1>2
    <3> HIDE DEF l, b, m
    <3>3. l = m - n
      BY <3>1, <3>2
    <3> QED BY <3>3 DEF l
  <2>3. DOMAIN b = 1 .. m - n
    BY <2>1, <2>2, LenProperties
  <2>4. ASSUME NEW i \in 1 .. m - n PROVE b[i] = s[n + i]
    <3>1. i \in 1 .. m - (n + 1) + 1 /\ n + 1 + i - 1 = n + i
      BY <1>1, <1>2
    <3> QED BY <2>1, <3>1
  <2> QED BY <2>1, <2>2, <2>3, <2>4
<1> HIDE DEF a, b, m
<1>5. ToSet(a) = {s[i] : i \in 1 .. n}
  BY <1>3 DEF ToSet
<1>6. ToSet(b) = {s[i] : i \in n + 1 .. m}
  <2>1. ASSUME NEW i \in 1 .. m - n PROVE b[i] \in {s[j] : j \in n + 1 .. m}
    <3>1. n + i \in n + 1 .. m
      BY <1>1, <1>2
    <3> QED BY <1>4, <3>1
  <2>2. ASSUME NEW j \in n + 1 .. m PROVE \E i \in 1 .. m - n : b[i] = s[j]
    <3>1. j - n \in 1 .. m - n /\ n + (j - n) = j
      BY <1>1, <1>2
    <3> QED BY <1>4, <3>1
  <2> QED BY <1>4, <2>1, <2>2 DEF ToSet
<1>7. IsInjective(b)
  <2>1. ASSUME NEW i \in 1 .. m - n, NEW j \in 1 .. m - n, b[i] = b[j] PROVE i = j
    <3>1. n + i \in 1 .. m /\ n + j \in 1 .. m /\ s[n + i] = s[n + j]
      BY <1>1, <1>2, <1>4, <2>1
    <3>2. n + i = n + j
      BY <1>1, <3>1 DEF IsInjective
    <3> QED BY <1>1, <1>2, <3>2
  <2> QED BY <1>4, <2>1 DEF IsInjective
<1>8. ASSUME NEW p, Sorted(s, p) PROVE Sorted(b, p)
  <2>1. \A i, j \in 1 .. m : i < j => p[s[i]] <= p[s[j]]
    BY <1>8 DEF Sorted, m
  <2>2. ASSUME NEW i \in 1 .. m - n, NEW j \in 1 .. m - n, i < j PROVE p[b[i]] <= p[b[j]]
    <3>1. n + i \in 1 .. m /\ n + j \in 1 .. m /\ n + i < n + j
      BY <1>1, <1>2, <2>2
    <3> QED BY <1>4, <2>1, <3>1
  <2> QED BY <1>4, <2>2 DEF Sorted
<1> QED BY <1>3, <1>4, <1>5, <1>6, <1>7, <1>8 DEF a, b, m

\* The tick interrupt takes the timers with one tick left or none.
LEMMA RipeIs ==
    ASSUME IInv
    PROVE  \E n \in 0 .. Len(timerList) :
              /\ Ripe(Plus(tick, 1)) = SubSeq(timerList, 1, n)
              /\ \A i \in 1 .. n : Left(timerList[i]) <= 1
              /\ \A i \in n + 1 .. Len(timerList) : Left(timerList[i]) >= 2
<1> DEFINE m == Len(timerList)
           now == Plus(tick, 1)
           P(i) == IsDue(timerList[i], now)
           D == {i \in DOMAIN timerList : \A j \in 1 .. i : P(j)}
           I == {i \in 1 .. m + 1 : i = m + 1 \/ ~ P(i)}
<1>1. /\ m \in Nat /\ DOMAIN timerList = 1 .. m
      /\ \A i \in 1 .. m : timerList[i] \in ToSet(timerList) /\ timerList[i] \in Timers
  <2>1. timerList \in Seq(HardTimers)
    BY ListsAre
  <2>2. m \in Nat /\ DOMAIN timerList = 1 .. m
    BY <2>1, LenProperties
  <2>3. \A i \in 1 .. m : timerList[i] \in ToSet(timerList)
    BY <2>2 DEF ToSet
  <2> QED BY <2>2, <2>3, ListsAre
<1>2. ASSUME NEW i \in 1 .. m
      PROVE  /\ Left(timerList[i]) \in Int /\ Left(timerList[i]) >= 0
             /\ Lefts[timerList[i]] = Left(timerList[i])
             /\ P(i) <=> Left(timerList[i]) <= 1
  <2> DEFINE h == timerList[i]
  <2>1. h \in ToSet(timerList) /\ h \in Timers
    BY <1>1
  <2> HIDE DEF h
  <2>2. Left(h) \in 0 .. Half - 1 /\ due[h] \in 0 .. TickRange - 1 /\ tick \in 0 .. TickRange - 1
        /\ Lefts[h] = Left(h)
    BY <2>1, ListsAre DEF IInv, Sleepers
  <2>3. Half - 1 >= 1 /\ Half \in Nat
    BY NapsBound
  <2>4. Away(due[h], now) = Left(h) - 1
    <3>1. Away(due[h], tick) > Half - TickRange + 1 /\ Half >= 1
      BY <2>2, <2>3, LeftIsAway, Ranges
    <3> QED BY <2>2, <3>1, AwayTick, LeftIsAway
  <2>5. now \in 0 .. TickRange - 1
    <3>1. 1 \in 0 .. Half
      BY <2>3
    <3> QED BY <2>2, <3>1, AwaySet
  <2>6. IsDue(h, now) <=> Away(due[h], now) <= 0
    <3>1. Away(due[h], now) > -Half
      BY <2>2, <2>3, <2>4
    <3> HIDE DEF now
    <3> QED BY <2>2, <2>5, <3>1, AwayDue DEF IsDue
  <2>7. /\ Left(h) \in Int /\ Left(h) >= 0 /\ Lefts[h] = Left(h)
        /\ IsDue(h, now) <=> Left(h) <= 1
    BY <2>2, <2>3, <2>4, <2>6
  <2> QED BY <2>7 DEF h
<1> HIDE DEF P, m, now
<1>3. I \subseteq Nat /\ m + 1 \in I
  BY <1>1
<1>4. PICK k \in I : \A y \in I : k <= y
  <2> HIDE DEF I
  <2> QED BY <1>3, NatMin
<1>5. /\ k \in 1 .. m + 1 /\ (k = m + 1 \/ ~ P(k))
      /\ \A j \in 1 .. m : j < k => P(j)
  <2>1. k \in 1 .. m + 1 /\ (k = m + 1 \/ ~ P(k))
    BY <1>4
  <2>2. ASSUME NEW j \in 1 .. m, j < k PROVE P(j)
    <3>1. j \in 1 .. m + 1 /\ ~ (k <= j)
      BY <1>1, <2>1, <2>2
    <3> QED BY <1>4, <3>1
  <2> QED BY <2>1, <2>2
<1>6. D = 1 .. k - 1
  <2>1. ASSUME NEW i \in 1 .. m, \A j \in 1 .. i : P(j) PROVE i \in 1 .. k - 1
    <3>1. k <= m /\ k <= i => P(k)
      <4>1. k <= m /\ k <= i => k \in 1 .. i
        BY <1>1, <1>5
      <4> QED BY <2>1, <4>1
    <3>2. i < k
      BY <1>1, <1>5, <3>1
    <3> QED BY <1>1, <1>5, <3>2
  <2>2. ASSUME NEW i \in 1 .. k - 1 PROVE i \in 1 .. m /\ \A j \in 1 .. i : P(j)
    <3>1. i \in 1 .. m /\ \A j \in 1 .. i : j \in 1 .. m /\ j < k
      BY <1>1, <1>5
    <3> QED BY <1>5, <3>1
  <2> QED BY <1>1, <2>1, <2>2
<1>7. k - 1 \in 0 .. m /\ Cardinality(D) = k - 1
  <2>1. k - 1 \in 0 .. m
    BY <1>1, <1>5
  <2>2. Cardinality(1 .. k - 1) = k - 1
    BY <1>1, <2>1, FS_Interval
  <2> QED BY <1>6, <2>1, <2>2
<1>8. Ripe(now) = SubSeq(timerList, 1, k - 1)
  <2>1. Ripe(now) = SubSeq(timerList, 1, Cardinality(D))
    BY DEF Ripe, P
  <2> QED BY <1>7, <2>1
<1>9. \A i \in 1 .. k - 1 : Left(timerList[i]) <= 1
  BY <1>1, <1>2, <1>5
<1>10. ASSUME NEW i \in k .. m PROVE Left(timerList[i]) >= 2
  <2>1. k \in 1 .. m /\ i \in 1 .. m /\ ~ P(k)
    BY <1>1, <1>5
  <2>2. Left(timerList[k]) >= 2
    BY <1>2, <2>1
  <2>3. Lefts[timerList[k]] <= Lefts[timerList[i]]
    <3>1. \A a, b \in 1 .. m : a < b => Lefts[timerList[a]] <= Lefts[timerList[b]]
      BY DEF IInv, ListsOrdered, Sorted, m
    <3>2. k = i \/ k < i
      BY <1>1, <1>5
    <3> QED BY <1>2, <2>1, <3>1, <3>2
  <2> QED BY <1>2, <2>1, <2>2, <2>3
<1>11. k - 1 + 1 = k
  BY <1>1, <1>5
<1> DEFINE n == k - 1
<1>12. /\ n \in 0 .. m /\ Ripe(now) = SubSeq(timerList, 1, n)
       /\ \A i \in 1 .. n : Left(timerList[i]) <= 1
       /\ \A i \in n + 1 .. m : Left(timerList[i]) >= 2
  BY <1>7, <1>8, <1>9, <1>10, <1>11
<1> HIDE DEF n
<1> QED BY <1>12 DEF now, m

\* The tick interrupt, told by the ticks that are left.
LEMMA TickIs ==
    ASSUME IInv, Tick
    PROVE  /\ UNCHANGED <<softList, delay, periodic, pc, seen, firing, held>>
           /\ tick' = Plus(tick, 1) /\ tick' \in 0 .. TickRange - 1
           /\ pc # "locked" /\ (stat = "ready" => stall < MaxStall)
           /\ stall' = IF stat = "ready" THEN stall + 1 ELSE stall
           /\ due' \in [Timers -> 0 .. TickRange - 1] /\ active' \in [Timers -> BOOLEAN]
           /\ timerList' \in Seq(HardTimers) /\ IsInjective(timerList')
           /\ ToSet(timerList') = {h \in ToSet(timerList) : Left(h) >= 2}
           /\ Sorted(timerList', Lefts)
           /\ stat' = IF Own \in ToSet(timerList) /\ Left(Own) <= 1 THEN "ready" ELSE stat
           /\ \A u \in ToSet(timerList') \cup ToSet(softList) : Left(u)' = Left(u) - 1 /\ due'[u] = due[u]
<1> DEFINE now == Plus(tick, 1)
           m == Len(timerList)
           ripe == Ripe(now)
<1>1. PICK n \in 0 .. m :
         /\ ripe = SubSeq(timerList, 1, n)
         /\ \A i \in 1 .. n : Left(timerList[i]) <= 1
         /\ \A i \in n + 1 .. m : Left(timerList[i]) >= 2
  BY RipeIs
<1>2. /\ timerList \in Seq(HardTimers) /\ IsInjective(timerList) /\ Sorted(timerList, Lefts)
      /\ m \in Nat /\ DOMAIN timerList = 1 .. m
      /\ \A h \in ToSet(timerList) : h \in Timers /\ Left(h) \in Int /\ Left(h) >= 0 /\ Left(h) <= Half - 1
  <2>1. timerList \in Seq(HardTimers) /\ IsInjective(timerList) /\ Sorted(timerList, Lefts)
    BY ListsAre DEF IInv, ListsOrdered
  <2>2. \A h \in ToSet(timerList) : Left(h) \in 0 .. Half - 1
    BY DEF IInv, Sleepers
  <2> QED BY <2>1, <2>2, ListsAre, LenProperties, Ranges
<1>3. /\ Len(ripe) = n /\ ToSet(ripe) = {timerList[i] : i \in 1 .. n}
      /\ SubSeq(timerList, n + 1, m) \in Seq(HardTimers) /\ IsInjective(SubSeq(timerList, n + 1, m))
      /\ ToSet(SubSeq(timerList, n + 1, m)) = {timerList[i] : i \in n + 1 .. m}
      /\ Sorted(SubSeq(timerList, n + 1, m), Lefts)
  BY <1>1, <1>2, Split
<1>4. /\ UNCHANGED <<softList, delay, periodic, pc, seen, firing, held>>
      /\ tick' = now
      /\ pc # "locked" /\ (stat = "ready" => stall < MaxStall)
      /\ stall' = IF stat = "ready" THEN stall + 1 ELSE stall
      /\ timerList' = SubSeq(timerList, Len(ripe) + 1, m)
      /\ active' = [t \in Timers |-> active[t] /\ t \notin ToSet(ripe)]
      /\ due' = [t \in Timers |-> IF t \in ToSet(ripe) THEN 0 ELSE due[t]]
      /\ stat' = IF Own \in ToSet(ripe) THEN "ready" ELSE stat
  BY DEF Tick, settings, callback
<1>5. now \in 0 .. TickRange - 1
  <2>1. 1 \in 0 .. Half
    BY NapsBound
  <2> QED BY <2>1, AwaySet, ListsAre
<1>6. /\ due' \in [Timers -> 0 .. TickRange - 1] /\ active' \in [Timers -> BOOLEAN]
  <2>1. 0 \in 0 .. TickRange - 1 /\ due \in [Timers -> 0 .. TickRange - 1] /\ active \in [Timers -> BOOLEAN]
    BY Ranges DEF IInv, TypeOK
  <2> QED BY <1>4, <2>1
<1> DEFINE rest == SubSeq(timerList, n + 1, m)
<1>7. timerList' = rest
  BY <1>3, <1>4
<1> HIDE DEF now, m, ripe, rest
<1>8. \A h \in ToSet(timerList) : h \in ToSet(ripe) <=> Left(h) <= 1
  <2>1. ASSUME NEW i \in 1 .. m
        PROVE  timerList[i] \in ToSet(ripe) <=> Left(timerList[i]) <= 1
    <3>1. i \in 1 .. n \/ i \in n + 1 .. m
      BY <1>1, <1>2
    <3>2. CASE i \in 1 .. n
      BY <1>1, <1>3, <3>2
    <3>3. CASE i \in n + 1 .. m
      <4>1. timerList[i] \in ToSet(timerList)
        BY <1>2 DEF ToSet
      <4>2. ~ (Left(timerList[i]) <= 1)
        BY <1>1, <1>2, <3>3, <4>1
      <4>3. \A j \in 1 .. n : timerList[j] # timerList[i]
        BY <1>1, <4>2
      <4> QED BY <1>3, <4>2, <4>3
    <3> QED BY <3>1, <3>2, <3>3
  <2> QED BY <1>2, <2>1 DEF ToSet
<1>9. ToSet(rest) = {h \in ToSet(timerList) : Left(h) >= 2}
  <2>1. ToSet(rest) = {timerList[i] : i \in n + 1 .. m}
    BY <1>3 DEF rest
  <2>2. ASSUME NEW i \in n + 1 .. m
        PROVE  timerList[i] \in ToSet(timerList) /\ Left(timerList[i]) >= 2
    <3>1. i \in 1 .. m
      BY <1>1, <1>2
    <3> QED BY <1>1, <1>2, <3>1 DEF ToSet
  <2>3. ASSUME NEW h \in ToSet(timerList), Left(h) >= 2
        PROVE  \E i \in n + 1 .. m : timerList[i] = h
    <3>1. PICK i \in 1 .. m : timerList[i] = h
      BY <1>2 DEF ToSet
    <3>2. i \notin 1 .. n
      BY <1>1, <1>2, <2>3, <3>1
    <3>3. i \in n + 1 .. m
      BY <1>1, <1>2, <3>2
    <3> QED BY <3>1, <3>3
  <2> QED BY <2>1, <2>2, <2>3
<1>10. ToSet(ripe) \subseteq ToSet(timerList)
  <2>1. \A i \in 1 .. n : i \in 1 .. m
    BY <1>1, <1>2
  <2> QED BY <1>2, <1>3, <2>1 DEF ToSet
<1>11. Own \in ToSet(ripe) <=> Own \in ToSet(timerList) /\ Left(Own) <= 1
  BY <1>8, <1>10
<1>12. ASSUME NEW u \in ToSet(rest) \cup ToSet(softList)
       PROVE  Left(u)' = Left(u) - 1 /\ due'[u] = due[u]
  <2>1. u \in Timers /\ u \notin ToSet(ripe)
    <3>1. CASE u \in ToSet(rest)
      <4>1. u \in ToSet(timerList) /\ Left(u) >= 2 /\ Left(u) \in Int
        BY <1>2, <1>9, <3>1
      <4> QED BY <1>2, <1>8, <4>1
    <3>2. CASE u \in ToSet(softList)
      BY <1>10, <3>2, ListsAre
    <3> QED BY <3>1, <3>2
  <2>2. due'[u] = due[u]
    BY <1>4, <2>1
  <2>3. Left(u) \in Int /\ Left(u) > -Half
    <3>1. CASE u \in ToSet(rest)
      <4>1. u \in ToSet(timerList) /\ Left(u) >= 2 /\ Left(u) \in Int
        BY <1>2, <1>9, <3>1
      <4> QED BY <4>1, Ranges
    <3>2. CASE u \in ToSet(softList)
      BY <3>2, SoftAhead
    <3> QED BY <3>1, <3>2
  <2>4. due[u] \in 0 .. TickRange - 1 /\ tick \in 0 .. TickRange - 1 /\ Left(u) = Away(due[u], tick)
    BY <2>1, LeftIsAway, ListsAre
  <2>5. Away(due[u], tick) > Half - TickRange + 1 /\ Half >= 1
    BY <2>3, <2>4, NapsBound, Ranges
  <2>6. Away(due[u], now) = Away(due[u], tick) - 1
    BY <2>4, <2>5, AwayTick DEF now
  <2>7. Left(u)' = Away(due'[u], tick')
    BY DEF Left, Away
  <2> QED BY <1>4, <2>2, <2>4, <2>6, <2>7
<1> QED BY <1>3, <1>4, <1>5, <1>6, <1>7, <1>9, <1>11, <1>12 DEF now, rest

LEMMA TickKeeps ==
    ASSUME IInv, Tick
    PROVE  IInv'
<1> DEFINE q == Lefts'
<1>1. /\ UNCHANGED <<softList, delay, periodic, pc, seen, firing, held>>
      /\ tick' = Plus(tick, 1) /\ tick' \in 0 .. TickRange - 1
      /\ pc # "locked" /\ (stat = "ready" => stall < MaxStall)
      /\ stall' = IF stat = "ready" THEN stall + 1 ELSE stall
      /\ due' \in [Timers -> 0 .. TickRange - 1] /\ active' \in [Timers -> BOOLEAN]
      /\ timerList' \in Seq(HardTimers) /\ IsInjective(timerList')
      /\ ToSet(timerList') = {h \in ToSet(timerList) : Left(h) >= 2}
      /\ Sorted(timerList', Lefts)
      /\ stat' = IF Own \in ToSet(timerList) /\ Left(Own) <= 1 THEN "ready" ELSE stat
      /\ \A u \in ToSet(timerList') \cup ToSet(softList) : Left(u)' = Left(u) - 1 /\ due'[u] = due[u]
  BY TickIs
<1>2. stall \in Nat /\ stall <= MaxStall /\ stall' \in 0 .. MaxStall /\ stat' \in {"ready", "suspend"}
  BY <1>1, RestIs, Ranges DEF IInv, TypeOK
<1>3. \A u \in Timers : q[u] = Left(u)'
  BY <1>1, LeftsNext
<1>4. \A u \in ToSet(timerList') \cup ToSet(softList) :
          u \in Timers /\ q[u] = Lefts[u] - 1 /\ Lefts[u] = Left(u) /\ Left(u) \in Int
  BY <1>1, <1>3, ListsAre
<1> HIDE DEF q
<1>5. Sorted(timerList', q) /\ IsInjective(softList) /\ Sorted(softList, q)
  <2>1. Sorted(softList, Lefts) /\ IsInjective(softList) /\ softList \in Seq(SoftTimers)
    BY ListsAre DEF IInv, ListsOrdered
  <2> DEFINE r == timerList'
  <2>2. Sorted(r, Lefts) /\ r \in Seq(HardTimers) /\ \A u \in ToSet(r) : q[u] = Lefts[u] - 1 /\ Lefts[u] \in Int
    BY <1>1, <1>4
  <2> HIDE DEF r
  <2>3. Sorted(r, q)
    BY <2>2, SortedShift
  <2>4. Sorted(softList, q)
    BY <1>4, <2>1, SortedShift
  <2> QED BY <2>1, <2>3, <2>4 DEF r
<1>6. TypeOK'
  BY <1>1, <1>2 DEF IInv, TypeOK
<1>7. ListsOrdered'
  BY <1>1, <1>5 DEF ListsOrdered, q
<1>8. Sleepers'
  <2>1. ASSUME NEW h \in ToSet(timerList') PROVE Left(h)' \in 1 .. Half - 1
    <3>1. h \in ToSet(timerList) /\ Left(h) >= 2 /\ Left(h)' = Left(h) - 1
      BY <1>1
    <3>2. Left(h) \in 0 .. Half - 1
      BY <3>1 DEF IInv, Sleepers
    <3> QED BY <3>1, <3>2, Ranges
  <2>2. Own \in ToSet(timerList') => stat' = "suspend"
    <3>1. ASSUME Own \in ToSet(timerList') PROVE stat' = "suspend"
      <4>1. Own \in ToSet(timerList) /\ Left(Own) >= 2 /\ Left(Own) \in Int
        BY <1>1, <1>4, <3>1
      <4> QED BY <1>1, <4>1 DEF IInv, Sleepers
    <3> QED BY <3>1
  <2> QED BY <2>1, <2>2, Ranges DEF Sleepers
<1>9. ASSUME stat' = "suspend", Own \in ToSet(timerList)
      PROVE  /\ Own \in ToSet(timerList') /\ Left(Own)' = Left(Own) - 1
             /\ Left(Own) \in Int /\ Left(Own) >= 2
  <2>1. Left(Own) \in Int
    BY ListsAre
  <2>2. Left(Own) >= 2
    BY <1>1, <1>9, <2>1
  <2> QED BY <1>1, <1>9, <2>1, <2>2
<1>10. stat' = "suspend" => stat = "suspend"
  BY <1>1
<1>11. ThreadState'
  <2>1. stat' = "suspend" /\ pc = "napped" => Own \in ToSet(timerList') /\ Left(Own)' <= Nap
    <3> SUFFICES ASSUME stat' = "suspend", pc = "napped"
                 PROVE  Own \in ToSet(timerList') /\ Left(Own)' <= Nap
      OBVIOUS
    <3>1. Own \in ToSet(timerList) /\ Left(Own) <= Nap
      BY <1>10 DEF IInv, ThreadState
    <3> QED BY <1>9, <3>1, NapsBound
  <2> QED BY <1>1, <1>10, <2>1 DEF IInv, ThreadState, Busy
<1>12. softList # <<>> =>
           /\ q[softList[1]] = Lefts[softList[1]] - 1 /\ due'[softList[1]] = due[softList[1]]
           /\ Lefts[softList[1]] \in Int
  BY <1>1, <1>4, HeadIs
<1>13. OnTheWay'
  <2>1. pc \in {"look", "stop", "measure", "sleep"} => stat = "ready"
    BY DEF IInv, ThreadState, TypeOK
  <2>2. pc \in {"look", "measure", "sleep"} /\ softList # <<>> =>
            q[softList[1]] + stall' = Lefts[softList[1]] + stall
    <3>1. stat = "ready" => stall' = stall + 1
      BY <1>1
    <3> QED BY <1>2, <1>12, <2>1, <3>1
  <2> QED BY <1>1, <1>12, <2>2 DEF IInv, OnTheWay, q
<1>14. Asleep'
  <2> SUFFICES ASSUME stat' = "suspend", ~ Busy, softList # <<>>
               PROVE  /\ Own \in ToSet(timerList')
                      /\ Left(Own)' <= q[softList[1]] + MaxStall
                      /\ 1 <= q[softList[1]] + MaxStall
    BY <1>1 DEF Asleep, Busy, q
  <2>1. /\ Own \in ToSet(timerList) /\ Left(Own) <= Lefts[softList[1]] + MaxStall
    BY <1>10 DEF IInv, Asleep
  <2> QED BY <1>9, <1>12, <2>1, Ranges
<1>15. NotTooLate'
  <2>1. ASSUME NEW i \in 1 .. Len(softList)
        PROVE  q[softList[i]] <= Longest /\ -q[softList[i]] <= Late(i)'
    <3> DEFINE x == Lefts[softList[i]]
               some == Naps[Number + 1 - i]
    <3>1. /\ q[softList[i]] = x - 1 /\ x \in Int /\ x <= Longest /\ -x <= Late(i)
          /\ Lefts[softList[1]] <= x
      BY <1>4, ListsAre DEF IInv, NotTooLate
    <3>2. some \in Nat /\ some >= 1
      <4>1. i \in 1 .. Number
        BY ListsAre, NapsBound
      <4> QED BY <4>1, NapsPlenty
    <3> DEFINE before == Late(i)
               after  == Late(i)'
    <3>3. before = MaxStall + stall + some - 1 - Rest
      BY DEF Late
    <3>4. after = MaxStall + stall' + some - 1 - Rest'
      BY DEF Late
    <3> SUFFICES x - 1 <= Longest /\ 1 - x <= after
      BY <3>1
    <3>10. -x <= before
      BY <3>1
    <3> HIDE DEF x, some, before, after
    <3>5. Rest \in Int /\ Longest \in Int
      BY RestIs, NapsBound
    <3>6. CASE stat = "ready"
      <4>1. stall' = stall + 1 /\ Rest' = Rest
        <5>1. Own \notin ToSet(timerList)
          BY <3>6 DEF IInv, Sleepers
        <5>2. stat' = "ready"
          BY <1>1, <3>6, <5>1
        <5> QED BY <1>1, <3>6, <5>2 DEF Rest
      <4> QED BY <1>2, <3>1, <3>2, <3>3, <3>4, <3>5, <3>10, <4>1, Ranges
    <3>7. CASE stat = "suspend" /\ Busy
      <4>1. pc = "napped" /\ Own \in ToSet(timerList) /\ Rest = Left(Own) /\ stall' = stall
        BY <1>1, <3>7 DEF IInv, ThreadState, Busy, Rest
      <4>2. Left(Own) \in Int /\ Left(Own) >= 1
        <5>1. Left(Own) \in 0 .. Half - 1 /\ Left(Own) # 0
          BY <3>7, <4>1 DEF IInv, Sleepers
        <5> QED BY <5>1, Ranges
      <4>3. Rest' = Rest - 1
        <5>1. CASE Left(Own) <= 1
          <6>1. stat' = "ready" /\ Left(Own) = 1 /\ Rest' = 0
            BY <1>1, <4>1, <4>2, <5>1 DEF Rest
          <6> QED BY <4>1, <6>1
        <5>2. CASE ~ (Left(Own) <= 1)
          <6>1. stat' = "suspend"
            BY <1>1, <3>7, <5>2
          <6>2. Left(Own)' = Left(Own) - 1
            BY <1>9, <4>1, <6>1
          <6>3. Rest' = Left(Own)'
            BY <1>1, <4>1, <6>1 DEF Rest
          <6> QED BY <4>1, <6>2, <6>3
        <5> QED BY <5>1, <5>2
      <4>4. stall \in Int /\ MaxStall \in Int
        BY <1>2, Ranges
      <4>5. after = before + 1 /\ before \in Int
        BY <3>2, <3>3, <3>4, <3>5, <4>1, <4>3, <4>4
      <4> QED BY <3>1, <3>5, <3>10, <4>5
    <3>8. CASE stat = "suspend" /\ ~ Busy
      <4>1. Rest' = 0 /\ stall' \in Nat
        BY <1>1, <1>2, <3>8, Ranges DEF Rest, Busy
      <4>2. softList # <<>> /\ 1 <= Lefts[softList[1]] + MaxStall /\ Lefts[softList[1]] \in Int
        <5>1. softList # <<>>
          BY EmptySeq, ListsAre
        <5> QED BY <1>12, <3>8, <5>1 DEF IInv, Asleep
      <4> DEFINE head == Lefts[softList[1]]
      <4>3. head <= x /\ head \in Int /\ 1 <= head + MaxStall
        BY <3>1, <4>2
      <4>4. stall' \in Int /\ stall' >= 0 /\ MaxStall \in Int
        BY <4>1, Ranges
      <4>5. after >= MaxStall /\ after \in Int
        <5> DEFINE r == Rest'
                   w == stall'
        <5>1. after = MaxStall + w + some - 1 - r /\ r = 0 /\ w \in Int /\ w >= 0
          BY <3>4, <4>1, <4>4
        <5> HIDE DEF r, w
        <5> QED BY <3>2, <4>4, <5>1
      <4> HIDE DEF head
      <4> QED BY <3>1, <3>5, <4>3, <4>4, <4>5
    <3>9. stat \in {"ready", "suspend"}
      BY DEF IInv, TypeOK
    <3> QED BY <3>6, <3>7, <3>8, <3>9
  <2> QED BY <1>1, <2>1 DEF NotTooLate, q
<1> QED BY <1>6, <1>7, <1>8, <1>11, <1>13, <1>14, <1>15 DEF IInv

LEMMA InvNext ==
    ASSUME IInv, [Next]_vars
    PROVE  IInv'
<1>1. CASE UNCHANGED vars
  <2>1. /\ UNCHANGED <<tick, timerList, softList, due, stat, stall, callback>> /\ pc' = pc
        /\ UNCHANGED <<seen, delay, periodic, active, firing, held>>
    BY <1>1 DEF vars, callback
  <2>2. Lefts' = Lefts
    BY <2>1, LeftKept DEF Lefts
  <2>3. TypeOK'
    BY <2>1 DEF IInv, TypeOK
  <2>4. OnTheWay'
    BY <2>1, <2>2 DEF IInv, OnTheWay
  <2> QED BY <2>1, <2>3, <2>4, ListsKept
<1>2. CASE TimerThread
  BY <1>2, LookKeeps, SuspendSelfKeeps, MeasureKeeps, SleepKeeps, FireKeeps, LeaveKeeps,
     CallbackReturnsKeeps DEF TimerThread
<1>3. CASE CallbackNaps
  BY <1>3, CallbackNapsKeeps
<1>4. CASE Tick
  BY <1>4, TickKeeps
<1>5. ASSUME NEW t \in SoftTimers, Start(t) \/ Stop(t) \/ Control(t) PROVE IInv'
  BY <1>5, StartKeeps, StopKeeps, ControlKeeps
<1>6. ASSUME NEW h \in ThreadTimers, OtherSleeps(h) \/ OtherWoken(h) PROVE IInv'
  BY <1>6, OtherSleepsKeeps, OtherWokenKeeps
<1> QED BY <1>1, <1>2, <1>3, <1>4, <1>5, <1>6 DEF Next

\* Of the timers for every number of soft timers and threads, every width of
\* the tick and every setting within half its range (TimelyAssumption): the
\* lists are in the order of the time left, no soft timer is later than the
\* callbacks in front of it make it, and the timer thread, wherever it is on
\* its way to sleep, does not sleep past the first one (timer.c).
THEOREM TimersInvariant == Spec => []IInv
<1>1. Init => IInv
  BY InvInit
<1>2. IInv /\ [Next]_vars => IInv'
  BY InvNext
<1> QED BY <1>1, <1>2, PTL DEF Spec

\* Ticks and timeouts stay within their width, the lists hold timers of their
\* kind and the timer thread is at a place of its loop (timer.c, the types of
\* struct rt_timer and of _timer_thread_entry).
THEOREM TimersTypes == Spec => []TypeOK
<1>1. IInv => TypeOK
  BY DEF IInv
<1> QED BY <1>1, TimersInvariant, PTL

\* While the timer thread sleeps for timers its own timer runs out when the
\* first soft timer is due, but for the ticks lost on its way to sleep, whoever
\* started or stopped timers since it looked (timer.c:789-806, 494-501).
THEOREM TimerSleepsNoLonger == Spec => []SleepsNoLonger
<1>1. ASSUME IInv PROVE SleepsNoLonger
  <2>1. SUFFICES ASSUME stat = "suspend", ~ Busy, softList # <<>>
                 PROVE  /\ Own \in ToSet(timerList)
                        /\ LET first == Left(Head(softList))
                           IN  Left(Own) <= MaxStall + IF first > 0 THEN first ELSE 0
    BY DEF SleepsNoLonger
  <2> DEFINE first == Left(softList[1])
  <2>2. Head(softList) = softList[1] /\ Lefts[softList[1]] = first /\ first \in Int
    BY <1>1, <2>1, HeadIs
  <2>3. Own \in ToSet(timerList) /\ Left(Own) <= first + MaxStall
    BY <1>1, <2>1, <2>2 DEF IInv, Asleep
  <2>4. Left(Own) \in Int /\ MaxStall \in Int
    BY <1>1, ListsAre, Ranges
  <2> HIDE DEF first
  <2>5. Left(Own) <= MaxStall + IF first > 0 THEN first ELSE 0
    BY <2>2, <2>3, <2>4
  <2> QED BY <2>2, <2>3, <2>5 DEF first
<1> QED BY <1>1, TimersInvariant, PTL

\* When the tick interrupt is over nothing on the list of thread timers is due,
\* but a sleep of no ticks just begun by the timer thread, whose timer runs only
\* while it is suspended (rt_timer_check; the assertion of _thread_timeout).
THEOREM TimersWakeAtTheirTick == Spec => []WakesAtItsTick
<1>1. ASSUME IInv PROVE WakesAtItsTick
  <2>1. ASSUME NEW h \in ToSet(timerList) PROVE Left(h) > 0 \/ (h = Own /\ Left(h) = 0)
    <3>1. Left(h) \in 0 .. Half - 1 /\ (Left(h) = 0 => h = Own)
      BY <1>1 DEF IInv, Sleepers
    <3> QED BY <3>1, Ranges
  <2> QED BY <1>1, <2>1 DEF IInv, Sleepers, WakesAtItsTick
<1> QED BY <1>1, TimersInvariant, PTL

\* What is one tick ahead is the next tick.
LEMMA AwayOne ==
    ASSUME NEW when \in 0 .. TickRange - 1, NEW now \in 0 .. TickRange - 1, Away(when, now) = 1
    PROVE  Plus(now, 1) = when
<1>1. 1 \in 0 .. TickRange - 1
  <2>1. 1 <= Half
    BY AwayIs
  <2> QED BY <2>1, Ranges
<1>2. Plus(now, 1) = IF now + 1 < TickRange THEN now + 1 ELSE now + 1 - TickRange
  BY <1>1, PlusIs
<1>3. Minus(when, now) = IF when >= now THEN when - now ELSE when - now + TickRange
  BY MinusIs
<1>4. Minus(when, now) = 1
  BY AwayIs
<1> QED BY <1>2, <1>3, <1>4, Ranges

\* A callback that sleeps, sleeps its time: a timer that is started meanwhile
\* does not resume the timer thread, only the tick that its own timer was set
\* to does (_soft_timer_status, timer.c:494, 741-754).
THEOREM CallbackSleeps == Spec => CallbackSleepsItsTime
<1>1. ASSUME IInv, [Next]_vars, stat = "suspend", Busy, stat' = "ready"
      PROVE  tick' = due[Own]
  <2>1. Tick
    BY <1>1 DEF Next, vars, TimerThread, Look, SuspendSelf, Measure, Sleep, Fire, Leave,
       CallbackReturns, CallbackNaps, Runs, Start, Starting, Waits, Stop, Control,
       OtherSleeps, OtherWoken, thread
  <2>2. tick' = Plus(tick, 1) /\ Own \in ToSet(timerList) /\ Left(Own) <= 1
    BY <1>1, <2>1, TickIs
  <2>3. Left(Own) \in 0 .. Half - 1 /\ Left(Own) # 0
    BY <1>1, <2>2 DEF IInv, Sleepers
  <2>4. Away(due[Own], tick) = 1
    BY <2>2, <2>3, Ranges, LeftIsAway
  <2>5. due[Own] \in 0 .. TickRange - 1 /\ tick \in 0 .. TickRange - 1
    BY <1>1, ListsAre
  <2> QED BY <2>2, <2>4, <2>5, AwayOne
<1>2. IInv /\ [Next]_vars => [stat = "suspend" /\ Busy /\ stat' = "ready" => tick' = due[Own]]_vars
  BY <1>1
<1> QED BY <1>2, TimersInvariant, PTL DEF Spec, CallbackSleepsItsTime

-----------------------------------------------------------------------------
(* The soft timers are alarms.                                             *)

AlarmOf == [t \in SoftTimers |-> IF t \in ToSet(softList) THEN Left(t) ELSE Nobody]

\* What the steps of Alarm ask, in these words.
LEMMA AlarmSteps ==
    /\ AlarmOf' = AlarmOf /\ firing' = firing => UNCHANGED SoftAlarm!avars
    /\ \A a \in SoftTimers, d \in 1 .. Half - 1 :
          AlarmOf' = [AlarmOf EXCEPT ![a] = d] /\ firing' = firing => SoftAlarm!Next
    /\ \A a \in SoftTimers :
          AlarmOf' = [AlarmOf EXCEPT ![a] = Nobody] /\ firing' = firing => SoftAlarm!Next
    /\ \A a \in SoftTimers :
          /\ AlarmOf[a] # Nobody /\ AlarmOf[a] <= 0
          /\ \A b \in SoftTimers : AlarmOf[b] # Nobody => AlarmOf[a] <= AlarmOf[b]
          /\ firing = Nobody /\ firing' = a
          /\ AlarmOf' = [AlarmOf EXCEPT ![a] = Nobody]
          => SoftAlarm!Next
    /\ \A a \in SoftTimers :
          firing = a /\ firing' = Nobody /\ AlarmOf' = AlarmOf => SoftAlarm!Next
    /\ \A a \in SoftTimers, d \in 1 .. Half - 1 :
          firing = a /\ firing' = Nobody /\ AlarmOf[a] = Nobody /\ AlarmOf' = [AlarmOf EXCEPT ![a] = d]
          => SoftAlarm!Next
    /\ AlarmOf' = [t \in SoftTimers |-> IF AlarmOf[t] = Nobody THEN Nobody ELSE AlarmOf[t] - 1]
       /\ firing' = firing
       => SoftAlarm!Next
BY DEF AlarmOf, SoftAlarm!avars, SoftAlarm!Next, SoftAlarm!Start, SoftAlarm!Stop, SoftAlarm!Fire,
   SoftAlarm!Done, SoftAlarm!Tick

\* What a timer shows Alarm, and a change of one of them.
LEMMA AlarmIs ==
    /\ AlarmOf = [u \in SoftTimers |-> AlarmOf[u]]
    /\ AlarmOf' = [u \in SoftTimers |-> AlarmOf'[u]]
    /\ \A u \in SoftTimers : AlarmOf[u] = IF u \in ToSet(softList) THEN Left(u) ELSE Nobody
    /\ \A u \in SoftTimers : AlarmOf'[u] = IF u \in ToSet(softList') THEN Left(u)' ELSE Nobody
BY DEF AlarmOf, ToSet

LEMMA AlarmSame ==
    ASSUME \A u \in SoftTimers : AlarmOf'[u] = AlarmOf[u]
    PROVE  AlarmOf' = AlarmOf
BY AlarmIs

LEMMA AlarmSet ==
    ASSUME NEW t \in SoftTimers, NEW d, AlarmOf'[t] = d,
           \A u \in SoftTimers \ {t} : AlarmOf'[u] = AlarmOf[u]
    PROVE  AlarmOf' = [AlarmOf EXCEPT ![t] = d]
<1>1. AlarmOf' = [u \in SoftTimers |-> AlarmOf'[u]]
  BY AlarmIs
<1>2. [AlarmOf EXCEPT ![t] = d] = [u \in SoftTimers |-> IF u = t THEN d ELSE AlarmOf[u]]
  BY AlarmIs
<1> QED BY <1>1, <1>2

\* A step that leaves the soft list and its timeouts alone.
LEMMA AlarmQuiet ==
    ASSUME softList' = softList, tick' = tick, firing' = firing,
           \A u \in ToSet(softList) : due'[u] = due[u]
    PROVE  UNCHANGED SoftAlarm!avars
<1>1. \A u \in ToSet(softList) : Left(u)' = Left(u)
  BY LeftKept
<1>2. \A u \in SoftTimers : AlarmOf'[u] = AlarmOf[u]
  BY <1>1, AlarmIs
<1> QED BY <1>2, AlarmSame, AlarmSteps

LEMMA AlarmStart ==
    ASSUME IInv, NEW t \in SoftTimers, Start(t)
    PROVE  SoftAlarm!Next
<1> DEFINE d == delay[t]
<1>1. /\ tick' = tick /\ firing' = firing
      /\ softList' = Queued(softList, t, Plus(tick, d))
      /\ due' = [due EXCEPT ![t] = Plus(tick, d), ![Own] = IF Waits THEN 0 ELSE @]
  BY DEF Start, Starting
<1>2. d \in 1 .. Half - 1 /\ d \in 1 .. Longest
  <2>1. d \in 1 .. Half - 1 /\ d \in DelaysOf[t]
    BY DEF IInv, TypeOK, Settings
  <2> HIDE DEF d
  <2>2. d <= Longest
    BY <2>1, DelaysFit
  <2> QED BY <2>1, <2>2, NapsBound, Ranges
<1> HIDE DEF d
<1>3. d \in 0 .. Half
  BY <1>2, Ranges
<1>4. /\ due' \in [Timers -> 0 .. TickRange - 1] /\ due'[t] = Plus(tick, d)
      /\ \A u \in ToSet(softList) \ {t} : due'[u] = due[u]
  <2>1. due \in [Timers -> 0 .. TickRange - 1] /\ 0 \in 0 .. TickRange - 1 /\ Plus(tick, d) \in 0 .. TickRange - 1
    BY <1>3, AwaySet, ListsAre, Ranges DEF IInv, TypeOK
  <2>2. t \in Timers /\ Own \in Timers /\ t # Own /\ Own \notin ToSet(softList) /\ ToSet(softList) \subseteq Timers
    BY ListsAre
  <2> QED BY <1>1, <2>1, <2>2
<1>5. /\ ToSet(softList') = ToSet(softList) \cup {t} /\ Left(t)' = d
      /\ \A u \in ToSet(softList) \ {t} : Left(u)' = Left(u)
  BY <1>1, <1>2, <1>4, SoftSet
<1>6. AlarmOf'[t] = d /\ \A u \in SoftTimers \ {t} : AlarmOf'[u] = AlarmOf[u]
  BY <1>5, AlarmIs
<1> QED BY <1>1, <1>2, <1>6, AlarmSet, AlarmSteps

LEMMA AlarmStop ==
    ASSUME IInv, NEW t \in SoftTimers, Stop(t)
    PROVE  SoftAlarm!Next
<1>1. /\ tick' = tick /\ firing' = firing
      /\ softList' = Without(softList, t) /\ due' = Cleared(due, t)
  BY DEF Stop
<1>2. /\ due' \in [Timers -> 0 .. TickRange - 1]
      /\ \A u \in ToSet(softList) \ {t} : due'[u] = due[u]
  BY <1>1, ListsAre, Ranges DEF IInv, TypeOK, Cleared
<1>3. /\ ToSet(softList') = ToSet(softList) \ {t}
      /\ \A u \in ToSet(softList) \ {t} : Left(u)' = Left(u)
  BY <1>1, <1>2, SoftGone
<1>4. AlarmOf'[t] = Nobody /\ \A u \in SoftTimers \ {t} : AlarmOf'[u] = AlarmOf[u]
  BY <1>3, AlarmIs
<1> QED BY <1>1, <1>4, AlarmSet, AlarmSteps

\* The timer that fires is late, and no other is due before it.
LEMMA AlarmFire ==
    ASSUME IInv, Fire
    PROVE  SoftAlarm!Next
<1> DEFINE t == softList[1]
<1>1. /\ tick' = tick /\ softList # <<>> /\ IsDue(Head(softList), tick)
      /\ firing' = Head(softList) /\ due' = Cleared(due, Head(softList))
      /\ softList' = Tail(softList) /\ stat = "ready" /\ pc \in {"check", "locked"}
  BY DEF Fire, Runs
<1>2. /\ Head(softList) = t /\ t \in SoftTimers /\ t \in Timers /\ t \in ToSet(softList)
      /\ Left(t) \in Int /\ Left(t) <= 0 /\ Lefts[t] = Left(t)
  BY <1>1, HeadIs
<1>3. \A u \in ToSet(softList) : Left(t) <= Left(u)
  <2>1. SUFFICES ASSUME NEW u \in ToSet(softList) PROVE Lefts[t] <= Lefts[u]
    BY <1>2, ListsAre
  <2>2. PICK i \in 1 .. Len(softList) : softList[i] = u
    BY ListsAre, LenProperties DEF ToSet
  <2> QED BY <2>2, ListsAre
<1>4. ToSet(Tail(softList)) = ToSet(softList) \ {t}
  <2>1. softList \in Seq(SoftTimers) /\ IsInjective(softList)
    BY ListsAre DEF IInv, ListsOrdered
  <2> QED BY <1>1, <2>1, TailOf DEF t
<1> HIDE DEF t
<1>5. \A u \in ToSet(softList) \ {t} : Left(u)' = Left(u)
  <2>1. \A u \in Timers \ {t} : due'[u] = due[u]
    BY <1>1, <1>2 DEF IInv, TypeOK, Cleared
  <2>2. \A u \in ToSet(softList) \ {t} : due'[u] = due[u]
    BY <2>1, ListsAre
  <2> QED BY <1>1, <2>2, LeftKept
<1>6. AlarmOf'[t] = Nobody /\ \A u \in SoftTimers \ {t} : AlarmOf'[u] = AlarmOf[u]
  BY <1>1, <1>2, <1>4, <1>5, AlarmIs
<1>7. firing = Nobody /\ firing' = t
  BY <1>1, <1>2 DEF IInv, ThreadState, Busy
<1>8. AlarmOf[t] # Nobody /\ AlarmOf[t] <= 0
  BY <1>2, AlarmIs, TimelyAssumption DEF TimelyAssumption
<1>9. \A b \in SoftTimers : AlarmOf[b] # Nobody => AlarmOf[t] <= AlarmOf[b]
  BY <1>2, <1>3, AlarmIs
<1> QED BY <1>2, <1>6, <1>7, <1>8, <1>9, AlarmSet, AlarmSteps

LEMMA AlarmDone ==
    ASSUME IInv, CallbackReturns
    PROVE  SoftAlarm!Next
<1>1. firing \in SoftTimers
  BY DEF CallbackReturns, Runs, IInv, ThreadState, TypeOK, Busy
<1>2. PICK a \in SoftTimers : firing = a
  BY <1>1
<1> DEFINE again == held /\ periodic[a] /\ active[a]
           when == Plus(tick, delay[a])
           d == delay[a]
<1>3. /\ tick' = tick /\ firing' = Nobody
      /\ again => due' = [due EXCEPT ![a] = when] /\ softList' = Queued(softList, a, due'[a])
      /\ ~ again => UNCHANGED <<due, softList>>
      /\ again => a \notin ToSet(softList)
  <2>1. held => a \notin ToSet(softList)
    BY <1>2 DEF IInv, ThreadState
  <2> QED BY <1>2, <2>1 DEF CallbackReturns
<1>4. d \in 1 .. Half - 1 /\ d \in 1 .. Longest
  <2>1. d \in 1 .. Half - 1 /\ d \in DelaysOf[a]
    BY DEF IInv, TypeOK, Settings
  <2> HIDE DEF d
  <2>2. d <= Longest
    BY <2>1, DelaysFit
  <2> QED BY <2>1, <2>2, NapsBound, Ranges
<1> HIDE DEF d
<1>5. d \in 0 .. Half
  BY <1>4, Ranges
<1>6. when = Plus(tick, d) /\ when \in 0 .. TickRange - 1
  BY <1>5, AwaySet, ListsAre DEF d
<1> HIDE DEF when, again
<1>7. CASE again
  <2>1. /\ due' \in [Timers -> 0 .. TickRange - 1] /\ due'[a] = Plus(tick, d)
        /\ \A u \in Timers \ {a} : due'[u] = due[u]
    <3>1. due \in [Timers -> 0 .. TickRange - 1] /\ a \in Timers
      BY ListsAre DEF IInv, TypeOK
    <3> QED BY <1>3, <1>6, <1>7, <3>1
  <2>2. \A u \in ToSet(softList) \ {a} : due'[u] = due[u]
    BY <2>1, ListsAre
  <2>3. softList' = Queued(softList, a, Plus(tick, d))
    BY <1>3, <1>7, <2>1
  <2>4. /\ ToSet(softList') = ToSet(softList) \cup {a} /\ Left(a)' = d
        /\ \A u \in ToSet(softList) \ {a} : Left(u)' = Left(u)
    BY <1>3, <1>4, <2>1, <2>2, <2>3, SoftSet
  <2>5. /\ AlarmOf[a] = Nobody
        /\ AlarmOf'[a] = d /\ \A u \in SoftTimers \ {a} : AlarmOf'[u] = AlarmOf[u]
    BY <1>3, <1>7, <2>4, AlarmIs
  <2>6. AlarmOf' = [AlarmOf EXCEPT ![a] = d]
    BY <2>5, AlarmSet
  <2> QED BY <1>2, <1>3, <1>4, <2>5, <2>6, AlarmSteps
<1>8. CASE ~ again
  <2>1. \A u \in ToSet(softList) : Left(u)' = Left(u)
    BY <1>3, <1>8, LeftKept
  <2>2. \A u \in SoftTimers : AlarmOf'[u] = AlarmOf[u]
    BY <1>3, <1>8, <2>1, AlarmIs
  <2> QED BY <1>2, <1>3, <2>2, AlarmSame, AlarmSteps
<1> QED BY <1>7, <1>8

LEMMA AlarmTick ==
    ASSUME IInv, Tick
    PROVE  SoftAlarm!Next
<1>1. /\ softList' = softList /\ firing' = firing
      /\ \A u \in ToSet(softList) : Left(u)' = Left(u) - 1
  BY TickIs
<1>2. \A u \in ToSet(softList) : Left(u) # Nobody
  BY ListsAre, TimelyAssumption DEF TimelyAssumption
<1>3. \A u \in SoftTimers : AlarmOf'[u] = IF AlarmOf[u] = Nobody THEN Nobody ELSE AlarmOf[u] - 1
  BY <1>1, <1>2, AlarmIs
<1>4. AlarmOf' = [u \in SoftTimers |-> IF AlarmOf[u] = Nobody THEN Nobody ELSE AlarmOf[u] - 1]
  BY <1>3, AlarmIs
<1> QED BY <1>1, <1>4, AlarmSteps

\* The steps that do not concern soft timers.
LEMMA AlarmSleeps ==
    ASSUME IInv, NEW h \in HardTimers, NEW d, SleepFor(h, d),
           softList' = softList, tick' = tick, firing' = firing
    PROVE  UNCHANGED SoftAlarm!avars
<1>1. \A u \in ToSet(softList) : due'[u] = due[u]
  <2>1. \A u \in ToSet(softList) : u \in Timers /\ u # h
    BY ListsAre
  <2> QED BY <2>1 DEF SleepFor, IInv, TypeOK
<1> QED BY <1>1, AlarmQuiet

LEMMA AlarmCleared ==
    ASSUME IInv, NEW h \in HardTimers, due' = Cleared(due, h),
           softList' = softList, tick' = tick, firing' = firing
    PROVE  UNCHANGED SoftAlarm!avars
<1>1. \A u \in ToSet(softList) : due'[u] = due[u]
  <2>1. \A u \in ToSet(softList) : u \in Timers /\ u # h
    BY ListsAre
  <2> QED BY <2>1 DEF Cleared, IInv, TypeOK
<1> QED BY <1>1, AlarmQuiet

LEMMA AlarmInit ==
    ASSUME Init
    PROVE  SoftAlarm!Init
<1>1. softList = <<>> /\ firing = Nobody
  BY DEF Init
<1>2. ToSet(softList) = {}
  BY <1>1 DEF ToSet
<1>3. AlarmOf = [t \in SoftTimers |-> Nobody]
  BY <1>2 DEF AlarmOf
<1> QED BY <1>1, <1>3 DEF SoftAlarm!Init, AlarmOf

LEMMA AlarmNext ==
    ASSUME IInv, [Next]_vars
    PROVE  [SoftAlarm!Next]_(SoftAlarm!avars)
<1> SUFFICES SoftAlarm!Next \/ UNCHANGED SoftAlarm!avars
  OBVIOUS
<1>1. CASE UNCHANGED vars
  BY <1>1, AlarmQuiet DEF vars
<1>2. CASE TimerThread
  <2>1. CASE Look \/ Measure \/ Leave
    BY <2>1, AlarmQuiet DEF Look, Measure, Leave, callback
  <2>2. CASE SuspendSelf
    BY <2>2, AlarmCleared DEF SuspendSelf, callback, HardTimers
  <2>3. CASE Sleep
    BY <2>3, AlarmSleeps DEF Sleep, callback, HardTimers
  <2>4. CASE Fire
    BY <2>4, AlarmFire
  <2>5. CASE CallbackReturns
    BY <2>5, AlarmDone
  <2> QED BY <1>2, <2>1, <2>2, <2>3, <2>4, <2>5 DEF TimerThread
<1>3. CASE CallbackNaps
  <2>1. PICK d \in DelaysOf[Own] : SleepFor(Own, d)
    BY <1>3 DEF CallbackNaps
  <2> QED BY <1>3, <2>1, AlarmSleeps DEF CallbackNaps, callback, HardTimers
<1>4. CASE Tick
  BY <1>4, AlarmTick
<1>5. ASSUME NEW t \in SoftTimers, Start(t) \/ Stop(t) \/ Control(t)
      PROVE  SoftAlarm!Next \/ UNCHANGED SoftAlarm!avars
  <2>1. CASE Start(t)
    BY <2>1, AlarmStart
  <2>2. CASE Stop(t)
    BY <2>2, AlarmStop
  <2>3. CASE Control(t)
    BY <2>3, AlarmQuiet DEF Control, callback
  <2> QED BY <1>5, <2>1, <2>2, <2>3
<1>6. ASSUME NEW h \in ThreadTimers, OtherSleeps(h) \/ OtherWoken(h)
      PROVE  UNCHANGED SoftAlarm!avars
  <2>1. h \in HardTimers
    BY DEF HardTimers
  <2>2. CASE OtherSleeps(h)
    <3>1. PICK d \in DelaysOf[h] : SleepFor(h, d)
      BY <2>2 DEF OtherSleeps
    <3> QED BY <2>1, <2>2, <3>1, AlarmSleeps DEF OtherSleeps, callback
  <2>3. CASE OtherWoken(h)
    BY <2>1, <2>3, AlarmCleared DEF OtherWoken, callback
  <2> QED BY <1>6, <2>2, <2>3
<1> QED BY <1>1, <1>2, <1>3, <1>4, <1>5, <1>6 DEF Next

\* The soft timers keep the promise of Alarm for any number of them and any
\* width of the tick: one goes off when its time has come, in its turn, and
\* once for each start, although the ticks wrap and callbacks start, stop and
\* outsleep other timers (rt_soft_timer_check, rt_timer_start).
THEOREM SoftTimersAreAlarms == Spec => IsAlarm
<1>1. Init => SoftAlarm!Init
  BY AlarmInit
<1>2. IInv /\ [Next]_vars => [SoftAlarm!Next]_(SoftAlarm!avars)
  BY AlarmNext
<1> QED BY <1>1, <1>2, TimersInvariant, PTL DEF Spec, IsAlarm, SoftAlarm!Spec
=============================================================================
