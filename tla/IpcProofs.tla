------------------------------ MODULE IpcProofs ------------------------------
(***************************************************************************)
(* What the semaphore, the event, the mailbox and the mutexes of the       *)
(* kernel keep, for any number of threads, values, bits and mutexes: the   *)
(* wait lists first, which three of them share, then each object by        *)
(* itself, then all of them together.                                      *)
(***************************************************************************)
EXTENDS IpcObjects, ListLemmas

-----------------------------------------------------------------------------
(***************************************************************************)
(* Wait lists.                                                             *)
(***************************************************************************)
OnCall(on) == {t \in Threads : th[t].on = on /\ th[t].error = "EOK"}

InLine(list, M) ==
    /\ IsInjective(list)
    /\ ToSet(list) \subseteq M
    /\ Flag = "PRIO" => Sorted(list, Prio)

LEMMA InOrderInLine ==
    ASSUME NEW list \in Seq(Threads), NEW on
    PROVE  InOrder(list, on) <=> InLine(list, OnCall(on))
<1>1. ToSet(list) \subseteq Threads
  BY LenProperties, ElementOfSeq DEF ToSet
<1> QED BY <1>1 DEF InOrder, InLine, OnCall, Sorted

LEMMA PlaceIs ==
    ASSUME NEW list \in Seq(Threads), NEW t \in Threads
    PROVE  /\ Place(list, t) \in 1 .. Len(list) + 1
           /\ Flag = "PRIO" =>
                 /\ Place(list, t) <= Len(list) => Prio[t] < Prio[list[Place(list, t)]]
                 /\ \A j \in 1 .. Place(list, t) - 1 : Prio[t] >= Prio[list[j]]
<1> DEFINE P(i) == /\ i <= Len(list) => Flag = "PRIO" /\ Prio[t] < Prio[list[i]]
                   /\ Flag = "PRIO" => \A j \in 1 .. i - 1 : Prio[t] >= Prio[list[j]]
<1>1. Len(list) \in Nat /\ Prio \in [Threads -> Int]
  <2>1. Prio \in [Threads -> Nat]
    BY WaitingAssumption DEF WaitingAssumption
  <2> QED BY <2>1, LenProperties
<1>2. \E i \in 1 .. Len(list) + 1 : P(i)
  <2>1. CASE Flag = "PRIO"
    <3>1. \E i \in 1 .. Len(list) + 1 :
             /\ i <= Len(list) => Prio[t] < Prio[list[i]]
             /\ \A j \in 1 .. i - 1 : Prio[t] >= Prio[list[j]]
      BY <1>1, PlaceInSorted
    <3> QED BY <2>1, <3>1
  <2>2. CASE Flag # "PRIO"
    <3>1. Len(list) + 1 \in 1 .. Len(list) + 1 /\ ~ (Len(list) + 1 <= Len(list))
      BY <1>1
    <3> QED BY <2>2, <3>1
  <2> QED BY <2>1, <2>2
<1>3. Place(list, t) = CHOOSE i \in 1 .. Len(list) + 1 : P(i)
  BY DEF Place
<1>4. Place(list, t) \in 1 .. Len(list) + 1 /\ P(Place(list, t))
  <2> HIDE DEF P
  <2> QED BY <1>2, <1>3
<1> QED BY <1>4

\* A call joins a line where Place says.
LEMMA LineJoined ==
    ASSUME NEW list \in Seq(Threads), NEW M, InLine(list, M), NEW t \in Threads,
           t \notin ToSet(list), NEW N, ToSet(list) \subseteq N, t \in N
    PROVE  /\ Suspended(list, t) \in Seq(Threads) /\ InLine(Suspended(list, t), N)
           /\ ToSet(Suspended(list, t)) = ToSet(list) \cup {t}
<1> DEFINE i == Place(list, t)
<1>1. /\ i \in 1 .. Len(list) + 1
      /\ Flag = "PRIO" /\ i <= Len(list) => Prio[t] < Prio[list[i]]
      /\ Flag = "PRIO" => \A j \in 1 .. i - 1 : Prio[t] >= Prio[list[j]]
  BY PlaceIs
<1> HIDE DEF i
<1>2. /\ InsertAt(list, i, t) \in Seq(Threads)
      /\ ToSet(InsertAt(list, i, t)) = ToSet(list) \cup {t}
      /\ IsInjective(InsertAt(list, i, t))
  BY <1>1, InsertAtOf DEF InLine
<1>3. ASSUME Flag = "PRIO" PROVE Sorted(InsertAt(list, i, t), Prio)
  <2>1. Len(list) \in Nat /\ \A j \in 1 .. Len(list) : list[j] \in Threads
    BY LenProperties, ElementOfSeq
  <2>2. Prio \in [Threads -> Nat]
    BY WaitingAssumption DEF WaitingAssumption
  <2>3. i <= Len(list) => Prio[t] <= Prio[list[i]]
    <3>1. i <= Len(list) => i \in 1 .. Len(list)
      BY <1>1, <2>1
    <3>2. i <= Len(list) => Prio[list[i]] \in Nat /\ Prio[t] \in Nat
      BY <2>1, <2>2, <3>1
    <3> QED BY <1>1, <1>3, <3>2
  <2>4. Sorted(list, Prio)
    BY <1>3 DEF InLine
  <2>5. \A j \in 1 .. i - 1 : Prio[t] >= Prio[list[j]]
    BY <1>1, <1>3
  <2> QED BY <1>1, <2>2, <2>3, <2>4, <2>5, InsertSorted
<1>4. Suspended(list, t) = InsertAt(list, i, t)
  BY DEF Suspended, i
<1> QED BY <1>2, <1>3, <1>4 DEF InLine

\* The place of a call in its line.
LEMMA WithoutIs ==
    ASSUME NEW S, NEW list \in Seq(S), NEW t \in ToSet(list)
    PROVE  \E i \in 1 .. Len(list) : list[i] = t /\ Without(list, t) = RemoveAt(list, i)
<1> DEFINE i == CHOOSE i \in DOMAIN list : list[i] = t
<1>1. DOMAIN list = 1 .. Len(list)
  BY LenProperties
<1>2. i \in DOMAIN list /\ list[i] = t
  BY DEF ToSet
<1>3. Without(list, t) = RemoveAt(list, i)
  BY DEF Without
<1> QED BY <1>1, <1>2, <1>3

\* A call leaves a line, from anywhere in it.
LEMMA LineLeft ==
    ASSUME NEW list \in Seq(Threads), NEW M, InLine(list, M), NEW t \in ToSet(list),
           NEW N, M \subseteq N \cup {t}
    PROVE  /\ Without(list, t) \in Seq(Threads) /\ InLine(Without(list, t), N)
           /\ ToSet(Without(list, t)) = ToSet(list) \ {t}
<1>1. PICK i \in 1 .. Len(list) : list[i] = t /\ Without(list, t) = RemoveAt(list, i)
  BY WithoutIs
<1>2. /\ RemoveAt(list, i) \in Seq(Threads)
      /\ ToSet(RemoveAt(list, i)) = ToSet(list) \ {list[i]}
      /\ IsInjective(RemoveAt(list, i))
  BY RemoveAtOf DEF InLine
<1>3. Flag = "PRIO" => Sorted(RemoveAt(list, i), Prio)
  BY RemoveSorted DEF InLine
<1> QED BY <1>1, <1>2, <1>3 DEF InLine

\* The first of a line is resumed.
LEMMA LineAdvanced ==
    ASSUME NEW list \in Seq(Threads), list # <<>>, NEW M, NEW N, InLine(list, M), M \subseteq N
    PROVE  /\ Tail(list) \in Seq(Threads) /\ InLine(Tail(list), N)
           /\ list[1] \in ToSet(list) /\ ToSet(Tail(list)) = ToSet(list) \ {list[1]}
<1>1. /\ Tail(list) \in Seq(Threads) /\ IsInjective(Tail(list))
      /\ list[1] \in ToSet(list) /\ ToSet(Tail(list)) = ToSet(list) \ {list[1]}
  BY TailOf DEF InLine
<1>2. Flag = "PRIO" => Sorted(Tail(list), Prio)
  BY TailSorted DEF InLine
<1> QED BY <1>1, <1>2 DEF InLine

\* The first of a line is resumed, if there is one, for one thing more to fetch.
LEMMA LineResumed ==
    ASSUME NEW list \in Seq(Threads), NEW M, NEW N, InLine(list, M), M \subseteq N,
           NEW n \in Nat, NEW X, IsFiniteSet(X), M \subseteq X, Promised(n, list, M)
    PROVE  Resumed(list) \in Seq(Threads) /\ InLine(Resumed(list), N) /\ Promised(n + 1, Resumed(list), X)
<1>1. CASE list = <<>>
  <2>1. InLine(list, N)
    BY DEF InLine
  <2> QED BY <1>1, <2>1 DEF Resumed, Promised
<1>2. CASE list # <<>>
  <2>1. Resumed(list) = Tail(list)
    BY <1>2 DEF Resumed
  <2>2. Promised(n + 1, Tail(list), X)
    <3>1. IsInjective(list) /\ ToSet(list) \subseteq M
      BY DEF InLine
    <3> QED BY <1>2, <3>1, OwedPaid
  <2> QED BY <1>2, <2>1, <2>2, LineAdvanced
<1> QED BY <1>1, <1>2

\* Nobody waits any more.
LEMMA NobodyInLine ==
    ASSUME NEW M, NEW W, NEW n
    PROVE  InLine(<<>>, M) /\ Promised(n, <<>>, W) /\ ToSet(<<>>) = {}
<1>1. ToSet(<<>>) = {} /\ IsInjective(<<>>) /\ Len(<<>>) = 0
  BY DEF ToSet, IsInjective
<1>2. Sorted(<<>>, Prio)
  BY <1>1 DEF Sorted
<1> QED BY <1>1, <1>2 DEF InLine, Promised

ThOK == th \in [Threads -> Calls]

\* A call that sleeps, returns or times out changes its own thread only.
LEMMA MovesOn ==
    ASSUME ThOK, NEW t \in Threads, NEW r \in Calls, th' = [th EXCEPT ![t] = r]
    PROVE  ThOK' /\ th'[t] = r /\ \A u \in Threads : u # t => th'[u] = th[u]
BY DEF ThOK

LEMMA Moves ==
    ASSUME ThOK, NEW t \in Threads
    PROVE  /\ Returns(t) => ThOK' /\ th'[t] = Ready /\ \A u \in Threads : u # t => th'[u] = th[u]
           /\ \A on \in Lists : SleepsOn(t, on) =>
                 ThOK' /\ th'[t] = [on |-> on, error |-> "EOK"] /\ \A u \in Threads : u # t => th'[u] = th[u]
           /\ \A list : TimedOut(t, list) =>
                 /\ t \in ToSet(list)
                 /\ ThOK' /\ th'[t] = [on |-> th[t].on, error |-> "ETIMEOUT"]
                 /\ \A u \in Threads : u # t => th'[u] = th[u]
<1>1. ASSUME Returns(t)
      PROVE  ThOK' /\ th'[t] = Ready /\ \A u \in Threads : u # t => th'[u] = th[u]
  <2>1. Ready \in Calls
    BY DEF Ready, Calls, Lists
  <2> HIDE DEF Ready
  <2> QED BY <1>1, <2>1, MovesOn DEF Returns
<1>2. ASSUME NEW on \in Lists, SleepsOn(t, on)
      PROVE  ThOK' /\ th'[t] = [on |-> on, error |-> "EOK"] /\ \A u \in Threads : u # t => th'[u] = th[u]
  BY <1>2 DEF SleepsOn, ThOK, Calls
<1>3. ASSUME NEW list, TimedOut(t, list)
      PROVE  /\ t \in ToSet(list)
             /\ ThOK' /\ th'[t] = [on |-> th[t].on, error |-> "ETIMEOUT"]
             /\ \A u \in Threads : u # t => th'[u] = th[u]
  BY <1>3 DEF TimedOut, ThOK, Calls
<1> QED BY <1>1, <1>2, <1>3

\* When only t's call moves on, the others may wait as before.
LEMMA OnlyOne ==
    ASSUME NEW t \in Threads, \A u \in Threads : u # t => th'[u] = th[u], NEW on
    PROVE  /\ OnCall(on) \subseteq OnCall(on)' \cup {t}
           /\ OnCall(on)' \subseteq OnCall(on) \cup {t}
           /\ t \notin OnCall(on) => OnCall(on) \subseteq OnCall(on)'
           /\ t \in OnCall(on)' => OnCall(on) \subseteq OnCall(on)'
BY DEF OnCall

LEMMA FewOnCall == ASSUME NEW on PROVE IsFiniteSet(OnCall(on)) /\ IsFiniteSet(OnCall(on)')
<1>1. IsFiniteSet(Threads)
  BY WaitingAssumption DEF WaitingAssumption
<1>2. OnCall(on) \in SUBSET Threads /\ OnCall(on)' \in SUBSET Threads
  BY DEF OnCall
<1> QED BY <1>1, <1>2, FS_Subset

LEMMA AwakeAre == ASSUME NEW on, NEW list PROVE AwakeOK(on, list) = OnCall(on) \ ToSet(list)
BY DEF AwakeOK, Awake, OnCall

LEMMA FewWoken ==
    ASSUME NEW on, NEW list
    PROVE  IsFiniteSet(OnCall(on) \ ToSet(list)) /\ Cardinality(OnCall(on) \ ToSet(list)) \in Nat
<1>1. IsFiniteSet(OnCall(on) \ ToSet(list))
  BY FewOnCall, FS_Difference
<1> QED BY <1>1, FS_CardinalityType

\* A step changes no call but those that wait on one of lists, or begin to.
Within(lists) == \A u \in Threads : th'[u].on \in {th[u].on, "none"} \cup lists

LEMMA AllFailed ==
    ASSUME ThOK, NEW failing, AllFail(failing)
    PROVE  /\ ThOK' /\ Within({})
           /\ \A u \in Threads : u \in failing => th'[u].error = "ERROR"
           /\ \A u \in Threads : u \notin failing => th'[u] = th[u]
<1>1. \A u \in Threads : th'[u] = IF u \in failing THEN [th[u] EXCEPT !.error = "ERROR"] ELSE th[u]
  BY DEF AllFail
<1>2. ThOK'
  <2>1. th' = [u \in Threads |-> IF u \in failing THEN [th[u] EXCEPT !.error = "ERROR"] ELSE th[u]]
    BY DEF AllFail
  <2>2. \A u \in Threads : [th[u] EXCEPT !.error = "ERROR"] \in Calls
    BY DEF ThOK, Calls
  <2> QED BY <2>1, <2>2 DEF ThOK
<1>3. Within({})
  BY <1>1 DEF Within, ThOK, Calls
<1>4. \A u \in Threads : [th[u] EXCEPT !.error = "ERROR"].error = "ERROR"
  BY DEF ThOK, Calls
<1> QED BY <1>1, <1>2, <1>3, <1>4

-----------------------------------------------------------------------------
(***************************************************************************)
(* The semaphore.                                                          *)
(***************************************************************************)
SemInv ==
    /\ semWaiters \in Seq(Threads) /\ value \in 0 .. SemMax /\ balance \in Int
    /\ InLine(semWaiters, OnCall("sem"))
    /\ semWaiters # <<>> => value = 0
    /\ balance = value + Cardinality(OnCall("sem") \ ToSet(semWaiters))

LEMMA SemInvBalanced == SemInv => SemBalanced
<1> SUFFICES ASSUME SemInv PROVE SemBalanced
  OBVIOUS
<1>1. InOrder(semWaiters, "sem")
  BY InOrderInLine DEF SemInv
<1> QED BY <1>1, AwakeAre DEF SemInv, SemBalanced

LEMMA SemInvTake ==
    ASSUME ThOK, SemInv, NEW t \in Threads, NEW w \in Timeouts, SemTake(t, w)
    PROVE  SemInv' /\ ThOK' /\ Within({"sem"})
<1>1. CASE UNCHANGED <<semWaiters, th>> /\ value > 0 /\ value' = value - 1 /\ balance' = balance - 1
  <2>1. semWaiters = <<>> /\ value' \in 0 .. SemMax /\ balance' \in Int
    BY <1>1, SemaphoreAssumption DEF SemInv, SemaphoreAssumption
  <2>2. OnCall("sem")' = OnCall("sem")
    BY <1>1 DEF OnCall
  <2>3. Cardinality(OnCall("sem") \ ToSet(semWaiters)) \in Nat
    BY FewWoken
  <2>4. balance' = value' + Cardinality(OnCall("sem") \ ToSet(semWaiters))
    BY <1>1, <2>3 DEF SemInv
  <2>5. ThOK' /\ Within({"sem"})
    BY <1>1 DEF ThOK, Within
  <2> QED BY <1>1, <2>1, <2>2, <2>4, <2>5 DEF SemInv
<1>2. CASE UNCHANGED <<semVars, th>>
  <2>1. OnCall("sem")' = OnCall("sem")
    BY <1>2 DEF OnCall
  <2> QED BY <1>2, <2>1 DEF SemInv, ThOK, Within, semVars
<1>3. CASE /\ value = 0 /\ semWaiters' = Suspended(semWaiters, t) /\ SleepsOn(t, "sem")
           /\ UNCHANGED <<value, balance>>
  <2>1. th[t] = Ready /\ t \notin OnCall("sem")
    BY DEF SemTake, OnCall, Ready
  <2>2. ThOK' /\ th'[t] = [on |-> "sem", error |-> "EOK"] /\ \A u \in Threads : u # t => th'[u] = th[u]
    BY <1>3, Moves DEF Lists
  <2>3. OnCall("sem")' = OnCall("sem") \cup {t}
    BY <2>1, <2>2 DEF OnCall
  <2>4. t \notin ToSet(semWaiters) /\ ToSet(semWaiters) \subseteq OnCall("sem")'
    BY <2>1, <2>3 DEF SemInv, InLine
  <2>5. /\ Suspended(semWaiters, t) \in Seq(Threads) /\ InLine(Suspended(semWaiters, t), OnCall("sem")')
        /\ ToSet(Suspended(semWaiters, t)) = ToSet(semWaiters) \cup {t}
    BY <2>3, <2>4, LineJoined DEF SemInv
  <2>6. OnCall("sem")' \ ToSet(semWaiters') = OnCall("sem") \ ToSet(semWaiters)
    BY <1>3, <2>1, <2>3, <2>5
  <2>7. Within({"sem"})
    BY <2>2 DEF Within
  <2> QED BY <1>3, <2>2, <2>5, <2>6, <2>7 DEF SemInv
<1> QED BY <1>1, <1>2, <1>3 DEF SemTake

LEMMA SemInvResumed ==
    ASSUME ThOK, SemInv, NEW t \in Threads, SemTakeResumed(t)
    PROVE  SemInv' /\ ThOK' /\ Within({"sem"})
<1>1. th[t].on = "sem" /\ t \notin ToSet(semWaiters) /\ UNCHANGED <<value, semWaiters>>
  BY DEF SemTakeResumed, Awake
<1>2. ThOK' /\ th'[t] = Ready /\ \A u \in Threads : u # t => th'[u] = th[u]
  BY Moves DEF SemTakeResumed
<1>3. OnCall("sem")' = OnCall("sem") \ {t}
  BY <1>2 DEF OnCall, Ready
<1>4. InLine(semWaiters, OnCall("sem")')
  BY <1>1, <1>3 DEF SemInv, InLine
<1> DEFINE W == OnCall("sem") \ ToSet(semWaiters)
<1>5. OnCall("sem")' \ ToSet(semWaiters) = W \ {t} /\ IsFiniteSet(W)
  BY <1>3, FewWoken
<1>6. balance' = value + Cardinality(W \ {t}) /\ balance' \in Int
  <2>1. Cardinality(W \ {t}) = (IF t \in W THEN Cardinality(W) - 1 ELSE Cardinality(W)) /\ Cardinality(W) \in Nat
    BY <1>5, FS_RemoveElement, FS_CardinalityType
  <2>2. t \in W <=> th[t].error = "EOK"
    BY <1>1 DEF OnCall
  <2>3. balance = value + Cardinality(W) /\ balance \in Int /\ value \in Int
    BY DEF SemInv
  <2>4. balance' = IF th[t].error = "EOK" THEN balance - 1 ELSE balance
    BY DEF SemTakeResumed
  <2> HIDE DEF W
  <2> QED BY <2>1, <2>2, <2>3, <2>4
<1>7. Within({"sem"})
  BY <1>2 DEF Within, Ready
<1> QED BY <1>1, <1>2, <1>4, <1>5, <1>6, <1>7 DEF SemInv

LEMMA SemInvRelease ==
    ASSUME ThOK, SemInv, SemRelease
    PROVE  SemInv' /\ ThOK' /\ Within({"sem"})
<1>1. th' = th /\ OnCall("sem")' = OnCall("sem")
  BY DEF SemRelease, OnCall
<1>2. ThOK' /\ Within({"sem"})
  BY <1>1 DEF ThOK, Within
<1> DEFINE W == OnCall("sem") \ ToSet(semWaiters)
<1>3. IsFiniteSet(W) /\ Cardinality(W) \in Nat
  BY FewWoken
<1>4. CASE semWaiters # <<>> /\ semWaiters' = Tail(semWaiters) /\ balance' = balance + 1 /\ value' = value
  <2>1. /\ Tail(semWaiters) \in Seq(Threads) /\ InLine(Tail(semWaiters), OnCall("sem"))
        /\ semWaiters[1] \in ToSet(semWaiters)
        /\ ToSet(Tail(semWaiters)) = ToSet(semWaiters) \ {semWaiters[1]}
    BY <1>4, LineAdvanced DEF SemInv
  <2>2. OnCall("sem") \ ToSet(Tail(semWaiters)) = W \cup {semWaiters[1]} /\ semWaiters[1] \notin W
    BY <2>1 DEF SemInv, InLine
  <2>3. Cardinality(W \cup {semWaiters[1]}) = Cardinality(W) + 1
    BY <1>3, <2>2, FS_AddElement
  <2>4. balance + 1 = value + Cardinality(W \cup {semWaiters[1]}) /\ balance + 1 \in Int
    BY <1>3, <2>3 DEF SemInv
  <2> QED BY <1>1, <1>2, <1>4, <2>1, <2>2, <2>4 DEF SemInv
<1>5. CASE semWaiters = <<>> /\ value < SemMax /\ value' = value + 1 /\ balance' = balance + 1 /\ semWaiters' = semWaiters
  <2>1. value' \in 0 .. SemMax /\ balance' \in Int
    BY <1>5, SemaphoreAssumption DEF SemInv, SemaphoreAssumption
  <2>2. balance' = value' + Cardinality(W)
    BY <1>3, <1>5 DEF SemInv
  <2> QED BY <1>1, <1>2, <1>5, <2>1, <2>2 DEF SemInv
<1>6. CASE UNCHANGED semVars
  BY <1>1, <1>2, <1>6 DEF SemInv, semVars
<1> QED BY <1>4, <1>5, <1>6 DEF SemRelease

LEMMA SemInvReset ==
    ASSUME ThOK, SemInv, NEW t \in Threads, NEW v \in 0 .. SemMax, SemReset(t, v)
    PROVE  SemInv' /\ ThOK' /\ Within({"sem"})
<1>1. /\ ThOK' /\ Within({})
      /\ \A u \in Threads : u \in ToSet(semWaiters) => th'[u].error = "ERROR"
      /\ \A u \in Threads : u \notin ToSet(semWaiters) => th'[u] = th[u]
  BY AllFailed DEF SemReset
<1>2. semWaiters' = <<>> /\ value' = v /\ balance' = v + Cardinality(OnCall("sem") \ ToSet(semWaiters))
  BY AwakeAre DEF SemReset
<1>3. OnCall("sem")' = OnCall("sem") \ ToSet(semWaiters)
  BY <1>1 DEF OnCall
<1>4. Cardinality(OnCall("sem") \ ToSet(semWaiters)) \in Nat
  BY FewWoken
<1>5. balance' = value' + Cardinality(OnCall("sem")' \ ToSet(semWaiters'))
  BY <1>2, <1>3, NobodyInLine
<1>6. balance' \in Int /\ value' \in 0 .. SemMax
  BY <1>2, <1>4
<1> QED BY <1>1, <1>2, <1>5, <1>6, NobodyInLine DEF SemInv, Within

LEMMA SemInvTimeout ==
    ASSUME ThOK, SemInv, NEW t \in Threads, SemTimeout(t)
    PROVE  SemInv' /\ ThOK' /\ Within({"sem"})
<1>1. /\ t \in ToSet(semWaiters) /\ semWaiters' = Without(semWaiters, t) /\ UNCHANGED <<value, balance>>
      /\ ThOK' /\ th'[t] = [on |-> th[t].on, error |-> "ETIMEOUT"]
      /\ \A u \in Threads : u # t => th'[u] = th[u]
  BY Moves DEF SemTimeout
<1>2. OnCall("sem")' = OnCall("sem") \ {t}
  BY <1>1 DEF OnCall
<1>3. /\ Without(semWaiters, t) \in Seq(Threads) /\ InLine(Without(semWaiters, t), OnCall("sem")')
      /\ ToSet(Without(semWaiters, t)) = ToSet(semWaiters) \ {t}
  <2>1. OnCall("sem") \subseteq OnCall("sem")' \cup {t}
    BY <1>2
  <2> QED BY <1>1, <2>1, LineLeft DEF SemInv
<1>4. OnCall("sem")' \ ToSet(semWaiters') = OnCall("sem") \ ToSet(semWaiters)
  BY <1>1, <1>2, <1>3
<1>5. semWaiters # <<>>
  BY <1>1, NobodyInLine
<1>6. Within({"sem"})
  BY <1>1 DEF Within
<1> QED BY <1>1, <1>3, <1>4, <1>5, <1>6 DEF SemInv

LEMMA SemInvNext ==
    ASSUME ThOK, SemInv, SemNext
    PROVE  SemInv' /\ ThOK' /\ Within({"sem"})
BY SemInvTake, SemInvResumed, SemInvRelease, SemInvReset, SemInvTimeout DEF SemNext

SemUnused == semWaiters = <<>> /\ balance = value /\ value \in 0 .. SemMax /\ \A t \in Threads : th[t].on # "sem"

LEMMA SemUnusedInv == SemUnused => SemInv
<1> SUFFICES ASSUME SemUnused PROVE SemInv
  OBVIOUS
<1>1. OnCall("sem") \ ToSet(semWaiters) = {}
  BY DEF OnCall, SemUnused
<1>2. semWaiters \in Seq(Threads) /\ InLine(semWaiters, OnCall("sem"))
  BY NobodyInLine DEF SemUnused
<1>3. balance \in Int /\ balance = value + 0
  BY SemaphoreAssumption DEF SemaphoreAssumption, SemUnused
<1> QED BY <1>1, <1>2, <1>3, FS_EmptySet DEF SemInv, SemUnused

-----------------------------------------------------------------------------
(***************************************************************************)
(* The event: first what the loop of rt_event_send has done after n        *)
(* waiters.                                                                *)
(***************************************************************************)
EventInv ==
    /\ eventWaiters \in Seq(Threads) /\ set \subseteq Bits /\ info \in [Threads -> Infos]
    /\ InLine(eventWaiters, OnCall("event"))
    /\ \A t \in ToSet(eventWaiters) : ~ Satisfied(info[t], set)

Start(bits) == [bits |-> set \cup bits, info |-> info, left |-> <<>>]

LEMMA VisitedIs ==
    ASSUME eventWaiters \in Seq(Threads), NEW bits
    PROVE  /\ Visited(bits)[0] = Start(bits)
           /\ \A n \in 0 .. Len(eventWaiters) - 1 :
                 Visited(bits)[n + 1] = Visit(Visited(bits)[n], eventWaiters[n + 1])
<1> DEFINE L == Len(eventWaiters)
           Turn(g, n) == IF n = 0 THEN Start(bits) ELSE Visit(g[n - 1], eventWaiters[n])
           Goes(g, N) == g = [n \in 0 .. N |-> Turn(g, n)]
           Short == {N \in 0 .. L : ~ \E g : Goes(g, N)}
<1>1. L \in Nat
  BY LenProperties
<1> HIDE DEF L
<1>2. \E g : Goes(g, 0)
  <2> DEFINE g == [n \in 0 .. 0 |-> Start(bits)]
  <2>1. g = [n \in 0 .. 0 |-> IF n = 0 THEN Start(bits) ELSE Visit(g[n - 1], eventWaiters[n])]
    OBVIOUS
  <2> QED BY <2>1
<1>3. ASSUME NEW N \in 0 .. L - 1, \E g : Goes(g, N) PROVE \E g : Goes(g, N + 1)
  <2>1. PICK g : Goes(g, N)
    BY <1>3
  <2>2. N \in Nat
    BY <1>1
  <2>3. \A n \in 0 .. N : g[n] = Turn(g, n)
    <3> DEFINE T(n) == Turn(g, n)
    <3>1. g = [n \in 0 .. N |-> T(n)]
      BY <2>1
    <3> HIDE DEF T
    <3>2. \A n \in 0 .. N : g[n] = T(n)
      BY <3>1
    <3> QED BY <3>2 DEF T
  <2> DEFINE x == Visit(g[N], eventWaiters[N + 1])
             h == [n \in 0 .. N + 1 |-> IF n = N + 1 THEN x ELSE g[n]]
  <2>4. \A n \in 0 .. N + 1 : h[n] = Turn(h, n)
    <3> TAKE n \in 0 .. N + 1
    <3>1. CASE n = N + 1
      <4>1. h[n - 1] = g[N] /\ h[n] = x /\ n # 0
        BY <2>2, <3>1
      <4> HIDE DEF h
      <4> QED BY <3>1, <4>1
    <3>2. CASE n # N + 1
      <4>1. n \in 0 .. N /\ h[n] = g[n] /\ (n # 0 => n - 1 \in 0 .. N /\ h[n - 1] = g[n - 1])
        BY <2>2, <3>2
      <4>2. g[n] = Turn(g, n)
        BY <2>3, <4>1
      <4> HIDE DEF h
      <4> QED BY <4>1, <4>2
    <3> QED BY <3>1, <3>2
  <2>5. h = [n \in 0 .. N + 1 |-> h[n]]
    OBVIOUS
  <2> HIDE DEF h
  <2>6. Goes(h, N + 1)
    BY <2>4, <2>5
  <2> QED BY <2>6
<1>4. Short = {}
  <2> SUFFICES ASSUME Short # {} PROVE FALSE
    OBVIOUS
  <2> HIDE DEF Goes
  <2>1. PICK N \in Short : \A y \in Short : N <= y
    <3>1. Short \subseteq Nat
      OBVIOUS
    <3> HIDE DEF Short
    <3> QED BY <3>1, NatMin
  <2>2. N \in 0 .. L /\ ~ (\E g : Goes(g, N)) /\ N # 0
    BY <1>2, <2>1
  <2> DEFINE k == N - 1
  <2>3. k \in 0 .. L - 1 /\ k \in 0 .. L /\ N = k + 1 /\ ~ (N <= k)
    BY <1>1, <2>2
  <2> HIDE DEF k
  <2>4. \E g : Goes(g, k)
    BY <2>1, <2>3
  <2> QED BY <1>3, <2>2, <2>3, <2>4
<1>5. \E g : Goes(g, L)
  <2> HIDE DEF Goes
  <2>1. L \in 0 .. L
    BY <1>1
  <2> QED BY <1>4, <2>1
<1> DEFINE v == Visited(bits)
<1>6. v = CHOOSE g : Goes(g, L)
  BY DEF Visited, Start, L
<1>7. Goes(v, L)
  <2> HIDE DEF Goes, v
  <2> QED BY <1>5, <1>6
<1> HIDE DEF v
<1>8. \A n \in 0 .. L : v[n] = Turn(v, n)
  <2> DEFINE T(n) == Turn(v, n)
  <2>1. v = [n \in 0 .. L |-> T(n)]
    BY <1>7
  <2> HIDE DEF T
  <2>2. \A n \in 0 .. L : v[n] = T(n)
    BY <2>1
  <2> QED BY <2>2 DEF T
<1>9. v[0] = Start(bits)
  BY <1>1, <1>8
<1>10. ASSUME NEW n \in 0 .. L - 1 PROVE v[n + 1] = Visit(v[n], eventWaiters[n + 1])
  <2>1. n + 1 \in 0 .. L /\ n + 1 # 0 /\ n + 1 - 1 = n
    BY <1>1
  <2>2. v[n + 1] = Turn(v, n + 1)
    BY <1>8, <2>1
  <2> QED BY <2>1, <2>2
<1> QED BY <1>9, <1>10 DEF v, L

Turned  == [bits : SUBSET Bits, info : [Threads -> Infos], left : Seq(Threads)]
Seen(n) == {eventWaiters[k] : k \in 1 .. n}

\* The waiters passed and not left, and the bits that one of them clears.
Gone(n, l)       == Seen(n) \ ToSet(l.left)
Clears(t, l, b)  == info[t].clear /\ b \in l.info[t].set

LeftInOrder(n, l) ==
    /\ ToSet(l.left) \subseteq Seen(n)
    /\ IsInjective(l.left)
    /\ Flag = "PRIO" => Sorted(l.left, Prio)
    /\ \A t \in ToSet(l.left) : ~ Satisfied(info[t], l.bits)

GivenSound(bits, n, l) ==
    /\ \A t \in Threads : t \notin Gone(n, l) => l.info[t] = info[t]
    /\ \A t \in Gone(n, l) :
          /\ l.info[t].set \subseteq info[t].set \cap (set \cup bits)
          /\ Satisfied(info[t], l.info[t].set)

TakenOnce(bits, n, l) ==
    /\ \A b \in Bits : b \in l.bits <=> b \in set \cup bits /\ \A t \in Gone(n, l) : ~ Clears(t, l, b)
    /\ \A b \in Bits : \A t, u \in Gone(n, l) : Clears(t, l, b) /\ Clears(u, l, b) => t = u

Passed(bits, n, l) ==
    /\ l \in Turned /\ l.bits \subseteq set \cup bits
    /\ LeftInOrder(n, l)
    /\ GivenSound(bits, n, l)
    /\ TakenOnce(bits, n, l)

LEMMA AppendSorted ==
    ASSUME NEW S, NEW s \in Seq(S), NEW e \in S, NEW p, Sorted(s, p),
           \A x \in ToSet(s) : p[x] <= p[e]
    PROVE  Sorted(Append(s, e), p)
<1> DEFINE n == Len(s)
           r == Append(s, e)
<1>1. /\ n \in Nat /\ Len(r) = n + 1 /\ r[n + 1] = e
      /\ \A i \in 1 .. n : r[i] = s[i]
  BY AppendProperties, LenProperties
<1>2. \A i \in 1 .. n : p[s[i]] <= p[e]
  BY LenProperties DEF ToSet
<1>3. \A i, j \in 1 .. n : i < j => p[s[i]] <= p[s[j]]
  BY DEF Sorted
<1> HIDE DEF n, r
<1>4. \A i, j \in 1 .. n + 1 : i < j => p[r[i]] <= p[r[j]]
  <2> TAKE i, j \in 1 .. n + 1
  <2> HAVE i < j
  <2>1. i \in 1 .. n /\ (j \in 1 .. n \/ j = n + 1)
    BY <1>1
  <2> QED BY <1>1, <1>2, <1>3, <2>1
<1> QED BY <1>1, <1>4 DEF Sorted, r

LEMMA MoreSatisfies ==
    ASSUME NEW wish, NEW X, NEW Y, X \subseteq Y, Satisfied(wish, X)
    PROVE  Satisfied(wish, Y)
BY DEF Satisfied

\* What the loop meets next.
LEMMA NextSeen ==
    ASSUME EventInv, NEW n \in 0 .. Len(eventWaiters) - 1
    PROVE  /\ eventWaiters[n + 1] \in Threads /\ eventWaiters[n + 1] \notin Seen(n)
           /\ Seen(n) \subseteq Threads
           /\ Seen(n + 1) = Seen(n) \cup {eventWaiters[n + 1]}
           /\ Flag = "PRIO" => \A t \in Seen(n) : Prio[t] <= Prio[eventWaiters[n + 1]]
<1> DEFINE L == Len(eventWaiters)
<1>1. /\ L \in Nat /\ DOMAIN eventWaiters = 1 .. L /\ \A k \in 1 .. L : eventWaiters[k] \in Threads
      /\ \A j, k \in 1 .. L : eventWaiters[j] = eventWaiters[k] => j = k
      /\ Flag = "PRIO" => \A i, j \in 1 .. L : i < j => Prio[eventWaiters[i]] <= Prio[eventWaiters[j]]
  <2>1. eventWaiters \in Seq(Threads) /\ InLine(eventWaiters, OnCall("event"))
    BY DEF EventInv
  <2>2. L \in Nat /\ DOMAIN eventWaiters = 1 .. L /\ \A k \in 1 .. L : eventWaiters[k] \in Threads
    BY <2>1, LenProperties, ElementOfSeq
  <2>3. \A j, k \in 1 .. L : eventWaiters[j] = eventWaiters[k] => j = k
    BY <2>1, <2>2 DEF InLine, IsInjective
  <2> QED BY <2>1, <2>2, <2>3 DEF InLine, Sorted
<1>2. n \in 0 .. L - 1
  OBVIOUS
<1> HIDE DEF L
<1>3. n + 1 \in 1 .. L /\ \A k \in 1 .. n : k \in 1 .. L /\ k # n + 1 /\ k < n + 1
  BY <1>1, <1>2
<1>4. \A k \in 1 .. n + 1 : k \in 1 .. n \/ k = n + 1
  BY <1>1, <1>2
<1>5. \A k \in 1 .. n : k \in 1 .. n + 1
  BY <1>1, <1>2
<1>6. n + 1 \in 1 .. n + 1
  BY <1>1, <1>2
<1>7. Seen(n + 1) = Seen(n) \cup {eventWaiters[n + 1]}
  BY <1>4, <1>5, <1>6 DEF Seen
<1> QED BY <1>1, <1>3, <1>7 DEF Seen

LEMMA PassedOver ==
    ASSUME EventInv, NEW bits \in BitSets, NEW n \in 0 .. Len(eventWaiters) - 1, NEW l,
           Passed(bits, n, l), ~ Satisfied(info[eventWaiters[n + 1]], l.bits)
    PROVE  Passed(bits, n + 1, Visit(l, eventWaiters[n + 1]))
<1> DEFINE w == eventWaiters[n + 1]
           r == Visit(l, w)
<1>1. /\ w \in Threads /\ w \notin Seen(n) /\ Seen(n) \subseteq Threads /\ Seen(n + 1) = Seen(n) \cup {w}
      /\ Flag = "PRIO" => \A t \in Seen(n) : Prio[t] <= Prio[w]
  BY NextSeen
<1>2. ~ Satisfied(info[w], l.bits)
  OBVIOUS
<1> HIDE DEF w
<1>3. l \in Turned /\ l.left \in Seq(Threads)
  BY DEF Passed, Turned
<1>4. r = [l EXCEPT !.left = Append(l.left, w)]
  BY <1>2 DEF Visit
<1>5. /\ Append(l.left, w) \in Seq(Threads) /\ IsInjective(Append(l.left, w))
      /\ ToSet(Append(l.left, w)) = ToSet(l.left) \cup {w}
  <2>1. IsInjective(l.left) /\ w \notin ToSet(l.left)
    BY <1>1 DEF Passed, LeftInOrder
  <2> QED BY <1>1, <1>3, <2>1, AppendOf
<1>6. r \in Turned /\ r.bits = l.bits /\ r.info = l.info /\ r.left = Append(l.left, w)
  BY <1>3, <1>4, <1>5 DEF Turned
<1> HIDE DEF r
<1>7. Flag = "PRIO" => Sorted(r.left, Prio)
  <2>1. Flag = "PRIO" => Sorted(l.left, Prio) /\ \A x \in ToSet(l.left) : Prio[x] <= Prio[w]
    BY <1>1 DEF Passed, LeftInOrder
  <2> QED BY <1>1, <1>3, <1>6, <2>1, AppendSorted
<1>8. LeftInOrder(n + 1, r)
  BY <1>1, <1>2, <1>5, <1>6, <1>7 DEF LeftInOrder, Passed
<1>9. Gone(n + 1, r) = Gone(n, l)
  <2>1. w \notin ToSet(l.left)
    BY <1>1 DEF Passed, LeftInOrder
  <2> QED BY <1>1, <1>5, <1>6, <2>1 DEF Gone
<1>10. GivenSound(bits, n + 1, r) /\ TakenOnce(bits, n + 1, r)
  BY <1>6, <1>9 DEF Passed, GivenSound, TakenOnce, Clears
<1>11. r.bits \subseteq set \cup bits
  BY <1>6 DEF Passed
<1> QED BY <1>6, <1>8, <1>10, <1>11 DEF Passed, r, w

LEMMA PassedWoken ==
    ASSUME EventInv, NEW bits \in BitSets, NEW n \in 0 .. Len(eventWaiters) - 1, NEW l,
           Passed(bits, n, l), Satisfied(info[eventWaiters[n + 1]], l.bits)
    PROVE  Passed(bits, n + 1, Visit(l, eventWaiters[n + 1]))
<1> DEFINE w == eventWaiters[n + 1]
           r == Visit(l, w)
           g == info[w].set \cap l.bits
<1>1. /\ w \in Threads /\ w \notin Seen(n) /\ Seen(n) \subseteq Threads /\ Seen(n + 1) = Seen(n) \cup {w}
  BY NextSeen
<1>2. Satisfied(info[w], l.bits)
  OBVIOUS
<1> HIDE DEF w
<1>3. l \in Turned /\ l.left \in Seq(Threads) /\ l.bits \subseteq Bits /\ l.info \in [Threads -> Infos]
  BY DEF Passed, Turned
<1>4. info \in [Threads -> Infos] /\ info[w] \in Infos
  BY <1>1 DEF EventInv
<1>5. r = [bits |-> IF info[w].clear THEN l.bits \ g ELSE l.bits,
           info |-> [l.info EXCEPT ![w].set = g], left |-> l.left]
  BY <1>2 DEF Visit, Given
<1>6. /\ r.bits = (IF info[w].clear THEN l.bits \ g ELSE l.bits)
      /\ r.info = [l.info EXCEPT ![w].set = g] /\ r.left = l.left
  BY <1>5
<1>7. /\ r.info \in [Threads -> Infos] /\ r.info[w].set = g
      /\ \A t \in Threads : t # w => r.info[t] = l.info[t]
  <2>1. g \in SUBSET Bits /\ l.info[w] \in Infos
    BY <1>1, <1>3
  <2> HIDE DEF g
  <2> QED BY <1>1, <1>3, <1>6, <2>1 DEF Infos
<1>8. r \in Turned
  BY <1>3, <1>5, <1>7 DEF Turned
<1> HIDE DEF r
<1>9. r.bits \subseteq l.bits /\ r.bits \subseteq set \cup bits
  BY <1>6 DEF Passed
<1>10. LeftInOrder(n + 1, r)
  <2>1. \A t \in ToSet(r.left) : ~ Satisfied(info[t], r.bits)
    BY <1>6, <1>9, MoreSatisfies DEF Passed, LeftInOrder
  <2> QED BY <1>1, <1>6, <2>1 DEF Passed, LeftInOrder
<1>11. Gone(n + 1, r) = Gone(n, l) \cup {w} /\ w \notin Gone(n, l) /\ Gone(n, l) \subseteq Threads
  <2>1. w \notin ToSet(l.left)
    BY <1>1 DEF Passed, LeftInOrder
  <2> QED BY <1>1, <1>6, <2>1 DEF Gone
<1>12. \A t \in Gone(n, l) : r.info[t] = l.info[t] /\ t # w
  BY <1>7, <1>11
<1>13. GivenSound(bits, n + 1, r)
  <2>1. g \subseteq info[w].set \cap (set \cup bits) /\ Satisfied(info[w], g)
    BY <1>2 DEF Passed, Satisfied
  <2>2. \A t \in Threads : t \notin Gone(n + 1, r) => r.info[t] = info[t]
    BY <1>7, <1>11 DEF Passed, GivenSound
  <2>3. \A t \in Gone(n, l) : /\ r.info[t].set \subseteq info[t].set \cap (set \cup bits)
                              /\ Satisfied(info[t], r.info[t].set)
    BY <1>12 DEF Passed, GivenSound
  <2> HIDE DEF g
  <2>4. /\ r.info[w].set \subseteq info[w].set \cap (set \cup bits)
        /\ Satisfied(info[w], r.info[w].set)
    BY <1>7, <2>1
  <2> QED BY <1>11, <2>2, <2>3, <2>4 DEF GivenSound
<1>14. TakenOnce(bits, n + 1, r)
  <2>1. \A b \in Bits : Clears(w, r, b) <=> info[w].clear /\ b \in g
    BY <1>7 DEF Clears
  <2>2. \A b \in Bits : \A t \in Gone(n, l) : Clears(t, r, b) <=> Clears(t, l, b)
    BY <1>12 DEF Clears
  <2>3. \A b \in Bits : b \in r.bits <=> b \in l.bits /\ ~ Clears(w, r, b)
    BY <1>6, <2>1
  <2>4. \A b \in Bits : Clears(w, r, b) => b \in l.bits
    BY <2>1
  <2>5. \A b \in Bits : b \in l.bits <=> b \in set \cup bits /\ \A t \in Gone(n, l) : ~ Clears(t, l, b)
    BY DEF Passed, TakenOnce
  <2>6. \A b \in Bits : \A t, u \in Gone(n, l) : Clears(t, l, b) /\ Clears(u, l, b) => t = u
    BY DEF Passed, TakenOnce
  <2>7. \A b \in Bits : b \in r.bits <=> b \in set \cup bits /\ \A t \in Gone(n + 1, r) : ~ Clears(t, r, b)
    BY <1>11, <2>2, <2>3, <2>5
  <2>8. \A b \in Bits : \A t, u \in Gone(n + 1, r) : Clears(t, r, b) /\ Clears(u, r, b) => t = u
    BY <1>11, <2>2, <2>4, <2>5, <2>6
  <2> QED BY <2>7, <2>8 DEF TakenOnce
<1> QED BY <1>8, <1>9, <1>10, <1>13, <1>14 DEF Passed, r, w

LEMMA PassedNone ==
    ASSUME EventInv, NEW bits \in BitSets
    PROVE  Passed(bits, 0, Start(bits))
<1> DEFINE l == Start(bits)
<1>1. l.bits = set \cup bits /\ l.info = info /\ l.left = <<>>
  BY DEF Start
<1>2. l \in Turned
  BY DEF Start, Turned, EventInv, BitSets
<1>3. Seen(0) = {} /\ Gone(0, l) = {}
  BY DEF Seen, Gone
<1> HIDE DEF l
<1>4. LeftInOrder(0, l)
  <2>1. ToSet(l.left) = {} /\ IsInjective(l.left) /\ (Flag = "PRIO" => Sorted(l.left, Prio))
    BY <1>1, NobodyInLine DEF InLine
  <2> QED BY <2>1 DEF LeftInOrder
<1> QED BY <1>1, <1>2, <1>3, <1>4 DEF Passed, GivenSound, TakenOnce, l

\* The whole loop.
LEMMA AllPassed ==
    ASSUME EventInv, NEW bits \in BitSets
    PROVE  /\ Passed(bits, Len(eventWaiters), Visited(bits)[Len(eventWaiters)])
           /\ Seen(Len(eventWaiters)) = ToSet(eventWaiters)
<1> DEFINE L == Len(eventWaiters)
           v == Visited(bits)
           Bad == {n \in 0 .. L : ~ Passed(bits, n, v[n])}
<1>1. /\ L \in Nat /\ Seen(L) = ToSet(eventWaiters) /\ v[0] = Start(bits)
      /\ \A n \in 0 .. L - 1 : v[n + 1] = Visit(v[n], eventWaiters[n + 1])
  <2>1. eventWaiters \in Seq(Threads)
    BY DEF EventInv
  <2>2. Seen(L) = ToSet(eventWaiters)
    BY <2>1, LenProperties DEF Seen, ToSet
  <2> QED BY <2>1, <2>2, LenProperties, VisitedIs
<1>2. \A n \in 0 .. L - 1 : Passed(bits, n, v[n]) => Passed(bits, n + 1, v[n + 1])
  <2> TAKE n \in 0 .. L - 1
  <2> HAVE Passed(bits, n, v[n])
  <2>1. v[n + 1] = Visit(v[n], eventWaiters[n + 1])
    BY <1>1
  <2> HIDE DEF v
  <2>2. Passed(bits, n + 1, Visit(v[n], eventWaiters[n + 1]))
    BY PassedOver, PassedWoken
  <2> QED BY <2>1, <2>2
<1> HIDE DEF L, v
<1>3. Passed(bits, 0, v[0])
  BY <1>1, PassedNone
<1>4. Bad = {}
  <2> SUFFICES ASSUME Bad # {} PROVE FALSE
    OBVIOUS
  <2>1. PICK n \in Bad : \A y \in Bad : n <= y
    <3>1. Bad \subseteq Nat
      BY <1>1
    <3> HIDE DEF Bad
    <3> QED BY <3>1, NatMin
  <2>2. n \in 0 .. L /\ ~ Passed(bits, n, v[n]) /\ n # 0
    BY <1>3, <2>1
  <2> DEFINE k == n - 1
  <2>3. k \in 0 .. L - 1 /\ k \in 0 .. L /\ n = k + 1 /\ ~ (n <= k)
    BY <1>1, <2>2
  <2> HIDE DEF k
  <2>4. Passed(bits, k, v[k])
    BY <2>1, <2>3
  <2> QED BY <1>2, <2>2, <2>3, <2>4
<1>5. Passed(bits, L, v[L])
  BY <1>1, <1>4
<1> QED BY <1>1, <1>5 DEF L, v

LEMMA EventInvSend ==
    ASSUME ThOK, EventInv, NEW bits \in BitSets, EventSend(bits)
    PROVE  EventInv' /\ ThOK' /\ Within({"event"})
<1> DEFINE l == Visited(bits)[Len(eventWaiters)]
<1>1. set' = l.bits /\ info' = l.info /\ eventWaiters' = l.left /\ th' = th
  BY DEF EventSend
<1>2. Passed(bits, Len(eventWaiters), l) /\ Seen(Len(eventWaiters)) = ToSet(eventWaiters)
  BY AllPassed
<1> HIDE DEF l
<1>3. l \in Turned /\ LeftInOrder(Len(eventWaiters), l)
  BY <1>2 DEF Passed
<1>4. OnCall("event")' = OnCall("event") /\ ThOK' /\ Within({"event"})
  BY <1>1 DEF OnCall, ThOK, Within
<1>5. ToSet(l.left) \subseteq OnCall("event")
  BY <1>2, <1>3 DEF LeftInOrder, EventInv, InLine
<1>6. InLine(eventWaiters', OnCall("event")')
  BY <1>1, <1>3, <1>4, <1>5 DEF LeftInOrder, InLine
<1>7. eventWaiters' \in Seq(Threads) /\ set' \subseteq Bits /\ info' \in [Threads -> Infos]
  BY <1>1, <1>3 DEF Turned
<1>8. \A t \in ToSet(eventWaiters') : ~ Satisfied(info'[t], set')
  <2>1. \A t \in ToSet(l.left) : l.info[t] = info[t]
    <3>1. \A t \in ToSet(l.left) : t \in Threads /\ t \notin Gone(Len(eventWaiters), l)
      BY <1>5 DEF Gone, OnCall
    <3> QED BY <1>2, <3>1 DEF Passed, GivenSound
  <2> QED BY <1>1, <1>3, <2>1 DEF LeftInOrder
<1> QED BY <1>4, <1>6, <1>7, <1>8 DEF EventInv

LEMMA EventInvRecv ==
    ASSUME ThOK, EventInv, NEW t \in Threads, NEW wish \in Wishes, NEW w \in Timeouts,
           EventRecv(t, wish, w)
    PROVE  EventInv' /\ ThOK' /\ Within({"event"})
<1>1. CASE /\ set' = (IF wish.clear THEN set \ wish.set ELSE set)
           /\ UNCHANGED <<eventWaiters, info, th>>
  <2>1. OnCall("event")' = OnCall("event") /\ ThOK' /\ Within({"event"}) /\ set' \subseteq set
    BY <1>1 DEF OnCall, ThOK, Within
  <2>2. \A u \in ToSet(eventWaiters) : ~ Satisfied(info[u], set')
    BY <2>1, MoreSatisfies DEF EventInv
  <2> QED BY <1>1, <2>1, <2>2 DEF EventInv
<1>2. CASE UNCHANGED <<eventVars, th>>
  <2>1. OnCall("event")' = OnCall("event") /\ ThOK' /\ Within({"event"})
    BY <1>2 DEF OnCall, ThOK, Within
  <2> QED BY <1>2, <2>1 DEF EventInv, eventVars
<1>3. CASE /\ ~ Satisfied(wish, set) /\ info' = [info EXCEPT ![t] = wish]
           /\ eventWaiters' = Suspended(eventWaiters, t) /\ SleepsOn(t, "event") /\ set' = set
  <2>1. th[t] = Ready /\ t \notin OnCall("event")
    BY DEF EventRecv, OnCall, Ready
  <2>2. ThOK' /\ th'[t] = [on |-> "event", error |-> "EOK"] /\ \A u \in Threads : u # t => th'[u] = th[u]
    BY <1>3, Moves DEF Lists
  <2>3. OnCall("event")' = OnCall("event") \cup {t}
    BY <2>1, <2>2 DEF OnCall
  <2>4. t \notin ToSet(eventWaiters) /\ ToSet(eventWaiters) \subseteq OnCall("event")'
    BY <2>1, <2>3 DEF EventInv, InLine
  <2>5. /\ Suspended(eventWaiters, t) \in Seq(Threads)
        /\ InLine(Suspended(eventWaiters, t), OnCall("event")')
        /\ ToSet(Suspended(eventWaiters, t)) = ToSet(eventWaiters) \cup {t}
    BY <2>3, <2>4, LineJoined DEF EventInv
  <2>6. wish \in Infos
    BY EventAssumption DEF EventAssumption
  <2>7. /\ info' \in [Threads -> Infos] /\ info'[t] = wish
        /\ \A u \in Threads : u # t => info'[u] = info[u]
    BY <1>3, <2>6 DEF EventInv
  <2>8. \A u \in ToSet(eventWaiters') : ~ Satisfied(info'[u], set')
    <3>1. ToSet(eventWaiters) \subseteq Threads
      BY DEF EventInv, InLine, OnCall
    <3> QED BY <1>3, <2>4, <2>5, <2>7, <3>1 DEF EventInv
  <2>9. Within({"event"})
    BY <2>2 DEF Within
  <2> QED BY <1>3, <2>2, <2>5, <2>7, <2>8, <2>9 DEF EventInv
<1> QED BY <1>1, <1>2, <1>3 DEF EventRecv

LEMMA EventInvResumed ==
    ASSUME ThOK, EventInv, NEW t \in Threads, EventRecvResumed(t)
    PROVE  EventInv' /\ ThOK' /\ Within({"event"})
<1>1. /\ th[t].on = "event" /\ t \notin ToSet(eventWaiters) /\ UNCHANGED <<set, eventWaiters>>
      /\ info' = [info EXCEPT ![t] = NoInfo]
  BY DEF EventRecvResumed, Awake
<1>2. ThOK' /\ th'[t] = Ready /\ \A u \in Threads : u # t => th'[u] = th[u]
  BY Moves DEF EventRecvResumed
<1>3. OnCall("event")' = OnCall("event") \ {t}
  BY <1>2 DEF OnCall, Ready
<1>4. InLine(eventWaiters, OnCall("event")')
  BY <1>1, <1>3 DEF EventInv, InLine
<1>5. info' \in [Threads -> Infos] /\ \A u \in Threads : u # t => info'[u] = info[u]
  BY <1>1 DEF EventInv, NoInfo, Infos
<1>6. \A u \in ToSet(eventWaiters) : ~ Satisfied(info'[u], set)
  <2>1. ToSet(eventWaiters) \subseteq Threads
    BY DEF EventInv, InLine, OnCall
  <2> QED BY <1>1, <1>5, <2>1 DEF EventInv
<1>7. Within({"event"})
  BY <1>2 DEF Within, Ready
<1> QED BY <1>1, <1>2, <1>4, <1>5, <1>6, <1>7 DEF EventInv

LEMMA EventInvReset ==
    ASSUME ThOK, EventInv, NEW t \in Threads, EventReset(t)
    PROVE  EventInv' /\ ThOK' /\ Within({"event"})
<1>1. ThOK' /\ Within({})
  BY AllFailed DEF EventReset
<1>2. eventWaiters' = <<>> /\ set' = {} /\ info' = info
  BY DEF EventReset
<1>3. InLine(eventWaiters', OnCall("event")') /\ ToSet(eventWaiters') = {}
  BY <1>2, NobodyInLine
<1> QED BY <1>1, <1>2, <1>3 DEF EventInv, Within

LEMMA EventInvTimeout ==
    ASSUME ThOK, EventInv, NEW t \in Threads, EventTimeout(t)
    PROVE  EventInv' /\ ThOK' /\ Within({"event"})
<1>1. /\ t \in ToSet(eventWaiters) /\ eventWaiters' = Without(eventWaiters, t) /\ UNCHANGED <<set, info>>
      /\ ThOK' /\ th'[t] = [on |-> th[t].on, error |-> "ETIMEOUT"]
      /\ \A u \in Threads : u # t => th'[u] = th[u]
  BY Moves DEF EventTimeout
<1>2. OnCall("event")' = OnCall("event") \ {t}
  BY <1>1 DEF OnCall
<1>3. /\ Without(eventWaiters, t) \in Seq(Threads) /\ InLine(Without(eventWaiters, t), OnCall("event")')
      /\ ToSet(Without(eventWaiters, t)) = ToSet(eventWaiters) \ {t}
  <2>1. OnCall("event") \subseteq OnCall("event")' \cup {t}
    BY <1>2
  <2> QED BY <1>1, <2>1, LineLeft DEF EventInv
<1>4. Within({"event"})
  BY <1>1 DEF Within
<1> QED BY <1>1, <1>3, <1>4 DEF EventInv

LEMMA EventInvNext ==
    ASSUME ThOK, EventInv, EventNext
    PROVE  EventInv' /\ ThOK' /\ Within({"event"})
BY EventInvSend, EventInvRecv, EventInvResumed, EventInvReset, EventInvTimeout DEF EventNext

EventUnused ==
    /\ eventWaiters = <<>> /\ set \subseteq Bits /\ info \in [Threads -> Infos]
    /\ \A t \in Threads : th[t].on # "event"

LEMMA EventUnusedInv == EventUnused => EventInv
<1> SUFFICES ASSUME EventUnused PROVE EventInv
  OBVIOUS
<1>1. eventWaiters \in Seq(Threads) /\ InLine(eventWaiters, OnCall("event")) /\ ToSet(eventWaiters) = {}
  BY NobodyInLine DEF EventUnused
<1> QED BY <1>1 DEF EventInv, EventUnused

LEMMA EventInvAwake == EventInv => NobodySatisfiedSleeps
<1> SUFFICES ASSUME EventInv PROVE NobodySatisfiedSleeps
  OBVIOUS
<1>1. InOrder(eventWaiters, "event")
  BY InOrderInLine DEF EventInv
<1> QED BY <1>1 DEF EventInv, NobodySatisfiedSleeps

\* What a sender gives, in the words of BitsGivenOnce.
GivenOnce(bits) ==
    LET woken    == ToSet(eventWaiters) \ ToSet(eventWaiters')
        takes(b) == {t \in woken : info[t].clear /\ b \in info'[t].set}
    IN /\ \A b \in Bits :
             /\ Cardinality(takes(b)) <= 1
             /\ b \in set' <=> b \in set \cup bits /\ takes(b) = {}
       /\ \A t \in woken :
             /\ info'[t].set \subseteq info[t].set \cap (set \cup bits)
             /\ Satisfied(info[t], info'[t].set)

LEMMA FewTake ==
    ASSUME NEW T, \A t, u \in T : t = u
    PROVE  Cardinality(T) <= 1
<1>1. CASE T = {}
  BY <1>1, FS_EmptySet
<1>2. CASE T # {}
  <2>1. PICK t : T = {t}
    BY <1>2
  <2> QED BY <2>1, FS_Singleton
<1> QED BY <1>1, <1>2

LEMMA SendGivesOnce ==
    ASSUME EventInv, NEW bits \in BitSets, EventSend(bits)
    PROVE  GivenOnce(bits)
<1> DEFINE l == Visited(bits)[Len(eventWaiters)]
           woken    == ToSet(eventWaiters) \ ToSet(eventWaiters')
           takes(b) == {t \in woken : info[t].clear /\ b \in info'[t].set}
<1>1. set' = l.bits /\ info' = l.info /\ eventWaiters' = l.left
  BY DEF EventSend
<1>2. Passed(bits, Len(eventWaiters), l) /\ Seen(Len(eventWaiters)) = ToSet(eventWaiters)
  BY AllPassed
<1> HIDE DEF l
<1>3. woken = Gone(Len(eventWaiters), l)
  BY <1>1, <1>2 DEF Gone
<1>4. \A b \in Bits : \A t \in woken : t \in takes(b) <=> Clears(t, l, b)
  BY <1>1 DEF Clears
<1>5. \A b \in Bits : takes(b) \subseteq woken
  OBVIOUS
<1>6. ASSUME NEW t \in woken
      PROVE  /\ info'[t].set \subseteq info[t].set \cap (set \cup bits)
             /\ Satisfied(info[t], info'[t].set)
  BY <1>1, <1>2, <1>3 DEF Passed, GivenSound
<1>7. ASSUME NEW b \in Bits
      PROVE  Cardinality(takes(b)) <= 1 /\ (b \in set' <=> b \in set \cup bits /\ takes(b) = {})
  <2> DEFINE T == takes(b)
  <2>1. T \subseteq woken /\ \A t \in woken : t \in T <=> Clears(t, l, b)
    BY <1>4
  <2> HIDE DEF T, woken
  <2>2. /\ b \in l.bits <=> b \in set \cup bits /\ \A t \in woken : ~ Clears(t, l, b)
        /\ \A t, u \in woken : Clears(t, l, b) /\ Clears(u, l, b) => t = u
    BY <1>2, <1>3 DEF Passed, TakenOnce
  <2>3. \A t, u \in T : t = u
    BY <2>1, <2>2
  <2>4. Cardinality(T) <= 1
    BY <2>3, FewTake
  <2>5. b \in set' <=> b \in set \cup bits /\ T = {}
    BY <1>1, <2>1, <2>2
  <2> QED BY <2>4, <2>5 DEF T, woken
<1> QED BY <1>6, <1>7 DEF GivenOnce

-----------------------------------------------------------------------------
(***************************************************************************)
(* The mailbox: first its ring, for a pool p, the offset o of the first    *)
(* value and n values.                                                     *)
(***************************************************************************)
Places == 0 .. MbSize - 1
Spot(o, i) == (o + i - 1) % MbSize
RingOf(p, o, n) == [i \in 1 .. n |-> p[Spot(o, i)]]

IsPool(p, S) == p \in [Places -> S]

\* q is p with v in place j.
Filled(p, q, j, v) == q[j] = v /\ \A k \in Places : k # j => q[k] = p[k]

LEMMA OnceAround ==
    ASSUME NEW M \in Nat \ {0}, NEW x \in Nat, x < 2 * M
    PROVE  x % M = (IF x < M THEN x ELSE x - M) /\ x % M \in 0 .. M - 1
<1>1. CASE x < M
  BY <1>1
<1>2. CASE ~ (x < M)
  BY <1>2
<1> QED BY <1>1, <1>2

LEMMA SpotIs ==
    ASSUME NEW o \in Places, NEW i \in 1 .. MbSize
    PROVE  /\ Spot(o, i) = (IF o + i - 1 < MbSize THEN o + i - 1 ELSE o + i - 1 - MbSize)
           /\ Spot(o, i) \in Places
<1>0. MbSize \in Nat \ {0}
  BY MailboxAssumption DEF MailboxAssumption
<1> DEFINE x == o + i - 1
<1>1. x \in Nat /\ x < 2 * MbSize
  BY <1>0 DEF Places
<1>2. Spot(o, i) = x % MbSize
  BY DEF Spot
<1>3. Spot(o, i) = (IF x < MbSize THEN x ELSE x - MbSize) /\ Spot(o, i) \in 0 .. MbSize - 1
  <2> HIDE DEF x
  <2> QED BY <1>0, <1>1, <1>2, OnceAround
<1>4. Spot(o, i) \in Places
  BY <1>3 DEF Places
<1>5. o \in Int
  BY <1>0 DEF Places
<1> QED BY <1>0, <1>3, <1>4, <1>5

LEMMA RingIs ==
    ASSUME NEW S, NEW p, IsPool(p, S), NEW o \in Places, NEW n \in 0 .. MbSize
    PROVE  /\ RingOf(p, o, n) \in Seq(S) /\ Len(RingOf(p, o, n)) = n
           /\ \A i \in 1 .. n : RingOf(p, o, n)[i] = p[Spot(o, i)] /\ i \in 1 .. MbSize
<1>0. MbSize \in Nat \ {0} /\ n \in Nat
  BY MailboxAssumption DEF MailboxAssumption
<1>1. \A i \in 1 .. n : i \in 1 .. MbSize
  BY <1>0
<1>2. \A i \in 1 .. n : p[Spot(o, i)] \in S
  BY <1>1, SpotIs DEF IsPool
<1>3. RingOf(p, o, n) \in [1 .. n -> S]
  BY <1>2 DEF RingOf
<1>4. RingOf(p, o, n) \in Seq(S)
  BY <1>0, <1>3
<1>5. DOMAIN RingOf(p, o, n) = 1 .. n
  BY DEF RingOf
<1>6. Len(RingOf(p, o, n)) = n
  BY <1>0, <1>4, <1>5, LenProperties
<1> QED BY <1>1, <1>4, <1>6 DEF RingOf

\* A value is put in behind the last one.
LEMMA RingPut ==
    ASSUME NEW S, NEW p, IsPool(p, S), NEW o \in Places, NEW n \in 0 .. MbSize, n # MbSize,
           NEW v \in S, NEW j, j = (o + n) % MbSize,
           NEW q, IsPool(q, S), Filled(p, q, j, v)
    PROVE  /\ After(j) = (o + (n + 1)) % MbSize /\ n + 1 \in 0 .. MbSize
           /\ RingOf(q, o, n + 1) = Append(RingOf(p, o, n), v)
<1>0. MbSize \in Nat \ {0} /\ n \in Nat /\ o \in Nat /\ n < MbSize /\ o < MbSize
  BY MailboxAssumption DEF MailboxAssumption, Places
<1>1. n + 1 \in 1 .. MbSize /\ n + 1 \in 0 .. MbSize /\ o + (n + 1) - 1 = o + n
  BY <1>0
<1>2. j = Spot(o, n + 1)
  BY <1>1 DEF Spot
<1>3. j \in Places /\ j = (IF o + n < MbSize THEN o + n ELSE o + n - MbSize)
  BY <1>1, <1>2, SpotIs
<1>4. After(j) = (o + (n + 1)) % MbSize
  <2> DEFINE M == MbSize
             x == o + (n + 1)
  <2>1. M \in Nat \ {0} /\ x \in Nat /\ x <= 2 * M /\ x = o + n + 1 /\ o + n \in Nat
    BY <1>0
  <2>2. After(j) = IF j + 1 >= M THEN 0 ELSE j + 1
    BY DEF After
  <2>3. j = IF x - 1 < M THEN x - 1 ELSE x - 1 - M
    BY <1>0, <1>3
  <2> SUFFICES After(j) = x % M
    OBVIOUS
  <2> HIDE DEF x, M
  <2>4. CASE x < M
    BY <2>1, <2>2, <2>3, <2>4
  <2>5. CASE x = M
    <3>1. x % M = 0
      BY <2>1, <2>5
    <3> QED BY <2>1, <2>2, <2>3, <2>5, <3>1
  <2>6. CASE x > M /\ x < 2 * M
    <3>1. x % M = x - M
      BY <2>1, <2>6
    <3>2. j = x - 1 - M
      BY <2>1, <2>3, <2>6
    <3> QED BY <2>1, <2>2, <2>6, <3>1, <3>2
  <2>7. CASE x = 2 * M
    <3>1. x - M = M /\ x - M < 2 * M /\ M % M = 0
      BY <2>1, <2>7
    <3>2. x # 2 * M
      BY <1>0 DEF x, M
    <3> QED BY <2>7, <3>2
  <2> QED BY <2>1, <2>4, <2>5, <2>6, <2>7 DEF x, M
<1> DEFINE c == RingOf(p, o, n)
           d == RingOf(q, o, n + 1)
<1>5. q[j] = v /\ \A k \in Places : k # j => q[k] = p[k]
  BY DEF Filled
<1>6. c \in Seq(S) /\ Len(c) = n /\ \A i \in 1 .. n : c[i] = p[Spot(o, i)] /\ i \in 1 .. MbSize
  <2>1. /\ RingOf(p, o, n) \in Seq(S) /\ Len(RingOf(p, o, n)) = n
        /\ \A i \in 1 .. n : RingOf(p, o, n)[i] = p[Spot(o, i)] /\ i \in 1 .. MbSize
    BY RingIs
  <2> QED BY <2>1
<1>7. d \in Seq(S) /\ Len(d) = n + 1 /\ \A i \in 1 .. n + 1 : d[i] = q[Spot(o, i)]
  BY <1>1, <1>5, RingIs
<1> HIDE DEF c, d
<1>8. ASSUME NEW i \in 1 .. n PROVE d[i] = c[i]
  <2>1. i \in 1 .. MbSize /\ i \in 1 .. n + 1 /\ i - 1 < n
    BY <1>0
  <2>2. Spot(o, i) \in Places /\ Spot(o, i) = IF o + i - 1 < MbSize THEN o + i - 1 ELSE o + i - 1 - MbSize
    BY <2>1, SpotIs
  <2>3. Spot(o, i) # j
    BY <1>0, <1>3, <2>1, <2>2
  <2> QED BY <1>5, <1>6, <1>7, <2>1, <2>2, <2>3
<1>9. d[n + 1] = v
  <2>1. n + 1 \in 1 .. n + 1
    BY <1>0
  <2> QED BY <1>2, <1>5, <1>7, <2>1
<1>10. /\ Append(c, v) \in Seq(S) /\ Len(Append(c, v)) = n + 1 /\ Append(c, v)[n + 1] = v
       /\ \A i \in 1 .. n : Append(c, v)[i] = c[i]
  BY <1>6, AppendProperties
<1>11. \A i \in 1 .. n + 1 : d[i] = Append(c, v)[i]
  <2>1. \A i \in 1 .. n + 1 : i \in 1 .. n \/ i = n + 1
    BY <1>0
  <2> QED BY <1>8, <1>9, <1>10, <2>1
<1>12. d = Append(c, v)
  BY <1>7, <1>10, <1>11, SeqEqual
<1> QED BY <1>1, <1>4, <1>12 DEF c, d

\* A value is put in before the first one.
LEMMA RingPutUrgent ==
    ASSUME NEW S, NEW p, IsPool(p, S), NEW o \in Places, NEW n \in 0 .. MbSize, n # MbSize,
           NEW v \in S, NEW j, j = Before(o), NEW q, IsPool(q, S), Filled(p, q, j, v)
    PROVE  /\ j \in Places
           /\ (j + (n + 1)) % MbSize = (o + n) % MbSize /\ n + 1 \in 0 .. MbSize
           /\ RingOf(q, j, n + 1) = <<v>> \o RingOf(p, o, n)
<1>0. MbSize \in Nat \ {0} /\ n \in Nat /\ o \in Nat /\ n < MbSize /\ o < MbSize
  BY MailboxAssumption DEF MailboxAssumption, Places
<1>1. j \in Places /\ j = (IF o > 0 THEN o - 1 ELSE MbSize - 1)
  BY <1>0 DEF Before, Places
<1>2. n + 1 \in 1 .. MbSize /\ n + 1 \in 0 .. MbSize
  BY <1>0
<1>3. \A i \in 1 .. MbSize : i + 1 \in 1 .. MbSize => Spot(j, i + 1) = Spot(o, i)
  <2> SUFFICES ASSUME NEW i \in 1 .. MbSize, i + 1 \in 1 .. MbSize PROVE Spot(j, i + 1) = Spot(o, i)
    OBVIOUS
  <2>1. /\ Spot(j, i + 1) = (IF j + (i + 1) - 1 < MbSize THEN j + (i + 1) - 1 ELSE j + (i + 1) - 1 - MbSize)
        /\ Spot(o, i) = (IF o + i - 1 < MbSize THEN o + i - 1 ELSE o + i - 1 - MbSize)
    BY <1>1, SpotIs
  <2> QED BY <1>0, <1>1, <2>1
<1>4. (j + (n + 1)) % MbSize = (o + n) % MbSize
  <2> DEFINE M == MbSize
             x == o + n
  <2>1. M \in Nat \ {0} /\ x \in Nat /\ x < 2 * M
    BY <1>0
  <2>2. CASE o > 0
    <3>1. j + (n + 1) = o + n
      BY <1>0, <1>1, <2>2
    <3> QED BY <3>1
  <2>3. CASE o = 0
    <3>1. x < M /\ j + (n + 1) = x + M
      BY <1>0, <1>1, <2>3
    <3>2. (x + M) % M = x /\ x % M = x
      <4> HIDE DEF x, M
      <4> QED BY <2>1, <3>1
    <3> QED BY <3>1, <3>2
  <2> QED BY <1>0, <2>2, <2>3
<1> DEFINE c == RingOf(p, o, n)
           d == RingOf(q, j, n + 1)
           u == <<v>> \o c
<1>5. q[j] = v /\ \A k \in Places : k # j => q[k] = p[k]
  BY DEF Filled
<1>6. c \in Seq(S) /\ Len(c) = n /\ \A i \in 1 .. n : c[i] = p[Spot(o, i)] /\ i \in 1 .. MbSize
  <2>1. /\ RingOf(p, o, n) \in Seq(S) /\ Len(RingOf(p, o, n)) = n
        /\ \A i \in 1 .. n : RingOf(p, o, n)[i] = p[Spot(o, i)] /\ i \in 1 .. MbSize
    BY RingIs
  <2> QED BY <2>1
<1>7. d \in Seq(S) /\ Len(d) = n + 1 /\ \A i \in 1 .. n + 1 : d[i] = q[Spot(j, i)]
  <2>1. IsPool(q, S) /\ j \in Places /\ n + 1 \in 0 .. MbSize
    BY <1>1, <1>2, <1>5
  <2>2. /\ RingOf(q, j, n + 1) \in Seq(S) /\ Len(RingOf(q, j, n + 1)) = n + 1
        /\ \A i \in 1 .. n + 1 : RingOf(q, j, n + 1)[i] = q[Spot(j, i)]
    BY <2>1, RingIs
  <2> QED BY <2>2
<1> HIDE DEF c, d
<1>8. u \in Seq(S) /\ Len(u) = n + 1 /\ u[1] = v /\ \A i \in 1 .. n : u[i + 1] = c[i]
  <2>1. <<v>> \in Seq(S) /\ Len(<<v>>) = 1 /\ <<v>>[1] = v
    OBVIOUS
  <2>2. /\ u \in Seq(S) /\ Len(u) = 1 + n
        /\ \A i \in 1 .. 1 + n : u[i] = IF i <= 1 THEN <<v>>[i] ELSE c[i - 1]
    BY <1>6, <2>1, ConcatProperties
  <2> HIDE DEF u
  <2>3. ASSUME NEW i \in 1 .. n PROVE u[i + 1] = c[i]
    <3> DEFINE k == i + 1
    <3>1. k \in 1 .. 1 + n /\ ~ (k <= 1) /\ k - 1 = i
      BY <1>0
    <3> HIDE DEF k
    <3>2. u[k] = c[k - 1]
      BY <2>2, <3>1
    <3> QED BY <3>1, <3>2 DEF k
  <2>4. u[1] = v /\ 1 + n = n + 1
    BY <1>0, <2>1, <2>2
  <2> QED BY <2>2, <2>3, <2>4
<1> HIDE DEF u
<1>9. d[1] = v
  <2>1. Spot(j, 1) = j
    <3>1. 1 \in 1 .. MbSize /\ j + 1 - 1 = j /\ j < MbSize
      BY <1>0, <1>1 DEF Places
    <3> QED BY <1>1, <3>1, SpotIs
  <2>2. 1 \in 1 .. n + 1
    BY <1>0
  <2> QED BY <1>5, <1>7, <2>1, <2>2
<1>10. ASSUME NEW i \in 1 .. n PROVE d[i + 1] = c[i]
  <2>1. i \in 1 .. MbSize /\ i + 1 \in 1 .. MbSize /\ i + 1 \in 1 .. n + 1 /\ i <= n /\ i > 0
    BY <1>0
  <2>2. Spot(o, i) \in Places /\ Spot(o, i) = IF o + i - 1 < MbSize THEN o + i - 1 ELSE o + i - 1 - MbSize
    BY <2>1, SpotIs
  <2>3. Spot(o, i) # j
    BY <1>0, <1>1, <2>1, <2>2
  <2>4. d[i + 1] = q[Spot(j, i + 1)]
    BY <1>7, <2>1
  <2> QED BY <1>3, <1>5, <1>6, <2>1, <2>2, <2>3, <2>4
<1>11. \A i \in 1 .. n + 1 : d[i] = u[i]
  <2> TAKE i \in 1 .. n + 1
  <2>1. CASE i = 1
    BY <1>8, <1>9, <2>1
  <2>2. CASE i # 1
    <3> DEFINE k == i - 1
    <3>1. k \in 1 .. n /\ i = k + 1
      BY <1>0, <2>2
    <3> HIDE DEF k
    <3> QED BY <1>8, <1>10, <3>1
  <2> QED BY <2>1, <2>2
<1>12. d = u
  BY <1>7, <1>8, <1>11, SeqEqual
<1> QED BY <1>1, <1>2, <1>4, <1>12 DEF c, d, u

\* The first value is taken out.
LEMMA RingTaken ==
    ASSUME NEW S, NEW p, IsPool(p, S), NEW o \in Places, NEW n \in 0 .. MbSize, n # 0
    PROVE  /\ After(o) \in Places /\ n - 1 \in 0 .. MbSize
           /\ (After(o) + (n - 1)) % MbSize = (o + n) % MbSize
           /\ RingOf(p, o, n) # <<>> /\ Head(RingOf(p, o, n)) = p[o]
           /\ RingOf(p, After(o), n - 1) = Tail(RingOf(p, o, n))
<1>0. MbSize \in Nat \ {0} /\ n \in Nat \ {0} /\ o \in Nat /\ n <= MbSize /\ o < MbSize
  BY MailboxAssumption DEF MailboxAssumption, Places
<1> DEFINE j == After(o)
<1>1. j \in Places /\ j = (IF o + 1 >= MbSize THEN 0 ELSE o + 1) /\ n - 1 \in 0 .. MbSize
  BY <1>0 DEF After, Places
<1> HIDE DEF j
<1>2. ASSUME NEW i \in 1 .. MbSize, i + 1 \in 1 .. MbSize PROVE Spot(j, i) = Spot(o, i + 1)
  <2>1. /\ Spot(j, i) = (IF j + i - 1 < MbSize THEN j + i - 1 ELSE j + i - 1 - MbSize)
        /\ Spot(o, i + 1) = (IF o + (i + 1) - 1 < MbSize THEN o + (i + 1) - 1 ELSE o + (i + 1) - 1 - MbSize)
    BY <1>1, <1>2, SpotIs
  <2> QED BY <1>0, <1>1, <1>2, <2>1
<1>3. (j + (n - 1)) % MbSize = (o + n) % MbSize
  <2> DEFINE M == MbSize
             x == n - 1
  <2>1. M \in Nat \ {0} /\ x \in Nat /\ x < M
    BY <1>0
  <2>2. CASE o + 1 < M
    <3>1. j + (n - 1) = o + n
      BY <1>0, <1>1, <2>2
    <3> QED BY <3>1
  <2>3. CASE o + 1 = M
    <3>1. o + n = x + M /\ j + (n - 1) = x
      BY <1>0, <1>1, <2>3
    <3>2. (x + M) % M = x /\ x % M = x
      <4> HIDE DEF x, M
      <4> QED BY <2>1
    <3> QED BY <3>1, <3>2
  <2> QED BY <1>0, <2>2, <2>3
<1> DEFINE c == RingOf(p, o, n)
           d == RingOf(p, j, n - 1)
<1>4. c \in Seq(S) /\ Len(c) = n /\ \A i \in 1 .. n : c[i] = p[Spot(o, i)] /\ i \in 1 .. MbSize
  <2>1. /\ RingOf(p, o, n) \in Seq(S) /\ Len(RingOf(p, o, n)) = n
        /\ \A i \in 1 .. n : RingOf(p, o, n)[i] = p[Spot(o, i)] /\ i \in 1 .. MbSize
    BY RingIs
  <2> QED BY <2>1
<1>5. d \in Seq(S) /\ Len(d) = n - 1 /\ \A i \in 1 .. n - 1 : d[i] = p[Spot(j, i)]
  <2>1. j \in Places /\ n - 1 \in 0 .. MbSize
    BY <1>1
  <2> DEFINE m == n - 1
  <2> HIDE DEF m
  <2>2. /\ RingOf(p, j, m) \in Seq(S) /\ Len(RingOf(p, j, m)) = m
        /\ \A i \in 1 .. m : RingOf(p, j, m)[i] = p[Spot(j, i)]
    <3>1. m \in 0 .. MbSize
      BY <2>1 DEF m
    <3> QED BY <2>1, <3>1, RingIs
  <2> QED BY <2>2 DEF m
<1> HIDE DEF c, d
<1>6. c # <<>>
  BY <1>0, <1>4
<1>7. /\ Tail(c) \in Seq(S) /\ Len(Tail(c)) = n - 1
      /\ \A i \in 1 .. n - 1 : Tail(c)[i] = c[i + 1]
  BY <1>4, <1>6, HeadTailProperties
<1>8. Head(c) = p[o]
  <2>1. 1 \in 1 .. n /\ 1 \in 1 .. MbSize /\ o + 1 - 1 = o /\ o < MbSize
    BY <1>0
  <2>2. Spot(o, 1) = o
    BY <2>1, SpotIs
  <2> QED BY <1>4, <1>6, <2>1, <2>2
<1>9. ASSUME NEW i \in 1 .. n - 1 PROVE d[i] = Tail(c)[i]
  <2>1. i \in 1 .. MbSize /\ i + 1 \in 1 .. MbSize /\ i + 1 \in 1 .. n
    BY <1>0
  <2>2. c[i + 1] = p[Spot(o, i + 1)] /\ Spot(j, i) = Spot(o, i + 1)
    BY <1>2, <1>4, <2>1
  <2> QED BY <1>5, <1>7, <2>2
<1>10. d = Tail(c)
  <2>1. Len(d) = Len(Tail(c)) /\ \A i \in 1 .. Len(d) : d[i] = Tail(c)[i]
    BY <1>5, <1>7, <1>9
  <2> QED BY <1>5, <1>7, <2>1, SeqEqual
<1> QED BY <1>1, <1>3, <1>6, <1>8, <1>10 DEF c, d, j

-----------------------------------------------------------------------------
\* The ring holds entry values from out on, and in comes behind them.
RingOK ==
    /\ pool \in [Places -> Mails \cup {NoMail}]
    /\ out \in Places /\ entry \in 0 .. MbSize
    /\ in = (out + entry) % MbSize

HandsOK ==
    /\ {sending, mail} \subseteq [Threads -> Mails \cup {NoMail}]
    /\ \A t \in Threads : th[t].on = "mbSend" => sending[t] \in Mails

\* Both lines stand in order, and what is there to fetch, or to fill, is owed to
\* calls that were woken.
LinesOK ==
    /\ mbReceivers \in Seq(Threads) /\ InLine(mbReceivers, OnCall("mbRecv"))
    /\ Promised(entry, mbReceivers, OnCall("mbRecv"))
    /\ mbSenders \in Seq(Threads) /\ InLine(mbSenders, OnCall("mbSend"))
    /\ Promised(MbSize - entry, mbSenders, OnCall("mbSend"))

MbInv == RingOK /\ HandsOK /\ LinesOK

\* What stands in the mailbox, the state that Channel sees.
Line == RingOf(pool, out, entry)

Sizes == MbSize \in Nat \ {0} /\ entry \in 0 .. MbSize /\ MbSize - entry \in Nat /\ MbSize \in Int
LEMMA SizesAre == ASSUME RingOK PROVE Sizes /\ entry \in Nat
BY MailboxAssumption DEF MailboxAssumption, RingOK, Sizes

LEMMA RingLong == ASSUME RingOK PROVE Len(RingOf(pool, out, entry)) = entry
<1> DEFINE S == Mails \cup {NoMail}
<1>1. IsPool(pool, S) /\ out \in Places /\ entry \in 0 .. MbSize
  BY DEF RingOK, IsPool
<1> HIDE DEF S
<1> QED BY <1>1, RingIs

LEMMA RingStored ==
    ASSUME RingOK, NEW v \in Mails, entry # MbSize, Store(v)
    PROVE  /\ RingOK' /\ Line' = Append(Line, v) /\ Len(Line) < MbSize
           /\ entry' = entry + 1 /\ mbReceivers' = Resumed(mbReceivers) /\ mbSenders' = mbSenders
<1>1. MbSize \in Nat \ {0} /\ entry \in 0 .. MbSize /\ entry < MbSize /\ entry < MbEntryMax
  BY MailboxAssumption DEF MailboxAssumption, RingOK
<1>2. /\ pool' = [pool EXCEPT ![in] = v] /\ in' = After(in) /\ out' = out
      /\ entry' = entry + 1 /\ mbReceivers' = Resumed(mbReceivers) /\ mbSenders' = mbSenders
  BY <1>1 DEF Store
<1> DEFINE S == Mails \cup {NoMail}
<1>3. /\ pool \in [Places -> S] /\ out \in Places /\ entry \in 0 .. MbSize /\ entry # MbSize
      /\ v \in S /\ in = (out + entry) % MbSize /\ in \in Places
  <2>1. entry + 1 \in 1 .. MbSize /\ out + (entry + 1) - 1 = out + entry
    BY <1>1, MailboxAssumption DEF MailboxAssumption, RingOK, Places
  <2>2. in \in Places
    BY <2>1, SpotIs DEF RingOK, Spot
  <2> QED BY <2>2 DEF RingOK
<1> HIDE DEF S
<1>4. IsPool(pool, S) /\ IsPool(pool', S) /\ Filled(pool, pool', in, v)
  BY <1>2, <1>3 DEF Filled, IsPool
<1>5. /\ After(in) = (out + (entry + 1)) % MbSize /\ entry + 1 \in 0 .. MbSize
      /\ RingOf(pool', out, entry + 1) = Append(RingOf(pool, out, entry), v)
  BY <1>3, <1>4, RingPut
<1>6. Len(RingOf(pool, out, entry)) = entry
  BY RingLong
<1>7. RingOK'
  BY <1>2, <1>3, <1>4, <1>5 DEF RingOK, IsPool, S
<1> QED BY <1>1, <1>2, <1>5, <1>6, <1>7 DEF Line

LEMMA RingUrgent ==
    ASSUME RingOK, NEW v \in Mails, entry # MbSize, in' = in, out' = Before(out),
           pool' = [pool EXCEPT ![Before(out)] = v], entry' = entry + 1
    PROVE  RingOK' /\ Line' = <<v>> \o Line /\ Len(Line) < MbSize
<1>1. MbSize \in Nat \ {0} /\ entry \in 0 .. MbSize /\ entry < MbSize
  BY MailboxAssumption DEF MailboxAssumption, RingOK
<1> DEFINE S == Mails \cup {NoMail}
           j == Before(out)
<1>2. /\ pool \in [Places -> S] /\ out \in Places /\ entry \in 0 .. MbSize /\ entry # MbSize
      /\ v \in S /\ j \in Places /\ in = (out + entry) % MbSize
  BY <1>1 DEF RingOK, Before, Places
<1>3. pool' = [pool EXCEPT ![j] = v] /\ out' = j /\ j = Before(out)
  OBVIOUS
<1> HIDE DEF S, j
<1>4. IsPool(pool, S) /\ IsPool(pool', S) /\ Filled(pool, pool', j, v)
  BY <1>2, <1>3 DEF Filled, IsPool
<1>5. /\ (j + (entry + 1)) % MbSize = (out + entry) % MbSize /\ entry + 1 \in 0 .. MbSize
      /\ RingOf(pool', j, entry + 1) = <<v>> \o RingOf(pool, out, entry)
  <2>1. /\ IsPool(pool, S) /\ IsPool(pool', S) /\ out \in Places /\ entry \in 0 .. MbSize
        /\ entry # MbSize /\ v \in S /\ j = Before(out) /\ Filled(pool, pool', j, v)
    BY <1>2, <1>3, <1>4
  <2> QED BY ONLY <2>1, RingPutUrgent
<1>6. Len(RingOf(pool, out, entry)) = entry
  BY RingLong
<1>7. RingOK'
  BY <1>2, <1>3, <1>4, <1>5 DEF RingOK, IsPool, S
<1>8. Line' = <<v>> \o Line
  BY <1>3, <1>5 DEF Line
<1> QED BY <1>1, <1>6, <1>7, <1>8 DEF Line

LEMMA RingFetched ==
    ASSUME RingOK, NEW t \in Threads, entry # 0, Fetch(t)
    PROVE  /\ RingOK' /\ Line # <<>> /\ Line' = Tail(Line)
           /\ mail' = [mail EXCEPT ![t] = Head(Line)] /\ pool[out] \in Mails \cup {NoMail}
           /\ entry' = entry - 1 /\ mbSenders' = Resumed(mbSenders) /\ mbReceivers' = mbReceivers
<1>1. MbSize \in Nat \ {0} /\ entry \in 0 .. MbSize /\ entry > 0
  BY MailboxAssumption DEF MailboxAssumption, RingOK
<1>2. /\ mail' = [mail EXCEPT ![t] = pool[out]] /\ out' = After(out) /\ entry' = entry - 1
      /\ mbSenders' = Resumed(mbSenders) /\ UNCHANGED <<pool, in, mbReceivers>>
  BY <1>1 DEF Fetch
<1>3. /\ After(out) \in Places /\ entry - 1 \in 0 .. MbSize
      /\ (After(out) + (entry - 1)) % MbSize = (out + entry) % MbSize
      /\ RingOf(pool, out, entry) # <<>> /\ Head(RingOf(pool, out, entry)) = pool[out]
      /\ RingOf(pool, After(out), entry - 1) = Tail(RingOf(pool, out, entry))
  <2>1. IsPool(pool, Mails \cup {NoMail}) /\ out \in Places
    BY DEF RingOK, IsPool
  <2> QED BY <1>1, <2>1, RingTaken
<1>4. pool[out] \in Mails \cup {NoMail}
  BY DEF RingOK
<1> QED BY <1>1, <1>2, <1>3, <1>4 DEF RingOK, Line

LEMMA RingStays ==
    ASSUME RingOK, UNCHANGED ring
    PROVE  RingOK' /\ Line' = Line /\ entry' = entry
BY DEF RingOK, ring, Line

\* A line that a step leaves alone, and with it the calls that wait there.
LEMMA SideStays ==
    ASSUME NEW t \in Threads, \A u \in Threads : u # t => th'[u] = th[u], NEW on, t \notin OnCall(on),
           NEW list, NEW n \in Nat, InLine(list, OnCall(on)), Promised(n, list, OnCall(on))
    PROVE  InLine(list, OnCall(on)') /\ Promised(n, list, OnCall(on)')
<1>1. OnCall(on) \subseteq OnCall(on)' /\ IsFiniteSet(OnCall(on)')
  BY OnlyOne, FewOnCall
<1>2. Promised(n, list, OnCall(on)')
  BY <1>1, OwedStays
<1> QED BY <1>1, <1>2 DEF InLine

\* A call that is not in the line moves on.
LEMMA LineStays ==
    ASSUME NEW t \in Threads, \A u \in Threads : u # t => th'[u] = th[u], NEW on,
           NEW list, t \notin ToSet(list), InLine(list, OnCall(on))
    PROVE  InLine(list, OnCall(on)')
BY OnlyOne DEF InLine

\* A call that is on neither line, ready or woken.
Free(t, on) ==
    /\ th[t].on \in {"none", on}
    /\ t \notin ToSet(mbReceivers) /\ t \notin ToSet(mbSenders)

LEMMA ReadyFree == ASSUME LinesOK, NEW t \in Threads, th[t] = Ready, NEW on PROVE Free(t, on)
BY DEF LinesOK, InLine, OnCall, Ready, Free

LEMMA MbInvSendLoop ==
    ASSUME ThOK, MbInv, NEW t \in Threads, Free(t, "mbSend"), NEW v \in Mails, NEW w \in Timeouts,
           MbSendLoop(t, v, w), mail' = mail
    PROVE  MbInv' /\ ThOK' /\ Within({"mbSend", "mbRecv"})
<1>1. t \notin OnCall("mbRecv") /\ t \notin ToSet(mbSenders) /\ t \notin ToSet(mbReceivers)
  BY DEF Free, OnCall
<1>2. Sizes /\ entry \in Nat
  BY SizesAre DEF MbInv
<1>3. CASE entry # MbSize /\ Store(v) /\ Returns(t) /\ sending' = [sending EXCEPT ![t] = NoMail]
  <2>1. /\ RingOK' /\ entry' = entry + 1 /\ mbReceivers' = Resumed(mbReceivers) /\ mbSenders' = mbSenders
    BY <1>3, RingStored DEF MbInv
  <2>2. ThOK' /\ th'[t] = Ready /\ \A u \in Threads : u # t => th'[u] = th[u]
    BY <1>3, Moves
  <2>3. HandsOK'
    BY <1>3, <2>2 DEF MbInv, HandsOK, Ready
  <2>4. Resumed(mbReceivers) \in Seq(Threads) /\ InLine(Resumed(mbReceivers), OnCall("mbRecv")')
        /\ Promised(entry + 1, Resumed(mbReceivers), OnCall("mbRecv")')
    <3>1. OnCall("mbRecv") \subseteq OnCall("mbRecv")' /\ IsFiniteSet(OnCall("mbRecv")')
      BY <1>1, <2>2, OnlyOne, FewOnCall
    <3> QED BY <1>2, <3>1, LineResumed DEF MbInv, LinesOK
  <2>5. InLine(mbSenders, OnCall("mbSend")')
    BY <1>1, <2>2, LineStays DEF MbInv, LinesOK
  <2>6. Promised(MbSize - entry - 1, mbSenders, OnCall("mbSend")')
    <3> DEFINE n == MbSize - entry
    <3>1. n \in Nat \ {0} /\ Promised(n, mbSenders, OnCall("mbSend"))
      BY <1>2, <1>3 DEF MbInv, LinesOK, Sizes
    <3>2. IsFiniteSet(OnCall("mbSend")') /\ OnCall("mbSend") \subseteq OnCall("mbSend")' \cup {t}
      BY <2>2, OnlyOne, FewOnCall
    <3> HIDE DEF n
    <3>3. Promised(n - 1, mbSenders, OnCall("mbSend")')
      BY <3>1, <3>2, OwedSpent
    <3> QED BY <3>3 DEF n
  <2>7. MbSize - (entry + 1) = MbSize - entry - 1
    BY <1>2 DEF Sizes
  <2>8. LinesOK'
    BY <2>1, <2>4, <2>5, <2>6, <2>7 DEF MbInv, LinesOK
  <2>9. Within({"mbSend", "mbRecv"})
    BY <2>2 DEF Within, Ready
  <2> QED BY <2>1, <2>2, <2>3, <2>8, <2>9 DEF MbInv
<1>4. CASE /\ entry = MbSize /\ Returns(t) /\ sending' = [sending EXCEPT ![t] = NoMail]
           /\ UNCHANGED <<ring, mbReceivers, mbSenders>>
  <2>1. RingOK' /\ entry' = entry
    BY <1>4, RingStays DEF MbInv
  <2>2. ThOK' /\ th'[t] = Ready /\ \A u \in Threads : u # t => th'[u] = th[u]
    BY <1>4, Moves
  <2>3. HandsOK'
    BY <1>4, <2>2 DEF MbInv, HandsOK, Ready
  <2>4. InLine(mbReceivers, OnCall("mbRecv")') /\ Promised(entry, mbReceivers, OnCall("mbRecv")')
    BY <1>1, <1>2, <2>2, SideStays DEF MbInv, LinesOK
  <2>5. InLine(mbSenders, OnCall("mbSend")')
    BY <1>1, <2>2, LineStays DEF MbInv, LinesOK
  <2>6. MbSize - entry = 0 /\ Promised(0, mbSenders, OnCall("mbSend")')
    BY <1>2, <1>4, FewOnCall, OwedZero DEF Sizes
  <2>7. LinesOK'
    BY <1>4, <2>1, <2>4, <2>5, <2>6 DEF MbInv, LinesOK
  <2>8. Within({"mbSend", "mbRecv"})
    BY <2>2 DEF Within, Ready
  <2> QED BY <2>1, <2>2, <2>3, <2>7, <2>8 DEF MbInv
<1>5. CASE /\ entry = MbSize /\ mbSenders' = Suspended(mbSenders, t) /\ SleepsOn(t, "mbSend")
           /\ sending' = [sending EXCEPT ![t] = v] /\ UNCHANGED <<ring, mbReceivers>>
  <2>1. RingOK' /\ entry' = entry
    BY <1>5, RingStays DEF MbInv
  <2>2. ThOK' /\ th'[t] = [on |-> "mbSend", error |-> "EOK"] /\ \A u \in Threads : u # t => th'[u] = th[u]
    BY <1>5, Moves DEF Lists
  <2>3. HandsOK'
    BY <1>5, <2>2 DEF MbInv, HandsOK
  <2>4. InLine(mbReceivers, OnCall("mbRecv")') /\ Promised(entry, mbReceivers, OnCall("mbRecv")')
    BY <1>1, <1>2, <2>2, SideStays DEF MbInv, LinesOK
  <2>5. Suspended(mbSenders, t) \in Seq(Threads) /\ InLine(Suspended(mbSenders, t), OnCall("mbSend")')
    <3>1. t \in OnCall("mbSend")'
      BY <2>2 DEF OnCall
    <3>2. ToSet(mbSenders) \subseteq OnCall("mbSend")'
      BY <1>1, <2>2, OnlyOne DEF MbInv, LinesOK, InLine
    <3> QED BY <1>1, <3>1, <3>2, LineJoined DEF MbInv, LinesOK
  <2>6. MbSize - entry = 0 /\ Promised(0, mbSenders', OnCall("mbSend")')
    BY <1>2, <1>5, FewOnCall, OwedZero DEF Sizes
  <2>7. LinesOK'
    BY <1>5, <2>1, <2>4, <2>5, <2>6 DEF MbInv, LinesOK
  <2>8. Within({"mbSend", "mbRecv"})
    BY <2>2 DEF Within
  <2> QED BY <2>1, <2>2, <2>3, <2>7, <2>8 DEF MbInv
<1> QED BY <1>3, <1>4, <1>5 DEF MbSendLoop

LEMMA MbInvRecvLoop ==
    ASSUME ThOK, MbInv, NEW t \in Threads, Free(t, "mbRecv"), NEW w \in Timeouts,
           MbRecvLoop(t, w), sending' = sending
    PROVE  MbInv' /\ ThOK' /\ Within({"mbSend", "mbRecv"})
<1>1. t \notin OnCall("mbSend") /\ t \notin ToSet(mbSenders) /\ t \notin ToSet(mbReceivers)
  BY DEF Free, OnCall
<1>2. Sizes /\ entry \in Nat
  BY SizesAre DEF MbInv
<1>3. CASE entry # 0 /\ Fetch(t) /\ Returns(t)
  <2>1. /\ RingOK' /\ entry' = entry - 1 /\ mbSenders' = Resumed(mbSenders) /\ mbReceivers' = mbReceivers
        /\ mail' = [mail EXCEPT ![t] = pool[out]] /\ pool[out] \in Mails \cup {NoMail}
    BY <1>3, RingFetched DEF MbInv, Fetch
  <2>2. ThOK' /\ th'[t] = Ready /\ \A u \in Threads : u # t => th'[u] = th[u]
    BY <1>3, Moves
  <2>3. HandsOK'
    BY <2>1, <2>2 DEF MbInv, HandsOK, Ready
  <2>4. Resumed(mbSenders) \in Seq(Threads) /\ InLine(Resumed(mbSenders), OnCall("mbSend")')
        /\ Promised(MbSize - entry + 1, Resumed(mbSenders), OnCall("mbSend")')
    <3> DEFINE n == MbSize - entry
    <3>1. OnCall("mbSend") \subseteq OnCall("mbSend")' /\ IsFiniteSet(OnCall("mbSend")')
      BY <1>1, <2>2, OnlyOne, FewOnCall
    <3>2. n \in Nat /\ Promised(n, mbSenders, OnCall("mbSend"))
      BY <1>2 DEF MbInv, LinesOK, Sizes
    <3> HIDE DEF n
    <3>3. Resumed(mbSenders) \in Seq(Threads) /\ InLine(Resumed(mbSenders), OnCall("mbSend")')
          /\ Promised(n + 1, Resumed(mbSenders), OnCall("mbSend")')
      BY <3>1, <3>2, LineResumed DEF MbInv, LinesOK
    <3> QED BY <3>3 DEF n
  <2>5. InLine(mbReceivers, OnCall("mbRecv")')
    BY <1>1, <2>2, LineStays DEF MbInv, LinesOK
  <2>6. Promised(entry - 1, mbReceivers, OnCall("mbRecv")')
    <3>1. entry \in Nat \ {0} /\ Promised(entry, mbReceivers, OnCall("mbRecv"))
      BY <1>2, <1>3 DEF MbInv, LinesOK
    <3>2. IsFiniteSet(OnCall("mbRecv")') /\ OnCall("mbRecv") \subseteq OnCall("mbRecv")' \cup {t}
      BY <2>2, OnlyOne, FewOnCall
    <3> QED BY <3>1, <3>2, OwedSpent
  <2>7. MbSize - (entry - 1) = MbSize - entry + 1
    BY <1>2 DEF Sizes
  <2>8. LinesOK'
    BY <2>1, <2>4, <2>5, <2>6, <2>7 DEF MbInv, LinesOK
  <2>9. Within({"mbSend", "mbRecv"})
    BY <2>2 DEF Within, Ready
  <2> QED BY <2>1, <2>2, <2>3, <2>8, <2>9 DEF MbInv
<1>4. CASE entry = 0 /\ Returns(t) /\ UNCHANGED <<ring, mbReceivers, mbSenders, mail>>
  <2>1. RingOK' /\ entry' = entry
    BY <1>4, RingStays DEF MbInv
  <2>2. ThOK' /\ th'[t] = Ready /\ \A u \in Threads : u # t => th'[u] = th[u]
    BY <1>4, Moves
  <2>3. HandsOK'
    BY <1>4, <2>2 DEF MbInv, HandsOK, Ready
  <2>4. InLine(mbSenders, OnCall("mbSend")') /\ Promised(MbSize - entry, mbSenders, OnCall("mbSend")')
    BY <1>1, <1>2, <2>2, SideStays DEF MbInv, LinesOK, Sizes
  <2>5. InLine(mbReceivers, OnCall("mbRecv")')
    BY <1>1, <2>2, LineStays DEF MbInv, LinesOK
  <2>6. Promised(0, mbReceivers, OnCall("mbRecv")')
    BY FewOnCall, OwedZero
  <2>7. LinesOK'
    BY <1>4, <2>1, <2>4, <2>5, <2>6 DEF MbInv, LinesOK
  <2>8. Within({"mbSend", "mbRecv"})
    BY <2>2 DEF Within, Ready
  <2> QED BY <2>1, <2>2, <2>3, <2>7, <2>8 DEF MbInv
<1>5. CASE /\ entry = 0 /\ mbReceivers' = Suspended(mbReceivers, t) /\ SleepsOn(t, "mbRecv")
           /\ UNCHANGED <<ring, mbSenders, mail>>
  <2>1. RingOK' /\ entry' = entry
    BY <1>5, RingStays DEF MbInv
  <2>2. ThOK' /\ th'[t] = [on |-> "mbRecv", error |-> "EOK"] /\ \A u \in Threads : u # t => th'[u] = th[u]
    BY <1>5, Moves DEF Lists
  <2>3. HandsOK'
    BY <1>5, <2>2 DEF MbInv, HandsOK
  <2>4. InLine(mbSenders, OnCall("mbSend")') /\ Promised(MbSize - entry, mbSenders, OnCall("mbSend")')
    BY <1>1, <1>2, <2>2, SideStays DEF MbInv, LinesOK, Sizes
  <2>5. Suspended(mbReceivers, t) \in Seq(Threads) /\ InLine(Suspended(mbReceivers, t), OnCall("mbRecv")')
    <3>1. t \in OnCall("mbRecv")'
      BY <2>2 DEF OnCall
    <3>2. ToSet(mbReceivers) \subseteq OnCall("mbRecv")'
      BY <1>1, <2>2, OnlyOne DEF MbInv, LinesOK, InLine
    <3> QED BY <1>1, <3>1, <3>2, LineJoined DEF MbInv, LinesOK
  <2>6. Promised(0, mbReceivers', OnCall("mbRecv")')
    BY FewOnCall, OwedZero
  <2>7. LinesOK'
    BY <1>5, <2>1, <2>4, <2>5, <2>6 DEF MbInv, LinesOK
  <2>8. Within({"mbSend", "mbRecv"})
    BY <2>2 DEF Within
  <2> QED BY <2>1, <2>2, <2>3, <2>7, <2>8 DEF MbInv
<1> QED BY <1>3, <1>4, <1>5 DEF MbRecvLoop

\* A line that a call is not, or no longer, on the way to.
LEMMA MbInvSend ==
    ASSUME ThOK, MbInv, NEW t \in Threads, NEW v \in Mails, NEW w \in Timeouts, MbSend(t, v, w)
    PROVE  MbInv' /\ ThOK' /\ Within({"mbSend", "mbRecv"})
<1>1. Free(t, "mbSend")
  BY ReadyFree DEF MbSend, MbInv
<1> QED BY <1>1, MbInvSendLoop DEF MbSend

LEMMA MbInvRecv ==
    ASSUME ThOK, MbInv, NEW t \in Threads, NEW w \in Timeouts, MbRecv(t, w)
    PROVE  MbInv' /\ ThOK' /\ Within({"mbSend", "mbRecv"})
<1>1. Free(t, "mbRecv")
  BY ReadyFree DEF MbRecv, MbInv
<1> QED BY <1>1, MbInvRecvLoop DEF MbRecv

\* A call that failed returns: nobody counted on it.
LEMMA MbInvFails ==
    ASSUME ThOK, MbInv, NEW t \in Threads, th[t].error # "EOK", Returns(t),
           sending' \in {sending, [sending EXCEPT ![t] = NoMail]},
           UNCHANGED <<ring, mbReceivers, mbSenders, mail>>
    PROVE  MbInv' /\ ThOK' /\ Within({"mbSend", "mbRecv"})
<1>1. ThOK' /\ th'[t] = Ready /\ \A u \in Threads : u # t => th'[u] = th[u]
  BY Moves
<1>2. \A on : t \notin OnCall(on)
  BY DEF OnCall
<1>3. Sizes /\ entry \in Nat /\ RingOK' /\ entry' = entry
  BY SizesAre, RingStays DEF MbInv
<1>4. HandsOK'
  BY <1>1 DEF MbInv, HandsOK, Ready
<1>5. InLine(mbReceivers, OnCall("mbRecv")') /\ Promised(entry, mbReceivers, OnCall("mbRecv")')
  BY <1>1, <1>2, <1>3, SideStays DEF MbInv, LinesOK
<1>6. InLine(mbSenders, OnCall("mbSend")') /\ Promised(MbSize - entry, mbSenders, OnCall("mbSend")')
  BY <1>1, <1>2, <1>3, SideStays DEF MbInv, LinesOK, Sizes
<1>7. LinesOK'
  BY <1>3, <1>5, <1>6 DEF MbInv, LinesOK
<1>8. Within({"mbSend", "mbRecv"})
  BY <1>1 DEF Within, Ready
<1> QED BY <1>1, <1>3, <1>4, <1>7, <1>8 DEF MbInv

\* A sender that was woken looks again.
LEMMA MbInvSendResumed ==
    ASSUME ThOK, MbInv, NEW t \in Threads, MbSendResumed(t)
    PROVE  MbInv' /\ ThOK' /\ Within({"mbSend", "mbRecv"})
<1>1. th[t].on = "mbSend" /\ t \notin ToSet(mbSenders) /\ mail' = mail
  BY DEF MbSendResumed, Awake
<1>2. Free(t, "mbSend") /\ sending[t] \in Mails
  BY <1>1 DEF Free, MbInv, LinesOK, HandsOK, InLine, OnCall
<1>3. CASE th[t].error # "EOK"
  <2>1. Returns(t) /\ sending' = [sending EXCEPT ![t] = NoMail] /\ UNCHANGED <<ring, mbReceivers, mbSenders>>
    BY <1>3 DEF MbSendResumed
  <2> QED BY <1>1, <1>3, <2>1, MbInvFails
<1>4. CASE th[t].error = "EOK"
  <2>1. PICK w \in Timeouts : MbSendLoop(t, sending[t], w)
    BY <1>4 DEF MbSendResumed
  <2> QED BY <1>1, <1>2, <2>1, MbInvSendLoop
<1> QED BY <1>3, <1>4

\* A receiver that was woken looks again.
LEMMA MbInvRecvResumed ==
    ASSUME ThOK, MbInv, NEW t \in Threads, MbRecvResumed(t)
    PROVE  MbInv' /\ ThOK' /\ Within({"mbSend", "mbRecv"})
<1>1. th[t].on = "mbRecv" /\ t \notin ToSet(mbReceivers) /\ sending' = sending
  BY DEF MbRecvResumed, Awake
<1>2. Free(t, "mbRecv")
  BY <1>1 DEF Free, MbInv, LinesOK, InLine, OnCall
<1>3. CASE th[t].error # "EOK"
  <2>1. Returns(t) /\ UNCHANGED <<ring, mbReceivers, mbSenders, mail>>
    BY <1>3 DEF MbRecvResumed
  <2> QED BY <1>1, <1>3, <2>1, MbInvFails
<1>4. CASE th[t].error = "EOK"
  <2>1. PICK w \in Timeouts : MbRecvLoop(t, w)
    BY <1>4 DEF MbRecvResumed
  <2> QED BY <1>1, <1>2, <2>1, MbInvRecvLoop
<1> QED BY <1>3, <1>4

\* An urgent value takes room that senders were not woken for.
LEMMA MbInvUrgent ==
    ASSUME ThOK, MbInv, NEW t \in Threads, NEW v \in Mails, MbUrgent(t, v)
    PROVE  MbInv' /\ ThOK' /\ Within({"mbSend", "mbRecv"})
<1>1. th' = th /\ UNCHANGED <<mbSenders, sending, mail>>
  BY DEF MbUrgent
<1>2. ThOK' /\ Within({"mbSend", "mbRecv"}) /\ HandsOK' /\ \A on : OnCall(on)' = OnCall(on)
  BY <1>1 DEF ThOK, Within, MbInv, HandsOK, OnCall
<1>3. Sizes /\ entry \in Nat
  BY SizesAre DEF MbInv
<1>4. CASE /\ entry # MbSize /\ out' = Before(out) /\ pool' = [pool EXCEPT ![Before(out)] = v]
           /\ entry' = entry + 1 /\ mbReceivers' = Resumed(mbReceivers) /\ in' = in
  <2>1. RingOK'
    BY <1>4, RingUrgent DEF MbInv
  <2>2. Resumed(mbReceivers) \in Seq(Threads) /\ InLine(Resumed(mbReceivers), OnCall("mbRecv")')
        /\ Promised(entry + 1, Resumed(mbReceivers), OnCall("mbRecv")')
    <3>1. OnCall("mbRecv") \subseteq OnCall("mbRecv")' /\ IsFiniteSet(OnCall("mbRecv")')
      BY <1>2, FewOnCall
    <3> QED BY <1>3, <3>1, LineResumed DEF MbInv, LinesOK
  <2>3. Promised(MbSize - entry - 1, mbSenders, OnCall("mbSend")')
    <3> DEFINE n == MbSize - entry
    <3>1. n \in Nat \ {0} /\ Promised(n, mbSenders, OnCall("mbSend"))
      BY <1>3, <1>4 DEF MbInv, LinesOK, Sizes
    <3>2. IsFiniteSet(OnCall("mbSend")') /\ OnCall("mbSend") \subseteq OnCall("mbSend")' \cup {t}
      BY <1>2, FewOnCall
    <3> HIDE DEF n
    <3>3. Promised(n - 1, mbSenders, OnCall("mbSend")')
      BY <3>1, <3>2, OwedSpent
    <3> QED BY <3>3 DEF n
  <2>4. MbSize - (entry + 1) = MbSize - entry - 1
    BY <1>3 DEF Sizes
  <2>5. LinesOK'
    BY <1>1, <1>2, <1>4, <2>2, <2>3, <2>4 DEF MbInv, LinesOK
  <2> QED BY <1>2, <2>1, <2>5 DEF MbInv
<1>5. CASE UNCHANGED <<ring, mbReceivers>>
  <2>1. RingOK' /\ entry' = entry
    BY <1>5, RingStays DEF MbInv
  <2>2. LinesOK'
    BY <1>1, <1>2, <1>5, <2>1 DEF MbInv, LinesOK
  <2> QED BY <1>2, <2>1, <2>2 DEF MbInv
<1> QED BY <1>4, <1>5 DEF MbUrgent

\* Everybody who waits fails, and the ring is empty.
LEMMA MbInvReset ==
    ASSUME ThOK, MbInv, NEW t \in Threads, MbReset(t)
    PROVE  MbInv' /\ ThOK' /\ Within({"mbSend", "mbRecv"})
<1>1. ThOK' /\ Within({})
  BY AllFailed DEF MbReset
<1>2. RingOK'
  <2>1. MbSize \in Nat \ {0} /\ 0 % MbSize = 0
    BY MailboxAssumption DEF MailboxAssumption
  <2> QED BY <2>1 DEF MbReset, MbInv, RingOK, Places
<1>3. HandsOK'
  BY <1>1 DEF MbReset, MbInv, HandsOK, Within
<1>4. LinesOK'
  BY NobodyInLine DEF MbReset, LinesOK
<1> QED BY <1>1, <1>2, <1>3, <1>4 DEF MbInv, Within

\* A call gives up and leaves its line; whoever was woken for it is still there.
LEMMA OwedGivenUp ==
    ASSUME ThOK, NEW n \in Nat, NEW on, NEW list \in Seq(Threads), NEW t \in Threads, TimedOut(t, list),
           InLine(list, OnCall(on)), Promised(n, list, OnCall(on))
    PROVE  /\ Without(list, t) \in Seq(Threads) /\ InLine(Without(list, t), OnCall(on)')
           /\ Promised(n, Without(list, t), OnCall(on)') /\ t \in OnCall(on)
           /\ ThOK' /\ th'[t] = [on |-> th[t].on, error |-> "ETIMEOUT"]
           /\ \A u \in Threads : u # t => th'[u] = th[u]
<1>1. /\ t \in ToSet(list) /\ ThOK' /\ th'[t] = [on |-> th[t].on, error |-> "ETIMEOUT"]
      /\ \A u \in Threads : u # t => th'[u] = th[u]
  BY Moves
<1>2. OnCall(on) \subseteq OnCall(on)' \cup {t} /\ IsFiniteSet(OnCall(on)') /\ t \in OnCall(on)
  BY <1>1, OnlyOne, FewOnCall DEF InLine
<1>3. Without(list, t) \in Seq(Threads) /\ InLine(Without(list, t), OnCall(on)')
  BY <1>1, <1>2, LineLeft
<1>4. Promised(n, Without(list, t), OnCall(on)')
  <2>1. PICK i \in 1 .. Len(list) : list[i] = t /\ Without(list, t) = RemoveAt(list, i)
    BY <1>1, WithoutIs
  <2>2. IsInjective(list)
    BY DEF InLine
  <2> QED BY <1>2, <2>1, <2>2, OwedLeft
<1> QED BY <1>1, <1>2, <1>3, <1>4

LEMMA MbInvTimeout ==
    ASSUME ThOK, MbInv, NEW t \in Threads, MbTimeout(t)
    PROVE  MbInv' /\ ThOK' /\ Within({"mbSend", "mbRecv"})
<1>1. UNCHANGED <<ring, sending, mail>>
  BY DEF MbTimeout
<1>2. Sizes /\ entry \in Nat /\ RingOK' /\ entry' = entry
  BY <1>1, SizesAre, RingStays DEF MbInv
<1>3. CASE TimedOut(t, mbReceivers) /\ mbReceivers' = Without(mbReceivers, t) /\ mbSenders' = mbSenders
  <2>1. /\ mbReceivers' \in Seq(Threads) /\ InLine(mbReceivers', OnCall("mbRecv")')
        /\ Promised(entry, mbReceivers', OnCall("mbRecv")') /\ t \in OnCall("mbRecv")
        /\ ThOK' /\ th'[t] = [on |-> th[t].on, error |-> "ETIMEOUT"]
        /\ \A u \in Threads : u # t => th'[u] = th[u]
    BY <1>2, <1>3, OwedGivenUp DEF MbInv, LinesOK
  <2>2. t \notin OnCall("mbSend")
    BY <2>1 DEF OnCall
  <2>3. InLine(mbSenders, OnCall("mbSend")') /\ Promised(MbSize - entry, mbSenders, OnCall("mbSend")')
    BY <1>2, <2>1, <2>2, SideStays DEF MbInv, LinesOK, Sizes
  <2>4. LinesOK'
    BY <1>2, <1>3, <2>1, <2>3 DEF MbInv, LinesOK
  <2>5. HandsOK' /\ Within({"mbSend", "mbRecv"})
    BY <1>1, <2>1 DEF MbInv, HandsOK, Within
  <2> QED BY <1>2, <2>1, <2>4, <2>5 DEF MbInv
<1>4. CASE TimedOut(t, mbSenders) /\ mbSenders' = Without(mbSenders, t) /\ mbReceivers' = mbReceivers
  <2>1. /\ mbSenders' \in Seq(Threads) /\ InLine(mbSenders', OnCall("mbSend")')
        /\ Promised(MbSize - entry, mbSenders', OnCall("mbSend")') /\ t \in OnCall("mbSend")
        /\ ThOK' /\ th'[t] = [on |-> th[t].on, error |-> "ETIMEOUT"]
        /\ \A u \in Threads : u # t => th'[u] = th[u]
    BY <1>2, <1>4, OwedGivenUp DEF MbInv, LinesOK, Sizes
  <2>2. t \notin OnCall("mbRecv")
    BY <2>1 DEF OnCall
  <2>3. InLine(mbReceivers, OnCall("mbRecv")') /\ Promised(entry, mbReceivers, OnCall("mbRecv")')
    BY <1>2, <2>1, <2>2, SideStays DEF MbInv, LinesOK
  <2>4. LinesOK'
    BY <1>2, <1>4, <2>1, <2>3 DEF MbInv, LinesOK
  <2>5. HandsOK' /\ Within({"mbSend", "mbRecv"})
    BY <1>1, <2>1 DEF MbInv, HandsOK, Within
  <2> QED BY <1>2, <2>1, <2>4, <2>5 DEF MbInv
<1> QED BY <1>3, <1>4 DEF MbTimeout

LEMMA MbInvNext ==
    ASSUME ThOK, MbInv, MbNext
    PROVE  MbInv' /\ ThOK' /\ Within({"mbSend", "mbRecv"})
BY MbInvSend, MbInvRecv, MbInvSendResumed, MbInvRecvResumed, MbInvUrgent, MbInvReset, MbInvTimeout
   DEF MbNext

\* As long as another object is in use, nobody waits for a mail.
MbUnused ==
    /\ RingOK /\ {sending, mail} \subseteq [Threads -> Mails \cup {NoMail}]
    /\ mbReceivers = <<>> /\ mbSenders = <<>>
    /\ \A t \in Threads : th[t].on \notin {"mbSend", "mbRecv"}

LEMMA MbUnusedInv == MbUnused => MbInv
BY NobodyInLine DEF MbUnused, MbInv, HandsOK, LinesOK

LEMMA MbInvLosesNone == ASSUME MbInv PROVE MbNoLostWakeUp
<1>1. InOrder(mbReceivers, "mbRecv") /\ InOrder(mbSenders, "mbSend")
  BY InOrderInLine DEF MbInv, LinesOK
<1> QED BY <1>1, AwakeAre DEF MbInv, LinesOK, Promised, MbNoLostWakeUp

-----------------------------------------------------------------------------
(***************************************************************************)
(* The mailbox implements Channel.                                         *)
(***************************************************************************)
\* What the steps of Channel ask, in these words.
LEMMA MbChannelSteps ==
    /\ Line' = Line /\ mail' = mail => UNCHANGED MbChan!cvars
    /\ \A v \in Mails : Len(Line) < MbSize /\ mail' = mail
          /\ (Line' = Append(Line, v) \/ Line' = <<v>> \o Line) => MbChan!Next
    /\ \A t \in Threads :
          Line # <<>> /\ Line' = Tail(Line) /\ mail' = [mail EXCEPT ![t] = Head(Line)] => MbChan!Next
    /\ \A t \in Threads : Line' = <<>> /\ mail' = mail => MbChan!Next
BY DEF Line, RingOf, Spot, MbChan!cvars, MbChan!Next, MbChan!Put, MbChan!PutUrgent, MbChan!Take,
       MbChan!Clear

MbChanStep == [MbChan!Next]_(MbChan!cvars)

\* A call that waits, fails or gives up.
LEMMA MbRefQuiet == ASSUME UNCHANGED <<ring, mail>> PROVE MbChanStep
<1>1. Line' = Line /\ mail' = mail
  BY DEF ring, Line
<1> QED BY <1>1, MbChannelSteps DEF MbChanStep

LEMMA MbRefSendLoop ==
    ASSUME MbInv, NEW t \in Threads, NEW v \in Mails, NEW w \in Timeouts, MbSendLoop(t, v, w), mail' = mail
    PROVE  MbChanStep
<1>1. CASE entry # MbSize /\ Store(v)
  <2>1. Line' = Append(Line, v) /\ Len(Line) < MbSize
    BY <1>1, RingStored DEF MbInv
  <2> QED BY <2>1, MbChannelSteps DEF MbChanStep
<1>2. CASE UNCHANGED ring
  BY <1>2, MbRefQuiet
<1> QED BY <1>1, <1>2 DEF MbSendLoop

LEMMA MbRefRecvLoop ==
    ASSUME MbInv, NEW t \in Threads, NEW w \in Timeouts, MbRecvLoop(t, w)
    PROVE  MbChanStep
<1>1. CASE entry # 0 /\ Fetch(t)
  <2>1. Line # <<>> /\ Line' = Tail(Line) /\ mail' = [mail EXCEPT ![t] = Head(Line)]
    BY <1>1, RingFetched DEF MbInv
  <2> QED BY <2>1, MbChannelSteps DEF MbChanStep
<1>2. CASE UNCHANGED <<ring, mail>>
  BY <1>2, MbRefQuiet
<1> QED BY <1>1, <1>2 DEF MbRecvLoop

LEMMA MbRefUrgent ==
    ASSUME MbInv, NEW t \in Threads, NEW v \in Mails, MbUrgent(t, v)
    PROVE  MbChanStep
<1>1. mail' = mail
  BY DEF MbUrgent
<1>2. CASE /\ entry # MbSize /\ out' = Before(out) /\ pool' = [pool EXCEPT ![Before(out)] = v]
           /\ entry' = entry + 1 /\ in' = in
  <2>1. Line' = <<v>> \o Line /\ Len(Line) < MbSize
    BY <1>2, RingUrgent DEF MbInv
  <2> QED BY <1>1, <2>1, MbChannelSteps DEF MbChanStep
<1>3. CASE UNCHANGED ring
  BY <1>1, <1>3, MbRefQuiet
<1> QED BY <1>2, <1>3 DEF MbUrgent

LEMMA MbRefReset == ASSUME NEW t \in Threads, MbReset(t) PROVE MbChanStep
<1>1. mail' = mail /\ entry' = 0
  BY DEF MbReset
<1>2. Line' = <<>>
  BY <1>1 DEF Line, RingOf
<1> QED BY <1>1, <1>2, MbChannelSteps DEF MbChanStep

LEMMA MbRefNext == ASSUME MbInv, MbNext PROVE MbChanStep
<1>1. ASSUME NEW t \in Threads, NEW v \in Mails, NEW w \in Timeouts, MbSend(t, v, w) PROVE MbChanStep
  BY <1>1, MbRefSendLoop DEF MbSend
<1>2. ASSUME NEW t \in Threads, NEW w \in Timeouts, MbRecv(t, w) PROVE MbChanStep
  BY <1>2, MbRefRecvLoop DEF MbRecv
<1>3. ASSUME NEW t \in Threads, MbSendResumed(t) PROVE MbChanStep
  <2>1. mail' = mail /\ th[t].on = "mbSend"
    BY <1>3 DEF MbSendResumed, Awake
  <2>2. CASE UNCHANGED ring
    BY <2>1, <2>2, MbRefQuiet
  <2>3. CASE \E w \in Timeouts : MbSendLoop(t, sending[t], w)
    <3>1. sending[t] \in Mails
      BY <2>1 DEF MbInv, HandsOK
    <3> QED BY <2>1, <2>3, <3>1, MbRefSendLoop
  <2> QED BY <1>3, <2>2, <2>3 DEF MbSendResumed
<1>4. ASSUME NEW t \in Threads, MbRecvResumed(t) PROVE MbChanStep
  <2>1. CASE UNCHANGED <<ring, mail>>
    BY <2>1, MbRefQuiet
  <2>2. CASE \E w \in Timeouts : MbRecvLoop(t, w)
    BY <2>2, MbRefRecvLoop
  <2> QED BY <1>4, <2>1, <2>2 DEF MbRecvResumed
<1>5. ASSUME NEW t \in Threads, MbTimeout(t) PROVE MbChanStep
  BY <1>5, MbRefQuiet DEF MbTimeout
<1> QED BY <1>1, <1>2, <1>3, <1>4, <1>5, MbRefUrgent, MbRefReset DEF MbNext

LEMMA MbRefInit == ASSUME MbInit PROVE MbChan!Init
BY DEF MbInit, MbChan!Init

-----------------------------------------------------------------------------
(***************************************************************************)
(* The mutexes.  An owner holds what it owns, except for the moment        *)
(* between its being handed a mutex and its return from the call; a thread *)
(* that waits owns what it has taken, and nothing if it has taken nothing, *)
(* so nobody lends it a priority.                                          *)
(***************************************************************************)
OwnersHold == \A m \in Mutexes : owner[m] # Nobody => hold[m] > 0

\* A thread stands once in the line of the mutex that it is waiting for.
WaitersStand ==
    \A m \in Mutexes :
        /\ IsInjective(mutexWaiters[m])
        /\ \A t \in ToSet(mutexWaiters[m]) :
              taking[t] = [mutex |-> m, error |-> "EOK"] /\ owner[m] # t

\* What an owner that never released out of order noted is no loan beyond its own
\* priority, and for the mutex that it took first it is its own priority.
NotesLeadBack ==
    \A t \in Threads \ crossed : \A m \in Mutexes : owner[m] = t =>
        /\ original[m] <= MutexPrio[t]
        /\ held[t] = <<>> \/ held[t][1] = m => original[m] = MutexPrio[t]

\* A waiter that owns nothing stands behind nobody that is less urgent.
FreeInOrder ==
    \A m \in Mutexes : \A i, j \in 1 .. Len(mutexWaiters[m]) :
        i < j /\ held[mutexWaiters[m][j]] = <<>>
            => prio[mutexWaiters[m][i]] <= prio[mutexWaiters[m][j]]

AloneOwns ==
    \A m \in alone : owner[m] # Nobody /\ \A n \in Mutexes : owner[n] = owner[m] => n = m

MutexInv ==
    /\ MutexTypeOK /\ HoldsAreTheOwners /\ LoansEnd /\ WaiterNotOutranked
    /\ OwnersHold /\ WaitersStand /\ NotesLeadBack /\ FreeInOrder /\ AloneOwns

\* t waits for nothing, or is still waiting: no mutex is on its way to it.
Away(t) == \A m \in Mutexes : ~ OnItsWay(t, m)

\* t stands in no line.
Unlined(t) == \A m \in Mutexes : t \notin ToSet(mutexWaiters[m])

LEMMA LinesAre ==
    ASSUME MutexTypeOK, NEW m \in Mutexes
    PROVE  /\ mutexWaiters[m] \in Seq(Threads) /\ Len(mutexWaiters[m]) \in Nat
           /\ \A i \in 1 .. Len(mutexWaiters[m]) :
                 mutexWaiters[m][i] \in Threads /\ mutexWaiters[m][i] \in ToSet(mutexWaiters[m])
           /\ ToSet(mutexWaiters[m]) \subseteq Threads
<1>1. mutexWaiters[m] \in Seq(Threads)
  BY DEF MutexTypeOK
<1>2. /\ Len(mutexWaiters[m]) \in Nat /\ DOMAIN mutexWaiters[m] = 1 .. Len(mutexWaiters[m])
      /\ \A i \in 1 .. Len(mutexWaiters[m]) : mutexWaiters[m][i] \in Threads
  BY <1>1, LenProperties, ElementOfSeq
<1> QED BY <1>1, <1>2 DEF ToSet

LEMMA IdleAway ==
    ASSUME MutexInv, NEW t \in Threads, taking[t] = Idle
    PROVE  Away(t) /\ Unlined(t)
<1>1. Nobody \notin Mutexes
  BY MutexAssumption DEF MutexAssumption
<1>2. Away(t)
  BY <1>1 DEF Away, OnItsWay, Idle
<1>3. ASSUME NEW m \in Mutexes, t \in ToSet(mutexWaiters[m]) PROVE FALSE
  <2>1. taking[t] = [mutex |-> m, error |-> "EOK"]
    BY <1>3 DEF MutexInv, WaitersStand
  <2>2. taking[t].mutex = Nobody
    BY DEF Idle
  <2> QED BY <1>1, <2>1, <2>2
<1> QED BY <1>2, <1>3 DEF Unlined

LEMMA LinedAway ==
    ASSUME MutexInv, NEW m \in Mutexes, NEW t \in ToSet(mutexWaiters[m])
    PROVE  /\ t \in Threads /\ Away(t) /\ taking[t] = [mutex |-> m, error |-> "EOK"] /\ owner[m] # t
           /\ \A n \in Mutexes : t \in ToSet(mutexWaiters[n]) => n = m
<1>1. t \in Threads
  BY LinesAre DEF MutexInv
<1>2. taking[t] = [mutex |-> m, error |-> "EOK"] /\ owner[m] # t
  BY DEF MutexInv, WaitersStand
<1>3. Away(t)
  BY <1>2 DEF Away, OnItsWay
<1>4. ASSUME NEW n \in Mutexes, t \in ToSet(mutexWaiters[n]) PROVE n = m
  <2>1. taking[t] = [mutex |-> n, error |-> "EOK"]
    BY <1>4 DEF MutexInv, WaitersStand
  <2> QED BY <1>2, <2>1
<1> QED BY <1>1, <1>2, <1>3, <1>4

LEMMA TakesAre ==
    ASSUME MutexTypeOK, NEW t \in Threads, NEW m \in Mutexes
    PROVE  /\ Takes(t, m) = Count(held[t], m) /\ Takes(t, m) \in Nat
           /\ Takes(t, m) > 0 <=> m \in ToSet(held[t])
           /\ held[t] = <<>> => Takes(t, m) = 0
           /\ held[t] # <<>> => held[t][1] \in Mutexes /\ Takes(t, held[t][1]) > 0
<1>1. held[t] \in Seq(Mutexes)
  BY DEF MutexTypeOK
<1>2. Takes(t, m) = Count(held[t], m) /\ Takes(t, m) \in Nat /\ (Takes(t, m) > 0 <=> m \in ToSet(held[t]))
  BY <1>1, CountIs DEF Takes, Count
<1>3. held[t] = <<>> => ToSet(held[t]) = {}
  BY DEF ToSet
<1>4. held[t] # <<>> => held[t][1] \in Mutexes /\ held[t][1] \in ToSet(held[t])
  <2>1. DOMAIN held[t] = 1 .. Len(held[t]) /\ Len(held[t]) \in Nat
    BY <1>1, LenProperties
  <2>2. held[t] # <<>> => 1 \in DOMAIN held[t]
    BY <1>1, <2>1, EmptySeq
  <2>3. held[t] # <<>> => held[t][1] \in Mutexes
    BY <1>1, <2>1, <2>2, ElementOfSeq
  <2> QED BY <2>2, <2>3 DEF ToSet
<1>5. held[t] # <<>> => Takes(t, held[t][1]) > 0
  <2>1. ASSUME held[t] # <<>> PROVE Takes(t, held[t][1]) > 0
    BY <1>1, <1>4, <2>1, CountIs DEF Takes, Count
  <2> QED BY <2>1
<1> QED BY <1>2, <1>3, <1>4, <1>5

\* A thread that is away owns exactly what it has taken.
LEMMA OwnsItsTakes ==
    ASSUME MutexInv, NEW t \in Threads, Away(t), NEW m \in Mutexes
    PROVE  /\ owner[m] = t <=> Takes(t, m) > 0
           /\ owner[m] = t <=> m \in ToSet(held[t])
           /\ owner[m] = t => hold[m] = Takes(t, m) /\ held[t] # <<>>
           /\ held[t] # <<>> => held[t][1] \in Mutexes /\ owner[held[t][1]] = t
<1>1. MutexTypeOK /\ t # Nobody
  BY MutexAssumption DEF MutexInv, MutexAssumption
<1>2. owner[m] = t => hold[m] = Takes(t, m) /\ hold[m] > 0
  <2>1. ASSUME owner[m] = t PROVE hold[m] = Takes(t, m) + 0
    BY <1>1, <2>1 DEF MutexInv, HoldsAreTheOwners, Away
  <2>2. owner[m] = t => hold[m] > 0
    BY <1>1 DEF MutexInv, OwnersHold
  <2>3. Takes(t, m) \in Nat
    BY <1>1, TakesAre
  <2> QED BY <2>1, <2>2, <2>3
<1>3. \A n \in Mutexes : Takes(t, n) > 0 => owner[n] = t
  BY DEF MutexInv, HoldsAreTheOwners
<1> QED BY <1>1, <1>2, <1>3, TakesAre

LEMMA HeldMore ==
    ASSUME MutexTypeOK, NEW t \in Threads, NEW m \in Mutexes, MutexReturns(t, m)
    PROVE  /\ held' \in [Threads -> Seq(Mutexes)] /\ \A u \in Threads : u # t => held'[u] = held[u]
           /\ held'[t] # <<>> /\ held'[t][1] = IF held[t] = <<>> THEN m ELSE held[t][1]
           /\ \A n \in Mutexes : Takes(t, n)' = IF n = m THEN Takes(t, n) + 1 ELSE Takes(t, n)
           /\ \A u \in Threads : u # t => \A n \in Mutexes : Takes(u, n)' = Takes(u, n)
<1>1. held[t] \in Seq(Mutexes) /\ held \in [Threads -> Seq(Mutexes)]
  BY DEF MutexTypeOK
<1>2. /\ held' \in [Threads -> Seq(Mutexes)] /\ held'[t] = Append(held[t], m)
      /\ \A u \in Threads : u # t => held'[u] = held[u]
  <2>1. Append(held[t], m) \in Seq(Mutexes)
    BY <1>1, AppendProperties
  <2> QED BY <1>1, <2>1 DEF MutexReturns
<1>3. ASSUME NEW n \in Mutexes PROVE Takes(t, n)' = IF n = m THEN Takes(t, n) + 1 ELSE Takes(t, n)
  <2>1. Takes(t, n)' = Count(Append(held[t], m), n) /\ Takes(t, n) = Count(held[t], n)
    BY <1>2 DEF Takes, Count
  <2> QED BY <1>1, <2>1, CountAppend
<1>4. \A u \in Threads : u # t => \A n \in Mutexes : Takes(u, n)' = Takes(u, n)
  BY <1>2 DEF Takes
<1>5. held'[t] # <<>> /\ held'[t][1] = IF held[t] = <<>> THEN m ELSE held[t][1]
  <2> DEFINE s == held[t]
             r == Append(s, m)
  <2>1. /\ Len(s) \in Nat /\ Len(r) = Len(s) + 1 /\ r[Len(s) + 1] = m
        /\ \A i \in 1 .. Len(s) : r[i] = s[i]
    BY <1>1, AppendProperties, LenProperties
  <2>2. (s = <<>> => Len(s) = 0) /\ (s # <<>> => Len(s) > 0) /\ (r = <<>> => Len(r) = 0)
    <3>1. s = <<>> <=> Len(s) = 0
      BY <1>1, EmptySeq
    <3>2. r = <<>> => Len(r) = 0
      OBVIOUS
    <3> QED BY <2>1, <3>1, <3>2
  <2>3. held'[t] = r
    BY <1>2
  <2> HIDE DEF s, r
  <2>4. r # <<>>
    BY <2>1, <2>2
  <2>5. CASE s = <<>>
    BY <2>1, <2>2, <2>3, <2>4, <2>5 DEF s
  <2>6. CASE s # <<>>
    <3>1. 1 \in 1 .. Len(s)
      BY <2>1, <2>2, <2>6
    <3> QED BY <2>1, <2>3, <2>4, <2>6, <3>1 DEF s
  <2> QED BY <2>5, <2>6
<1> QED BY <1>2, <1>3, <1>4, <1>5

LEMMA HeldLess ==
    ASSUME MutexTypeOK, NEW t \in Threads, NEW m \in Mutexes, Undone(t, m), Takes(t, m) > 0
    PROVE  /\ held' \in [Threads -> Seq(Mutexes)] /\ \A u \in Threads : u # t => held'[u] = held[u]
           /\ \A n \in Mutexes : Takes(t, n)' = IF n = m THEN Takes(t, n) - 1 ELSE Takes(t, n)
           /\ \A u \in Threads : u # t => \A n \in Mutexes : Takes(u, n)' = Takes(u, n)
           /\ crossed \subseteq crossed' /\ crossed' \subseteq Threads
           /\ t \notin crossed' /\ held'[t] # <<>> => held[t] # <<>> /\ held'[t][1] = held[t][1]
<1>1. held[t] \in Seq(Mutexes) /\ held \in [Threads -> Seq(Mutexes)]
  BY DEF MutexTypeOK
<1> DEFINE s == held[t]
           k == LastTake(t, m)
<1>2. k \in DOMAIN s /\ s[k] = m
  <2>1. \E i \in DOMAIN held[t] : held[t][i] = m /\ \A j \in i + 1 .. Len(held[t]) : held[t][j] # m
    <3>1. m \in ToSet(held[t])
      BY TakesAre
    <3> QED BY <1>1, <3>1, LastPlace
  <2> QED BY <2>1 DEF LastTake
<1>3. k \in 1 .. Len(s) /\ Len(s) \in Nat
  BY <1>1, <1>2, LenProperties
<1> DEFINE r == RemoveAt(s, k)
<1>4. held' = [held EXCEPT ![t] = r] /\ crossed' = IF k = Len(s) THEN crossed ELSE crossed \cup {t}
  BY DEF Undone
<1> HIDE DEF k
<1>5. /\ r \in Seq(Mutexes) /\ Len(r) = Len(s) - 1
      /\ \A j \in 1 .. Len(s) - 1 : r[j] = IF j < k THEN s[j] ELSE s[j + 1]
  BY <1>1, <1>3, RemoveAtElements
<1>6. /\ held' \in [Threads -> Seq(Mutexes)] /\ held'[t] = r /\ \A u \in Threads : u # t => held'[u] = held[u]
  BY <1>1, <1>4, <1>5
<1>7. ASSUME NEW n \in Mutexes PROVE Takes(t, n)' = IF n = m THEN Takes(t, n) - 1 ELSE Takes(t, n)
  <2>1. Takes(t, n)' = Count(RemoveAt(held[t], k), n) /\ Takes(t, n) = Count(held[t], n)
    BY <1>6 DEF Takes, Count
  <2> QED BY <1>1, <1>2, <1>3, <2>1, CountRemove
<1>8. \A u \in Threads : u # t => \A n \in Mutexes : Takes(u, n)' = Takes(u, n)
  BY <1>6 DEF Takes
<1>9. crossed \subseteq crossed' /\ crossed' \subseteq Threads /\ (t \notin crossed' => k = Len(s))
  BY <1>4 DEF MutexTypeOK
<1>10. t \notin crossed' /\ r # <<>> => s # <<>> /\ r[1] = s[1]
  <2> SUFFICES ASSUME k = Len(s), r # <<>> PROVE s # <<>> /\ r[1] = s[1]
    BY <1>9
  <2>1. Len(r) \in Nat /\ Len(r) # 0
    BY <1>5, LenProperties, EmptySeq
  <2>2. 1 \in 1 .. Len(s) - 1 /\ 1 < k
    BY <1>3, <1>5, <2>1
  <2>3. s # <<>>
    BY <1>3, <2>2
  <2> QED BY <1>5, <2>2, <2>3
<1> QED BY <1>6, <1>7, <1>8, <1>9, <1>10

\* HoldsAreTheOwners for one mutex.
HoldsOf(m) ==
    /\ \A t \in Threads : Takes(t, m) > 0 \/ OnItsWay(t, m) => owner[m] = t
    /\ owner[m] # Nobody =>
          hold[m] = Takes(owner[m], m) + (IF OnItsWay(owner[m], m) THEN 1 ELSE 0)
    /\ mutexValue[m] = 1 <=> owner[m] = Nobody
    /\ owner[m] = Nobody => hold[m] = 0 /\ mutexWaiters[m] = <<>>

LEMMA HoldsAre == HoldsAreTheOwners <=> \A m \in Mutexes : HoldsOf(m)
BY DEF HoldsAreTheOwners, HoldsOf

LEMMA HoldsStay ==
    ASSUME MutexInv, NEW m \in Mutexes, owner'[m] = owner[m], hold'[m] = hold[m],
           mutexValue'[m] = mutexValue[m], owner[m] = Nobody => mutexWaiters'[m] = mutexWaiters[m],
           \A u \in Threads : Takes(u, m)' = Takes(u, m) /\ (OnItsWay(u, m)' <=> OnItsWay(u, m))
    PROVE  HoldsOf(m)'
<1>1. HoldsOf(m) /\ owner[m] \in Threads \cup {Nobody}
  BY HoldsAre DEF MutexInv, MutexTypeOK
<1>2. /\ owner[m] # Nobody => Takes(owner[m], m)' = Takes(owner[m], m)
                           /\ (OnItsWay(owner[m], m)' <=> OnItsWay(owner[m], m))
  BY <1>1
<1> QED BY <1>1, <1>2 DEF HoldsOf

\* What t does to its own takes while it stands in no line shows to nobody who
\* waits.
LEMMA LinesKeep ==
    ASSUME MutexInv, NEW t \in Threads, Unlined(t), \A u \in Threads : u # t => held'[u] = held[u],
           UNCHANGED <<mutexWaiters, prio>>
    PROVE  FreeInOrder' /\ (UNCHANGED <<owner, alone>> => WaiterNotOutranked')
<1>1. \A m \in Mutexes : \A u \in ToSet(mutexWaiters[m]) : u \in Threads /\ held'[u] = held[u]
  BY LinesAre DEF Unlined, MutexInv
<1>2. FreeInOrder'
  <2> SUFFICES ASSUME NEW m \in Mutexes, NEW i \in 1 .. Len(mutexWaiters[m]),
                      NEW j \in 1 .. Len(mutexWaiters[m]), i < j, held'[mutexWaiters[m][j]] = <<>>
               PROVE  prio[mutexWaiters[m][i]] <= prio[mutexWaiters[m][j]]
    BY DEF FreeInOrder
  <2>1. mutexWaiters[m][j] \in ToSet(mutexWaiters[m])
    BY LinesAre DEF MutexInv
  <2>2. held[mutexWaiters[m][j]] = <<>>
    BY <1>1, <2>1
  <2> QED BY <2>2 DEF MutexInv, FreeInOrder
<1>3. ASSUME UNCHANGED <<owner, alone>> PROVE WaiterNotOutranked'
  <2>1. \A m \in alone : m \in Mutexes
    BY DEF MutexInv, MutexTypeOK
  <2> QED BY <1>1, <1>3, <2>1 DEF MutexInv, WaiterNotOutranked
<1> QED BY <1>2, <1>3

LEMMA MutexStays == ASSUME MutexInv, UNCHANGED mutexVars PROVE MutexInv'
<1> USE DEF mutexVars
<1>1. MutexTypeOK' /\ LoansEnd' /\ WaiterNotOutranked'
  BY DEF MutexInv, MutexTypeOK, LoansEnd, WaiterNotOutranked
<1>2. HoldsAreTheOwners'
  BY DEF MutexInv, HoldsAreTheOwners, Takes, OnItsWay
<1>3. OwnersHold' /\ WaitersStand' /\ NotesLeadBack' /\ FreeInOrder' /\ AloneOwns'
  BY DEF MutexInv, OwnersHold, WaitersStand, NotesLeadBack, FreeInOrder, AloneOwns
<1> QED BY <1>1, <1>2, <1>3 DEF MutexInv

LEMMA MxTakeAgain ==
    ASSUME MutexInv, NEW t \in Threads, NEW m \in Mutexes, taking[t] = Idle, TakeAgain(t, m)
    PROVE  MutexInv'
<1>1. /\ owner[m] = t
      /\ UNCHANGED <<owner, mutexValue, original, mutexWaiters, prio, taking, alone, crossed>>
  BY DEF TakeAgain
<1>2. CASE UNCHANGED <<hold, held>>
  BY <1>1, <1>2, MutexStays DEF mutexVars
<1>3. CASE hold[m] < HoldMax /\ hold' = [hold EXCEPT ![m] = @ + 1] /\ MutexReturns(t, m)
  <2>0. MutexTypeOK /\ Away(t) /\ Unlined(t) /\ t # Nobody /\ HoldMax \in Nat
    BY IdleAway, MutexAssumption DEF MutexInv, MutexAssumption
  <2>1. /\ held' \in [Threads -> Seq(Mutexes)] /\ \A u \in Threads : u # t => held'[u] = held[u]
        /\ held'[t] # <<>> /\ held'[t][1] = IF held[t] = <<>> THEN m ELSE held[t][1]
        /\ \A n \in Mutexes : Takes(t, n)' = IF n = m THEN Takes(t, n) + 1 ELSE Takes(t, n)
        /\ \A u \in Threads : u # t => \A n \in Mutexes : Takes(u, n)' = Takes(u, n)
    BY <1>3, <2>0, HeldMore
  <2>2. held[t] # <<>> /\ hold[m] = Takes(t, m) /\ Takes(t, m) > 0
    BY <1>1, <2>0, OwnsItsTakes
  <2>3. /\ hold[m] \in Nat /\ hold' \in [Mutexes -> 0 .. HoldMax] /\ hold'[m] = hold[m] + 1
        /\ \A n \in Mutexes : n # m => hold'[n] = hold[n]
    BY <1>3, <2>0 DEF MutexTypeOK
  <2>4. MutexTypeOK'
    BY <1>1, <2>0, <2>1, <2>3 DEF MutexTypeOK
  <2>5. HoldsAreTheOwners'
    <3>1. \A u \in Threads : \A n \in Mutexes : (OnItsWay(u, n)' <=> OnItsWay(u, n))
      BY <1>1 DEF OnItsWay
    <3>2. ASSUME NEW n \in Mutexes, n # m PROVE HoldsOf(n)'
      BY <1>1, <2>1, <2>3, <3>1, <3>2, HoldsStay
    <3>3. HoldsOf(m)'
      <4>1. HoldsOf(m)
        BY HoldsAre DEF MutexInv
      <4>2. ~ OnItsWay(t, m)
        BY <2>0 DEF Away
      <4>3. \A u \in Threads : u # t => ~ (Takes(u, m) > 0 \/ OnItsWay(u, m))
        BY <1>1, <4>1 DEF HoldsOf
      <4>4. \A u \in Threads : u # t => ~ (Takes(u, m)' > 0 \/ OnItsWay(u, m)')
        BY <2>1, <3>1, <4>3
      <4>5. hold'[m] = Takes(t, m)' + 0 /\ ~ OnItsWay(t, m)'
        BY <2>1, <2>2, <2>3, <3>1, <4>2
      <4> QED BY <1>1, <2>0, <4>1, <4>4, <4>5 DEF HoldsOf
    <3>4. \A n \in Mutexes : HoldsOf(n)'
      BY <3>2, <3>3
    <3> QED BY <3>4 DEF HoldsAreTheOwners, HoldsOf
  <2>6. OwnersHold' /\ WaitersStand' /\ AloneOwns' /\ LoansEnd'
    <3>1. OwnersHold'
      BY <1>1, <2>3 DEF MutexInv, OwnersHold
    <3> QED BY <1>1, <3>1 DEF MutexInv, WaitersStand, AloneOwns, LoansEnd
  <2>7. NotesLeadBack'
    BY <1>1, <2>1, <2>2 DEF MutexInv, NotesLeadBack
  <2>8. FreeInOrder' /\ WaiterNotOutranked'
    BY <1>1, <2>0, <2>1, LinesKeep
  <2> QED BY <2>4, <2>5, <2>6, <2>7, <2>8 DEF MutexInv
<1> QED BY <1>2, <1>3 DEF TakeAgain

LEMMA MxResumed == ASSUME MutexInv, NEW t \in Threads, TakeResumed(t) PROVE MutexInv'
<1>0. PICK m \in Mutexes : m = taking[t].mutex
  BY DEF TakeResumed, MutexInv, MutexTypeOK
<1>1. /\ t \notin ToSet(mutexWaiters[m]) /\ taking' = [taking EXCEPT ![t] = Idle]
      /\ UNCHANGED <<owner, mutexValue, hold, original, mutexWaiters, prio, alone, crossed>>
  BY <1>0 DEF TakeResumed
<1>2. MutexTypeOK /\ Nobody \notin Mutexes
  BY <1>1, MutexAssumption DEF MutexInv, MutexTypeOK, MutexAssumption
<1>3. Unlined(t)
  <2>1. ASSUME NEW n \in Mutexes, t \in ToSet(mutexWaiters[n]) PROVE FALSE
    <3>1. taking[t] = [mutex |-> n, error |-> "EOK"]
      BY <2>1 DEF MutexInv, WaitersStand
    <3> QED BY <1>0, <1>1, <2>1, <3>1
  <2> QED BY <2>1 DEF Unlined
<1>4. /\ taking' \in [Threads -> [mutex : Mutexes \cup {Nobody}, error : {"EOK", "ETIMEOUT"}]]
      /\ taking'[t] = Idle /\ \A u \in Threads : u # t => taking'[u] = taking[u]
  <2>1. Idle \in [mutex : Mutexes \cup {Nobody}, error : {"EOK", "ETIMEOUT"}]
    BY DEF Idle
  <2> QED BY <1>1, <1>2, <2>1 DEF MutexTypeOK
<1>5. /\ \A u \in Threads : u # t => \A n \in Mutexes : (OnItsWay(u, n)' <=> OnItsWay(u, n))
      /\ \A n \in Mutexes : ~ OnItsWay(t, n)'
  BY <1>1, <1>2, <1>4 DEF OnItsWay, Idle
<1>6. \A n \in Mutexes : n # m => ~ OnItsWay(t, n)
  BY <1>0 DEF OnItsWay
<1>7. OwnersHold' /\ AloneOwns' /\ LoansEnd'
  BY <1>1 DEF MutexInv, OwnersHold, AloneOwns, LoansEnd
<1>8. WaitersStand'
  <2>1. ASSUME NEW n \in Mutexes, NEW u \in ToSet(mutexWaiters[n])
        PROVE  taking'[u] = taking[u]
    <3>1. u # t /\ u \in Threads
      BY <1>2, <1>3, LinesAre DEF Unlined
    <3> QED BY <1>4, <3>1
  <2> QED BY <1>1, <2>1 DEF MutexInv, WaitersStand
<1>9. CASE taking[t].error = "EOK" /\ MutexReturns(t, m)
  <2>1. /\ held' \in [Threads -> Seq(Mutexes)] /\ \A u \in Threads : u # t => held'[u] = held[u]
        /\ held'[t] # <<>> /\ held'[t][1] = IF held[t] = <<>> THEN m ELSE held[t][1]
        /\ \A n \in Mutexes : Takes(t, n)' = IF n = m THEN Takes(t, n) + 1 ELSE Takes(t, n)
        /\ \A u \in Threads : u # t => \A n \in Mutexes : Takes(u, n)' = Takes(u, n)
    BY <1>2, <1>9, HeldMore
  <2>2. OnItsWay(t, m)
    BY <1>0, <1>1, <1>9 DEF OnItsWay
  <2>3. MutexTypeOK'
    BY <1>1, <1>2, <1>4, <2>1 DEF MutexTypeOK
  <2>4. HoldsAreTheOwners'
    <3>1. ASSUME NEW n \in Mutexes, n # m PROVE HoldsOf(n)'
      BY <1>1, <1>5, <1>6, <2>1, <3>1, HoldsStay
    <3>2. HoldsOf(m)'
      <4>1. HoldsOf(m) /\ Takes(t, m) \in Nat /\ t # Nobody
        BY <1>2, HoldsAre, TakesAre, MutexAssumption DEF MutexInv, MutexAssumption
      <4>2. owner[m] = t /\ hold[m] = Takes(t, m) + 1
        BY <2>2, <4>1 DEF HoldsOf
      <4>3. \A u \in Threads : u # t => ~ (Takes(u, m) > 0 \/ OnItsWay(u, m))
        BY <4>1, <4>2 DEF HoldsOf
      <4>4. \A u \in Threads : u # t => ~ (Takes(u, m)' > 0 \/ OnItsWay(u, m)')
        BY <1>2, <1>5, <2>1, <4>3
      <4>5. hold'[m] = Takes(t, m)' + 0 /\ ~ OnItsWay(t, m)'
        BY <1>1, <1>2, <1>5, <2>1, <4>1, <4>2
      <4> QED BY <1>1, <4>1, <4>2, <4>4, <4>5 DEF HoldsOf
    <3>3. \A n \in Mutexes : HoldsOf(n)'
      BY <3>1, <3>2
    <3> QED BY <3>3 DEF HoldsAreTheOwners, HoldsOf
  <2>5. NotesLeadBack'
    BY <1>1, <2>1 DEF MutexInv, NotesLeadBack
  <2>6. FreeInOrder' /\ WaiterNotOutranked'
    BY <1>1, <1>3, <2>1, LinesKeep
  <2> QED BY <1>7, <1>8, <2>3, <2>4, <2>5, <2>6 DEF MutexInv
<1>10. CASE taking[t].error # "EOK" /\ held' = held
  <2>1. MutexTypeOK'
    BY <1>1, <1>2, <1>4, <1>10 DEF MutexTypeOK
  <2>2. HoldsAreTheOwners'
    <3>1. \A n \in Mutexes : ~ OnItsWay(t, n)
      BY <1>10 DEF OnItsWay
    <3>2. \A u \in Threads : \A n \in Mutexes : Takes(u, n)' = Takes(u, n)
      BY <1>10 DEF Takes
    <3>3. \A n \in Mutexes : HoldsOf(n)'
      BY <1>1, <1>5, <3>1, <3>2, HoldsStay
    <3> QED BY <3>3 DEF HoldsAreTheOwners, HoldsOf
  <2>3. NotesLeadBack'
    BY <1>1, <1>10 DEF MutexInv, NotesLeadBack
  <2>4. FreeInOrder' /\ WaiterNotOutranked'
    BY <1>1, <1>3, <1>10, LinesKeep
  <2> QED BY <1>7, <1>8, <2>1, <2>2, <2>3, <2>4 DEF MutexInv
<1> QED BY <1>0, <1>9, <1>10 DEF TakeResumed

LEMMA FreeAre ==
    FreeInOrder <=>
        \A m \in Mutexes : \A a, b :
            Ahead(mutexWaiters[m], a, b) /\ held[b] = <<>> => prio[a] <= prio[b]
<1>1. ASSUME FreeInOrder, NEW m \in Mutexes, NEW a, NEW b, Ahead(mutexWaiters[m], a, b), held[b] = <<>>
      PROVE  prio[a] <= prio[b]
  <2>1. PICK i \in 1 .. Len(mutexWaiters[m]), j \in 1 .. Len(mutexWaiters[m]) :
           i < j /\ mutexWaiters[m][i] = a /\ mutexWaiters[m][j] = b
    BY <1>1 DEF Ahead
  <2> QED BY <1>1, <2>1 DEF FreeInOrder
<1>2. ASSUME \A m \in Mutexes : \A a, b :
                Ahead(mutexWaiters[m], a, b) /\ held[b] = <<>> => prio[a] <= prio[b]
      PROVE  FreeInOrder
  <2> SUFFICES ASSUME NEW m \in Mutexes, NEW i \in 1 .. Len(mutexWaiters[m]),
                      NEW j \in 1 .. Len(mutexWaiters[m]), i < j, held[mutexWaiters[m][j]] = <<>>
               PROVE  prio[mutexWaiters[m][i]] <= prio[mutexWaiters[m][j]]
    BY DEF FreeInOrder
  <2>1. Ahead(mutexWaiters[m], mutexWaiters[m][i], mutexWaiters[m][j])
    BY DEF Ahead
  <2> QED BY <1>2, <2>1
<1> QED BY <1>1, <1>2

\* u becomes the owner of m.
LEMMA MxBegins ==
    ASSUME MutexInv, NEW u \in Threads, NEW m \in Mutexes, Away(u), Begins(u, m),
           owner' = [owner EXCEPT ![m] = u]
    PROVE  /\ AloneOwns' /\ alone' \subseteq Mutexes /\ alone' \subseteq alone \cup {m}
           /\ m \in alone' => held[u] = <<>>
<1>1. MutexTypeOK /\ u # Nobody
  BY MutexAssumption DEF MutexInv, MutexAssumption
<1>2. owner'[m] = u /\ \A n \in Mutexes : n # m => owner'[n] = owner[n]
  BY <1>1 DEF MutexTypeOK
<1>3. /\ alone' \subseteq Mutexes /\ alone' \subseteq alone \cup {m}
      /\ m \in alone' => held[u] = <<>>
      /\ held[u] # <<>> => \A n \in ToSet(held[u]) : n \notin alone'
  BY <1>1 DEF Begins, MutexTypeOK
<1>4. \A n \in Mutexes : owner[n] = u => held[u] # <<>> /\ n \in ToSet(held[u])
  BY OwnsItsTakes
<1>5. \A n \in alone : owner[n] # Nobody /\ \A k \in Mutexes : owner[k] = owner[n] => k = n
  BY DEF MutexInv, AloneOwns
<1>6. ASSUME NEW n \in alone' PROVE owner'[n] # Nobody /\ \A k \in Mutexes : owner'[k] = owner'[n] => k = n
  <2>1. CASE n = m
    BY <1>1, <1>2, <1>3, <1>4, <2>1
  <2>2. CASE n # m
    <3>1. n \in alone /\ n \in Mutexes /\ owner'[n] = owner[n]
      BY <1>2, <1>3, <2>2
    <3>2. owner[n] # u
      BY <1>3, <1>4, <3>1
    <3> QED BY <1>2, <1>5, <3>1, <3>2
  <2> QED BY <2>1, <2>2
<1> QED BY <1>3, <1>6 DEF AloneOwns

LEMMA MxTakeFree ==
    ASSUME MutexInv, NEW t \in Threads, NEW m \in Mutexes, taking[t] = Idle, TakeFree(t, m)
    PROVE  MutexInv'
<1>0. MutexTypeOK /\ Away(t) /\ Unlined(t) /\ t # Nobody /\ HoldMax \in Nat \ {0} /\ HoldsOf(m)
  BY IdleAway, MutexAssumption, HoldsAre DEF MutexInv, MutexAssumption
<1>1. mutexValue[m] = 1 /\ owner[m] = Nobody /\ hold[m] = 0 /\ mutexWaiters[m] = <<>> /\ hold[m] < HoldMax
  BY <1>0 DEF TakeFree, MutexTypeOK, HoldsOf
<1>2. /\ mutexValue' = [mutexValue EXCEPT ![m] = @ - 1] /\ owner' = [owner EXCEPT ![m] = t]
      /\ original' = [original EXCEPT ![m] = prio[t]] /\ hold' = [hold EXCEPT ![m] = @ + 1]
      /\ MutexReturns(t, m) /\ Begins(t, m) /\ UNCHANGED <<mutexWaiters, prio, taking, crossed>>
  BY <1>1 DEF TakeFree
<1>3. /\ mutexValue' \in [Mutexes -> {0, 1}] /\ mutexValue'[m] = 0
      /\ owner' \in [Mutexes -> Threads \cup {Nobody}] /\ owner'[m] = t
      /\ original' \in [Mutexes -> Nat] /\ original'[m] = prio[t]
      /\ hold' \in [Mutexes -> 0 .. HoldMax] /\ hold'[m] = 1
      /\ \A n \in Mutexes : n # m =>
            /\ mutexValue'[n] = mutexValue[n] /\ owner'[n] = owner[n]
            /\ original'[n] = original[n] /\ hold'[n] = hold[n]
  BY <1>0, <1>1, <1>2 DEF MutexTypeOK
<1>4. /\ held' \in [Threads -> Seq(Mutexes)] /\ \A u \in Threads : u # t => held'[u] = held[u]
      /\ held'[t] # <<>> /\ held'[t][1] = IF held[t] = <<>> THEN m ELSE held[t][1]
      /\ \A n \in Mutexes : Takes(t, n)' = IF n = m THEN Takes(t, n) + 1 ELSE Takes(t, n)
      /\ \A u \in Threads : u # t => \A n \in Mutexes : Takes(u, n)' = Takes(u, n)
  BY <1>0, <1>2, HeldMore
<1>5. /\ AloneOwns' /\ alone' \subseteq Mutexes /\ alone' \subseteq alone \cup {m}
  BY <1>0, <1>2, MxBegins
<1>6. MutexTypeOK'
  BY <1>0, <1>2, <1>3, <1>4, <1>5 DEF MutexTypeOK
<1>7. \A u \in Threads : \A n \in Mutexes : OnItsWay(u, n)' <=> OnItsWay(u, n)
  BY <1>2 DEF OnItsWay
<1>8. HoldsAreTheOwners'
  <2>1. ASSUME NEW n \in Mutexes, n # m PROVE HoldsOf(n)'
    <3>1. \A u \in Threads : Takes(u, n)' = Takes(u, n)
      BY <1>4, <2>1
    <3> QED BY <1>2, <1>3, <1>7, <2>1, <3>1, HoldsStay
  <2>2. HoldsOf(m)'
    <3>1. \A u \in Threads : ~ (Takes(u, m) > 0) /\ ~ OnItsWay(u, m) /\ Takes(u, m) \in Nat
      BY <1>0, <1>1, TakesAre, MutexAssumption DEF HoldsOf, MutexAssumption
    <3>2. Takes(t, m)' = 1 /\ ~ OnItsWay(t, m)'
      BY <1>4, <1>7, <3>1
    <3>3. \A u \in Threads : u # t => ~ (Takes(u, m)' > 0 \/ OnItsWay(u, m)')
      BY <1>4, <1>7, <3>1
    <3> QED BY <1>0, <1>3, <3>2, <3>3 DEF HoldsOf
  <2>3. \A n \in Mutexes : HoldsOf(n)'
    BY <2>1, <2>2
  <2> QED BY <2>3 DEF HoldsAreTheOwners, HoldsOf
<1>9. OwnersHold'
  BY <1>3 DEF MutexInv, OwnersHold
<1>10. WaitersStand'
  <2>1. ToSet(mutexWaiters[m]) = {}
    BY <1>1 DEF ToSet
  <2> QED BY <1>2, <1>3, <2>1 DEF MutexInv, WaitersStand
<1>11. LoansEnd'
  <2>1. ASSUME NEW u \in Threads, \A n \in Mutexes : owner'[n] # u PROVE \A n \in Mutexes : owner[n] # u
    BY <1>1, <1>3, <2>1, MutexAssumption DEF MutexAssumption
  <2> QED BY <1>2, <2>1 DEF MutexInv, LoansEnd
<1>12. NotesLeadBack'
  <2>1. ASSUME NEW u \in Threads \ crossed, NEW n \in Mutexes, owner'[n] = u, n # m
        PROVE  /\ original[n] <= MutexPrio[u]
               /\ held'[u] = <<>> \/ held'[u][1] = n => original[n] = MutexPrio[u]
    <3>1. /\ owner[n] = u /\ original[n] <= MutexPrio[u]
          /\ held[u] = <<>> \/ held[u][1] = n => original[n] = MutexPrio[u]
      BY <1>3, <2>1 DEF MutexInv, NotesLeadBack
    <3>2. u = t => held[t] # <<>>
      BY <1>0, <3>1, OwnsItsTakes
    <3> QED BY <1>4, <3>1, <3>2
  <2>2. ASSUME t \notin crossed
        PROVE  /\ prio[t] <= MutexPrio[t]
               /\ held'[t] = <<>> \/ held'[t][1] = m => prio[t] = MutexPrio[t]
    <3>1. prio[t] <= MutexPrio[t]
      BY <2>2 DEF MutexInv, LoansEnd
    <3>2. held[t] # <<>> => held[t][1] # m
      BY <1>0, <1>1, OwnsItsTakes
    <3>3. held[t] = <<>> => prio[t] = MutexPrio[t]
      <4>1. held[t] = <<>> => \A n \in Mutexes : owner[n] # t
        BY <1>0, OwnsItsTakes
      <4> QED BY <2>2, <4>1 DEF MutexInv, LoansEnd
    <3> QED BY <1>4, <3>1, <3>2, <3>3
  <2> QED BY <1>2, <1>3, <2>1, <2>2 DEF NotesLeadBack
<1>13. FreeInOrder'
  BY <1>0, <1>2, <1>4, LinesKeep
<1>14. WaiterNotOutranked'
  <2>1. ASSUME NEW n \in alone', NEW u \in ToSet(mutexWaiters[n]), held'[u] = <<>>
        PROVE  prio[owner'[n]] <= prio[u]
    <3>1. ToSet(mutexWaiters[m]) = {}
      BY <1>1 DEF ToSet
    <3>2. n # m /\ n \in alone /\ n \in Mutexes
      BY <1>5, <2>1, <3>1
    <3>3. u \in Threads /\ u # t
      BY <1>0, <3>2, LinesAre DEF Unlined
    <3> QED BY <1>3, <1>4, <2>1, <3>2, <3>3 DEF MutexInv, WaiterNotOutranked
  <2> QED BY <1>2, <2>1 DEF WaiterNotOutranked
<1> QED BY <1>5, <1>6, <1>8, <1>9, <1>10, <1>11, <1>12, <1>13, <1>14 DEF MutexInv

LEMMA MxTimeout == ASSUME MutexInv, NEW t \in Threads, Timeout(t) PROVE MutexInv'
<1>0. PICK m \in Mutexes : m = taking[t].mutex
  BY DEF Timeout, MutexInv, MutexTypeOK
<1>1. /\ t \in ToSet(mutexWaiters[m])
      /\ mutexWaiters' = [mutexWaiters EXCEPT ![m] = Without(@, t)]
      /\ taking' = [taking EXCEPT ![t].error = "ETIMEOUT"]
      /\ UNCHANGED <<owner, mutexValue, hold, original, prio, held, alone, crossed>>
  BY <1>0 DEF Timeout
<1>2. MutexTypeOK /\ mutexWaiters[m] \in Seq(Threads) /\ IsInjective(mutexWaiters[m])
  BY DEF MutexInv, MutexTypeOK, WaitersStand
<1>3. PICK i \in 1 .. Len(mutexWaiters[m]) :
         mutexWaiters[m][i] = t /\ Without(mutexWaiters[m], t) = RemoveAt(mutexWaiters[m], i)
  BY <1>1, <1>2, WithoutIs
<1>4. /\ mutexWaiters' \in [Mutexes -> Seq(Threads)] /\ mutexWaiters'[m] = RemoveAt(mutexWaiters[m], i)
      /\ \A n \in Mutexes : n # m => mutexWaiters'[n] = mutexWaiters[n]
      /\ IsInjective(mutexWaiters'[m]) /\ ToSet(mutexWaiters'[m]) = ToSet(mutexWaiters[m]) \ {t}
  <2>1. /\ RemoveAt(mutexWaiters[m], i) \in Seq(Threads)
        /\ ToSet(RemoveAt(mutexWaiters[m], i)) = ToSet(mutexWaiters[m]) \ {t}
        /\ IsInjective(RemoveAt(mutexWaiters[m], i))
    BY <1>2, <1>3, RemoveAtOf
  <2>2. mutexWaiters' = [mutexWaiters EXCEPT ![m] = RemoveAt(mutexWaiters[m], i)]
    BY <1>1, <1>3
  <2> QED BY <1>2, <2>1, <2>2 DEF MutexTypeOK
<1>5. /\ taking' \in [Threads -> [mutex : Mutexes \cup {Nobody}, error : {"EOK", "ETIMEOUT"}]]
      /\ taking'[t].error = "ETIMEOUT" /\ \A u \in Threads : u # t => taking'[u] = taking[u]
  BY <1>1, <1>2 DEF MutexTypeOK
<1>6. MutexTypeOK'
  BY <1>1, <1>2, <1>4, <1>5 DEF MutexTypeOK
<1>7. /\ Away(t) /\ owner[m] # Nobody
      /\ \A n \in Mutexes : t \in ToSet(mutexWaiters[n]) => n = m
  <2>1. mutexWaiters[m] # <<>>
    BY <1>3
  <2>2. owner[m] # Nobody
    BY <2>1, HoldsAre DEF HoldsOf, MutexInv
  <2> QED BY <1>1, <2>2, LinedAway
<1>8. HoldsAreTheOwners'
  <2>1. \A u \in Threads : \A n \in Mutexes : OnItsWay(u, n)' <=> OnItsWay(u, n)
    <3> SUFFICES ASSUME NEW u \in Threads, NEW n \in Mutexes PROVE OnItsWay(u, n)' <=> OnItsWay(u, n)
      OBVIOUS
    <3>1. CASE u = t
      BY <1>5, <1>7, <3>1 DEF OnItsWay, Away
    <3>2. CASE u # t
      BY <1>4, <1>5, <3>2 DEF OnItsWay
    <3> QED BY <3>1, <3>2
  <2>2. \A u \in Threads : \A n \in Mutexes : Takes(u, n)' = Takes(u, n)
    BY <1>1 DEF Takes
  <2>3. ASSUME NEW n \in Mutexes PROVE HoldsOf(n)'
    BY <1>1, <1>4, <1>7, <2>1, <2>2, HoldsStay
  <2> QED BY <2>3 DEF HoldsAreTheOwners, HoldsOf
<1>9. WaitersStand'
  <2>1. ASSUME NEW n \in Mutexes, NEW u \in ToSet(mutexWaiters'[n])
        PROVE  u \in ToSet(mutexWaiters[n]) /\ taking'[u] = taking[u]
    <3>1. u # t /\ u \in ToSet(mutexWaiters[n])
      BY <1>4, <1>7
    <3>2. u \in Threads
      BY <1>2, <3>1, LinesAre
    <3> QED BY <1>5, <3>1, <3>2
  <2>2. \A n \in Mutexes : IsInjective(mutexWaiters'[n])
    BY <1>4 DEF MutexInv, WaitersStand
  <2> QED BY <1>1, <2>1, <2>2 DEF MutexInv, WaitersStand
<1>10. FreeInOrder'
  <2>1. ASSUME NEW n \in Mutexes, NEW a, NEW b, Ahead(mutexWaiters'[n], a, b)
        PROVE  Ahead(mutexWaiters[n], a, b)
    BY <1>2, <1>4, <2>1, AheadRemove
  <2>2. \A n \in Mutexes : \A a, b :
            Ahead(mutexWaiters'[n], a, b) /\ held'[b] = <<>> => prio'[a] <= prio'[b]
    BY <1>1, <2>1, FreeAre DEF MutexInv
  <2> QED BY <2>2 DEF FreeInOrder, Ahead
<1>11. LoansEnd' /\ NotesLeadBack' /\ AloneOwns' /\ OwnersHold'
  BY <1>1 DEF MutexInv, LoansEnd, NotesLeadBack, AloneOwns, OwnersHold
<1>12. WaiterNotOutranked'
  <2>1. \A n \in alone : n \in Mutexes /\ ToSet(mutexWaiters'[n]) \subseteq ToSet(mutexWaiters[n])
    BY <1>2, <1>4 DEF MutexTypeOK
  <2> QED BY <1>1, <2>1 DEF MutexInv, WaiterNotOutranked
<1> QED BY <1>6, <1>8, <1>9, <1>10, <1>11, <1>12 DEF MutexInv

LEMMA MutexPlaceIs ==
    ASSUME MutexTypeOK, NEW list \in Seq(Threads), NEW t \in Threads
    PROVE  /\ MutexPlace(list, t) \in 1 .. Len(list) + 1
           /\ MutexPlace(list, t) <= Len(list) => prio[t] < prio[list[MutexPlace(list, t)]]
           /\ \A j \in 1 .. MutexPlace(list, t) - 1 : prio[t] >= prio[list[j]]
<1> DEFINE P(i) == /\ i <= Len(list) => prio[t] < prio[list[i]]
                   /\ \A j \in 1 .. i - 1 : prio[t] >= prio[list[j]]
<1>1. \E i \in 1 .. Len(list) + 1 : P(i)
  <2>1. prio \in [Threads -> Nat]
    BY DEF MutexTypeOK
  <2>2. prio \in [Threads -> Int]
    BY <2>1
  <2> QED BY <2>2, PlaceInSorted
<1>2. MutexPlace(list, t) = CHOOSE i \in 1 .. Len(list) + 1 : P(i)
  BY DEF MutexPlace
<1>3. MutexPlace(list, t) \in 1 .. Len(list) + 1 /\ P(MutexPlace(list, t))
  <2> HIDE DEF P
  <2> QED BY <1>1, <1>2
<1> QED BY <1>3

\* A waiter that has taken nothing is nobody's owner.
LEMMA FreeOwnsNothing ==
    ASSUME MutexInv, NEW m \in Mutexes, NEW u \in ToSet(mutexWaiters[m]), held[u] = <<>>
    PROVE  u \in Threads /\ \A n \in Mutexes : owner[n] # u
BY LinedAway, OwnsItsTakes

LEMMA MxTakeWaits ==
    ASSUME MutexInv, NEW t \in Threads, NEW m \in Mutexes, taking[t] = Idle, TakeWaits(t, m)
    PROVE  MutexInv'
<1> DEFINE s == mutexWaiters[m]
           k == MutexPlace(s, t)
           r == InsertAt(s, k, t)
<1>1. /\ owner[m] # t /\ mutexValue[m] = 0
      /\ prio' = IF prio[t] < prio[owner[m]] THEN [prio EXCEPT ![owner[m]] = prio[t]] ELSE prio
      /\ mutexWaiters' = [mutexWaiters EXCEPT ![m] = r]
      /\ taking' = [taking EXCEPT ![t] = [mutex |-> m, error |-> "EOK"]]
      /\ UNCHANGED <<owner, mutexValue, hold, original, held, alone, crossed>>
  BY DEF TakeWaits
<1>2. /\ MutexTypeOK /\ Away(t) /\ Unlined(t) /\ t # Nobody /\ Nobody \notin Threads
      /\ s \in Seq(Threads) /\ IsInjective(s) /\ t \notin ToSet(s)
  BY IdleAway, MutexAssumption DEF MutexInv, MutexTypeOK, WaitersStand, Unlined, MutexAssumption
<1>3. owner[m] # Nobody /\ owner[m] \in Threads
  BY <1>1, HoldsAre DEF MutexInv, MutexTypeOK, HoldsOf
<1>4. /\ k \in 1 .. Len(s) + 1 /\ Len(s) \in Nat
      /\ k <= Len(s) => prio[t] < prio[s[k]]
      /\ \A j \in 1 .. k - 1 : prio[t] >= prio[s[j]]
  BY <1>2, MutexPlaceIs, LenProperties
<1>5. /\ prio \in [Threads -> Nat] /\ prio' \in [Threads -> Nat] /\ prio'[t] = prio[t]
      /\ \A u \in Threads : prio'[u] <= prio[u] /\ (u # owner[m] => prio'[u] = prio[u])
      /\ prio'[owner[m]] <= prio[t]
  BY <1>1, <1>2, <1>3 DEF MutexTypeOK
<1> HIDE DEF k
<1>6. r \in Seq(Threads) /\ ToSet(r) = ToSet(s) \cup {t} /\ IsInjective(r)
  BY <1>2, <1>4, InsertAtOf
<1> HIDE DEF r
<1>7. /\ mutexWaiters' \in [Mutexes -> Seq(Threads)] /\ mutexWaiters'[m] = r
      /\ \A n \in Mutexes : n # m => mutexWaiters'[n] = mutexWaiters[n]
  BY <1>1, <1>2, <1>6 DEF MutexTypeOK
<1>8. /\ taking' \in [Threads -> [mutex : Mutexes \cup {Nobody}, error : {"EOK", "ETIMEOUT"}]]
      /\ taking'[t] = [mutex |-> m, error |-> "EOK"] /\ \A u \in Threads : u # t => taking'[u] = taking[u]
  BY <1>1, <1>2 DEF MutexTypeOK
<1>9. MutexTypeOK'
  BY <1>1, <1>2, <1>5, <1>7, <1>8 DEF MutexTypeOK
<1>10. HoldsAreTheOwners'
  <2>1. \A u \in Threads : \A n \in Mutexes : OnItsWay(u, n)' <=> OnItsWay(u, n)
    <3> SUFFICES ASSUME NEW u \in Threads, NEW n \in Mutexes PROVE OnItsWay(u, n)' <=> OnItsWay(u, n)
      OBVIOUS
    <3>1. CASE u = t
      BY <1>2, <1>6, <1>7, <1>8, <3>1 DEF OnItsWay, Away
    <3>2. CASE u # t
      BY <1>6, <1>7, <1>8, <3>2 DEF OnItsWay
    <3> QED BY <3>1, <3>2
  <2>2. \A u \in Threads : \A n \in Mutexes : Takes(u, n)' = Takes(u, n)
    BY <1>1 DEF Takes
  <2>3. ASSUME NEW n \in Mutexes PROVE HoldsOf(n)'
    BY <1>1, <1>3, <1>7, <2>1, <2>2, HoldsStay
  <2> QED BY <2>3 DEF HoldsAreTheOwners, HoldsOf
<1>11. WaitersStand'
  <2>1. ASSUME NEW n \in Mutexes, NEW u \in ToSet(mutexWaiters'[n])
        PROVE  taking'[u] = [mutex |-> n, error |-> "EOK"] /\ owner[n] # u
    <3>1. CASE u = t
      <4>1. n = m
        BY <1>2, <1>7, <3>1 DEF Unlined
      <4> QED BY <1>1, <1>8, <3>1, <4>1
    <3>2. CASE u # t
      <4>1. u \in ToSet(mutexWaiters[n])
        BY <1>6, <1>7, <3>2
      <4>2. u \in Threads /\ taking[u] = [mutex |-> n, error |-> "EOK"] /\ owner[n] # u
        BY <4>1, LinedAway
      <4> QED BY <1>8, <3>2, <4>2
    <3> QED BY <3>1, <3>2
  <2>2. \A n \in Mutexes : IsInjective(mutexWaiters'[n])
    BY <1>6, <1>7 DEF MutexInv, WaitersStand
  <2> QED BY <1>1, <2>1, <2>2 DEF WaitersStand
<1>12. \A n \in Mutexes : \A u \in ToSet(mutexWaiters[n]) :
          u \in Threads /\ (held[u] = <<>> => prio'[u] = prio[u])
  BY <1>2, <1>5, LinesAre, FreeOwnsNothing
<1>13. FreeInOrder'
  <2>1. ASSUME NEW n \in Mutexes, NEW a, NEW b, Ahead(mutexWaiters[n], a, b), held[b] = <<>>
        PROVE  prio'[a] <= prio'[b]
    <3>1. a \in ToSet(mutexWaiters[n]) /\ b \in ToSet(mutexWaiters[n])
      BY <1>2, <2>1, LinesAre DEF Ahead
    <3>2. a \in Threads /\ b \in Threads /\ prio'[b] = prio[b] /\ prio'[a] <= prio[a]
      BY <1>5, <1>12, <2>1, <3>1
    <3>3. prio[a] <= prio[b]
      BY <2>1, FreeAre DEF MutexInv
    <3> QED BY <1>5, <3>2, <3>3
  <2>2. ASSUME NEW j \in 1 .. Len(s), k <= j, held[s[j]] = <<>> PROVE prio'[t] <= prio'[s[j]]
    <3>1. s[j] \in ToSet(s) /\ s[j] \in Threads /\ prio'[s[j]] = prio[s[j]]
      BY <1>2, <1>12, <2>2, LinesAre
    <3>2. k \in 1 .. Len(s) /\ s[k] \in Threads /\ prio[t] < prio[s[k]]
      BY <1>2, <1>4, <2>2, LinesAre
    <3>3. prio[s[k]] <= prio[s[j]]
      <4>1. CASE k = j
        BY <1>5, <3>2, <4>1
      <4>2. CASE k # j
        <5>1. k < j
          BY <2>2, <3>2, <4>2
        <5> QED BY <2>2, <3>2, <5>1 DEF MutexInv, FreeInOrder
      <4> QED BY <4>1, <4>2
    <3> QED BY <1>5, <3>1, <3>2, <3>3
  <2>3. ASSUME NEW j \in 1 .. k - 1 PROVE prio'[s[j]] <= prio'[t]
    <3>1. j \in 1 .. Len(s) /\ prio[t] >= prio[s[j]]
      BY <1>4
    <3>2. s[j] \in Threads
      BY <1>2, <3>1, LinesAre
    <3> QED BY <1>5, <3>1, <3>2
  <2>4. ASSUME NEW n \in Mutexes, NEW a, NEW b, Ahead(mutexWaiters'[n], a, b), held[b] = <<>>
        PROVE  prio'[a] <= prio'[b]
    <3>1. CASE n # m
      BY <1>7, <2>1, <2>4, <3>1
    <3>2. CASE n = m
      <4>1. Ahead(InsertAt(s, k, t), a, b)
        BY <1>7, <2>4, <3>2 DEF r
      <4>2. \/ Ahead(s, a, b)
            \/ a = t /\ \E j \in 1 .. Len(s) : k <= j /\ b = s[j]
            \/ b = t /\ \E j \in 1 .. k - 1 : a = s[j]
        BY <1>2, <1>4, <4>1, AheadInsert
      <4> QED BY <2>1, <2>2, <2>3, <2>4, <4>2
    <3> QED BY <3>1, <3>2
  <2> QED BY <1>1, <2>4 DEF FreeInOrder, Ahead
<1>14. LoansEnd'
  <2>1. ASSUME NEW u \in Threads \ crossed
        PROVE  prio'[u] <= MutexPrio[u] /\ ((\A n \in Mutexes : owner[n] # u) => prio'[u] = MutexPrio[u])
    <3>1. prio[u] <= MutexPrio[u] /\ ((\A n \in Mutexes : owner[n] # u) => prio[u] = MutexPrio[u])
      BY DEF MutexInv, LoansEnd
    <3>2. prio'[u] <= prio[u] /\ (u # owner[m] => prio'[u] = prio[u]) /\ prio[u] \in Nat /\ prio'[u] \in Nat
      BY <1>5
    <3>3. MutexPrio[u] \in Nat
      BY MutexAssumption DEF MutexAssumption
    <3> QED BY <3>1, <3>2, <3>3
  <2> QED BY <1>1, <2>1 DEF LoansEnd
<1>15. NotesLeadBack' /\ AloneOwns' /\ OwnersHold'
  BY <1>1 DEF MutexInv, NotesLeadBack, AloneOwns, OwnersHold
<1>16. WaiterNotOutranked'
  <2>1. ASSUME NEW n \in alone, NEW u \in ToSet(mutexWaiters'[n]), held[u] = <<>>
        PROVE  prio'[owner[n]] <= prio'[u]
    <3>0. n \in Mutexes /\ owner[n] \in Threads
      BY <1>2 DEF MutexInv, MutexTypeOK, AloneOwns
    <3>1. CASE u \in ToSet(mutexWaiters[n])
      <4>1. prio[owner[n]] <= prio[u]
        BY <2>1, <3>1 DEF MutexInv, WaiterNotOutranked
      <4>2. u \in Threads /\ prio'[u] = prio[u] /\ prio'[owner[n]] <= prio[owner[n]]
        BY <1>5, <1>12, <2>1, <3>0, <3>1
      <4> QED BY <1>5, <3>0, <4>1, <4>2
    <3>2. CASE u \notin ToSet(mutexWaiters[n])
      <4>1. n = m /\ u = t
        BY <1>6, <1>7, <3>0, <3>2
      <4> QED BY <1>5, <4>1
    <3> QED BY <3>1, <3>2
  <2> QED BY <1>1, <2>1 DEF WaiterNotOutranked
<1> QED BY <1>9, <1>10, <1>11, <1>13, <1>14, <1>15, <1>16 DEF MutexInv

\* What a release does to the takes of the owner, whatever becomes of the mutex.
LEMMA MxReleases ==
    ASSUME MutexInv, NEW t \in Threads, NEW m \in Mutexes, taking[t] = Idle, owner[m] = t, Undone(t, m)
    PROVE  /\ MutexTypeOK /\ Away(t) /\ Unlined(t) /\ t # Nobody
           /\ Takes(t, m) = hold[m] /\ hold[m] \in Nat \ {0}
           /\ held' \in [Threads -> Seq(Mutexes)] /\ \A u \in Threads : u # t => held'[u] = held[u]
           /\ \A n \in Mutexes : Takes(t, n)' = IF n = m THEN Takes(t, n) - 1 ELSE Takes(t, n)
           /\ \A u \in Threads : u # t => \A n \in Mutexes : Takes(u, n)' = Takes(u, n)
           /\ crossed \subseteq crossed' /\ crossed' \subseteq Threads
           /\ t \notin crossed' /\ held'[t] # <<>> => held[t] # <<>> /\ held'[t][1] = held[t][1]
           /\ held'[t] = <<>> => hold[m] = 1 /\ \A n \in Mutexes : owner[n] = t => n = m
<1>1. MutexTypeOK /\ Away(t) /\ Unlined(t) /\ t # Nobody
  BY IdleAway, MutexAssumption DEF MutexInv, MutexAssumption
<1>2. Takes(t, m) = hold[m] /\ Takes(t, m) > 0 /\ hold[m] \in Nat \ {0}
  BY <1>1, OwnsItsTakes, TakesAre
<1>3. /\ held' \in [Threads -> Seq(Mutexes)] /\ \A u \in Threads : u # t => held'[u] = held[u]
      /\ \A n \in Mutexes : Takes(t, n)' = IF n = m THEN Takes(t, n) - 1 ELSE Takes(t, n)
      /\ \A u \in Threads : u # t => \A n \in Mutexes : Takes(u, n)' = Takes(u, n)
      /\ crossed \subseteq crossed' /\ crossed' \subseteq Threads
      /\ t \notin crossed' /\ held'[t] # <<>> => held[t] # <<>> /\ held'[t][1] = held[t][1]
  BY <1>1, <1>2, HeldLess
<1>4. ASSUME held'[t] = <<>> PROVE hold[m] = 1 /\ \A n \in Mutexes : owner[n] = t => n = m
  <2>1. \A n \in Mutexes : Takes(t, n)' = 0
    <3>1. Cardinality({}) = 0
      BY FS_EmptySet
    <3>2. \A n \in Mutexes : {i \in DOMAIN held'[t] : held'[t][i] = n} = {}
      BY <1>4
    <3> QED BY <3>1, <3>2 DEF Takes
  <2>2. hold[m] = 1
    BY <1>2, <1>3, <2>1
  <2>3. \A n \in Mutexes : n # m => Takes(t, n) = 0
    BY <1>3, <2>1
  <2>4. \A n \in Mutexes : owner[n] = t => Takes(t, n) > 0
    BY <1>1, OwnsItsTakes
  <2> QED BY <2>2, <2>3, <2>4
<1> QED BY <1>1, <1>2, <1>3, <1>4

LEMMA MxReleaseOnce ==
    ASSUME MutexInv, NEW t \in Threads, NEW m \in Mutexes, taking[t] = Idle, owner[m] = t, Undone(t, m),
           hold[m] > 1, hold' = [hold EXCEPT ![m] = @ - 1],
           UNCHANGED <<owner, mutexValue, original, mutexWaiters, prio, alone, taking>>
    PROVE  MutexInv'
<1>1. /\ MutexTypeOK /\ Away(t) /\ Unlined(t) /\ t # Nobody
      /\ Takes(t, m) = hold[m] /\ hold[m] \in Nat \ {0}
      /\ held' \in [Threads -> Seq(Mutexes)] /\ \A u \in Threads : u # t => held'[u] = held[u]
      /\ \A n \in Mutexes : Takes(t, n)' = IF n = m THEN Takes(t, n) - 1 ELSE Takes(t, n)
      /\ \A u \in Threads : u # t => \A n \in Mutexes : Takes(u, n)' = Takes(u, n)
      /\ crossed \subseteq crossed' /\ crossed' \subseteq Threads
      /\ t \notin crossed' /\ held'[t] # <<>> => held[t] # <<>> /\ held'[t][1] = held[t][1]
      /\ held'[t] = <<>> => hold[m] = 1 /\ \A n \in Mutexes : owner[n] = t => n = m
  BY MxReleases
<1>2. /\ hold' \in [Mutexes -> 0 .. HoldMax] /\ hold'[m] = hold[m] - 1 /\ hold'[m] > 0
      /\ \A n \in Mutexes : n # m => hold'[n] = hold[n]
  <2>1. hold[m] \in 0 .. HoldMax /\ HoldMax \in Nat
    BY <1>1, MutexAssumption DEF MutexTypeOK, MutexAssumption
  <2>2. hold[m] - 1 \in 0 .. HoldMax /\ hold[m] - 1 > 0
    BY <2>1
  <2> QED BY <1>1, <2>2 DEF MutexTypeOK
<1>3. MutexTypeOK'
  BY <1>1, <1>2 DEF MutexTypeOK
<1>4. HoldsAreTheOwners'
  <2>1. \A u \in Threads : \A n \in Mutexes : OnItsWay(u, n)' <=> OnItsWay(u, n)
    BY DEF OnItsWay
  <2>2. ASSUME NEW n \in Mutexes, n # m PROVE HoldsOf(n)'
    <3>1. \A u \in Threads : Takes(u, n)' = Takes(u, n)
      BY <1>1, <2>2
    <3> QED BY <1>2, <2>1, <2>2, <3>1, HoldsStay
  <2>3. HoldsOf(m)'
    <3>1. HoldsOf(m)
      BY HoldsAre DEF MutexInv
    <3>2. \A u \in Threads : u # t => ~ (Takes(u, m) > 0 \/ OnItsWay(u, m))
      BY <3>1 DEF HoldsOf
    <3>3. \A u \in Threads : u # t => ~ (Takes(u, m)' > 0 \/ OnItsWay(u, m)')
      BY <1>1, <2>1, <3>2
    <3>4. hold'[m] = Takes(t, m)' + 0 /\ ~ OnItsWay(t, m)'
      BY <1>1, <1>2, <2>1 DEF Away
    <3> QED BY <1>1, <3>1, <3>3, <3>4 DEF HoldsOf
  <2>4. \A n \in Mutexes : HoldsOf(n)'
    BY <2>2, <2>3
  <2> QED BY <2>4 DEF HoldsAreTheOwners, HoldsOf
<1>5. OwnersHold'
  BY <1>2 DEF MutexInv, OwnersHold
<1>6. WaitersStand' /\ AloneOwns'
  BY DEF MutexInv, WaitersStand, AloneOwns
<1>7. LoansEnd'
  BY <1>1 DEF MutexInv, LoansEnd
<1>8. NotesLeadBack'
  <2>1. ASSUME NEW u \in Threads \ crossed', NEW n \in Mutexes, owner[n] = u
        PROVE  /\ original[n] <= MutexPrio[u]
               /\ held'[u] = <<>> \/ held'[u][1] = n => original[n] = MutexPrio[u]
    <3>1. /\ original[n] <= MutexPrio[u]
          /\ held[u] = <<>> \/ held[u][1] = n => original[n] = MutexPrio[u]
      BY <1>1, <2>1 DEF MutexInv, NotesLeadBack
    <3>2. CASE u = t
      BY <1>1, <2>1, <3>1, <3>2
    <3>3. CASE u # t
      BY <1>1, <3>1, <3>3
    <3> QED BY <3>2, <3>3
  <2> QED BY <2>1 DEF NotesLeadBack
<1>9. FreeInOrder' /\ WaiterNotOutranked'
  BY <1>1, LinesKeep
<1> QED BY <1>3, <1>4, <1>5, <1>6, <1>7, <1>8, <1>9 DEF MutexInv

\* The owner is back at the priority that it noted: what others lent it ends.
LEMMA MxGivesBack ==
    ASSUME MutexInv, NEW t \in Threads, NEW m \in Mutexes, taking[t] = Idle, owner[m] = t, Undone(t, m),
           prio' = Restored(t, m), \A n \in Mutexes : n # m => owner'[n] = owner[n], owner'[m] # t
    PROVE  /\ prio' \in [Threads -> Nat] /\ prio'[t] = original[m]
           /\ \A u \in Threads : u # t => prio'[u] = prio[u]
           /\ LoansEnd'
<1>1. MutexTypeOK /\ Away(t) /\ crossed \subseteq crossed'
  BY MxReleases
<1>2. /\ prio' \in [Threads -> Nat] /\ prio'[t] = original[m]
      /\ \A u \in Threads : u # t => prio'[u] = prio[u]
  BY <1>1 DEF MutexTypeOK, Restored
<1>3. ASSUME NEW u \in Threads \ crossed', u # t
      PROVE  prio'[u] <= MutexPrio[u] /\ ((\A n \in Mutexes : owner'[n] # u) => prio'[u] = MutexPrio[u])
  <2>1. prio[u] <= MutexPrio[u] /\ ((\A n \in Mutexes : owner[n] # u) => prio[u] = MutexPrio[u])
    BY <1>1 DEF MutexInv, LoansEnd
  <2>2. (\A n \in Mutexes : owner'[n] # u) => (\A n \in Mutexes : owner[n] # u)
    BY <1>3
  <2> QED BY <1>2, <1>3, <2>1, <2>2
<1>4. ASSUME t \notin crossed'
      PROVE  prio'[t] <= MutexPrio[t] /\ ((\A n \in Mutexes : owner'[n] # t) => prio'[t] = MutexPrio[t])
  <2>1. /\ original[m] <= MutexPrio[t]
        /\ held[t] = <<>> \/ held[t][1] = m => original[m] = MutexPrio[t]
    BY <1>1, <1>4 DEF MutexInv, NotesLeadBack
  <2>2. ASSUME \A n \in Mutexes : owner'[n] # t PROVE held[t] = <<>> \/ held[t][1] = m
    <3>1. held[t] # <<>> => held[t][1] \in Mutexes /\ owner[held[t][1]] = t
      BY <1>1, OwnsItsTakes
    <3> QED BY <2>2, <3>1
  <2> QED BY <1>2, <2>1, <2>2
<1>5. LoansEnd'
  BY <1>3, <1>4 DEF LoansEnd
<1> QED BY <1>2, <1>5

\* Notes of owners other than t's, of mutexes other than m, stand as they were.
LEMMA MxNotesStay ==
    ASSUME MutexInv, NEW t \in Threads, NEW m \in Mutexes, taking[t] = Idle, owner[m] = t, Undone(t, m),
           NEW u \in Threads \ crossed', NEW n \in Mutexes, n # m, owner[n] = u
    PROVE  /\ original[n] <= MutexPrio[u]
           /\ held'[u] = <<>> \/ held'[u][1] = n => original[n] = MutexPrio[u]
<1>1. /\ crossed \subseteq crossed' /\ \A x \in Threads : x # t => held'[x] = held[x]
      /\ t \notin crossed' /\ held'[t] # <<>> => held[t] # <<>> /\ held'[t][1] = held[t][1]
      /\ held'[t] = <<>> => \A k \in Mutexes : owner[k] = t => k = m
  BY MxReleases
<1>2. /\ original[n] <= MutexPrio[u]
      /\ held[u] = <<>> \/ held[u][1] = n => original[n] = MutexPrio[u]
  BY <1>1 DEF MutexInv, NotesLeadBack
<1>3. CASE u = t
  BY <1>1, <1>2, <1>3
<1>4. CASE u # t
  BY <1>1, <1>2, <1>4
<1> QED BY <1>3, <1>4

\* A release changes no priority that a waiter without takes stands by.
LEMMA MxWaitersStay ==
    ASSUME MutexInv, NEW t \in Threads, Unlined(t), \A u \in Threads : u # t => held'[u] = held[u],
           \A u \in Threads : u # t => prio'[u] = prio[u], NEW n \in Mutexes
    PROVE  \A u \in ToSet(mutexWaiters[n]) : u \in Threads /\ u # t /\ held'[u] = held[u] /\ prio'[u] = prio[u]
BY LinesAre DEF Unlined, MutexInv

LEMMA MxPutBack ==
    ASSUME MutexInv, NEW t \in Threads, NEW m \in Mutexes, taking[t] = Idle, owner[m] = t, Undone(t, m),
           hold[m] = 1, prio' = Restored(t, m), PutBack(m), taking' = taking
    PROVE  MutexInv'
<1>1. /\ MutexTypeOK /\ Away(t) /\ Unlined(t) /\ t # Nobody
      /\ Takes(t, m) = hold[m] /\ hold[m] \in Nat \ {0}
      /\ held' \in [Threads -> Seq(Mutexes)] /\ \A u \in Threads : u # t => held'[u] = held[u]
      /\ \A n \in Mutexes : Takes(t, n)' = IF n = m THEN Takes(t, n) - 1 ELSE Takes(t, n)
      /\ \A u \in Threads : u # t => \A n \in Mutexes : Takes(u, n)' = Takes(u, n)
      /\ crossed \subseteq crossed' /\ crossed' \subseteq Threads
  BY MxReleases
<1>2. /\ mutexWaiters[m] = <<>> /\ mutexWaiters' = mutexWaiters /\ alone' = alone \ {m}
      /\ owner' = [owner EXCEPT ![m] = Nobody] /\ mutexValue' = [mutexValue EXCEPT ![m] = @ + 1]
      /\ original' = [original EXCEPT ![m] = Lowest] /\ hold' = [hold EXCEPT ![m] = 0]
  BY DEF PutBack
<1>3. mutexValue[m] = 0
  BY <1>1, HoldsAre DEF MutexInv, MutexTypeOK, HoldsOf
<1>4. /\ mutexValue' \in [Mutexes -> {0, 1}] /\ mutexValue'[m] = 1
      /\ owner' \in [Mutexes -> Threads \cup {Nobody}] /\ owner'[m] = Nobody
      /\ original' \in [Mutexes -> Nat]
      /\ hold' \in [Mutexes -> 0 .. HoldMax] /\ hold'[m] = 0
      /\ \A n \in Mutexes : n # m =>
            /\ mutexValue'[n] = mutexValue[n] /\ owner'[n] = owner[n]
            /\ original'[n] = original[n] /\ hold'[n] = hold[n]
  <2>1. 0 \in 0 .. HoldMax
    BY MutexAssumption DEF MutexAssumption
  <2> QED BY <1>1, <1>2, <1>3, <2>1 DEF MutexTypeOK, Lowest
<1>5. /\ prio' \in [Threads -> Nat] /\ \A u \in Threads : u # t => prio'[u] = prio[u]
      /\ LoansEnd'
  BY <1>1, <1>4, MxGivesBack
<1>6. MutexTypeOK'
  BY <1>1, <1>2, <1>4, <1>5 DEF MutexTypeOK
<1>7. HoldsAreTheOwners'
  <2>1. \A u \in Threads : \A n \in Mutexes : OnItsWay(u, n)' <=> OnItsWay(u, n)
    BY <1>2 DEF OnItsWay
  <2>2. ASSUME NEW n \in Mutexes, n # m PROVE HoldsOf(n)'
    <3>1. \A u \in Threads : Takes(u, n)' = Takes(u, n)
      BY <1>1, <2>2
    <3> QED BY <1>2, <1>4, <2>1, <2>2, <3>1, HoldsStay
  <2>3. HoldsOf(m)'
    <3>1. \A u \in Threads : u # t => ~ (Takes(u, m) > 0 \/ OnItsWay(u, m))
      BY HoldsAre DEF HoldsOf, MutexInv
    <3>2. Takes(t, m)' = 0 /\ ~ OnItsWay(t, m)'
      BY <1>1, <2>1 DEF Away
    <3>3. \A u \in Threads : ~ (Takes(u, m)' > 0 \/ OnItsWay(u, m)')
      BY <1>1, <2>1, <3>1, <3>2
    <3> QED BY <1>2, <1>4, <3>3 DEF HoldsOf
  <2>4. \A n \in Mutexes : HoldsOf(n)'
    BY <2>2, <2>3
  <2> QED BY <2>4 DEF HoldsAreTheOwners, HoldsOf
<1>8. OwnersHold'
  BY <1>4 DEF MutexInv, OwnersHold
<1>9. WaitersStand'
  <2>1. ToSet(mutexWaiters[m]) = {}
    BY <1>2 DEF ToSet
  <2>2. ASSUME NEW n \in Mutexes, NEW u \in ToSet(mutexWaiters[n]) PROVE owner'[n] = owner[n]
    BY <1>4, <2>1
  <2> QED BY <1>2, <2>2 DEF MutexInv, WaitersStand
<1>10. AloneOwns'
  <2>1. \A n \in alone : n \in Mutexes
    BY <1>1 DEF MutexTypeOK
  <2> QED BY <1>2, <1>4, <2>1 DEF MutexInv, AloneOwns
<1>11. NotesLeadBack'
  <2>1. ASSUME NEW u \in Threads \ crossed', NEW n \in Mutexes, owner'[n] = u
        PROVE  /\ original'[n] <= MutexPrio[u]
               /\ held'[u] = <<>> \/ held'[u][1] = n => original'[n] = MutexPrio[u]
    <3>1. n # m
      BY <1>4, <2>1, MutexAssumption DEF MutexAssumption
    <3>2. owner[n] = u /\ original'[n] = original[n]
      BY <1>4, <2>1, <3>1
    <3> QED BY <3>1, <3>2, MxNotesStay
  <2> QED BY <2>1 DEF NotesLeadBack
<1>12. \A n \in Mutexes : \A u \in ToSet(mutexWaiters[n]) :
          u \in Threads /\ u # t /\ held'[u] = held[u] /\ prio'[u] = prio[u]
  BY <1>1, <1>5, MxWaitersStay
<1>13. FreeInOrder'
  <2> SUFFICES ASSUME NEW n \in Mutexes, NEW i \in 1 .. Len(mutexWaiters[n]),
                      NEW j \in 1 .. Len(mutexWaiters[n]), i < j, held'[mutexWaiters[n][j]] = <<>>
               PROVE  prio'[mutexWaiters[n][i]] <= prio'[mutexWaiters[n][j]]
    BY <1>2 DEF FreeInOrder
  <2>1. mutexWaiters[n][i] \in ToSet(mutexWaiters[n]) /\ mutexWaiters[n][j] \in ToSet(mutexWaiters[n])
    BY <1>1, LinesAre
  <2>2. held[mutexWaiters[n][j]] = <<>>
    BY <1>12, <2>1
  <2>3. prio[mutexWaiters[n][i]] <= prio[mutexWaiters[n][j]]
    BY <2>2 DEF MutexInv, FreeInOrder
  <2> QED BY <1>12, <2>1, <2>3
<1>14. WaiterNotOutranked'
  <2>1. ASSUME NEW n \in alone', NEW u \in ToSet(mutexWaiters[n]), held'[u] = <<>>
        PROVE  prio'[owner'[n]] <= prio'[u]
    <3>1. n \in alone /\ n # m /\ n \in Mutexes /\ owner'[n] = owner[n]
      BY <1>1, <1>2, <1>4 DEF MutexTypeOK
    <3>2. owner[n] # t /\ owner[n] \in Threads
      BY <1>1, <3>1 DEF MutexInv, AloneOwns, MutexTypeOK
    <3>3. prio[owner[n]] <= prio[u]
      BY <1>12, <2>1, <3>1 DEF MutexInv, WaiterNotOutranked
    <3> QED BY <1>5, <1>12, <3>1, <3>2, <3>3
  <2> QED BY <1>2, <2>1 DEF WaiterNotOutranked
<1> QED BY <1>5, <1>6, <1>7, <1>8, <1>9, <1>10, <1>11, <1>13, <1>14 DEF MutexInv

LEMMA MxHandOver ==
    ASSUME MutexInv, NEW t \in Threads, NEW m \in Mutexes, taking[t] = Idle, owner[m] = t, Undone(t, m),
           hold[m] = 1, prio' = Restored(t, m), HandOver(t, m), taking' = taking
    PROVE  MutexInv'
<1>1. /\ MutexTypeOK /\ Away(t) /\ Unlined(t) /\ t # Nobody
      /\ Takes(t, m) = hold[m] /\ hold[m] \in Nat \ {0}
      /\ held' \in [Threads -> Seq(Mutexes)] /\ \A u \in Threads : u # t => held'[u] = held[u]
      /\ \A n \in Mutexes : Takes(t, n)' = IF n = m THEN Takes(t, n) - 1 ELSE Takes(t, n)
      /\ \A u \in Threads : u # t => \A n \in Mutexes : Takes(u, n)' = Takes(u, n)
      /\ crossed \subseteq crossed' /\ crossed' \subseteq Threads
  BY MxReleases
<1>2. PICK h \in ToSet(mutexWaiters[m]) : h = Head(mutexWaiters[m]) /\ h = mutexWaiters[m][1]
  <2>1. mutexWaiters[m] # <<>> /\ mutexWaiters[m] \in Seq(Threads)
    BY <1>1 DEF HandOver, MutexTypeOK
  <2>2. Len(mutexWaiters[m]) \in Nat \ {0} /\ Head(mutexWaiters[m]) = mutexWaiters[m][1]
    BY <2>1, HeadTailProperties, EmptySeq, LenProperties
  <2>3. 1 \in 1 .. Len(mutexWaiters[m])
    BY <2>2
  <2> QED BY <1>1, <2>2, <2>3, LinesAre
<1>3. /\ mutexWaiters[m] # <<>> /\ mutexWaiters' = [mutexWaiters EXCEPT ![m] = Tail(@)]
      /\ owner' = [owner EXCEPT ![m] = h] /\ original' = [original EXCEPT ![m] = Restored(t, m)[h]]
      /\ hold' = [hold EXCEPT ![m] = 1] /\ Begins(h, m) /\ mutexValue' = mutexValue
  BY <1>2 DEF HandOver
<1>4. /\ h \in Threads /\ Away(h) /\ h # t /\ h # Nobody /\ taking[h] = [mutex |-> m, error |-> "EOK"]
      /\ \A n \in Mutexes : h \in ToSet(mutexWaiters[n]) => n = m
  <2>1. h \in Threads => h # Nobody
    BY MutexAssumption DEF MutexAssumption
  <2> QED BY <1>1, <1>2, <2>1, LinedAway DEF Unlined
<1>5. /\ mutexWaiters' \in [Mutexes -> Seq(Threads)] /\ mutexWaiters'[m] = Tail(mutexWaiters[m])
      /\ \A n \in Mutexes : n # m => mutexWaiters'[n] = mutexWaiters[n]
      /\ IsInjective(mutexWaiters'[m]) /\ ToSet(mutexWaiters'[m]) = ToSet(mutexWaiters[m]) \ {h}
  <2>1. mutexWaiters[m] \in Seq(Threads) /\ IsInjective(mutexWaiters[m]) /\ mutexWaiters[m] # <<>>
    BY <1>1, <1>3 DEF MutexInv, MutexTypeOK, WaitersStand
  <2>2. /\ Tail(mutexWaiters[m]) \in Seq(Threads) /\ IsInjective(Tail(mutexWaiters[m]))
        /\ ToSet(Tail(mutexWaiters[m])) = ToSet(mutexWaiters[m]) \ {h}
    BY <1>2, <2>1, TailOf
  <2> QED BY <1>1, <1>3, <2>2 DEF MutexTypeOK
<1>6. /\ prio' \in [Threads -> Nat] /\ \A u \in Threads : u # t => prio'[u] = prio[u]
      /\ LoansEnd'
  <2>1. \A n \in Mutexes : n # m => owner'[n] = owner[n]
    BY <1>1, <1>3 DEF MutexTypeOK
  <2>2. owner'[m] # t
    BY <1>1, <1>3, <1>4 DEF MutexTypeOK
  <2> QED BY <2>1, <2>2, MxGivesBack
<1>7. Restored(t, m)[h] = prio[h] /\ prio[h] \in Nat
  BY <1>1, <1>4 DEF Restored, MutexTypeOK
<1>8. /\ owner' \in [Mutexes -> Threads \cup {Nobody}] /\ owner'[m] = h
      /\ original' \in [Mutexes -> Nat] /\ original'[m] = prio[h]
      /\ hold' \in [Mutexes -> 0 .. HoldMax] /\ hold'[m] = 1
      /\ \A n \in Mutexes : n # m =>
            owner'[n] = owner[n] /\ original'[n] = original[n] /\ hold'[n] = hold[n]
  <2>1. 1 \in 0 .. HoldMax
    BY MutexAssumption DEF MutexAssumption
  <2> QED BY <1>1, <1>3, <1>4, <1>7, <2>1 DEF MutexTypeOK
<1>9. /\ AloneOwns' /\ alone' \subseteq Mutexes /\ alone' \subseteq alone \cup {m}
      /\ m \in alone' => held[h] = <<>>
  BY <1>3, <1>4, MxBegins
<1>10. MutexTypeOK'
  BY <1>1, <1>3, <1>5, <1>6, <1>8, <1>9 DEF MutexTypeOK
<1>11. HoldsAreTheOwners'
  <2>1. ASSUME NEW n \in Mutexes, n # m PROVE HoldsOf(n)'
    <3>1. \A u \in Threads : Takes(u, n)' = Takes(u, n)
      BY <1>1, <2>1
    <3>2. \A u \in Threads : OnItsWay(u, n)' <=> OnItsWay(u, n)
      BY <1>5, <2>1 DEF OnItsWay
    <3> QED BY <1>3, <1>5, <1>8, <2>1, <3>1, <3>2, HoldsStay
  <2>2. HoldsOf(m)'
    <3>1. HoldsOf(m)
      BY HoldsAre DEF MutexInv
    <3>2. \A u \in Threads : u # t => ~ (Takes(u, m) > 0) /\ ~ OnItsWay(u, m)
      BY <3>1 DEF HoldsOf
    <3>3. ~ OnItsWay(t, m) /\ Takes(t, m)' = 0
      BY <1>1 DEF Away
    <3>4. \A u \in Threads : u # h => ~ OnItsWay(u, m)'
      BY <1>5, <3>2, <3>3 DEF OnItsWay
    <3>5. OnItsWay(h, m)'
      BY <1>4, <1>5 DEF OnItsWay
    <3>6. \A u \in Threads : ~ (Takes(u, m)' > 0)
      BY <1>1, <3>2, <3>3
    <3>7. Takes(h, m)' = 0
      BY <1>1, <1>4, <3>2, TakesAre
    <3>8. mutexValue'[m] # 1
      BY <1>1, <1>3, <3>1 DEF HoldsOf
    <3>9. hold'[m] = Takes(h, m)' + 1
      BY <1>8, <3>7
    <3> QED BY <1>4, <1>8, <3>4, <3>5, <3>6, <3>8, <3>9 DEF HoldsOf
  <2>3. \A n \in Mutexes : HoldsOf(n)'
    BY <2>1, <2>2
  <2> QED BY <2>3 DEF HoldsAreTheOwners, HoldsOf
<1>12. OwnersHold'
  BY <1>8 DEF MutexInv, OwnersHold
<1>13. WaitersStand'
  <2>1. ASSUME NEW n \in Mutexes, NEW u \in ToSet(mutexWaiters'[n])
        PROVE  taking'[u] = [mutex |-> n, error |-> "EOK"] /\ owner'[n] # u
    <3>1. u \in ToSet(mutexWaiters[n]) /\ u # h
      BY <1>4, <1>5
    <3>2. taking[u] = [mutex |-> n, error |-> "EOK"] /\ owner[n] # u
      BY <3>1 DEF MutexInv, WaitersStand
    <3> QED BY <1>8, <3>1, <3>2
  <2>2. \A n \in Mutexes : IsInjective(mutexWaiters'[n])
    BY <1>5 DEF MutexInv, WaitersStand
  <2> QED BY <2>1, <2>2 DEF WaitersStand
<1>14. NotesLeadBack'
  <2>1. ASSUME NEW u \in Threads \ crossed', NEW n \in Mutexes, owner'[n] = u, n # m
        PROVE  /\ original'[n] <= MutexPrio[u]
               /\ held'[u] = <<>> \/ held'[u][1] = n => original'[n] = MutexPrio[u]
    <3>1. owner[n] = u /\ original'[n] = original[n]
      BY <1>8, <2>1
    <3> QED BY <2>1, <3>1, MxNotesStay
  <2>2. ASSUME h \notin crossed'
        PROVE  /\ prio[h] <= MutexPrio[h]
               /\ held'[h] = <<>> \/ held'[h][1] = m => prio[h] = MutexPrio[h]
    <3>1. prio[h] <= MutexPrio[h] /\ held'[h] = held[h]
      BY <1>1, <1>4, <2>2 DEF MutexInv, LoansEnd
    <3>2. held[h] # <<>> => held[h][1] # m
      BY <1>4, OwnsItsTakes
    <3>3. held[h] = <<>> => prio[h] = MutexPrio[h]
      <4>1. held[h] = <<>> => \A n \in Mutexes : owner[n] # h
        BY <1>4, OwnsItsTakes
      <4> QED BY <1>1, <1>4, <2>2, <4>1 DEF MutexInv, LoansEnd
    <3> QED BY <3>1, <3>2, <3>3
  <2> QED BY <1>8, <2>1, <2>2 DEF NotesLeadBack
<1>15. \A n \in Mutexes : \A u \in ToSet(mutexWaiters[n]) :
          u \in Threads /\ u # t /\ held'[u] = held[u] /\ prio'[u] = prio[u]
  BY <1>1, <1>6, MxWaitersStay
<1>16. \A a, b : Ahead(Tail(mutexWaiters[m]), a, b) => Ahead(mutexWaiters[m], a, b)
  BY <1>1, <1>3, AheadTail DEF MutexTypeOK
<1>17. \A b \in ToSet(Tail(mutexWaiters[m])) : Ahead(mutexWaiters[m], h, b)
  BY <1>1, <1>2, <1>3, AheadTail DEF MutexTypeOK
<1>18. FreeInOrder'
  <2>1. ASSUME NEW n \in Mutexes, NEW a, NEW b, Ahead(mutexWaiters'[n], a, b), held'[b] = <<>>
        PROVE  prio'[a] <= prio'[b]
    <3>1. Ahead(mutexWaiters[n], a, b)
      BY <1>5, <1>16, <2>1
    <3>2. a \in ToSet(mutexWaiters[n]) /\ b \in ToSet(mutexWaiters[n])
      BY <1>1, <3>1, LinesAre DEF Ahead
    <3>3. held[b] = <<>>
      BY <1>15, <2>1, <3>2
    <3>4. prio[a] <= prio[b]
      BY <3>1, <3>3, FreeAre DEF MutexInv
    <3> QED BY <1>15, <3>2, <3>4
  <2> QED BY <2>1 DEF FreeInOrder, Ahead
<1>19. WaiterNotOutranked'
  <2>1. ASSUME NEW n \in alone', NEW u \in ToSet(mutexWaiters'[n]), held'[u] = <<>>
        PROVE  prio'[owner'[n]] <= prio'[u]
    <3>0. n \in Mutexes
      BY <1>9
    <3>1. CASE n = m
      <4>1. u \in ToSet(Tail(mutexWaiters[m])) /\ u \in ToSet(mutexWaiters[m])
        BY <1>5, <3>1
      <4>2. held[u] = <<>> /\ Ahead(mutexWaiters[m], h, u)
        BY <1>15, <1>17, <2>1, <4>1
      <4>3. prio[h] <= prio[u]
        BY <4>2, FreeAre DEF MutexInv
      <4> QED BY <1>2, <1>8, <1>15, <3>1, <4>1, <4>3
    <3>2. CASE n # m
      <4>1. n \in alone /\ owner'[n] = owner[n] /\ u \in ToSet(mutexWaiters[n])
        BY <1>5, <1>8, <1>9, <3>0, <3>2
      <4>2. owner[n] # t /\ owner[n] \in Threads
        BY <1>1, <3>0, <3>2, <4>1 DEF MutexInv, AloneOwns, MutexTypeOK
      <4>3. prio[owner[n]] <= prio[u]
        BY <1>15, <2>1, <3>0, <4>1 DEF MutexInv, WaiterNotOutranked
      <4> QED BY <1>6, <1>15, <3>0, <4>1, <4>2, <4>3
    <3> QED BY <3>1, <3>2
  <2> QED BY <2>1 DEF WaiterNotOutranked
<1> QED BY <1>6, <1>9, <1>10, <1>11, <1>12, <1>13, <1>14, <1>18, <1>19 DEF MutexInv

LEMMA MxInit == ASSUME MutexInit PROVE MutexInv
<1>1. /\ MutexPrio \in [Threads -> Nat] /\ HoldMax \in Nat \ {0}
      /\ Nobody \notin Threads /\ Nobody \notin Mutexes
  BY MutexAssumption DEF MutexAssumption
<1>2. MutexTypeOK
  BY <1>1 DEF MutexInit, MutexTypeOK, Idle, Lowest
<1>3. \A t \in Threads : held[t] = <<>>
  BY DEF MutexInit
<1>4. ASSUME NEW m \in Mutexes PROVE HoldsOf(m)
  <2>1. \A t \in Threads : Takes(t, m) = 0
    BY <1>2, <1>3, TakesAre
  <2>2. \A t \in Threads : ~ OnItsWay(t, m)
    BY <1>1 DEF MutexInit, OnItsWay, Idle
  <2> QED BY <2>1, <2>2 DEF MutexInit, HoldsOf
<1>5. \A m \in Mutexes : IsInjective(mutexWaiters[m]) /\ ToSet(mutexWaiters[m]) = {}
  BY DEF MutexInit, IsInjective, ToSet
<1>6. HoldsAreTheOwners
  BY <1>4, HoldsAre
<1>7. LoansEnd /\ WaiterNotOutranked /\ OwnersHold /\ AloneOwns
  BY <1>1 DEF MutexInit, LoansEnd, WaiterNotOutranked, OwnersHold, AloneOwns
<1>8. WaitersStand /\ NotesLeadBack /\ FreeInOrder
  <2>1. WaitersStand
    BY <1>5 DEF WaitersStand
  <2>2. NotesLeadBack
    BY <1>1 DEF MutexInit, NotesLeadBack
  <2>3. FreeInOrder
    BY DEF MutexInit, FreeInOrder
  <2> QED BY <2>1, <2>2, <2>3
<1> QED BY <1>2, <1>6, <1>7, <1>8 DEF MutexInv

LEMMA MutexInvNext == ASSUME MutexInv, MutexNext PROVE MutexInv'
<1>1. ASSUME NEW t \in Threads, NEW m \in Mutexes, NEW w \in Timeouts, Take(t, m, w) PROVE MutexInv'
  BY <1>1, MxTakeAgain, MxTakeFree, MxTakeWaits, MutexStays DEF Take
<1>2. ASSUME NEW t \in Threads, NEW m \in Mutexes, Release(t, m) PROVE MutexInv'
  BY <1>2, MxReleaseOnce, MxHandOver, MxPutBack DEF Release
<1>3. ASSUME NEW t \in Threads, NEW m \in Mutexes, ReleaseRefused(t, m) PROVE MutexInv'
  BY <1>3, MutexStays DEF ReleaseRefused
<1> QED BY <1>1, <1>2, <1>3, MxResumed, MxTimeout DEF MutexNext

-----------------------------------------------------------------------------
(***************************************************************************)
(* All four, side by side: one is in use, and of the others nobody waits   *)
(* for anything.                                                           *)
(***************************************************************************)
Inv ==
    /\ ThOK /\ SemInv /\ EventInv /\ MbInv /\ MutexInv
    /\ object # "semaphore" => SemUnused
    /\ object # "event" => EventUnused
    /\ object # "mailbox" => MbUnused
    /\ object \in {"semaphore", "event", "mailbox", "mutex"}

\* A call on another object leaves an unused one unused.
LEMMA UnusedStay ==
    ASSUME NEW lists, Within(lists)
    PROVE  /\ SemUnused /\ "sem" \notin lists /\ UNCHANGED semVars => SemUnused'
           /\ EventUnused /\ "event" \notin lists /\ UNCHANGED eventVars => EventUnused'
           /\ MbUnused /\ lists \cap {"mbSend", "mbRecv"} = {} /\ UNCHANGED mbVars => MbUnused'
<1>1. ASSUME SemUnused, "sem" \notin lists, UNCHANGED semVars PROVE SemUnused'
  BY <1>1 DEF SemUnused, semVars, Within
<1>2. ASSUME EventUnused, "event" \notin lists, UNCHANGED eventVars PROVE EventUnused'
  BY <1>2 DEF EventUnused, eventVars, Within
<1>3. ASSUME MbUnused, lists \cap {"mbSend", "mbRecv"} = {}, UNCHANGED mbVars PROVE MbUnused'
  <2>1. RingOK'
    BY <1>3, RingStays DEF MbUnused, mbVars
  <2> QED BY <1>3, <2>1 DEF MbUnused, mbVars, Within
<1> QED BY <1>1, <1>2, <1>3

LEMMA InvInit == Init => Inv
<1> SUFFICES ASSUME Init PROVE Inv
  OBVIOUS
<1>1. ThOK /\ \A t \in Threads : th[t].on = "none"
  BY DEF Init, ThOK, Ready, Calls, Lists
<1>2. SemUnused
  BY <1>1, SemaphoreAssumption DEF Init, SemInit, SemUnused, SemaphoreAssumption
<1>3. EventUnused
  BY <1>1 DEF Init, EventInit, EventUnused, NoInfo, Infos
<1>4. MbUnused
  <2>1. MbSize \in Nat \ {0} /\ (0 + 0) % MbSize = 0
    BY MailboxAssumption DEF MailboxAssumption
  <2> QED BY <1>1, <2>1 DEF Init, MbInit, MbUnused, RingOK, Places
<1>5. MutexInv
  BY MxInit DEF Init
<1> QED BY <1>1, <1>2, <1>3, <1>4, <1>5, SemUnusedInv, EventUnusedInv, MbUnusedInv DEF Init, Inv

\* In the words of the state after a step.
LEMMA UnusedInvs ==
    /\ SemUnused' => SemInv'
    /\ EventUnused' => EventInv'
    /\ MbUnused' => MbInv'
BY SemUnusedInv, EventUnusedInv, MbUnusedInv, PTL

LEMMA InvStays == ASSUME Inv, UNCHANGED vars PROVE Inv'
<1>1. UNCHANGED th /\ UNCHANGED semVars /\ UNCHANGED eventVars /\ UNCHANGED mbVars
      /\ UNCHANGED mutexVars /\ UNCHANGED object
  BY DEF vars
<1>2. ThOK' /\ SemInv'
  BY <1>1 DEF Inv, ThOK, SemInv, semVars, OnCall
<1>3. EventInv'
  BY <1>1 DEF Inv, EventInv, eventVars, OnCall
<1>4. MbInv'
  <2>1. RingOK' /\ entry' = entry
    BY <1>1, RingStays DEF Inv, MbInv, mbVars
  <2> QED BY <1>1, <2>1 DEF Inv, MbInv, HandsOK, LinesOK, mbVars, OnCall
<1>5. MutexInv'
  BY <1>1, MutexStays DEF Inv
<1>6. Within({})
  BY <1>1 DEF Within
<1>7. /\ SemUnused => SemUnused'
      /\ EventUnused => EventUnused'
      /\ MbUnused => MbUnused'
  BY <1>1, <1>6, UnusedStay
<1> QED BY <1>1, <1>2, <1>3, <1>4, <1>5, <1>7 DEF Inv

LEMMA InvNext == ASSUME Inv, Next PROVE Inv'
<1>1. ThOK /\ SemInv /\ EventInv /\ MbInv /\ MutexInv /\ object' = object
  BY DEF Inv, Next
<1>2. CASE object = "semaphore" /\ SemNext /\ UNCHANGED <<eventVars, mbVars, mutexVars>>
  <2>1. SemInv' /\ ThOK' /\ Within({"sem"})
    BY <1>1, <1>2, SemInvNext
  <2>2. EventUnused' /\ MbUnused'
    BY <1>2, <2>1, UnusedStay DEF Inv
  <2>3. MutexInv'
    BY <1>1, <1>2, MutexStays
  <2> QED BY <1>1, <1>2, <2>1, <2>2, <2>3, UnusedInvs DEF Inv
<1>3. CASE object = "event" /\ EventNext /\ UNCHANGED <<semVars, mbVars, mutexVars>>
  <2>1. EventInv' /\ ThOK' /\ Within({"event"})
    BY <1>1, <1>3, EventInvNext
  <2>2. SemUnused' /\ MbUnused'
    BY <1>3, <2>1, UnusedStay DEF Inv
  <2>3. MutexInv'
    BY <1>1, <1>3, MutexStays
  <2> QED BY <1>1, <1>3, <2>1, <2>2, <2>3, UnusedInvs DEF Inv
<1>4. CASE object = "mailbox" /\ MbNext /\ UNCHANGED <<semVars, eventVars, mutexVars>>
  <2>1. MbInv' /\ ThOK' /\ Within({"mbSend", "mbRecv"})
    BY <1>1, <1>4, MbInvNext
  <2>2. SemUnused' /\ EventUnused'
    BY <1>4, <2>1, UnusedStay DEF Inv
  <2>3. MutexInv'
    BY <1>1, <1>4, MutexStays
  <2> QED BY <1>1, <1>4, <2>1, <2>2, <2>3, UnusedInvs DEF Inv
<1>5. CASE object = "mutex" /\ MutexNext /\ UNCHANGED <<th, semVars, eventVars, mbVars>>
  <2>1. ThOK' /\ Within({})
    BY <1>1, <1>5 DEF ThOK, Within
  <2>2. SemUnused' /\ EventUnused' /\ MbUnused'
    BY <1>5, <2>1, UnusedStay DEF Inv
  <2>3. MutexInv'
    BY <1>1, <1>5, MutexInvNext
  <2> QED BY <1>1, <1>5, <2>1, <2>2, <2>3, UnusedInvs DEF Inv
<1> QED BY <1>2, <1>3, <1>4, <1>5 DEF Next

LEMMA IpcInvariant == Spec => []Inv
<1>1. Init => Inv
  BY InvInit
<1>2. Inv /\ [Next]_vars => Inv'
  BY InvNext, InvStays
<1> QED BY <1>1, <1>2, PTL DEF Spec

LEMMA InvTypes == Inv => TypeOK
<1> SUFFICES ASSUME Inv PROVE TypeOK
  OBVIOUS
<1>1. in \in 0 .. MbSize - 1
  <2>1. MbSize \in Nat \ {0} /\ out + entry \in Nat
    BY MailboxAssumption DEF MailboxAssumption, Inv, MbInv, RingOK, Places
  <2> QED BY <2>1 DEF Inv, MbInv, RingOK
<1> QED BY <1>1 DEF Inv, ThOK, SemInv, EventInv, MbInv, MutexInv, RingOK, HandsOK, LinesOK, Places, TypeOK

-----------------------------------------------------------------------------
(***************************************************************************)
(* The theorems.                                                           *)
(***************************************************************************)
\* The objects of ipc.c stay what their fields say for any number of threads,
\* bits, mails and mutexes: no value of a semaphore above its limit, no offset of
\* a mailbox outside its pool, no more mails than places.
THEOREM IpcTypes == Spec => []TypeOK
<1>1. Inv => TypeOK
  BY InvTypes
<1> QED BY <1>1, IpcInvariant, PTL

\* What was released and not taken again is either the value of the semaphore or
\* on its way to a thread that was woken, whoever times out or resets in between,
\* and nobody sleeps beside a value.
THEOREM SemaphoreBalanced == Spec => []SemBalanced
<1>1. Inv => SemBalanced
  BY SemInvBalanced DEF Inv
<1> QED BY <1>1, IpcInvariant, PTL

\* The one pass that rt_event_send makes, clearing bits as it goes, leaves nobody
\* asleep whose wish the bits still satisfy.
THEOREM EventLeavesNobody == Spec => []NobodySatisfiedSleeps
<1>1. Inv => NobodySatisfiedSleeps
  BY EventInvAwake DEF Inv
<1> QED BY <1>1, IpcInvariant, PTL

\* A bit that is sent goes to at most one waiter that clears it, and a woken
\* thread finds only bits that were set, enough of them for its wish.
THEOREM EventGivesOnce == Spec => BitsGivenOnce
<1>1. Inv => \A bits \in BitSets : EventSend(bits) => GivenOnce(bits)
  BY SendGivesOnce DEF Inv
<1> QED BY <1>1, IpcInvariant, PTL DEF BitsGivenOnce, GivenOnce

\* Nobody sleeps beside a mail, or a free place, that no woken thread is about to
\* take, and both lines of the mailbox stand in order.
THEOREM MailboxLosesNoWakeUp == Spec => []MbNoLostWakeUp
<1>1. Inv => MbNoLostWakeUp
  BY MbInvLosesNone DEF Inv
<1> QED BY <1>1, IpcInvariant, PTL

\* The ring of the mailbox is the bounded line of Channel: mails are received in
\* the order in which they stand, urgent ones in front, whatever wraps.
THEOREM MailboxIsChannel == Spec => MbIsChannel
<1>1. Init => MbChan!Init
  BY MbRefInit DEF Init
<1>2. ASSUME Inv, [Next]_vars PROVE MbChanStep
  <2>1. CASE object = "mailbox" /\ MbNext
    BY <1>2, <2>1, MbRefNext DEF Inv
  <2>2. CASE UNCHANGED mbVars
    <3>1. UNCHANGED <<ring, mail>>
      BY <2>2 DEF mbVars
    <3> QED BY <3>1, MbRefQuiet
  <2>3. (object = "mailbox" /\ MbNext) \/ UNCHANGED mbVars
    BY <1>2 DEF Next, vars
  <2> QED BY <2>1, <2>2, <2>3
<1>3. Inv /\ [Next]_vars => [MbChan!Next]_(MbChan!cvars)
  BY <1>2 DEF MbChanStep
<1>4. Inv => in = (out + entry) % MbSize
  BY DEF Inv, MbInv, RingOK
<1> QED BY <1>1, <1>3, <1>4, IpcInvariant, PTL DEF Spec, MbIsChannel, MbChan!Spec

\* A mutex is held as often as its owner has taken it and not given it back, with
\* the one that it is being handed to as the only exception.
THEOREM MutexHeldByOwner == Spec => []HoldsAreTheOwners
<1>1. Inv => HoldsAreTheOwners
  BY DEF Inv, MutexInv
<1> QED BY <1>1, IpcInvariant, PTL

\* A thread that never releases mutexes out of order has its own priority back
\* when it holds none.
THEOREM MutexLoansEnd == Spec => []LoansEnd
<1>1. Inv => LoansEnd
  BY DEF Inv, MutexInv
<1> QED BY <1>1, IpcInvariant, PTL

\* The owner of a mutex on which nothing else was ever nested is at least as
\* urgent as whoever waits for it.
THEOREM MutexWaiterNotOutranked == Spec => []WaiterNotOutranked
<1>1. Inv => WaiterNotOutranked
  BY DEF Inv, MutexInv
<1> QED BY <1>1, IpcInvariant, PTL
=============================================================================
