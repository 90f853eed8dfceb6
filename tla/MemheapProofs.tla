---------------------------- MODULE MemheapProofs ----------------------------
(***************************************************************************)
(* Proofs about Memheap, for any pool, sizes and number of pointers.       *)
(*                                                                         *)
(* The invariant is Well, about the heap alone (the chain of the blocks,   *)
(* the free list, no free neighbours), Owners, about the pointers and      *)
(* their blocks, and Counted, about available_size.  The lemmas go from    *)
(* sums over finite sets and the chain (a header is put in, one is taken   *)
(* out) over the heap's operations (split, take, free, grow, shrink) to    *)
(* the calls.                                                              *)
(***************************************************************************)
EXTENDS Memheap, ListLemmas

USE MemheapAssumption DEF First, Tailer

(***************************************************************************)
(* Sums over finite sets, which MapThenSumSet takes one chosen element     *)
(* after the other.                                                        *)
(***************************************************************************)
Pick(s) == CHOOSE x \in s : TRUE

\* it is what the sum's definition asks for the function w on the subsets of S.
Turn(it, w, s) == IF s = {} THEN 0 ELSE w[Pick(s)] + it[s \ {Pick(s)}]
Solves(it, w, S) == it = [s \in SUBSET S |-> Turn(it, w, s)]

\* Any element may be taken first.
Sums(it, w, S) ==
    /\ it \in [SUBSET S -> Int] /\ it[{}] = 0
    /\ \A s \in SUBSET S : \A x \in s : it[s] = w[x] + it[s \ {x}]

LEMMA Smaller ==
    ASSUME NEW S, IsFiniteSet(S), NEW s \in SUBSET S
    PROVE  /\ IsFiniteSet(s) /\ Cardinality(s) \in Nat /\ Cardinality(s) <= Cardinality(S)
           /\ Cardinality(S) \in Nat
           /\ s # {} => Pick(s) \in s
           /\ \A x \in s : /\ s \ {x} \in SUBSET S /\ Cardinality(s \ {x}) = Cardinality(s) - 1
                           /\ Cardinality(s) # 0
<1>1. IsFiniteSet(s) /\ Cardinality(s) \in Nat /\ Cardinality(s) <= Cardinality(S) /\ Cardinality(S) \in Nat
  BY FS_Subset, FS_CardinalityType
<1>2. s # {} => Pick(s) \in s
  BY DEF Pick
<1>3. ASSUME NEW x \in s
      PROVE  s \ {x} \in SUBSET S /\ Cardinality(s \ {x}) = Cardinality(s) - 1 /\ Cardinality(s) # 0
  <2>1. Cardinality(s \ {x}) = Cardinality(s) - 1
    BY <1>1, FS_RemoveElement
  <2>2. Cardinality(s \ {x}) \in Nat
    BY <1>1, FS_RemoveElement, FS_CardinalityType
  <2> QED BY <1>1, <2>1, <2>2
<1> QED BY <1>1, <1>2, <1>3

\* The sums of the subsets of up to N elements exist.
Begun(g, w, S, N) ==
    /\ \A s \in SUBSET S : Cardinality(s) <= N => g[s] \in Int /\ g[s] = Turn(g, w, s)
    /\ DOMAIN g = SUBSET S

LEMMA SumBegins ==
    ASSUME NEW S, IsFiniteSet(S), NEW w
    PROVE  \E g : Begun(g, w, S, 0)
<1> DEFINE g == [s \in SUBSET S |-> 0]
<1>1. \A s \in SUBSET S : Cardinality(s) <= 0 => s = {}
  BY Smaller, FS_EmptySet
<1>2. Begun(g, w, S, 0)
  BY <1>1 DEF Begun, Turn
<1> QED BY <1>2

LEMMA SumGoesOn ==
    ASSUME NEW S, IsFiniteSet(S), NEW w, \A x \in S : w[x] \in Int,
           NEW N \in Nat, \E g : Begun(g, w, S, N)
    PROVE  \E g : Begun(g, w, S, N + 1)
<1>1. PICK g : Begun(g, w, S, N)
  OBVIOUS
<1> DEFINE h == [s \in SUBSET S |-> IF Cardinality(s) <= N THEN g[s] ELSE Turn(g, w, s)]
<1>2. ASSUME NEW s \in SUBSET S, Cardinality(s) <= N
      PROVE  h[s] \in Int /\ h[s] = Turn(h, w, s)
  <2>1. h[s] = g[s] /\ g[s] \in Int /\ g[s] = Turn(g, w, s)
    BY <1>1, <1>2 DEF Begun
  <2>2. ASSUME s # {} PROVE h[s \ {Pick(s)}] = g[s \ {Pick(s)}]
    <3>1. s \ {Pick(s)} \in SUBSET S /\ Cardinality(s \ {Pick(s)}) = Cardinality(s) - 1 /\ Cardinality(s) \in Nat
      BY <2>2, Smaller
    <3>2. Cardinality(s \ {Pick(s)}) <= N
      BY <1>2, <3>1
    <3> QED BY <3>1, <3>2
  <2> HIDE DEF h
  <2> QED BY <2>1, <2>2 DEF Turn
<1>3. ASSUME NEW s \in SUBSET S, Cardinality(s) = N + 1
      PROVE  h[s] \in Int /\ h[s] = Turn(h, w, s)
  <2>1. s # {}
    BY <1>3, FS_EmptySet
  <2>2. /\ Pick(s) \in S /\ s \ {Pick(s)} \in SUBSET S /\ Cardinality(s \ {Pick(s)}) <= N
        /\ ~ Cardinality(s) <= N
    BY <1>3, <2>1, Smaller
  <2>3. h[s \ {Pick(s)}] = g[s \ {Pick(s)}] /\ g[s \ {Pick(s)}] \in Int
    BY <1>1, <2>2 DEF Begun
  <2>4. h[s] = Turn(g, w, s)
    BY <2>2
  <2> HIDE DEF h
  <2> QED BY <2>1, <2>2, <2>3, <2>4 DEF Turn
<1>4. DOMAIN h = SUBSET S
  OBVIOUS
<1> HIDE DEF h
<1>5. \A s \in SUBSET S : Cardinality(s) <= N + 1 => Cardinality(s) <= N \/ Cardinality(s) = N + 1
  BY Smaller
<1>6. Begun(h, w, S, N + 1)
  BY <1>2, <1>3, <1>4, <1>5 DEF Begun
<1> QED BY <1>6

LEMMA SumExists ==
    ASSUME NEW S, IsFiniteSet(S), NEW w, \A x \in S : w[x] \in Int
    PROVE  \E g \in [SUBSET S -> Int] : Solves(g, w, S)
<1> DEFINE L == Cardinality(S)
           Short == {N \in 0 .. L : ~ \E g : Begun(g, w, S, N)}
<1>1. L \in Nat
  BY FS_CardinalityType
<1>2. Short = {}
  <2> SUFFICES ASSUME Short # {} PROVE FALSE
    OBVIOUS
  <2>1. Short \subseteq Nat
    BY <1>1
  <2>2. PICK N \in Short : \A y \in Short : N <= y
    <3> HIDE DEF Short
    <3> QED BY <2>1, NatMin
  <2>3. N # 0
    BY <2>2, SumBegins
  <2>4. N - 1 \in Nat /\ N - 1 \in 0 .. L /\ ~ N <= N - 1
    BY <1>1, <2>2, <2>3
  <2>5. \E g : Begun(g, w, S, N - 1)
    BY <2>2, <2>4
  <2>6. \E g : Begun(g, w, S, (N - 1) + 1)
    BY <2>4, <2>5, SumGoesOn
  <2> QED BY <1>1, <2>2, <2>6
<1>3. PICK g : Begun(g, w, S, L)
  BY <1>1, <1>2
<1> DEFINE h == [s \in SUBSET S |-> g[s]]
<1>4. \A s \in SUBSET S : h[s] \in Int /\ g[s] = Turn(g, w, s)
  BY <1>3, Smaller DEF Begun
<1>5. \A s \in SUBSET S : Turn(h, w, s) = Turn(g, w, s)
  BY Smaller DEF Turn
<1>6. \A s \in SUBSET S : h[s] = Turn(h, w, s)
  BY <1>4, <1>5
<1>7. h \in [SUBSET S -> Int]
  BY <1>4
<1>8. h = [s \in SUBSET S |-> h[s]]
  OBVIOUS
<1> HIDE DEF h
<1>9. h = [s \in SUBSET S |-> Turn(h, w, s)]
  BY <1>6, <1>8
<1> QED BY <1>7, <1>9 DEF Solves

\* Two solutions agree where their functions do.
LEMMA SumsAgree ==
    ASSUME NEW S, IsFiniteSet(S), NEW w, NEW it, Solves(it, w, S),
           NEW v, NEW g, Solves(g, v, S), \A x \in S : w[x] = v[x]
    PROVE  \A s \in SUBSET S : it[s] = g[s]
<1> DEFINE Bad == {s \in SUBSET S : it[s] # g[s]}
           Cards == {Cardinality(s) : s \in Bad}
<1>1. SUFFICES ASSUME Bad # {} PROVE FALSE
  OBVIOUS
<1>2. Cards \subseteq Nat /\ Cards # {}
  BY <1>1, Smaller
<1>3. PICK n \in Cards : \A m \in Cards : n <= m
  <2> HIDE DEF Cards
  <2> QED BY <1>2, NatMin
<1>4. PICK s \in Bad : n = Cardinality(s)
  BY <1>3
<1>5. it[s] = Turn(it, w, s) /\ g[s] = Turn(g, v, s)
  BY <1>4 DEF Solves
<1>6. s # {}
  BY <1>4, <1>5 DEF Turn
<1> DEFINE r == s \ {Pick(s)}
<1>7. Pick(s) \in S /\ r \in SUBSET S /\ Cardinality(r) = n - 1 /\ n \in Nat
  BY <1>4, <1>6, Smaller
<1>8. r \notin Bad
  <2>1. ~ n <= n - 1
    BY <1>7
  <2>2. n - 1 \notin Cards
    BY <1>3, <2>1
  <2> QED BY <1>7, <2>2
<1>9. it[r] = g[r]
  BY <1>7, <1>8
<1> QED BY <1>4, <1>5, <1>6, <1>7, <1>9 DEF Turn

\* The order in which elements are chosen makes no difference.
LEMMA SumAnyOrder ==
    ASSUME NEW S, IsFiniteSet(S), NEW w, \A x \in S : w[x] \in Int,
           NEW g \in [SUBSET S -> Int], Solves(g, w, S)
    PROVE  Sums(g, w, S)
<1> DEFINE Bad == {s \in SUBSET S : \E x \in s : g[s] # w[x] + g[s \ {x}]}
           Cards == {Cardinality(s) : s \in Bad}
<1>1. \A s \in SUBSET S : g[s] = Turn(g, w, s) /\ g[s] \in Int
  BY DEF Solves
<1>2. ASSUME Bad # {} PROVE FALSE
  <2>1. Cards \subseteq Nat /\ Cards # {}
    BY <1>2, Smaller
  <2>2. PICK n \in Cards : \A m \in Cards : n <= m
    <3> HIDE DEF Cards
    <3> QED BY <2>1, NatMin
  <2>3. PICK s \in Bad : n = Cardinality(s)
    BY <2>2
  <2>4. PICK x \in s : g[s] # w[x] + g[s \ {x}]
    BY <2>3
  <2> DEFINE c == Pick(s)
  <2>5. s \in SUBSET S /\ c \in s /\ g[s] = w[c] + g[s \ {c}] /\ n \in Nat
    <3>1. s \in SUBSET S /\ s # {}
      BY <2>3, <2>4
    <3> QED BY <1>1, <2>3, <3>1, Smaller DEF Turn
  <2> HIDE DEF c
  <2>6. x # c
    BY <2>4, <2>5
  <2>7. \A y \in s : s \ {y} \in SUBSET S /\ \A z \in s \ {y} : g[s \ {y}] = w[z] + g[(s \ {y}) \ {z}]
    <3> TAKE y \in s
    <3>1. s \ {y} \in SUBSET S /\ Cardinality(s \ {y}) = n - 1
      BY <2>3, <2>5, Smaller
    <3>2. s \ {y} \notin Bad
      <4>1. ~ n <= n - 1
        BY <2>5
      <4>2. n - 1 \notin Cards
        BY <2>2, <4>1
      <4> QED BY <3>1, <4>2
    <3> QED BY <3>1, <3>2
  <2>8. g[s \ {c}] = w[x] + g[(s \ {c}) \ {x}] /\ g[s \ {x}] = w[c] + g[(s \ {x}) \ {c}]
    BY <2>5, <2>6, <2>7
  <2>9. (s \ {c}) \ {x} = (s \ {x}) \ {c} /\ (s \ {c}) \ {x} \in SUBSET S
    BY <2>5
  <2> DEFINE i == g[(s \ {c}) \ {x}]
  <2>10. i \in Int /\ w[x] \in Int /\ w[c] \in Int
    BY <1>1, <2>5, <2>9
  <2>11. g[s] = w[c] + (w[x] + i) /\ g[s \ {x}] = w[c] + i
    BY <2>5, <2>8, <2>9
  <2> HIDE DEF i
  <2> QED BY <2>4, <2>10, <2>11
<1>3. \A s \in SUBSET S : \A x \in s : g[s] = w[x] + g[s \ {x}]
  BY <1>2
<1>4. g[{}] = 0
  BY <1>1 DEF Turn
<1> QED BY <1>3, <1>4 DEF Sums

\* What the blocks in S hold, as available_size is meant to count it.
Total(h, S) == MapThenSumSet(LAMBDA a : SizeOf(h, a), S)

\* The definition of the sum is one of those functions.
LEMMA TotalIsSum ==
    ASSUME NEW h, NEW S, IsFiniteSet(S), \A x \in S : SizeOf(h, x) \in Int
    PROVE  \E g \in [SUBSET S -> Int] :
               /\ Solves(g, [x \in S |-> SizeOf(h, x)], S)
               /\ Sums(g, [x \in S |-> SizeOf(h, x)], S)
               /\ Total(h, S) = g[S]
<1> DEFINE w == [x \in S |-> SizeOf(h, x)]
           body(it, s) == IF s = {} THEN 0
                          ELSE LET x == CHOOSE y \in s : TRUE IN SizeOf(h, x) + it[s \ {x}]
           it == CHOOSE it : it = [s \in SUBSET S |-> body(it, s)]
<1>1. \A x \in S : w[x] = SizeOf(h, x) /\ w[x] \in Int
  OBVIOUS
<1>2. PICK g \in [SUBSET S -> Int] : Solves(g, w, S)
  <2> HIDE DEF w
  <2> QED BY <1>1, SumExists
<1>3. \A f : \A s \in SUBSET S : Turn(f, w, s) = body(f, s)
  <2> SUFFICES ASSUME NEW f, NEW s \in SUBSET S PROVE Turn(f, w, s) = body(f, s)
    OBVIOUS
  <2>1. s # {} => (CHOOSE y \in s : TRUE) \in S
    OBVIOUS
  <2>2. s # {} => w[CHOOSE y \in s : TRUE] = SizeOf(h, CHOOSE y \in s : TRUE)
    BY <2>1
  <2> QED BY <2>2 DEF Turn, Pick
<1>4. Total(h, S) = it[S]
  BY DEF Total, MapThenSumSet, MapThenFoldSet
<1>5. it = [s \in SUBSET S |-> body(it, s)]
  <2>1. [s \in SUBSET S |-> Turn(g, w, s)] = [s \in SUBSET S |-> body(g, s)]
    BY <1>3
  <2>2. g = [s \in SUBSET S |-> body(g, s)]
    BY <1>2, <2>1 DEF Solves
  <2> HIDE DEF body
  <2> QED BY <2>2
<1>6. Solves(it, w, S)
  <2> HIDE DEF it, w
  <2>1. [s \in SUBSET S |-> Turn(it, w, s)] = [s \in SUBSET S |-> body(it, s)]
    BY <1>3
  <2> HIDE DEF body
  <2> QED BY <1>5, <2>1 DEF Solves
<1> HIDE DEF it, w
<1>7. it[S] = g[S]
  <2>1. S \in SUBSET S
    OBVIOUS
  <2>2. \A s \in SUBSET S : it[s] = g[s]
    BY <1>2, <1>6, SumsAgree
  <2> QED BY <2>1, <2>2
<1>8. Sums(g, w, S)
  BY <1>1, <1>2, SumAnyOrder
<1> QED BY <1>2, <1>4, <1>7, <1>8 DEF w

\* Blocks that are as large in both heaps hold as much.
LEMMA TotalSame ==
    ASSUME NEW h, NEW k, NEW S, IsFiniteSet(S), \A x \in S : SizeOf(h, x) \in Int,
           \A x \in S : SizeOf(k, x) = SizeOf(h, x)
    PROVE  Total(k, S) = Total(h, S)
<1> DEFINE w == [x \in S |-> SizeOf(h, x)]
           v == [x \in S |-> SizeOf(k, x)]
<1>1. PICK g \in [SUBSET S -> Int] : Solves(g, w, S) /\ Total(h, S) = g[S]
  BY TotalIsSum
<1>2. PICK f \in [SUBSET S -> Int] : Solves(f, v, S) /\ Total(k, S) = f[S]
  BY TotalIsSum
<1>3. v = w
  OBVIOUS
<1> HIDE DEF v, w
<1>4. S \in SUBSET S /\ \A s \in SUBSET S : f[s] = g[s]
  BY <1>1, <1>2, <1>3, SumsAgree
<1> QED BY <1>1, <1>2, <1>4

\* One block more.
LEMMA TotalWith ==
    ASSUME NEW h, NEW S, IsFiniteSet(S), \A y \in S : SizeOf(h, y) \in Int, NEW x \in S
    PROVE  /\ Total(h, S \ {x}) \in Int /\ Total(h, S) \in Int
           /\ Total(h, S) = SizeOf(h, x) + Total(h, S \ {x})
<1> DEFINE R == S \ {x}
           w == [y \in S |-> SizeOf(h, y)]
           v == [y \in R |-> SizeOf(h, y)]
<1>1. PICK g \in [SUBSET S -> Int] :
          Solves(g, w, S) /\ Sums(g, w, S) /\ Total(h, S) = g[S]
  BY TotalIsSum
<1>2. IsFiniteSet(R) /\ \A y \in R : SizeOf(h, y) \in Int
  BY FS_Subset
<1>3. PICK f \in [SUBSET R -> Int] : Solves(f, v, R) /\ Total(h, R) = f[R]
  <2> HIDE DEF R
  <2> QED BY <1>2, TotalIsSum
<1> DEFINE e == [s \in SUBSET R |-> g[s]]
<1>4. \A y \in R : w[y] = v[y]
  OBVIOUS
<1>5. w[x] = SizeOf(h, x)
  OBVIOUS
<1> HIDE DEF v, w
<1>6. Solves(e, v, R)
  <2>1. ASSUME NEW s \in SUBSET R PROVE g[s] = Turn(e, v, s)
    <3>1. s \in SUBSET S /\ g[s] = Turn(g, w, s)
      BY <1>1, <2>1 DEF Solves
    <3>2. s # {} => Pick(s) \in R /\ s \ {Pick(s)} \in SUBSET R
      BY DEF Pick
    <3> QED BY <1>4, <3>1, <3>2 DEF Turn
  <2> HIDE DEF R
  <2>2. e = [s \in SUBSET R |-> Turn(e, v, s)]
    BY <2>1
  <2> QED BY <2>2 DEF Solves
<1>7. R \in SUBSET R /\ e[R] = f[R]
  <2> HIDE DEF R, e
  <2>1. \A y \in R : v[y] = v[y]
    OBVIOUS
  <2>2. \A s \in SUBSET R : e[s] = f[s]
    BY <1>2, <1>3, <1>6, <2>1, SumsAgree
  <2> QED BY <2>2
<1>8. Total(h, R) = g[R]
  BY <1>3, <1>7
<1>9. g[S] = w[x] + g[R] /\ g[S] \in Int /\ g[R] \in Int
  BY <1>1 DEF Sums
<1> QED BY <1>1, <1>5, <1>8, <1>9

LEMMA TotalNone == ASSUME NEW h PROVE Total(h, {}) = 0
<1>1. IsFiniteSet({}) /\ \A x \in {} : SizeOf(h, x) \in Int
  BY FS_EmptySet
<1>2. PICK g : Sums(g, [x \in {} |-> SizeOf(h, x)], {}) /\ Total(h, {}) = g[{}]
  BY <1>1, TotalIsSum
<1> QED BY <1>2 DEF Sums

(***************************************************************************)
(* The chain of the blocks.                                                *)
(***************************************************************************)
Chain(next, prev) ==
    /\ next \in [DOMAIN next -> DOMAIN next] /\ prev \in [DOMAIN next -> DOMAIN next]
    /\ {First, Tailer} \subseteq DOMAIN next /\ DOMAIN next \subseteq First .. Tailer
    /\ next[Tailer] = First
    /\ \A a \in DOMAIN next :
           /\ next[a] \in DOMAIN next /\ prev[a] \in DOMAIN next
           /\ prev[next[a]] = a /\ next[prev[a]] = a
           /\ a # Tailer => /\ next[a] >= a + Header + MinAlloc
                            /\ \A b \in DOMAIN next : ~ (a < b /\ b < next[a])

\* A header in a block that is large enough for two.
LEMMA ChainSplit ==
    ASSUME NEW next, NEW prev, Chain(next, prev),
           NEW a \in DOMAIN next, a # Tailer, NEW b \in Int,
           b >= a + Header + MinAlloc, next[a] >= b + Header + MinAlloc,
           NEW next2, next2 = With([next EXCEPT ![a] = b], b, next[a]),
           NEW prev2, prev2 = With([prev EXCEPT ![next[a]] = b], b, a)
    PROVE  /\ b \notin DOMAIN next
           /\ Chain(next2, prev2)
           /\ DOMAIN next2 = DOMAIN next \cup {b}
           /\ next2[a] = b /\ next2[b] = next[a]
           /\ \A x \in DOMAIN next \ {a} : next2[x] = next[x]
<1>1. /\ DOMAIN next \subseteq Int /\ next[a] \in DOMAIN next /\ a < b /\ b < next[a]
      /\ DOMAIN prev = DOMAIN next
  <2>1. DOMAIN next \subseteq Int /\ next[a] \in DOMAIN next /\ DOMAIN prev = DOMAIN next
    BY DEF Chain
  <2> QED BY <2>1
<1>2. b \notin DOMAIN next /\ b # a /\ b # next[a] /\ b # Tailer /\ b # First
  BY <1>1 DEF Chain
<1>3. /\ DOMAIN next2 = DOMAIN next \cup {b} /\ DOMAIN prev2 = DOMAIN next \cup {b}
      /\ next2[a] = b /\ next2[b] = next[a]
      /\ \A x \in DOMAIN next \ {a} : next2[x] = next[x]
      /\ prev2[next[a]] = b /\ prev2[b] = a
      /\ \A x \in DOMAIN next \ {next[a]} : prev2[x] = prev[x]
  BY <1>1, <1>2 DEF With
<1>4. ASSUME NEW x \in DOMAIN next2
      PROVE  /\ next2[x] \in DOMAIN next2 /\ prev2[x] \in DOMAIN next2
             /\ prev2[next2[x]] = x /\ next2[prev2[x]] = x
             /\ x # Tailer => /\ next2[x] >= x + Header + MinAlloc
                              /\ \A y \in DOMAIN next2 : ~ (x < y /\ y < next2[x])
  <2>1. CASE x = a
    <3>1. prev[a] \in DOMAIN next /\ next[prev[a]] = a /\ prev[next[a]] = a
      BY DEF Chain
    <3>2. prev[a] # a /\ a # next[a]
      BY <1>1, <3>1
    <3>3. prev2[a] = prev[a] /\ next2[prev2[a]] = a
      BY <1>3, <3>1, <3>2
    <3>4. \A y \in DOMAIN next2 : ~ (a < y /\ y < b)
      BY <1>1, <1>3 DEF Chain
    <3> QED BY <1>3, <2>1, <3>1, <3>3, <3>4
  <2>2. CASE x = b
    <3>1. \A y \in DOMAIN next2 : ~ (b < y /\ y < next[a])
      BY <1>1, <1>3 DEF Chain
    <3> QED BY <1>1, <1>3, <2>2, <3>1
  <2>3. CASE x \in DOMAIN next \ {a}
    <3>0. /\ next[x] \in DOMAIN next /\ prev[x] \in DOMAIN next
          /\ prev[next[x]] = x /\ next[prev[x]] = x /\ prev[next[a]] = a
      BY <2>3 DEF Chain
    <3>1. next[x] # next[a]
      BY <2>3, <3>0
    <3>2. prev2[next2[x]] = x /\ next2[x] \in DOMAIN next
      BY <1>3, <2>3, <3>0, <3>1
    <3>3. next2[prev2[x]] = x /\ prev2[x] \in DOMAIN next2
      <4>1. CASE x = next[a]
        BY <1>3, <4>1
      <4>2. CASE x # next[a]
        <5>1. prev2[x] = prev[x] /\ prev[x] # a
          BY <1>3, <2>3, <3>0, <4>2
        <5> QED BY <1>3, <3>0, <5>1
      <4> QED BY <4>1, <4>2
    <3>4. ASSUME x # Tailer
          PROVE  /\ next2[x] >= x + Header + MinAlloc
                 /\ \A y \in DOMAIN next2 : ~ (x < y /\ y < next2[x])
      <4>1. ~ (x < b /\ b < next[x])
        <5>1. SUFFICES ASSUME x < b, b < next[x] PROVE FALSE
          OBVIOUS
        <5>2. ~ (x < a /\ a < next[x]) /\ ~ (a < x /\ x < next[a])
          BY <2>3, <3>4 DEF Chain
        <5>3. x \in Int /\ next[x] \in Int
          BY <1>1, <2>3, <3>0
        <5> QED BY <1>1, <2>3, <5>1, <5>2, <5>3
      <4> QED BY <1>3, <2>3, <3>4, <4>1 DEF Chain
    <3> QED BY <1>3, <3>2, <3>3, <3>4
  <2> QED BY <1>3, <2>1, <2>2, <2>3
<1>5. /\ {First, Tailer} \subseteq DOMAIN next2 /\ DOMAIN next2 \subseteq First .. Tailer
      /\ next2[Tailer] = First
  <2>1. b \in First .. Tailer
    BY <1>1 DEF Chain
  <2> QED BY <1>3, <2>1 DEF Chain
<1>6. next2 \in [DOMAIN next2 -> DOMAIN next2] /\ prev2 \in [DOMAIN next2 -> DOMAIN next2]
  BY <1>3, <1>4 DEF With
<1> QED BY <1>2, <1>3, <1>4, <1>5, <1>6 DEF Chain

\* A header that is neither the first nor the last goes away.
LEMMA ChainJoin ==
    ASSUME NEW next, NEW prev, Chain(next, prev),
           NEW a \in DOMAIN next, a # Tailer, NEW q \in DOMAIN next, q = next[a], q # Tailer,
           NEW next2, next2 = Restrict([next EXCEPT ![a] = next[q]], DOMAIN next \ {q}),
           NEW prev2, prev2 = Restrict([prev EXCEPT ![next[q]] = a], DOMAIN prev \ {q})
    PROVE  q # a /\ Chain(next2, prev2)
<1> DEFINE r == next[q]
<1>1. /\ DOMAIN next \subseteq Int /\ q \in DOMAIN next /\ r \in DOMAIN next
      /\ a < q /\ q < r /\ DOMAIN prev = DOMAIN next
  <2>1. DOMAIN next \subseteq Int /\ q \in DOMAIN next /\ DOMAIN prev = DOMAIN next
    BY DEF Chain
  <2>2. r \in DOMAIN next /\ r >= q + Header + MinAlloc /\ q >= a + Header + MinAlloc
    BY <2>1 DEF Chain
  <2> QED BY <2>1, <2>2
<1>2. /\ DOMAIN next2 = DOMAIN next \ {q} /\ DOMAIN prev2 = DOMAIN next \ {q}
      /\ next2[a] = r
      /\ \A x \in DOMAIN next \ {a, q} : next2[x] = next[x]
      /\ prev2[r] = a
      /\ \A x \in DOMAIN next \ {r, q} : prev2[x] = prev[x]
  BY <1>1 DEF Restrict
<1>3. ASSUME NEW x \in DOMAIN next2
      PROVE  /\ next2[x] \in DOMAIN next2 /\ prev2[x] \in DOMAIN next2
             /\ prev2[next2[x]] = x /\ next2[prev2[x]] = x
             /\ x # Tailer => /\ next2[x] >= x + Header + MinAlloc
                              /\ \A y \in DOMAIN next2 : ~ (x < y /\ y < next2[x])
  <2>1. /\ x \in DOMAIN next /\ x # q
        /\ next[x] \in DOMAIN next /\ prev[x] \in DOMAIN next
        /\ prev[next[x]] = x /\ next[prev[x]] = x
    BY <1>2 DEF Chain
  <2>2. next2[x] \in DOMAIN next2 /\ prev2[next2[x]] = x
    <3>1. CASE x = a
      BY <1>1, <1>2, <3>1
    <3>2. CASE x # a
      <4>1. next[x] # q /\ next[x] # r
        <5>1. prev[q] = a /\ prev[r] = q
          BY <1>1 DEF Chain
        <5> QED BY <2>1, <3>2, <5>1
      <4>2. next2[x] = next[x]
        BY <1>2, <2>1, <3>2
      <4>3. prev2[next[x]] = prev[next[x]]
        BY <1>2, <2>1, <4>1
      <4> QED BY <1>2, <2>1, <4>1, <4>2, <4>3
    <3> QED BY <3>1, <3>2
  <2>3. prev2[x] \in DOMAIN next2 /\ next2[prev2[x]] = x
    <3>1. CASE x = r
      BY <1>1, <1>2, <3>1
    <3>2. CASE x # r
      <4>1. prev[x] # q /\ prev[x] # a
        BY <1>1, <2>1, <3>2
      <4>2. prev2[x] = prev[x]
        BY <1>2, <2>1, <3>2
      <4>3. next2[prev[x]] = next[prev[x]]
        BY <1>2, <2>1, <4>1
      <4> QED BY <1>2, <2>1, <4>1, <4>2, <4>3
    <3> QED BY <3>1, <3>2
  <2>4. ASSUME x # Tailer
        PROVE  /\ next2[x] >= x + Header + MinAlloc
               /\ \A y \in DOMAIN next2 : ~ (x < y /\ y < next2[x])
    <3>1. CASE x = a
      <4>1. r >= q + Header + MinAlloc /\ q >= a + Header + MinAlloc
        BY <1>1, <2>4 DEF Chain
      <4>3. r >= a + Header + MinAlloc
        BY <1>1, <4>1
      <4>2. ASSUME NEW y \in DOMAIN next2, a < y, y < r PROVE FALSE
        <5>1. y \in DOMAIN next /\ y # q /\ y \in Int
          BY <1>1, <1>2
        <5>2. ~ (a < y /\ y < q) /\ ~ (q < y /\ y < r)
          BY <1>1, <5>1 DEF Chain
        <5> QED BY <1>1, <4>2, <5>1, <5>2
      <4> QED BY <1>2, <3>1, <4>2, <4>3
    <3>2. CASE x # a
      BY <1>2, <2>1, <2>4, <3>2 DEF Chain
    <3> QED BY <3>1, <3>2
  <2> QED BY <2>2, <2>3, <2>4
<1>4. q # First
  BY <1>1 DEF Chain
<1>5. /\ {First, Tailer} \subseteq DOMAIN next2 /\ DOMAIN next2 \subseteq First .. Tailer
      /\ next2[Tailer] = First
  BY <1>1, <1>2, <1>4 DEF Chain
<1>6. next2 \in [DOMAIN next2 -> DOMAIN next2] /\ prev2 \in [DOMAIN next2 -> DOMAIN next2]
  BY <1>2, <1>3 DEF Restrict
<1> QED BY <1>1, <1>2, <1>3, <1>5, <1>6 DEF Chain

(***************************************************************************)
(* The free list: a sequence without repetition.                           *)
(***************************************************************************)
Lists(s, F) == s \in Seq(Int) /\ IsInjective(s) /\ ToSet(s) = F

LEMMA Removed ==
    ASSUME NEW s, NEW F, Lists(s, F), NEW i \in DOMAIN s
    PROVE  Lists(RemoveAt(s, i), F \ {s[i]})
<1> DEFINE n == Len(s)
<1>1. /\ s \in Seq(Int) /\ n \in Nat /\ DOMAIN s = 1 .. n /\ i \in 1 .. n
      /\ \A j \in 1 .. n : s[j] \in Int
  BY LenProperties, ElementOfSeq DEF Lists
<1> HIDE DEF n
<1> DEFINE u == SubSeq(s, 1, i - 1)
           v == SubSeq(s, i + 1, n)
           w == RemoveAt(s, i)
<1>2. /\ u \in Seq(Int) /\ Len(u) = i - 1 /\ \A j \in 1 .. i - 1 : u[j] = s[j]
  <2>1. \A j \in 1 .. i - 1 : s[j] \in Int
    BY <1>1
  <2> QED BY <1>1, <2>1, SubSeqProperties
<1>3. /\ v \in Seq(Int) /\ Len(v) = n - i /\ \A j \in 1 .. n - i : v[j] = s[i + j]
  <2>1. i + 1 \in Int /\ \A j \in i + 1 .. n : s[j] \in Int
    BY <1>1
  <2> DEFINE m == i + 1
  <2>2. /\ v \in Seq(Int) /\ Len(v) = IF m <= n THEN n - m + 1 ELSE 0
        /\ \A j \in 1 .. n - m + 1 : v[j] = s[m + j - 1]
    <3>1. v = SubSeq(s, m, n) /\ n \in Int /\ m \in Int /\ \A j \in m .. n : s[j] \in Int
      BY <1>1, <2>1
    <3> HIDE DEF v, m
    <3> QED BY <3>1, SubSeqProperties
  <2>3. n - (i + 1) + 1 = n - i /\ \A j \in 1 .. n - i : i + 1 + j - 1 = i + j
    BY <1>1
  <2> HIDE DEF v
  <2>4. Len(v) = n - i
    BY <1>1, <2>2, <2>3
  <2>5. ASSUME NEW j \in 1 .. n - i PROVE v[j] = s[i + j]
    BY <2>2, <2>3
  <2> QED BY <2>2, <2>4, <2>5
<1>4. /\ w \in Seq(Int) /\ Len(w) = n - 1 /\ DOMAIN w = 1 .. n - 1
      /\ \A j \in 1 .. n - 1 : w[j] = IF j < i THEN s[j] ELSE s[j + 1]
  <2>0. w = u \o v
    BY DEF RemoveAt, n
  <2> HIDE DEF u, v, w
  <2>1. /\ w \in Seq(Int) /\ Len(w) = n - 1
        /\ \A j \in 1 .. n - 1 : w[j] = IF j <= i - 1 THEN u[j] ELSE v[j - (i - 1)]
    <3>1. /\ w \in Seq(Int) /\ Len(w) = Len(u) + Len(v)
          /\ \A j \in 1 .. Len(u) + Len(v) : w[j] = IF j <= Len(u) THEN u[j] ELSE v[j - Len(u)]
      BY <1>2, <1>3, <2>0, ConcatProperties
    <3>2. Len(u) + Len(v) = n - 1
      BY <1>1, <1>2, <1>3
    <3> QED BY <1>2, <3>1, <3>2
  <2>2. \A j \in 1 .. n - 1 : j >= i => j - (i - 1) \in 1 .. n - i /\ i + (j - (i - 1)) = j + 1
    BY <1>1
  <2>3. DOMAIN w = 1 .. n - 1
    BY <2>1, LenProperties
  <2>4. ASSUME NEW j \in 1 .. n - 1 PROVE w[j] = IF j < i THEN s[j] ELSE s[j + 1]
    <3>1. CASE j < i
      <4>1. j \in 1 .. i - 1 /\ j <= i - 1
        BY <1>1, <3>1
      <4> QED BY <1>2, <2>1, <3>1, <4>1
    <3>2. CASE ~ j < i
      <4>1. j >= i /\ ~ j <= i - 1
        BY <1>1, <3>2
      <4> QED BY <1>3, <2>1, <2>2, <3>2, <4>1
    <3> QED BY <3>1, <3>2
  <2> QED BY <2>1, <2>3, <2>4
<1> HIDE DEF u, v, w
<1>5. IsInjective(w)
  <2> SUFFICES ASSUME NEW j \in 1 .. n - 1, NEW k \in 1 .. n - 1, w[j] = w[k] PROVE j = k
    BY <1>4 DEF IsInjective
  <2> DEFINE at(x) == IF x < i THEN x ELSE x + 1
  <2>1. at(j) \in 1 .. n /\ at(k) \in 1 .. n /\ w[j] = s[at(j)] /\ w[k] = s[at(k)]
    BY <1>1, <1>4
  <2>2. at(j) = at(k)
    BY <1>1, <2>1 DEF Lists, IsInjective
  <2> QED BY <1>1, <2>2
<1>6. ToSet(w) \subseteq F \ {s[i]}
  <2> SUFFICES ASSUME NEW j \in 1 .. n - 1 PROVE w[j] \in F \ {s[i]}
    BY <1>4 DEF ToSet
  <2>1. PICK k \in 1 .. n : k # i /\ w[j] = s[k]
    <3>1. CASE j < i
      BY <1>1, <1>4, <3>1
    <3>2. CASE j >= i
      <4>1. j + 1 \in 1 .. n /\ j + 1 # i /\ ~ j < i
        BY <1>1, <3>2
      <4>2. w[j] = s[j + 1]
        BY <1>4, <4>1
      <4> QED BY <4>1, <4>2
    <3> QED BY <1>1, <3>1, <3>2
  <2> QED BY <1>1, <2>1 DEF Lists, IsInjective, ToSet
<1>7. ASSUME NEW x \in F \ {s[i]} PROVE x \in ToSet(w)
  <2>1. PICK j \in 1 .. n : x = s[j] /\ j # i
    BY <1>1, <1>7 DEF Lists, ToSet
  <2>2. CASE j < i
    <3>1. j \in 1 .. n - 1 /\ w[j] = x
      BY <1>1, <1>4, <2>1, <2>2
    <3> QED BY <1>4, <3>1 DEF ToSet
  <2>3. CASE j > i
    <3>0. j - 1 \in 1 .. n - 1 /\ ~ j - 1 < i /\ j - 1 + 1 = j
      BY <1>1, <2>1, <2>3
    <3>1. j - 1 \in 1 .. n - 1 /\ w[j - 1] = x
      <4>1. w[j - 1] = s[j - 1 + 1]
        BY <1>4, <3>0
      <4> QED BY <2>1, <3>0, <4>1
    <3> QED BY <1>4, <3>1 DEF ToSet
  <2> QED BY <1>1, <2>1, <2>2, <2>3
<1> QED BY <1>4, <1>5, <1>6, <1>7 DEF Lists, w

LEMMA Pushed ==
    ASSUME NEW s, NEW F, Lists(s, F), NEW a \in Int, a \notin F
    PROVE  Lists(<<a>> \o s, F \cup {a})
<1> DEFINE n == Len(s)
           w == <<a>> \o s
<1>1. /\ s \in Seq(Int) /\ n \in Nat /\ DOMAIN s = 1 .. n
      /\ <<a>> \in Seq(Int) /\ Len(<<a>>) = 1 /\ <<a>>[1] = a
  BY LenProperties DEF Lists
<1>2. /\ w \in Seq(Int) /\ DOMAIN w = 1 .. n + 1
      /\ \A i \in 1 .. n + 1 : w[i] = IF i = 1 THEN a ELSE s[i - 1]
  <2>1. /\ w \in Seq(Int) /\ Len(w) = n + 1
        /\ \A i \in 1 .. n + 1 : w[i] = IF i <= 1 THEN <<a>>[i] ELSE s[i - 1]
    BY <1>1, ConcatProperties
  <2> QED BY <1>1, <2>1, LenProperties
<1>3. \A i \in 1 .. n + 1 : i # 1 => i - 1 \in 1 .. n
  BY <1>1
<1>4. \A i \in 1 .. n : s[i] # a
  BY <1>1 DEF Lists, ToSet
<1>5. IsInjective(w)
  <2> SUFFICES ASSUME NEW i \in 1 .. n + 1, NEW j \in 1 .. n + 1, w[i] = w[j] PROVE i = j
    BY <1>2 DEF IsInjective
  <2>1. CASE i = 1 \/ j = 1
    BY <1>2, <1>3, <1>4, <2>1
  <2>2. CASE i # 1 /\ j # 1
    <3>0. i - 1 \in 1 .. n /\ j - 1 \in 1 .. n /\ s[i - 1] = s[j - 1]
      BY <1>2, <1>3, <2>2
    <3>1. i - 1 = j - 1
      BY <1>1, <3>0 DEF Lists, IsInjective
    <3> QED BY <1>1, <3>1
  <2> QED BY <2>1, <2>2
<1>6. ToSet(w) \subseteq F \cup {a}
  BY <1>1, <1>2, <1>3 DEF Lists, ToSet
<1>7. ASSUME NEW x \in F \cup {a} PROVE x \in ToSet(w)
  <2>1. CASE x = a
    <3>1. 1 \in 1 .. n + 1 /\ w[1] = x
      BY <1>1, <1>2, <2>1
    <3> QED BY <1>2, <3>1 DEF ToSet
  <2>2. CASE x # a
    <3>1. PICK i \in 1 .. n : x = s[i]
      BY <1>1, <1>7, <2>2 DEF Lists, ToSet
    <3>2. i + 1 \in 1 .. n + 1 /\ w[i + 1] = x
      BY <1>1, <1>2, <3>1
    <3> QED BY <1>2, <3>2 DEF ToSet
  <2> QED BY <2>1, <2>2
<1> QED BY <1>2, <1>5, <1>6, <1>7 DEF Lists

LEMMA ListsWithin ==
    ASSUME NEW s, NEW F, Lists(s, F), NEW T, F \subseteq T
    PROVE  s \in Seq(T)
<1>1. s \in Seq(Int) /\ Len(s) \in Nat /\ DOMAIN s = 1 .. Len(s)
  BY LenProperties DEF Lists
<1>2. \A i \in 1 .. Len(s) : s[i] \in T
  BY <1>1 DEF Lists, ToSet
<1> QED BY <1>1, <1>2, SeqDef

(***************************************************************************)
(* The steps the calls are made of.  F is what the free list holds: in the *)
(* middle of a call it is not yet the free blocks.                         *)
(***************************************************************************)
HeapOf(h, F) ==
    /\ DOMAIN h = {"next", "prev", "used", "free", "available"}
    /\ Chain(h.next, h.prev)
    /\ h.used \subseteq DOMAIN h.next /\ Tailer \in h.used
    /\ Lists(h.free, F)
    /\ h.available \in Int

LEMMA SizeOfInt ==
    ASSUME NEW h, NEW F, HeapOf(h, F), NEW a \in DOMAIN h.next
    PROVE  /\ a \in Int /\ h.next[a] \in Int /\ h.next[a] \in DOMAIN h.next
           /\ SizeOf(h, a) \in Int /\ SizeOf(h, a) = h.next[a] - a - Header
           /\ a # Tailer => h.next[a] >= a + Header + MinAlloc
<1>1. DOMAIN h.next \subseteq Int /\ h.next[a] \in DOMAIN h.next
  BY DEF HeapOf, Chain
<1>2. a # Tailer => h.next[a] >= a + Header + MinAlloc
  BY DEF HeapOf, Chain
<1> QED BY <1>1, <1>2 DEF SizeOf

LEMMA SplitHeap ==
    ASSUME NEW h, NEW F, HeapOf(h, F),
           NEW a \in DOMAIN h.next, a # Tailer, NEW b \in Int,
           b >= a + Header + MinAlloc, h.next[a] >= b + Header + MinAlloc,
           NEW k, k = Split(h, a, b)
    PROVE  /\ b \notin DOMAIN h.next /\ HeapOf(k, F) /\ k.available = h.available
           /\ DOMAIN k.next = DOMAIN h.next \cup {b} /\ k.used = h.used
           /\ k.next[a] = b /\ k.next[b] = h.next[a]
           /\ \A x \in DOMAIN h.next \ {a} : k.next[x] = h.next[x]
<1>1. /\ DOMAIN k = DOMAIN h
      /\ k.next = With([h.next EXCEPT ![a] = b], b, h.next[a])
      /\ k.prev = With([h.prev EXCEPT ![h.next[a]] = b], b, a)
      /\ k.used = h.used /\ k.free = h.free /\ k.available = h.available
  BY DEF Split, HeapOf
<1>2. Chain(h.next, h.prev)
  BY DEF HeapOf
<1>3. /\ b \notin DOMAIN h.next /\ Chain(k.next, k.prev)
      /\ DOMAIN k.next = DOMAIN h.next \cup {b}
      /\ k.next[a] = b /\ k.next[b] = h.next[a]
      /\ \A x \in DOMAIN h.next \ {a} : k.next[x] = h.next[x]
  BY <1>1, <1>2, ChainSplit
<1> QED BY <1>1, <1>3 DEF HeapOf

LEMMA JoinHeap ==
    ASSUME NEW h, NEW F, HeapOf(h, F),
           NEW a \in DOMAIN h.next, a # Tailer, IsFree(h, h.next[a]),
           NEW k, k = Join(h, a)
    PROVE  /\ h.next[a] \in DOMAIN h.next /\ h.next[a] # a /\ h.next[a] # Tailer
           /\ HeapOf(k, F) /\ k.available = h.available
           /\ DOMAIN k.next = DOMAIN h.next \ {h.next[a]} /\ k.used = h.used
           /\ k.next[a] = h.next[h.next[a]]
           /\ \A x \in DOMAIN h.next \ {a, h.next[a]} : k.next[x] = h.next[x]
<1> DEFINE q == h.next[a]
<1>1. /\ DOMAIN k = DOMAIN h
      /\ k.next = Restrict([h.next EXCEPT ![a] = h.next[q]], DOMAIN h.next \ {q})
      /\ k.prev = Restrict([h.prev EXCEPT ![h.next[q]] = a], DOMAIN h.prev \ {q})
      /\ k.used = h.used /\ k.free = h.free /\ k.available = h.available
  BY DEF Join, HeapOf
<1>2. Chain(h.next, h.prev) /\ q # Tailer /\ q \notin h.used
  BY DEF HeapOf, IsFree
<1>3. q \in DOMAIN h.next /\ h.next[q] \in DOMAIN h.next /\ DOMAIN h.prev = DOMAIN h.next
  BY <1>2 DEF Chain
<1>4. q # a /\ Chain(k.next, k.prev)
  <2>1. q = h.next[a]
    OBVIOUS
  <2> HIDE DEF q
  <2> QED BY <1>1, <1>2, <1>3, <2>1, ChainJoin
<1>5. /\ DOMAIN k.next = DOMAIN h.next \ {q} /\ k.next[a] = h.next[q]
      /\ \A x \in DOMAIN h.next \ {a, q} : k.next[x] = h.next[x]
  BY <1>1, <1>4 DEF Restrict
<1> QED BY <1>1, <1>2, <1>3, <1>4, <1>5 DEF HeapOf

LEMMA AddHeap ==
    ASSUME NEW h, NEW F, HeapOf(h, F), NEW n \in Int, NEW k, k = Add(h, n)
    PROVE  /\ HeapOf(k, F) /\ k.next = h.next /\ k.prev = h.prev /\ k.used = h.used
           /\ k.available = h.available + n
<1>1. /\ DOMAIN k = DOMAIN h /\ k.next = h.next /\ k.prev = h.prev
      /\ k.used = h.used /\ k.free = h.free /\ k.available = h.available + n
  BY DEF Add, HeapOf
<1> QED BY <1>1 DEF HeapOf

LEMMA UnlistHeap ==
    ASSUME NEW h, NEW F, HeapOf(h, F), NEW a \in F, NEW k, k = Unlist(h, a)
    PROVE  /\ HeapOf(k, F \ {a}) /\ k.next = h.next /\ k.prev = h.prev /\ k.used = h.used
           /\ k.available = h.available
<1> DEFINE i == CHOOSE j \in DOMAIN h.free : h.free[j] = a
<1>1. i \in DOMAIN h.free /\ h.free[i] = a
  <2>1. \E j \in DOMAIN h.free : h.free[j] = a
    BY DEF HeapOf, Lists, ToSet
  <2> QED BY <2>1
<1>2. /\ DOMAIN k = DOMAIN h /\ k.next = h.next /\ k.prev = h.prev
      /\ k.used = h.used /\ k.free = RemoveAt(h.free, i) /\ k.available = h.available
  BY DEF Unlist, HeapOf
<1>3. Lists(k.free, F \ {a})
  BY <1>1, <1>2, Removed DEF HeapOf
<1> QED BY <1>2, <1>3 DEF HeapOf

LEMMA ListHeap ==
    ASSUME NEW h, NEW F, HeapOf(h, F), NEW a \in Int, a \notin F, NEW k, k = List(h, a)
    PROVE  /\ HeapOf(k, F \cup {a}) /\ k.next = h.next /\ k.prev = h.prev /\ k.used = h.used
           /\ k.available = h.available
<1>1. /\ DOMAIN k = DOMAIN h /\ k.next = h.next /\ k.prev = h.prev
      /\ k.used = h.used /\ k.free = <<a>> \o h.free /\ k.available = h.available
  BY DEF List, HeapOf
<1>2. Lists(k.free, F \cup {a})
  BY <1>1, Pushed DEF HeapOf
<1> QED BY <1>1, <1>2 DEF HeapOf

LEMMA MarkHeap ==
    ASSUME NEW h, NEW F, HeapOf(h, F), NEW a \in DOMAIN h.next,
           NEW k, k = [h EXCEPT !.used = @ \cup {a}]
    PROVE  /\ HeapOf(k, F) /\ k.next = h.next /\ k.prev = h.prev
           /\ k.used = h.used \cup {a} /\ k.available = h.available
<1>1. /\ DOMAIN k = DOMAIN h /\ k.next = h.next /\ k.prev = h.prev
      /\ k.used = h.used \cup {a} /\ k.free = h.free /\ k.available = h.available
  BY DEF HeapOf
<1> QED BY <1>1 DEF HeapOf

LEMMA UnmarkHeap ==
    ASSUME NEW h, NEW F, HeapOf(h, F), NEW a \in DOMAIN h.next, a # Tailer,
           NEW k, k = [h EXCEPT !.used = @ \ {a}]
    PROVE  /\ HeapOf(k, F) /\ k.next = h.next /\ k.prev = h.prev
           /\ k.used = h.used \ {a} /\ k.available = h.available
<1>1. /\ DOMAIN k = DOMAIN h /\ k.next = h.next /\ k.prev = h.prev
      /\ k.used = h.used \ {a} /\ k.free = h.free /\ k.available = h.available
  BY DEF HeapOf
<1> QED BY <1>1 DEF HeapOf

(***************************************************************************)
(* The calls.                                                              *)
(***************************************************************************)
Unused(h) == DOMAIN h.next \ h.used

Well(h) ==
    /\ HeapOf(h, Unused(h))
    /\ \A x \in Unused(h) : h.next[x] \in h.used

\* available_size is what the unused blocks hold.
Counted(h) == h.available = Total(h, Unused(h))

LEMMA BlocksFinite ==
    ASSUME NEW h, NEW F, HeapOf(h, F), NEW R, R \subseteq DOMAIN h.next
    PROVE  IsFiniteSet(R)
<1> DEFINE lo == First
           hi == Tailer
<1>1. lo \in Int /\ hi \in Int /\ R \subseteq lo .. hi
  BY DEF HeapOf, Chain
<1> HIDE DEF lo, hi
<1>2. IsFiniteSet(lo .. hi)
  BY <1>1, FS_Interval
<1> QED BY <1>1, <1>2, FS_Subset

\* One of the unused blocks and the others.
LEMMA TotalParts ==
    ASSUME NEW h, NEW F, HeapOf(h, F), NEW R, NEW x \in DOMAIN h.next, x \notin R,
           Unused(h) = R \cup {x}
    PROVE  /\ Total(h, R) \in Int
           /\ Total(h, Unused(h)) = SizeOf(h, x) + Total(h, R)
<1> DEFINE S == Unused(h)
<1>1. S \subseteq DOMAIN h.next
  BY DEF Unused
<1>2. IsFiniteSet(S)
  BY <1>1, BlocksFinite
<1>3. \A y \in S : SizeOf(h, y) \in Int
  BY <1>1, SizeOfInt
<1>4. x \in S
  OBVIOUS
<1>5. R = S \ {x}
  OBVIOUS
<1> HIDE DEF S
<1>6. /\ Total(h, S \ {x}) \in Int
      /\ Total(h, S) = SizeOf(h, x) + Total(h, S \ {x})
  BY ONLY <1>2, <1>3, <1>4, TotalWith
<1> QED BY <1>5, <1>6 DEF S

\* The blocks that neither heap has changed.
LEMMA TotalKept ==
    ASSUME NEW h, NEW F, HeapOf(h, F), NEW k, NEW R,
           R \subseteq DOMAIN h.next, \A x \in R : k.next[x] = h.next[x]
    PROVE  Total(k, R) = Total(h, R)
<1>1. IsFiniteSet(R)
  BY BlocksFinite
<1>2. \A x \in R : SizeOf(h, x) \in Int
  BY SizeOfInt
<1>3. \A x \in R : SizeOf(k, x) = SizeOf(h, x)
  BY DEF SizeOf
<1> QED BY <1>1, <1>2, <1>3, TotalSame

\* The blocks in S are where they were and as large as they were.
Kept(h, k, S) == \A x \in S : x \in DOMAIN k.next /\ k.next[x] = h.next[x]

LEMMA TakenWell ==
    ASSUME NEW h, Well(h), NEW a \in Unused(h),
           NEW size \in Int, size >= MinAlloc, SizeOf(h, a) >= size
    PROVE  /\ Well(Taken(h, a, size))
           /\ Taken(h, a, size).used = h.used \cup {a}
           /\ SizeOf(Taken(h, a, size), a) >= size
           /\ Kept(h, Taken(h, a, size), h.used)
           /\ Counted(h) => Counted(Taken(h, a, size))
<1> DEFINE F == Unused(h)
           n == SizeOf(h, a)
           rest == a + Header + size
           k == Taken(h, a, size)
<1>1. /\ HeapOf(h, F) /\ a \in DOMAIN h.next /\ a \notin h.used /\ a # Tailer
      /\ \A x \in F : h.next[x] \in h.used
      /\ h.used \subseteq DOMAIN h.next
  BY DEF Well, HeapOf, Unused
<1>2. /\ a \in Int /\ h.next[a] \in Int /\ n \in Int /\ rest \in Int
      /\ h.next[a] = a + Header + n
  BY <1>1, SizeOfInt
<1>3. CASE n >= size + Header + MinAlloc
  <2> DEFINE s1 == Split(h, a, rest)
             s2 == Unlist(s1, a)
             s3 == List(s2, rest)
             s4 == Add(s3, - size - Header)
  <2>1. k = [s4 EXCEPT !.used = @ \cup {a}]
    BY <1>3 DEF Taken
  <2>2. /\ rest \notin DOMAIN h.next /\ HeapOf(s1, F)
        /\ DOMAIN s1.next = DOMAIN h.next \cup {rest} /\ s1.used = h.used
        /\ s1.available = h.available
        /\ s1.next[a] = rest /\ s1.next[rest] = h.next[a]
        /\ \A x \in DOMAIN h.next \ {a} : s1.next[x] = h.next[x]
    <3>1. rest >= a + Header + MinAlloc /\ h.next[a] >= rest + Header + MinAlloc
      BY <1>2, <1>3
    <3>2. s1 = Split(h, a, rest)
      OBVIOUS
    <3> HIDE DEF rest, s1, F
    <3> QED BY <1>1, <1>2, <3>1, <3>2, SplitHeap
  <2> HIDE DEF rest, k, F, s1
  <2>3. HeapOf(s2, F \ {a}) /\ s2.next = s1.next /\ s2.used = s1.used /\ s2.available = h.available
    BY <2>2, UnlistHeap DEF F
  <2> HIDE DEF s2
  <2>4. /\ HeapOf(s3, (F \ {a}) \cup {rest}) /\ s3.next = s1.next /\ s3.used = s1.used
        /\ s3.available = h.available
    <3>1. rest \in Int /\ rest \notin F \ {a}
      BY <1>2, <2>2 DEF F, Unused
    <3>2. s3 = List(s2, rest)
      OBVIOUS
    <3> DEFINE G == F \ {a}
    <3>3. HeapOf(s2, G) /\ rest \in Int /\ rest \notin G
      BY <2>3, <3>1
    <3> HIDE DEF s3, G
    <3>4. HeapOf(s3, G \cup {rest}) /\ s3.next = s2.next /\ s3.used = s2.used
      BY <3>2, <3>3, ListHeap
    <3>5. s3.available = s2.available
      BY <3>2, <3>3 DEF List, HeapOf
    <3> QED BY <2>3, <3>4, <3>5 DEF G
  <2> HIDE DEF s3
  <2>5. /\ HeapOf(s4, (F \ {a}) \cup {rest}) /\ s4.next = s1.next /\ s4.used = s1.used
        /\ s4.available = h.available - size - Header
    <3>1. s4 = Add(s3, - size - Header) /\ - size - Header \in Int
      OBVIOUS
    <3> HIDE DEF s4
    <3>2. /\ HeapOf(s4, (F \ {a}) \cup {rest}) /\ s4.next = s3.next /\ s4.used = s3.used
          /\ s4.available = s3.available + (- size - Header)
      BY <2>4, <3>1, AddHeap
    <3>3. h.available \in Int
      BY <1>1 DEF HeapOf
    <3> QED BY <2>4, <3>2, <3>3
  <2> HIDE DEF s4
  <2>6. /\ HeapOf(k, (F \ {a}) \cup {rest}) /\ k.next = s1.next
        /\ k.used = h.used \cup {a} /\ k.available = h.available - size - Header
    BY <1>1, <2>1, <2>2, <2>5, MarkHeap
  <2>7. Unused(k) = (F \ {a}) \cup {rest}
    BY <1>1, <2>2, <2>6 DEF F, Unused
  <2>8. \A x \in Unused(k) : k.next[x] \in k.used
    BY <1>1, <2>2, <2>6, <2>7 DEF F, Unused
  <2>9. SizeOf(k, a) >= size
    BY <1>2, <2>2, <2>6 DEF SizeOf, rest
  <2>10. Kept(h, k, h.used)
    BY <1>1, <2>2, <2>6 DEF Kept
  <2>11. ASSUME Counted(h) PROVE Counted(k)
    <3> DEFINE R == F \ {a}
    <3>1. /\ a \notin R /\ F = R \cup {a} /\ rest \notin R /\ Unused(k) = R \cup {rest}
          /\ rest \in DOMAIN k.next /\ R \subseteq DOMAIN h.next
          /\ \A x \in R : k.next[x] = h.next[x]
      BY <1>1, <2>2, <2>6, <2>7 DEF F, Unused
    <3> HIDE DEF R
    <3>2. Total(h, R) \in Int /\ Total(h, F) = n + Total(h, R)
      BY <1>1, <3>1, TotalParts DEF F
    <3>3. Total(k, Unused(k)) = SizeOf(k, rest) + Total(k, R)
      BY <2>6, <3>1, TotalParts
    <3>4. Total(k, R) = Total(h, R)
      BY <1>1, <3>1, TotalKept
    <3>5. SizeOf(k, rest) = n - size - Header
      BY <1>2, <2>2, <2>6 DEF SizeOf, rest
    <3>6. h.available = Total(h, F)
      BY <2>11 DEF Counted, F
    <3> HIDE DEF n
    <3>7. k.available = Total(k, Unused(k))
      BY <1>2, <2>6, <3>2, <3>3, <3>4, <3>5, <3>6
    <3> QED BY <3>7 DEF Counted
  <2> QED BY <2>6, <2>7, <2>8, <2>9, <2>10, <2>11 DEF Well, k
<1>4. CASE ~ n >= size + Header + MinAlloc
  <2> DEFINE s1 == Unlist(h, a)
             s2 == Add(s1, - n)
  <2>1. k = [s2 EXCEPT !.used = @ \cup {a}]
    BY <1>4 DEF Taken
  <2> HIDE DEF k, F
  <2>2. HeapOf(s1, F \ {a}) /\ s1.next = h.next /\ s1.used = h.used /\ s1.available = h.available
    BY <1>1, UnlistHeap DEF F
  <2> HIDE DEF s1
  <2>3. /\ HeapOf(s2, F \ {a}) /\ s2.next = h.next /\ s2.used = h.used
        /\ s2.available = h.available + (- n)
    <3>1. s2 = Add(s1, - n) /\ - n \in Int
      BY <1>2
    <3> HIDE DEF s2, n
    <3> QED BY <2>2, <3>1, AddHeap
  <2> HIDE DEF s2
  <2>4. /\ HeapOf(k, F \ {a}) /\ k.next = h.next /\ k.used = h.used \cup {a}
        /\ k.available = h.available + (- n)
    BY <1>1, <2>1, <2>3, MarkHeap
  <2>5. Unused(k) = F \ {a}
    BY <2>4 DEF F, Unused
  <2>6. SizeOf(k, a) >= size /\ Kept(h, k, h.used)
    BY <1>1, <2>4 DEF SizeOf, Kept
  <2>7. \A x \in Unused(k) : k.next[x] \in k.used
    BY <1>1, <2>4, <2>5
  <2>8. ASSUME Counted(h) PROVE Counted(k)
    <3> DEFINE R == F \ {a}
    <3>1. /\ a \notin R /\ F = R \cup {a} /\ R \subseteq DOMAIN h.next
          /\ \A x \in R : k.next[x] = h.next[x]
      BY <1>1, <2>4 DEF F, Unused
    <3>2. Unused(k) = R
      BY <2>5
    <3> HIDE DEF R
    <3>3. Total(h, R) \in Int /\ Total(h, F) = n + Total(h, R)
      BY <1>1, <3>1, TotalParts DEF F
    <3>4. Total(k, R) = Total(h, R)
      BY <1>1, <3>1, TotalKept
    <3>5. h.available = Total(h, F)
      BY <2>8 DEF Counted, F
    <3> HIDE DEF n
    <3>6. k.available = Total(k, R)
      BY <1>2, <2>4, <3>3, <3>4, <3>5
    <3> QED BY <3>2, <3>6 DEF Counted
  <2> QED BY <2>4, <2>5, <2>6, <2>7, <2>8 DEF Well, k
<1> QED BY <1>3, <1>4

\* The second half of rt_memheap_free: at is free and may be next to a free block.
RightOf(h, at) ==
    IF ~ IsFree(h, h.next[at]) THEN h
    ELSE Unlist(Add(Join(h, at), Header), h.next[at])

MergedAs(h, F, at, j) ==
    /\ HeapOf(j, F \ {h.next[at]}) /\ j.used = h.used
    /\ h.next[at] # at
    /\ Unused(j) = Unused(h) \ {h.next[at]}
    /\ \A x \in Unused(j) : j.next[x] \in h.used
    /\ Kept(h, j, h.used)
    /\ Counted(h) => Counted(j)

LEMMA MergedRight ==
    ASSUME NEW h, NEW F, HeapOf(h, F), NEW at \in Unused(h),
           F \cup {at} = Unused(h),
           \A x \in Unused(h) \ {at} : h.next[x] \in h.used
    PROVE  MergedAs(h, F, at, RightOf(h, at))
<1> DEFINE q == h.next[at]
           j == RightOf(h, at)
<1>1. /\ at \in DOMAIN h.next /\ at \notin h.used /\ at # Tailer
      /\ h.used \subseteq DOMAIN h.next
  BY DEF Unused, HeapOf
<1>2. q # at /\ q \in DOMAIN h.next
  BY <1>1, SizeOfInt
<1>3. CASE ~ IsFree(h, q)
  <2>1. j = h /\ q \in h.used
    BY <1>3 DEF IsFree, RightOf
  <2>2. F \ {q} = F /\ Unused(h) \ {q} = Unused(h)
    BY <2>1 DEF Unused
  <2> QED BY <1>1, <1>2, <2>1, <2>2 DEF Kept, MergedAs
<1>4. CASE IsFree(h, q)
  <2> DEFINE s1 == Join(h, at)
             s2 == Add(s1, Header)
  <2>1. j = Unlist(s2, q) /\ q \in F /\ q \notin h.used
    BY <1>2, <1>4 DEF IsFree, Unused, RightOf
  <2>2. /\ HeapOf(s1, F)
        /\ DOMAIN s1.next = DOMAIN h.next \ {q} /\ s1.used = h.used
        /\ s1.available = h.available
        /\ s1.next[at] = h.next[q]
        /\ \A x \in DOMAIN h.next \ {at, q} : s1.next[x] = h.next[x]
    <3>1. s1 = Join(h, at)
      OBVIOUS
    <3> HIDE DEF s1
    <3> QED BY <1>1, <1>4, <3>1, JoinHeap
  <2> HIDE DEF q, s1, j
  <2>3. /\ HeapOf(s2, F) /\ s2.next = s1.next /\ s2.used = h.used
        /\ s2.available = h.available + Header
    <3>1. s2 = Add(s1, Header) /\ Header \in Int
      OBVIOUS
    <3> HIDE DEF s2
    <3> QED BY <2>2, <3>1, AddHeap
  <2> HIDE DEF s2
  <2>4. /\ HeapOf(j, F \ {q}) /\ j.next = s1.next /\ j.used = h.used
        /\ j.available = h.available + Header
    <3>1. HeapOf(j, F \ {q}) /\ j.next = s1.next /\ j.used = h.used
      BY <2>1, <2>3, UnlistHeap
    <3>2. j.available = s2.available
      BY <2>1, <2>3 DEF Unlist, HeapOf
    <3> QED BY <2>3, <3>1, <3>2
  <2>5. Unused(j) = Unused(h) \ {q}
    BY <2>2, <2>4 DEF Unused
  <2>6. \A x \in Unused(j) : j.next[x] \in h.used
    <3>1. h.next[q] \in h.used
      BY <1>2, <2>1 DEF Unused
    <3> QED BY <1>2, <2>1, <2>2, <2>4, <2>5, <3>1 DEF Unused
  <2>7. Kept(h, j, h.used)
    BY <1>1, <2>1, <2>2, <2>4 DEF Kept
  <2>8. ASSUME Counted(h) PROVE Counted(j)
    <3> DEFINE R == (Unused(h) \ {at}) \ {q}
               T == R \cup {at}
    <3>1. /\ at \notin R /\ q \notin T /\ Unused(h) = T \cup {q} /\ Unused(j) = T
          /\ R \subseteq DOMAIN h.next /\ at \in DOMAIN j.next
          /\ \A x \in R : j.next[x] = h.next[x]
      BY <1>1, <1>2, <2>1, <2>2, <2>4, <2>5 DEF Unused
    <3>2. Total(h, Unused(h)) = SizeOf(h, q) + Total(h, T)
      <4> HIDE DEF T
      <4> QED BY <1>2, <3>1, TotalParts
    <3>3. Total(h, T) = SizeOf(h, at) + Total(h, R) /\ Total(h, R) \in Int
      <4>1. IsFiniteSet(T) /\ \A x \in T : SizeOf(h, x) \in Int
        BY <3>1, BlocksFinite, SizeOfInt DEF Unused
      <4>2. at \in T /\ T \ {at} = R
        BY <3>1
      <4> HIDE DEF T, R
      <4>3. Total(h, T) = SizeOf(h, at) + Total(h, T \ {at}) /\ Total(h, T \ {at}) \in Int
        BY ONLY <4>1, <4>2, TotalWith
      <4> QED BY <4>2, <4>3
    <3>4. Total(j, T) = SizeOf(j, at) + Total(j, R)
      <4> HIDE DEF R
      <4> QED BY <2>4, <3>1, TotalParts
    <3> HIDE DEF R, T
    <3>5. Total(j, R) = Total(h, R)
      BY <3>1, TotalKept
    <3>6. h.next[at] = q /\ s1.next[at] = h.next[q]
      BY <2>2 DEF q
    <3>7. /\ SizeOf(h, q) \in Int /\ SizeOf(h, at) \in Int
          /\ SizeOf(j, at) = SizeOf(h, at) + Header + SizeOf(h, q)
      <4>1. /\ at \in Int /\ q \in Int /\ h.next[q] \in Int
            /\ SizeOf(h, q) = h.next[q] - q - Header /\ SizeOf(h, at) = q - at - Header
        BY <1>1, <1>2, <3>6, SizeOfInt
      <4>2. SizeOf(j, at) = h.next[q] - at - Header
        BY <2>4, <3>6 DEF SizeOf
      <4> QED BY <4>1, <4>2
    <3>8. h.available = Total(h, Unused(h))
      BY <2>8 DEF Counted
    <3>9. j.available = Total(j, Unused(j))
      BY <2>4, <3>1, <3>2, <3>3, <3>4, <3>5, <3>7, <3>8
    <3> QED BY <3>9 DEF Counted
  <2> QED BY <1>2, <2>4, <2>5, <2>6, <2>7, <2>8 DEF q, j, MergedAs
<1> QED BY <1>3, <1>4

LEMMA FreedWell ==
    ASSUME NEW h, Well(h), NEW a \in h.used, a # Tailer
    PROVE  /\ Well(Freed(h, a))
           /\ Freed(h, a).used = h.used \ {a}
           /\ Kept(h, Freed(h, a), h.used \ {a})
           /\ Counted(h) => Counted(Freed(h, a))
<1> DEFINE F == Unused(h)
           U == h.used \ {a}
           mark == [h EXCEPT !.used = @ \ {a}]
           marked == Add(mark, SizeOf(h, a))
           p == h.prev[a]
           k == Freed(h, a)
<1>1. /\ HeapOf(h, F) /\ a \in DOMAIN h.next /\ Tailer \in U
      /\ \A x \in F : h.next[x] \in h.used
      /\ h.used \subseteq DOMAIN h.next
  BY DEF Well, HeapOf, Unused
<1>2. /\ p \in DOMAIN h.next /\ h.next[p] = a /\ p # a
      /\ \A x \in DOMAIN h.next \ {p} : h.next[x] # a
  <2>1. /\ p \in DOMAIN h.next /\ h.next[p] = a
        /\ \A x \in DOMAIN h.next : h.prev[h.next[x]] = x
    BY <1>1 DEF HeapOf, Chain
  <2>2. h.next[a] # a
    BY <1>1, SizeOfInt
  <2> QED BY <2>1, <2>2
<1>3. /\ HeapOf(marked, F) /\ marked.next = h.next /\ marked.used = U
      /\ marked.available = h.available + SizeOf(h, a)
  <2>1. HeapOf(mark, F) /\ mark.next = h.next /\ mark.used = U /\ mark.available = h.available
    <3>1. mark = [h EXCEPT !.used = @ \ {a}]
      OBVIOUS
    <3> HIDE DEF mark, F
    <3> QED BY <1>1, <3>1, UnmarkHeap
  <2>2. marked = Add(mark, SizeOf(h, a)) /\ SizeOf(h, a) \in Int
    BY <1>1, SizeOfInt
  <2> HIDE DEF mark, marked, F, U
  <2>3. /\ HeapOf(marked, F) /\ marked.next = mark.next
        /\ marked.used = mark.used /\ marked.available = mark.available + SizeOf(h, a)
    BY <2>1, <2>2, AddHeap
  <2> QED BY <2>1, <2>3
<1> DEFINE onLeft == IsFree(marked, p)
           left == IF onLeft THEN Add(Join(marked, p), Header) ELSE marked
           at == IF onLeft THEN p ELSE a
           j == RightOf(left, at)
<1>4. k = IF onLeft THEN j ELSE List(j, at)
  BY DEF Freed, FreedBy, RightOf
<1>5. /\ HeapOf(left, F) /\ left.used = U
      /\ at \in Unused(left) /\ F \cup {at} = Unused(left)
      /\ \A x \in Unused(left) \ {at} : left.next[x] \in U
      /\ Kept(h, left, U)
      /\ onLeft => at \in F
      /\ ~ onLeft => at \notin F /\ at = a
      /\ Counted(h) => Counted(left)
  <2>1. CASE onLeft
    <3> DEFINE s1 == Join(marked, p)
    <3>1. p \notin U /\ p \in F /\ p # Tailer
      BY <1>1, <1>2, <1>3, <2>1 DEF IsFree, Unused
    <3>2. /\ HeapOf(s1, F) /\ s1.used = U /\ s1.available = marked.available
          /\ s1.next[p] = h.next[a]
          /\ DOMAIN s1.next = DOMAIN h.next \ {a}
          /\ \A x \in DOMAIN h.next \ {p, a} : s1.next[x] = h.next[x]
      <4>1. s1 = Join(marked, p) /\ IsFree(marked, marked.next[p]) /\ p \in DOMAIN marked.next
        BY <1>2, <1>3 DEF IsFree
      <4> HIDE DEF s1, marked, F, p
      <4> QED BY <1>2, <1>3, <3>1, <4>1, JoinHeap
    <3>3. /\ HeapOf(left, F) /\ left.next = s1.next /\ left.used = U
          /\ left.available = marked.available + Header
      <4>1. left = Add(s1, Header) /\ Header \in Int
        BY <2>1
      <4> HIDE DEF left, s1, F
      <4> QED BY <3>2, <4>1, AddHeap
    <3>4. at = p
      BY <2>1
    <3> HIDE DEF left, s1, at, marked, p, onLeft
    <3>5. Unused(left) = F
      BY <1>1, <3>2, <3>3 DEF Unused
    <3>6. \A x \in F \ {p} : left.next[x] \in U
      BY <1>1, <1>2, <3>2, <3>3 DEF Unused
    <3>7. Kept(h, left, U)
      BY <1>1, <3>1, <3>2, <3>3 DEF Kept
    <3>8. ASSUME Counted(h) PROVE Counted(left)
      <4> DEFINE R == F \ {p}
      <4>1. /\ p \notin R /\ Unused(h) = R \cup {p} /\ Unused(left) = R \cup {p}
            /\ R \subseteq DOMAIN h.next /\ p \in DOMAIN left.next
            /\ \A x \in R : left.next[x] = h.next[x]
        BY <1>1, <1>2, <3>1, <3>2, <3>3, <3>5 DEF F, Unused
      <4> HIDE DEF R
      <4>2. Total(h, Unused(h)) = SizeOf(h, p) + Total(h, R) /\ Total(h, R) \in Int
        BY <1>1, <1>2, <4>1, TotalParts
      <4>3. Total(left, Unused(left)) = SizeOf(left, p) + Total(left, R)
        BY <3>3, <4>1, TotalParts
      <4>4. Total(left, R) = Total(h, R)
        BY <1>1, <4>1, TotalKept
      <4>5. /\ SizeOf(h, p) \in Int /\ SizeOf(h, a) \in Int
            /\ SizeOf(left, p) = SizeOf(h, p) + Header + SizeOf(h, a)
        <5>1. /\ p \in Int /\ a \in Int /\ h.next[a] \in Int
              /\ SizeOf(h, a) = h.next[a] - a - Header /\ SizeOf(h, p) = a - p - Header
          BY <1>1, <1>2, SizeOfInt
        <5>2. SizeOf(left, p) = h.next[a] - p - Header
          BY <3>2, <3>3 DEF SizeOf
        <5> QED BY <5>1, <5>2
      <4>6. h.available = Total(h, Unused(h))
        BY <3>8 DEF Counted
      <4>7. left.available = Total(left, Unused(left))
        BY <1>3, <3>3, <4>2, <4>3, <4>4, <4>5, <4>6
      <4> QED BY <4>7 DEF Counted
    <3> QED BY <2>1, <3>1, <3>3, <3>4, <3>5, <3>6, <3>7, <3>8
  <2>2. CASE ~ onLeft
    <3>1. left = marked /\ at = a /\ p \in U
      BY <1>2, <2>2, <1>3 DEF IsFree
    <3> HIDE DEF left, at, marked, p, onLeft
    <3>2. Unused(left) = F \cup {a} /\ a \notin F
      BY <1>1, <1>3, <3>1 DEF Unused
    <3>3. \A x \in F : left.next[x] \in U
      BY <1>1, <1>2, <1>3, <3>1 DEF Unused
    <3>4. Kept(h, left, U)
      BY <1>1, <1>3, <3>1 DEF Kept
    <3>5. ASSUME Counted(h) PROVE Counted(left)
      <4>1. /\ Unused(left) = F \cup {a} /\ a \notin F
            /\ F \subseteq DOMAIN h.next /\ a \in DOMAIN left.next
            /\ \A x \in F : left.next[x] = h.next[x]
        BY <1>1, <1>3, <3>1, <3>2 DEF F, Unused
      <4>2. Total(left, Unused(left)) = SizeOf(left, a) + Total(left, F) /\ Total(left, F) \in Int
        BY <1>3, <3>1, <4>1, TotalParts
      <4>3. Total(left, F) = Total(h, F)
        BY <1>1, <4>1, TotalKept
      <4>4. SizeOf(left, a) = SizeOf(h, a) /\ SizeOf(h, a) \in Int
        BY <1>1, <1>3, <3>1, SizeOfInt DEF SizeOf
      <4>5. h.available = Total(h, F)
        BY <3>5 DEF Counted, F
      <4>6. left.available = Total(left, Unused(left))
        BY <1>3, <3>1, <4>2, <4>3, <4>4, <4>5
      <4> QED BY <4>6 DEF Counted
    <3> QED BY <1>3, <2>2, <3>1, <3>2, <3>3, <3>4, <3>5
  <2> QED BY <2>1, <2>2
<1> HIDE DEF left, at, onLeft, marked, p, mark
<1>6. /\ HeapOf(j, F \ {left.next[at]}) /\ j.used = U
      /\ left.next[at] # at
      /\ Unused(j) = Unused(left) \ {left.next[at]}
      /\ \A x \in Unused(j) : j.next[x] \in U
      /\ Kept(left, j, U)
      /\ Counted(left) => Counted(j)
  <2> HIDE DEF F, U, j
  <2>1. \A x \in Unused(left) \ {at} : left.next[x] \in left.used
    BY <1>5
  <2>2. MergedAs(left, F, at, j)
    BY <1>5, <2>1, MergedRight DEF j
  <2> QED BY <1>5, <2>2 DEF MergedAs
<1> HIDE DEF j
<1>7. Kept(h, j, U)
  BY <1>5, <1>6 DEF Kept
<1>8. CASE onLeft
  <2>1. k = j /\ Unused(j) = F \ {left.next[at]}
    BY <1>4, <1>5, <1>6, <1>8
  <2> QED BY <1>5, <1>6, <1>7, <2>1 DEF Well
<1>9. CASE ~ onLeft
  <2>1. k = List(j, at) /\ at \in Int /\ at \notin F \ {left.next[at]}
    BY <1>1, <1>4, <1>5, <1>9, SizeOfInt
  <2> HIDE DEF k, F, U
  <2>2. /\ HeapOf(k, (F \ {left.next[at]}) \cup {at}) /\ k.next = j.next
        /\ k.used = U /\ k.available = j.available
    <3>1. HeapOf(k, (F \ {left.next[at]}) \cup {at}) /\ k.next = j.next /\ k.used = U
      <4> DEFINE G == F \ {left.next[at]}
      <4>1. HeapOf(j, G) /\ at \in Int /\ at \notin G
        BY <1>6, <2>1
      <4> HIDE DEF G
      <4>2. HeapOf(k, G \cup {at}) /\ k.next = j.next /\ k.used = j.used
        BY <2>1, <4>1, ListHeap
      <4> QED BY <1>6, <4>2 DEF G
    <3>2. k.available = j.available
      BY <1>6, <2>1 DEF List, HeapOf
    <3> QED BY <3>1, <3>2
  <2>3. Unused(k) = (F \ {left.next[at]}) \cup {at}
    BY <1>5, <1>6, <2>2 DEF Unused, F
  <2>4. \A x \in Unused(k) : k.next[x] \in k.used
    BY <1>6, <2>2 DEF Unused
  <2>5. Kept(h, k, U)
    BY <1>7, <2>2 DEF Kept
  <2>6. ASSUME Counted(h) PROVE Counted(k)
    <3>1. Unused(k) = Unused(j)
      BY <1>6, <2>2 DEF Unused
    <3>2. j.available = Total(j, Unused(j))
      BY <1>5, <1>6, <2>6 DEF Counted
    <3>3. Total(k, Unused(j)) = Total(j, Unused(j))
      BY <1>6, <2>2, TotalKept DEF Unused
    <3> QED BY <2>2, <3>1, <3>2, <3>3 DEF Counted
  <2> QED BY <2>2, <2>3, <2>4, <2>5, <2>6 DEF Well, k, U
<1> QED BY <1>8, <1>9

ResizedAs(h, a, size, k) ==
    /\ Well(k) /\ k.used = h.used
    /\ SizeOf(k, a) >= size
    /\ Kept(h, k, h.used \ {a})
    /\ Counted(h) => Counted(k)

LEMMA GrownWell ==
    ASSUME NEW h, Well(h), NEW a \in h.used, a # Tailer,
           NEW size \in Int, size >= MinAlloc, size > SizeOf(h, a), CanGrow(h, a, size)
    PROVE  ResizedAs(h, a, size, Grown(h, a, size))
<1> DEFINE F == Unused(h)
           q == h.next[a]
           rest == a + Header + size
           s1 == Join(h, a)
           s2 == Unlist(s1, q)
           s3 == Split(s2, a, rest)
           s4 == List(s3, rest)
           k == Grown(h, a, size)
<1>1. /\ HeapOf(h, F) /\ a \in DOMAIN h.next
      /\ \A x \in F : h.next[x] \in h.used
      /\ h.used \subseteq DOMAIN h.next
  BY DEF Well, HeapOf, Unused
<1>2. /\ q \in DOMAIN h.next /\ q \notin h.used /\ q \in F
      /\ SizeOf(h, q) + SizeOf(h, a) > size + MinAlloc
  BY <1>1, SizeOfInt DEF CanGrow, IsFree, Unused
<1>3. /\ a \in Int /\ q \in Int /\ rest \in Int /\ h.next[q] \in h.used
      /\ rest >= a + Header + MinAlloc /\ h.next[q] >= rest + Header + MinAlloc
      /\ SizeOf(h, a) \in Int
  <2>1. a \in Int /\ SizeOf(h, a) \in Int /\ SizeOf(h, a) = q - a - Header
    BY <1>1, SizeOfInt
  <2>2. q \in Int /\ h.next[q] \in Int /\ SizeOf(h, q) = h.next[q] - q - Header
    BY <1>1, <1>2, SizeOfInt
  <2> QED BY <1>1, <1>2, <2>1, <2>2
<1>4. k = Add(s4, SizeOf(h, a) - size)
  BY DEF Grown
<1>5. /\ HeapOf(s1, F) /\ s1.used = h.used /\ s1.available = h.available
      /\ DOMAIN s1.next = DOMAIN h.next \ {q} /\ s1.next[a] = h.next[q]
      /\ \A x \in DOMAIN h.next \ {a, q} : s1.next[x] = h.next[x]
  <2>1. s1 = Join(h, a) /\ IsFree(h, h.next[a])
    BY <1>2 DEF IsFree
  <2> HIDE DEF s1, F
  <2> QED BY <1>1, <2>1, JoinHeap
<1> HIDE DEF k, F, s1
<1>6. /\ HeapOf(s2, F \ {q}) /\ s2.next = s1.next /\ s2.used = h.used
      /\ s2.available = h.available
  <2>1. s2 = Unlist(s1, q)
    OBVIOUS
  <2> HIDE DEF s2
  <2>2. HeapOf(s2, F \ {q}) /\ s2.next = s1.next /\ s2.used = h.used
    BY <1>2, <1>5, <2>1, UnlistHeap
  <2>3. s2.available = s1.available
    BY <1>5, <2>1 DEF Unlist, HeapOf
  <2> QED BY <1>5, <2>2, <2>3
<1> HIDE DEF s2
<1>7. /\ rest \notin DOMAIN s1.next /\ HeapOf(s3, F \ {q})
      /\ DOMAIN s3.next = DOMAIN s1.next \cup {rest} /\ s3.used = h.used
      /\ s3.available = h.available
      /\ s3.next[a] = rest /\ s3.next[rest] = h.next[q]
      /\ \A x \in DOMAIN s1.next \ {a} : s3.next[x] = s1.next[x]
  <2>1. s3 = Split(s2, a, rest) /\ a \in DOMAIN s2.next /\ s2.next[a] = h.next[q]
    BY <1>1, <1>2, <1>5, <1>6
  <2> HIDE DEF s3, rest
  <2> QED BY <1>3, <1>6, <2>1, SplitHeap
<1> HIDE DEF s3
<1>8. /\ HeapOf(s4, (F \ {q}) \cup {rest}) /\ s4.next = s3.next /\ s4.used = h.used
      /\ s4.available = h.available
  <2>1. s4 = List(s3, rest) /\ rest \notin F \ {q}
    BY <1>5, <1>7 DEF F, Unused
  <2> HIDE DEF s4, rest, q
  <2>2. rest \in Int
    BY <1>3
  <2> DEFINE G == F \ {q}
  <2>3. HeapOf(s3, G) /\ rest \notin G
    BY <1>7, <2>1
  <2> HIDE DEF G
  <2>4. HeapOf(s4, G \cup {rest}) /\ s4.next = s3.next /\ s4.used = s3.used
    BY <2>1, <2>2, <2>3, ListHeap
  <2>5. s4.available = s3.available
    BY <1>7, <2>1 DEF List, HeapOf
  <2> QED BY <1>7, <2>4, <2>5 DEF G
<1> HIDE DEF s4
<1>9. /\ HeapOf(k, (F \ {q}) \cup {rest}) /\ k.next = s3.next /\ k.used = h.used
      /\ k.available = h.available + (SizeOf(h, a) - size)
  <2>1. SizeOf(h, a) - size \in Int
    BY <1>3
  <2> QED BY <1>4, <1>8, <2>1, AddHeap
<1>10. Unused(k) = (F \ {q}) \cup {rest}
  BY <1>1, <1>2, <1>5, <1>7, <1>9 DEF F, Unused
<1>11. \A x \in Unused(k) : k.next[x] \in h.used
  <2>1. k.next[rest] \in h.used
    BY <1>3, <1>7, <1>9
  <2>2. \A x \in F \ {q} : k.next[x] = h.next[x]
    BY <1>1, <1>5, <1>7, <1>9 DEF F, Unused
  <2> QED BY <1>1, <1>10, <2>1, <2>2
<1>12. SizeOf(k, a) >= size
  BY <1>3, <1>7, <1>9 DEF SizeOf
<1>13. Kept(h, k, h.used \ {a})
  BY <1>1, <1>2, <1>5, <1>7, <1>9 DEF Kept
<1>14. ASSUME Counted(h) PROVE Counted(k)
  <2> DEFINE R == F \ {q}
  <2>1. /\ q \notin R /\ F = R \cup {q} /\ rest \notin R /\ Unused(k) = R \cup {rest}
        /\ rest \in DOMAIN k.next /\ R \subseteq DOMAIN h.next
        /\ \A x \in R : k.next[x] = h.next[x]
    BY <1>1, <1>2, <1>5, <1>7, <1>9, <1>10 DEF F, Unused
  <2> HIDE DEF R
  <2>2. Total(h, R) \in Int /\ Total(h, F) = SizeOf(h, q) + Total(h, R)
    <3> HIDE DEF q
    <3> QED BY <1>1, <1>2, <2>1, TotalParts DEF F
  <2>3. Total(k, Unused(k)) = SizeOf(k, rest) + Total(k, R)
    <3> HIDE DEF q, rest
    <3> QED BY <1>9, <2>1, TotalParts
  <2>4. Total(k, R) = Total(h, R)
    BY <1>1, <2>1, TotalKept
  <2>5. /\ SizeOf(h, q) \in Int /\ h.available \in Int
        /\ SizeOf(k, rest) = SizeOf(h, q) + (SizeOf(h, a) - size)
    <3>1. /\ a \in Int /\ q \in Int /\ h.next[q] \in Int /\ SizeOf(h, q) \in Int
          /\ SizeOf(h, q) = h.next[q] - q - Header /\ SizeOf(h, a) = q - a - Header
      BY <1>1, <1>2, SizeOfInt
    <3>2. SizeOf(k, rest) = h.next[q] - rest - Header
      BY <1>7, <1>9 DEF SizeOf
    <3>3. h.available \in Int
      BY <1>1 DEF HeapOf
    <3> HIDE DEF q
    <3> QED BY <3>1, <3>2, <3>3
  <2>6. h.available = Total(h, F)
    BY <1>14 DEF Counted, F
  <2> HIDE DEF q, rest
  <2>7. k.available = Total(k, Unused(k))
    BY <1>3, <1>9, <2>2, <2>3, <2>4, <2>5, <2>6
  <2> QED BY <2>7 DEF Counted
<1> QED BY <1>9, <1>10, <1>11, <1>12, <1>13, <1>14 DEF ResizedAs, Well, k

LEMMA ShrunkWell ==
    ASSUME NEW h, Well(h), NEW a \in h.used, a # Tailer,
           NEW size \in Int, size >= MinAlloc, ~ KeepsSmall(h, a, size)
    PROVE  ResizedAs(h, a, size, Shrunk(h, a, size))
<1> DEFINE F == Unused(h)
           q == h.next[a]
           rest == a + Header + size
           cut == Split(h, a, rest)
           merged == IF IsFree(cut, q)
                     THEN Unlist(Join(Add(cut, - SizeOf(cut, q)), rest), q)
                     ELSE cut
           s4 == List(merged, rest)
           k == Shrunk(h, a, size)
<1>1. /\ HeapOf(h, F) /\ a \in DOMAIN h.next
      /\ \A x \in F : h.next[x] \in h.used
      /\ h.used \subseteq DOMAIN h.next
  BY DEF Well, HeapOf, Unused
<1>2. /\ a \in Int /\ q \in Int /\ q \in DOMAIN h.next /\ rest \in Int
      /\ rest >= a + Header + MinAlloc /\ q >= rest + Header + MinAlloc
  <2>1. a \in Int /\ SizeOf(h, a) \in Int /\ SizeOf(h, a) = q - a - Header
    BY <1>1, SizeOfInt
  <2>2. q \in Int /\ q \in DOMAIN h.next
    BY <1>1, SizeOfInt
  <2> QED BY <2>1, <2>2 DEF KeepsSmall
<1>3. /\ rest \notin DOMAIN h.next /\ HeapOf(cut, F) /\ cut.available = h.available
      /\ DOMAIN cut.next = DOMAIN h.next \cup {rest} /\ cut.used = h.used
      /\ cut.next[a] = rest /\ cut.next[rest] = q
      /\ \A x \in DOMAIN h.next \ {a} : cut.next[x] = h.next[x]
  <2>1. cut = Split(h, a, rest)
    OBVIOUS
  <2> HIDE DEF cut, rest, F
  <2> QED BY <1>1, <1>2, <2>1, SplitHeap
<1>4. k = Add(s4, SizeOf(merged, rest))
  BY <1>3 DEF Shrunk
<1> HIDE DEF k, F, cut
<1>5. /\ HeapOf(merged, F \ {q}) /\ merged.used = h.used
      /\ DOMAIN merged.next = (DOMAIN h.next \cup {rest}) \ (F \cap {q})
      /\ merged.next[a] = rest /\ merged.next[rest] \in h.used
      /\ \A x \in DOMAIN h.next \ {a, q} : merged.next[x] = h.next[x]
      /\ q \in h.used => merged.next[q] = h.next[q]
      /\ IF q \in F
         THEN /\ merged.available = h.available + (- SizeOf(h, q))
              /\ merged.next[rest] = h.next[q]
         ELSE merged.available = h.available /\ merged.next[rest] = q
  <2>1. CASE IsFree(cut, q)
    <3> DEFINE s1 == Add(cut, - SizeOf(cut, q))
               s2 == Join(s1, rest)
    <3>1. q \notin h.used /\ q \in F /\ q \in DOMAIN cut.next /\ merged = Unlist(s2, q)
      BY <1>2, <1>3, <2>1 DEF IsFree, F, Unused
    <3>2. /\ HeapOf(s1, F) /\ s1.next = cut.next /\ s1.used = h.used
          /\ s1.available = h.available + (- SizeOf(cut, q))
      <4>1. s1 = Add(cut, - SizeOf(cut, q)) /\ - SizeOf(cut, q) \in Int
        BY <1>3, <3>1, SizeOfInt
      <4> DEFINE gain == - SizeOf(cut, q)
      <4>0. s1 = Add(cut, gain) /\ gain \in Int
        BY <4>1
      <4> HIDE DEF s1, gain
      <4>2. /\ HeapOf(s1, F) /\ s1.next = cut.next /\ s1.used = cut.used
            /\ s1.available = cut.available + gain
        <5>1. HeapOf(cut, F)
          BY <1>3
        <5> QED BY <4>0, <5>1, AddHeap
      <4> QED BY <1>3, <4>2 DEF gain
    <3> HIDE DEF s1, merged
    <3>3. /\ HeapOf(s2, F) /\ s2.used = h.used /\ s2.available = s1.available
          /\ DOMAIN s2.next = DOMAIN cut.next \ {q} /\ s2.next[rest] = cut.next[q]
          /\ \A x \in DOMAIN cut.next \ {rest, q} : s2.next[x] = cut.next[x]
      <4>1. /\ s2 = Join(s1, rest) /\ rest \in DOMAIN s1.next /\ s1.next[rest] = q
            /\ IsFree(s1, s1.next[rest]) /\ rest # Tailer
        <5>1. Tailer \in DOMAIN h.next
          BY <1>1 DEF HeapOf
        <5> QED BY <1>3, <3>1, <3>2, <5>1 DEF IsFree
      <4> HIDE DEF s2, rest, q
      <4> QED BY <3>2, <4>1, JoinHeap
    <3> HIDE DEF s2, q
    <3>4. HeapOf(merged, F \ {q}) /\ merged.next = s2.next /\ merged.used = h.used
      BY <3>1, <3>3, UnlistHeap
    <3>5. a # q /\ a # rest /\ h.next[q] \in h.used
      BY <1>1, <1>2, <1>3, <3>1 DEF q
    <3>6. cut.next[q] = h.next[q]
      BY <1>2, <1>3, <3>5
    <3> HIDE DEF q, rest
    <3>7. DOMAIN merged.next = (DOMAIN h.next \cup {rest}) \ (F \cap {q})
      BY <1>3, <3>1, <3>3, <3>4
    <3>8. merged.next[a] = rest /\ merged.next[rest] \in h.used
      BY <1>1, <1>3, <3>3, <3>4, <3>5, <3>6
    <3>9. \A x \in DOMAIN h.next \ {a, q} : merged.next[x] = h.next[x]
      BY <1>3, <3>3, <3>4
    <3>10. merged.available = h.available + (- SizeOf(h, q)) /\ merged.next[rest] = h.next[q]
      <4>1. merged.available = s2.available
        BY <3>1, <3>3 DEF Unlist, HeapOf
      <4>2. SizeOf(cut, q) = SizeOf(h, q)
        BY <3>6 DEF SizeOf
      <4> QED BY <3>2, <3>3, <3>4, <3>6, <4>1, <4>2
    <3> QED BY <3>1, <3>4, <3>7, <3>8, <3>9, <3>10
  <2>2. CASE ~ IsFree(cut, q)
    <3>1. merged = cut /\ q \in h.used /\ q \notin F /\ q # a
      BY <1>2, <1>3, <2>2 DEF IsFree, F, Unused
    <3> HIDE DEF merged, q, rest
    <3>2. F \ {q} = F /\ F \cap {q} = {}
      BY <3>1
    <3> QED BY <1>2, <1>3, <3>1, <3>2
  <2> QED BY <2>1, <2>2
<1> HIDE DEF merged
<1>6. /\ HeapOf(s4, (F \ {q}) \cup {rest}) /\ s4.next = merged.next /\ s4.used = h.used
      /\ s4.available = merged.available
  <2>1. s4 = List(merged, rest) /\ rest \notin F \ {q}
    BY <1>3 DEF F, Unused
  <2> HIDE DEF s4, rest, q
  <2>2. HeapOf(s4, (F \ {q}) \cup {rest}) /\ s4.next = merged.next /\ s4.used = h.used
    <3> DEFINE G == F \ {q}
    <3>1. HeapOf(merged, G) /\ rest \in Int /\ rest \notin G
      BY <1>2, <1>5, <2>1
    <3> HIDE DEF G
    <3>2. HeapOf(s4, G \cup {rest}) /\ s4.next = merged.next /\ s4.used = merged.used
      BY <2>1, <3>1, ListHeap
    <3> QED BY <1>5, <3>2 DEF G
  <2>3. s4.available = merged.available
    BY <1>5, <2>1 DEF List, HeapOf
  <2> QED BY <2>2, <2>3
<1> HIDE DEF s4
<1>7. /\ HeapOf(k, (F \ {q}) \cup {rest}) /\ k.next = merged.next /\ k.used = h.used
      /\ k.available = merged.available + SizeOf(merged, rest)
  <2>1. SizeOf(merged, rest) \in Int
    <3>1. rest \in DOMAIN merged.next
      BY <1>2, <1>3, <1>5 DEF F, Unused
    <3> HIDE DEF rest
    <3> QED BY <1>5, <3>1, SizeOfInt
  <2> HIDE DEF rest, q
  <2> QED BY <1>4, <1>6, <2>1, AddHeap
<1>8. a # q /\ a # rest /\ q # rest /\ rest \notin F /\ rest \notin h.used
  BY <1>1, <1>2, <1>3 DEF F, Unused
<1>9. SizeOf(k, a) >= size
  BY <1>2, <1>5, <1>7 DEF SizeOf
<1> HIDE DEF rest, q
<1>10. Unused(k) = (F \ {q}) \cup {rest}
  BY <1>1, <1>5, <1>7, <1>8 DEF F, Unused
<1>11. \A x \in Unused(k) : k.next[x] \in h.used
  <2>1. \A x \in F \ {q} : x \in DOMAIN h.next \ {a, q}
    BY DEF F, Unused
  <2> QED BY <1>1, <1>5, <1>7, <1>10, <2>1
<1>12. Kept(h, k, h.used \ {a})
  BY <1>1, <1>5, <1>7, <1>8 DEF Kept, F, Unused
<1>13. ASSUME Counted(h) PROVE Counted(k)
  <2> DEFINE R == F \ {q}
  <2>1. /\ rest \notin R /\ Unused(k) = R \cup {rest}
        /\ rest \in DOMAIN k.next /\ R \subseteq DOMAIN h.next
        /\ \A x \in R : k.next[x] = h.next[x]
        /\ q \in F => F = R \cup {q}
        /\ q \notin F => F = R
    BY <1>1, <1>5, <1>7, <1>8, <1>10 DEF F, Unused
  <2> HIDE DEF R
  <2>2. Total(k, Unused(k)) = SizeOf(k, rest) + Total(k, R) /\ Total(k, R) \in Int
    BY <1>7, <2>1, TotalParts
  <2>3. Total(k, R) = Total(h, R)
    BY <1>1, <2>1, TotalKept
  <2>4. /\ SizeOf(k, rest) = SizeOf(merged, rest) /\ SizeOf(k, rest) \in Int
        /\ h.available \in Int
    BY <1>1, <1>7, <2>1, SizeOfInt DEF SizeOf, HeapOf
  <2>5. h.available = Total(h, F)
    BY <1>13 DEF Counted, F
  <2>6. CASE q \in F
    <3>1. Total(h, F) = SizeOf(h, q) + Total(h, R) /\ SizeOf(h, q) \in Int
      <4>1. q \notin R /\ F = R \cup {q}
        BY <2>1, <2>6 DEF R
      <4> QED BY <1>1, <1>2, <4>1, TotalParts, SizeOfInt DEF F
    <3>2. k.available = Total(k, Unused(k))
      BY <1>5, <1>7, <2>2, <2>3, <2>4, <2>5, <2>6, <3>1
    <3> QED BY <3>2 DEF Counted
  <2>7. CASE q \notin F
    <3>1. F = R
      BY <2>1, <2>7
    <3>2. k.available = Total(k, Unused(k))
      BY <1>5, <1>7, <2>2, <2>3, <2>4, <2>5, <2>7, <3>1
    <3> QED BY <3>2 DEF Counted
  <2> QED BY <2>6, <2>7
<1> QED BY <1>7, <1>9, <1>10, <1>11, <1>12, <1>13 DEF ResizedAs, Well, k

(***************************************************************************)
(* The invariant.                                                          *)
(***************************************************************************)
Owners(h, o) ==
    /\ DOMAIN o \subseteq Handles
    /\ \A p \in DOMAIN o : o[p] \in [block : DOMAIN h.next, size : Sizes]
    /\ h.used = {Tailer} \cup {o[p].block : p \in DOMAIN o}
    /\ \A p \in DOMAIN o :
           /\ SizeOf(h, o[p].block) >= o[p].size
           /\ \A q \in DOMAIN o : o[q].block = o[p].block => p = q
           /\ o[p].block # Tailer

Inv == Well(heap) /\ Owners(heap, owned) /\ Counted(heap)

LEMMA KeptSize ==
    ASSUME NEW h, NEW k, NEW S, Kept(h, k, S), NEW x \in S
    PROVE  x \in DOMAIN k.next /\ SizeOf(k, x) = SizeOf(h, x)
BY DEF Kept, SizeOf

LEMMA WantedIs ==
    ASSUME NEW size \in Sizes
    PROVE  /\ size \in Int /\ Wanted(size) \in Int
           /\ Wanted(size) >= MinAlloc /\ Wanted(size) >= size
BY DEF Wanted

LEMMA FoundIs ==
    ASSUME NEW h, Well(h), NEW size, NEW a \in Found(h, size)
    PROVE  a \in Unused(h) /\ SizeOf(h, a) >= size
BY DEF Found, Well, HeapOf, Lists, ToSet

LEMMA OwnedBlock ==
    ASSUME NEW h, Well(h), NEW o, Owners(h, o), NEW p \in DOMAIN o
    PROVE  /\ o[p].block \in h.used /\ o[p].block # Tailer
           /\ \A q \in DOMAIN o \ {p} : o[q].block \in h.used \ {o[p].block}
BY DEF Owners

LEMMA TakenOwners ==
    ASSUME NEW h, Well(h), NEW o, Owners(h, o), NEW a \in Unused(h),
           NEW k, k.used = h.used \cup {a}, Kept(h, k, h.used), a \in DOMAIN k.next,
           NEW size \in Sizes, SizeOf(k, a) >= size,
           NEW p \in Handles \ DOMAIN o
    PROVE  Owners(k, With(o, p, [block |-> a, size |-> size]))
<1> DEFINE o2 == With(o, p, [block |-> a, size |-> size])
<1>1. /\ DOMAIN o2 = DOMAIN o \cup {p}
      /\ o2[p] = [block |-> a, size |-> size]
      /\ \A q \in DOMAIN o : o2[q] = o[q] /\ q # p
  BY DEF With
<1> HIDE DEF o2
<1>2. a \notin h.used /\ Tailer \in h.used
  BY DEF Unused, Well, HeapOf
<1>3. \A q \in DOMAIN o : /\ o[q].block \in h.used
                          /\ o[q].block \in DOMAIN k.next
                          /\ SizeOf(k, o[q].block) = SizeOf(h, o[q].block)
  BY OwnedBlock, KeptSize
<1>4. \A q \in DOMAIN o2 : o2[q] \in [block : DOMAIN k.next, size : Sizes]
  BY <1>1, <1>3 DEF Owners
<1>5. k.used = {Tailer} \cup {o2[q].block : q \in DOMAIN o2}
  BY <1>1 DEF Owners
<1>6. ASSUME NEW q \in DOMAIN o2
      PROVE  /\ SizeOf(k, o2[q].block) >= o2[q].size
             /\ \A r \in DOMAIN o2 : o2[r].block = o2[q].block => q = r
             /\ o2[q].block # Tailer
  BY <1>1, <1>2, <1>3 DEF Owners
<1>7. DOMAIN o2 \subseteq Handles
  BY <1>1 DEF Owners
<1> QED BY <1>4, <1>5, <1>6, <1>7 DEF Owners, o2

LEMMA FreedOwners ==
    ASSUME NEW h, Well(h), NEW o, Owners(h, o), NEW p \in DOMAIN o,
           NEW k, k.used = h.used \ {o[p].block}, Kept(h, k, h.used \ {o[p].block})
    PROVE  Owners(k, Restrict(o, DOMAIN o \ {p}))
<1> DEFINE o2 == Restrict(o, DOMAIN o \ {p})
<1>1. DOMAIN o2 = DOMAIN o \ {p} /\ \A q \in DOMAIN o \ {p} : o2[q] = o[q]
  BY DEF Restrict
<1> HIDE DEF o2
<1>2. \A q \in DOMAIN o \ {p} : /\ o[q].block \in h.used \ {o[p].block}
                                /\ o[q].block \in DOMAIN k.next
                                /\ SizeOf(k, o[q].block) = SizeOf(h, o[q].block)
  BY OwnedBlock, KeptSize
<1>3. \A q \in DOMAIN o2 : o2[q] \in [block : DOMAIN k.next, size : Sizes]
  BY <1>1, <1>2 DEF Owners
<1>4. k.used = {Tailer} \cup {o2[q].block : q \in DOMAIN o2}
  BY <1>1, <1>2 DEF Owners
<1>5. ASSUME NEW q \in DOMAIN o2
      PROVE  /\ SizeOf(k, o2[q].block) >= o2[q].size
             /\ \A r \in DOMAIN o2 : o2[r].block = o2[q].block => q = r
             /\ o2[q].block # Tailer
  BY <1>1, <1>2 DEF Owners
<1>6. DOMAIN o2 \subseteq Handles
  BY <1>1 DEF Owners
<1> QED BY <1>3, <1>4, <1>5, <1>6 DEF Owners, o2

LEMMA ResizedOwners ==
    ASSUME NEW h, Well(h), NEW o, Owners(h, o), NEW p \in DOMAIN o,
           NEW k, k.used = h.used, Kept(h, k, h.used \ {o[p].block}),
           o[p].block \in DOMAIN k.next,
           NEW size \in Sizes, SizeOf(k, o[p].block) >= size
    PROVE  Owners(k, [o EXCEPT ![p].size = size])
<1> DEFINE o2 == [o EXCEPT ![p].size = size]
<1>1. /\ DOMAIN o2 = DOMAIN o
      /\ o2[p] = [block |-> o[p].block, size |-> size]
      /\ \A q \in DOMAIN o \ {p} : o2[q] = o[q]
  BY DEF Owners
<1> HIDE DEF o2
<1>2. \A q \in DOMAIN o \ {p} : /\ o[q].block \in DOMAIN k.next
                                /\ SizeOf(k, o[q].block) = SizeOf(h, o[q].block)
  BY OwnedBlock, KeptSize
<1>3. \A q \in DOMAIN o2 : o2[q] \in [block : DOMAIN k.next, size : Sizes]
  BY <1>1, <1>2 DEF Owners
<1>4. \A q \in DOMAIN o : o2[q].block = o[q].block
  BY <1>1
<1>5. k.used = {Tailer} \cup {o2[q].block : q \in DOMAIN o2}
  BY <1>1, <1>4 DEF Owners
<1>6. ASSUME NEW q \in DOMAIN o2
      PROVE  /\ SizeOf(k, o2[q].block) >= o2[q].size
             /\ \A r \in DOMAIN o2 : o2[r].block = o2[q].block => q = r
             /\ o2[q].block # Tailer
  BY <1>1, <1>2, <1>4 DEF Owners
<1> QED BY <1>1, <1>3, <1>5, <1>6 DEF Owners, o2

LEMMA InitInv == Init => Inv
<1> SUFFICES ASSUME Init PROVE Inv
  OBVIOUS
<1> DEFINE B == {First, Tailer}
           other == [a \in B |-> IF a = First THEN Tailer ELSE First]
<1>1. /\ DOMAIN heap = {"next", "prev", "used", "free", "available"}
      /\ heap.next = other /\ heap.prev = other /\ heap.used = {Tailer}
      /\ heap.free = <<First>> /\ heap.available = PoolSize - 2 * Header
      /\ owned = [p \in {} |-> First]
  BY DEF Init
<1>2. First \in Int /\ Tailer \in Int /\ Tailer >= First + Header + MinAlloc /\ First # Tailer
  OBVIOUS
<1>3. /\ DOMAIN other = B /\ other[First] = Tailer /\ other[Tailer] = First
      /\ other \in [B -> B]
  BY <1>2
<1> HIDE DEF other
<1>4. Chain(other, other)
  <2>1. {First, Tailer} \subseteq B /\ B \subseteq First .. Tailer
    BY <1>2
  <2>2. ASSUME NEW a \in B
        PROVE  /\ other[a] \in B /\ other[other[a]] = a
               /\ a # Tailer => /\ other[a] >= a + Header + MinAlloc
                                /\ \A b \in B : ~ (a < b /\ b < other[a])
    BY <1>2, <1>3
  <2> QED BY <1>3, <2>1, <2>2 DEF Chain
<1>5. Unused(heap) = {First}
  BY <1>1, <1>2, <1>3 DEF Unused
<1>6. Lists(heap.free, {First})
  <2>1. <<First>> \in Seq(Int) /\ DOMAIN <<First>> = {1} /\ <<First>>[1] = First
    BY <1>2
  <2> QED BY <1>1, <2>1 DEF Lists, IsInjective, ToSet
<1>7. Well(heap)
  BY <1>1, <1>2, <1>3, <1>4, <1>5, <1>6 DEF Well, HeapOf
<1>8. Owners(heap, owned)
  BY <1>1 DEF Owners
<1>9. Counted(heap)
  <2> DEFINE U == Unused(heap)
  <2>1. First \in DOMAIN heap.next /\ U = {} \cup {First} /\ First \notin {}
    BY <1>1, <1>3, <1>5
  <2>2. Total(heap, U) = SizeOf(heap, First) + Total(heap, {})
    BY <1>7, <2>1, TotalParts DEF Well
  <2>3. SizeOf(heap, First) = PoolSize - 2 * Header
    BY <1>1, <1>3 DEF SizeOf
  <2> QED BY <1>1, <2>2, <2>3, TotalNone DEF Counted
<1> QED BY <1>7, <1>8, <1>9 DEF Inv

LEMMA AllocInv ==
    ASSUME Inv, NEW p \in Handles, NEW size \in Sizes, Alloc(p, size)
    PROVE  Inv'
<1> DEFINE n == Wanted(size)
<1>1. PICK a \in Found(heap, n) :
          /\ heap' = Taken(heap, a, n)
          /\ owned' = With(owned, p, [block |-> a, size |-> size])
  BY DEF Alloc
<1>2. n \in Int /\ n >= MinAlloc /\ n >= size /\ size \in Int
  BY WantedIs
<1> HIDE DEF n
<1>3. Well(heap) /\ Owners(heap, owned) /\ Counted(heap) /\ p \in Handles \ DOMAIN owned
  BY DEF Inv, Alloc
<1>4. a \in Unused(heap) /\ SizeOf(heap, a) >= n
  BY <1>3, FoundIs
<1>5. /\ Well(heap') /\ heap'.used = heap.used \cup {a}
      /\ SizeOf(heap', a) >= n /\ Kept(heap, heap', heap.used)
      /\ Counted(heap')
  BY <1>1, <1>2, <1>3, <1>4, TakenWell
<1>6. a \in DOMAIN heap'.next /\ SizeOf(heap', a) >= size
  <2>1. a \in DOMAIN heap'.next
    BY <1>5 DEF Well, HeapOf
  <2>2. SizeOf(heap', a) \in Int
    BY <1>5, <2>1, SizeOfInt DEF Well
  <2> QED BY <1>2, <1>5, <2>1, <2>2
<1>7. Owners(heap', owned')
  BY <1>1, <1>3, <1>4, <1>5, <1>6, TakenOwners
<1> QED BY <1>5, <1>7 DEF Inv

LEMMA FreeInv ==
    ASSUME Inv, NEW p \in Handles, Free(p)
    PROVE  Inv'
<1>1. /\ Well(heap) /\ Owners(heap, owned) /\ Counted(heap) /\ p \in DOMAIN owned
      /\ heap' = Freed(heap, owned[p].block)
      /\ owned' = Restrict(owned, DOMAIN owned \ {p})
  BY DEF Inv, Free
<1>2. owned[p].block \in heap.used /\ owned[p].block # Tailer
  BY <1>1, OwnedBlock
<1>3. /\ Well(heap') /\ heap'.used = heap.used \ {owned[p].block}
      /\ Kept(heap, heap', heap.used \ {owned[p].block})
      /\ Counted(heap')
  BY <1>1, <1>2, FreedWell
<1>4. Owners(heap', owned')
  BY <1>1, <1>3, FreedOwners
<1> QED BY <1>3, <1>4 DEF Inv

LEMMA ReallocInPlaceInv ==
    ASSUME Inv, NEW p \in Handles, NEW size \in Sizes, ReallocInPlace(p, size)
    PROVE  Inv'
<1> DEFINE a == owned[p].block
           n == Wanted(size)
           old == SizeOf(heap, a)
<1>1. /\ Well(heap) /\ Owners(heap, owned) /\ Counted(heap) /\ p \in DOMAIN owned
      /\ owned' = [owned EXCEPT ![p].size = size]
      /\ \/ n > old /\ CanGrow(heap, a, n) /\ heap' = Grown(heap, a, n)
         \/ n <= old /\ KeepsSmall(heap, a, n) /\ UNCHANGED heap
         \/ n <= old /\ ~ KeepsSmall(heap, a, n) /\ heap' = Shrunk(heap, a, n)
  BY DEF Inv, ReallocInPlace
<1>2. a \in heap.used /\ a # Tailer
  BY <1>1, OwnedBlock
<1>3. n \in Int /\ n >= MinAlloc /\ n >= size /\ size \in Int
  BY WantedIs
<1> HIDE DEF a, n
<1>4. ResizedAs(heap, a, n, heap')
  <2>1. CASE n > old /\ CanGrow(heap, a, n) /\ heap' = Grown(heap, a, n)
    BY <1>1, <1>2, <1>3, <2>1, GrownWell
  <2>2. CASE n <= old /\ KeepsSmall(heap, a, n) /\ UNCHANGED heap
    <3>1. a \in DOMAIN heap.next
      BY <1>1, <1>2 DEF Well, HeapOf
    <3>2. SizeOf(heap, a) >= n
      BY <1>1, <1>3, <2>2, <3>1, SizeOfInt DEF Well
    <3>3. Kept(heap, heap, heap.used \ {a})
      BY <1>1 DEF Kept, Well, HeapOf
    <3> QED BY <1>1, <2>2, <3>2, <3>3 DEF ResizedAs
  <2>3. CASE n <= old /\ ~ KeepsSmall(heap, a, n) /\ heap' = Shrunk(heap, a, n)
    BY <1>1, <1>2, <1>3, <2>3, ShrunkWell
  <2> QED BY <1>1, <2>1, <2>2, <2>3
<1>5. /\ Well(heap') /\ heap'.used = heap.used /\ SizeOf(heap', a) >= n
      /\ Kept(heap, heap', heap.used \ {a}) /\ Counted(heap')
  BY <1>1, <1>4 DEF ResizedAs
<1>6. a \in DOMAIN heap'.next /\ SizeOf(heap', a) >= size
  <2>1. a \in DOMAIN heap'.next
    BY <1>2, <1>5 DEF Well, HeapOf
  <2>2. SizeOf(heap', a) \in Int
    BY <1>5, <2>1, SizeOfInt DEF Well
  <2> QED BY <1>3, <1>5, <2>1, <2>2
<1>7. Owners(heap', owned')
  BY <1>1, <1>5, <1>6, ResizedOwners DEF a
<1> QED BY <1>5, <1>7 DEF Inv

LEMMA ReallocMovesInv ==
    ASSUME Inv, NEW p \in Handles, NEW size \in Sizes, ReallocMoves(p, size)
    PROVE  Inv'
<1> DEFINE a == owned[p].block
           n == Wanted(size)
<1>1. PICK b \in Found(heap, n) :
          /\ heap' = Freed(Taken(heap, b, n), a)
          /\ owned' = [owned EXCEPT ![p] = [block |-> b, size |-> size]]
  BY DEF ReallocMoves
<1>2. Well(heap) /\ Owners(heap, owned) /\ Counted(heap) /\ p \in DOMAIN owned
  BY DEF Inv, ReallocMoves
<1>3. a \in heap.used /\ a # Tailer
  BY <1>2, OwnedBlock
<1>4. n \in Int /\ n >= MinAlloc /\ n >= size /\ size \in Int
  BY WantedIs
<1> DEFINE h == Taken(heap, b, n)
<1>5. b \in Unused(heap) /\ SizeOf(heap, b) >= n
  BY <1>2, FoundIs
<1>6. /\ Well(h) /\ h.used = heap.used \cup {b}
      /\ SizeOf(h, b) >= n /\ Kept(heap, h, heap.used) /\ Counted(h)
  <2> HIDE DEF n
  <2> QED BY <1>2, <1>4, <1>5, TakenWell
<1>7. b \in h.used /\ b # a /\ b \notin heap.used
  BY <1>3, <1>5, <1>6 DEF Unused
<1> HIDE DEF h, n
<1>8. /\ Well(heap') /\ heap'.used = h.used \ {a}
      /\ Kept(h, heap', h.used \ {a}) /\ Counted(heap')
  BY <1>1, <1>3, <1>6, <1>7, FreedWell DEF h
<1>9. /\ \A x \in heap.used \ {a} : /\ x \in DOMAIN heap'.next
                                    /\ SizeOf(heap', x) = SizeOf(heap, x)
      /\ b \in DOMAIN heap'.next /\ SizeOf(heap', b) = SizeOf(h, b)
  BY <1>6, <1>7, <1>8, KeptSize
<1>10. SizeOf(heap', b) >= size
  <2>1. SizeOf(heap', b) \in Int
    BY <1>8, <1>9, SizeOfInt DEF Well
  <2> QED BY <1>4, <1>6, <1>9, <2>1
<1>11. /\ DOMAIN owned' = DOMAIN owned
       /\ owned'[p] = [block |-> b, size |-> size]
       /\ \A q \in DOMAIN owned \ {p} : owned'[q] = owned[q]
  BY <1>1, <1>2
<1>12. \A q \in DOMAIN owned \ {p} : owned[q].block \in heap.used \ {a}
  BY <1>2, OwnedBlock
<1> HIDE DEF a
<1>13. Owners(heap', owned')
  <2>1. \A q \in DOMAIN owned' : owned'[q] \in [block : DOMAIN heap'.next, size : Sizes]
    BY <1>2, <1>9, <1>11, <1>12 DEF Owners
  <2>2. heap'.used = {Tailer} \cup {owned'[q].block : q \in DOMAIN owned'}
    BY <1>2, <1>3, <1>6, <1>7, <1>8, <1>11, <1>12 DEF Owners, a
  <2>3. ASSUME NEW q \in DOMAIN owned'
        PROVE  /\ SizeOf(heap', owned'[q].block) >= owned'[q].size
               /\ \A r \in DOMAIN owned' : owned'[r].block = owned'[q].block => q = r
               /\ owned'[q].block # Tailer
    <3>1. Tailer \in heap.used
      BY <1>2 DEF Well, HeapOf
    <3>2. CASE q = p
      BY <1>7, <1>10, <1>11, <1>12, <3>1, <3>2
    <3>3. CASE q # p
      BY <1>2, <1>7, <1>9, <1>11, <1>12, <3>3 DEF Owners
    <3> QED BY <3>2, <3>3
  <2>4. DOMAIN owned' \subseteq Handles
    BY <1>2, <1>11 DEF Owners
  <2> QED BY <2>1, <2>2, <2>3, <2>4 DEF Owners
<1> QED BY <1>8, <1>13 DEF Inv

LEMMA NextInv == Inv /\ [Next]_vars => Inv'
<1> SUFFICES ASSUME Inv, [Next]_vars PROVE Inv'
  OBVIOUS
<1>1. CASE UNCHANGED vars
  BY <1>1 DEF vars, Inv
<1>2. CASE Next
  BY <1>2, AllocInv, FreeInv, ReallocInPlaceInv, ReallocMovesInv DEF Next
<1> QED BY <1>1, <1>2

LEMMA AlwaysInv == Spec => []Inv
BY InitInv, NextInv, PTL DEF Spec

(***************************************************************************)
(* The theorems.                                                           *)
(***************************************************************************)

\* The heap always has its type: every link is to a block, the free list and
\* the blocks in use are of the pool.
THEOREM HeapTyped == Spec => []TypeOK
<1>1. Inv => TypeOK
  <2> SUFFICES ASSUME Inv PROVE TypeOK
    OBVIOUS
  <2>1. /\ HeapOf(heap, Unused(heap)) /\ Owners(heap, owned)
        /\ Unused(heap) \subseteq Blocks
    BY DEF Inv, Well, Unused, Blocks
  <2>2. heap.free \in Seq(Blocks)
    BY <2>1, ListsWithin DEF HeapOf
  <2> QED BY <2>1, <2>2 DEF TypeOK, HeapOf, Chain, Owners, Blocks
<1> QED BY <1>1, AlwaysInv, PTL

\* Whatever is asked for and given back, in whatever order, the blocks cover
\* the pool without gap or overlap and are linked both ways.
THEOREM HeapTiles == Spec => []BlocksTile
<1>1. Inv => BlocksTile
  BY DEF Inv, Well, HeapOf, Chain, BlocksTile, Blocks
<1> QED BY <1>1, AlwaysInv, PTL

\* The free list holds every free block once and nothing else.
THEOREM HeapFreeList == Spec => []FreeListIsTheFree
<1>1. Inv => FreeListIsTheFree
  BY DEF Inv, Well, HeapOf, Lists, Unused, FreeListIsTheFree, Blocks
<1> QED BY <1>1, AlwaysInv, PTL

\* No two free blocks are neighbours: free, grow and shrink always merge.
THEOREM HeapMerged == Spec => []NoFreeNeighbours
<1>1. Inv => NoFreeNeighbours
  BY DEF Inv, Well, Unused, NoFreeNeighbours, Blocks
<1> QED BY <1>1, AlwaysInv, PTL

\* The size rt_memheap_alloc compares a request with is what the free blocks
\* hold: no split, merge, growth or shrinking counts a header twice or forgets one.
THEOREM HeapCounts == Spec => []AvailableIsTheFree
<1>1. Inv => AvailableIsTheFree
  BY DEF Inv, Counted, Total, Unused, AvailableIsTheFree, Blocks
<1> QED BY <1>1, AlwaysInv, PTL

\* Every pointer is to a block in use of its own, large enough for what was
\* asked for last, and no block in use is without its pointer.
THEOREM HeapPointersSafe == Spec => []PointersAreSafe
<1>1. Inv => PointersAreSafe
  BY DEF Inv, Owners, PointersAreSafe
<1> QED BY <1>1, AlwaysInv, PTL
=============================================================================
