----------------------------- MODULE ListLemmas -----------------------------
(***************************************************************************)
(* Lemmas about lists without repetition, wait lists and the calls that    *)
(* were woken from them, and the least number of a set, which the proofs   *)
(* of several modules use.                                                 *)
(***************************************************************************)
EXTENDS Integers, SequencesExt, SequenceTheorems, FiniteSetTheorems,
        WellFoundedInduction, TLAPS

\* Every set of naturals that is not empty has a least element.
LEMMA NatMin ==
    ASSUME NEW S, S \subseteq Nat, S # {}
    PROVE  \E x \in S : \A y \in S : x <= y
<1> DEFINE R == OpToRel(<, Nat)
<1>1. IsWellFoundedOn(R, Nat)
  BY NatLessThanWellFounded
<1>2. \A x, y \in Nat : <<x, y>> \in R <=> x < y
  BY DEF OpToRel
<1> HIDE DEF R
<1>3. PICK x \in S : \A y \in S : ~ (<<y, x>> \in R)
  BY <1>1, WFMin
<1>4. \A y \in S : ~ (y < x)
  BY <1>2, <1>3
<1> QED BY <1>4

\* The cases of a position in a list that has grown by one.
LEMMA Positions ==
    ASSUME NEW n \in Nat
    PROVE  /\ \A i \in 1 .. n + 1 : i = n + 1 \/ i = n \/ i < n
           /\ \A i \in 1 .. n : i # n => i + 1 \in 1 .. n /\ i + 1 # n + 1
OBVIOUS

LEMMA TailOf ==
    ASSUME NEW S, NEW s \in Seq(S), s # <<>>, IsInjective(s)
    PROVE  /\ Tail(s) \in Seq(S) /\ Len(s) \in Nat \ {0} /\ Len(Tail(s)) = Len(s) - 1
           /\ \A i \in 1 .. Len(s) - 1 : Tail(s)[i] = s[i + 1]
           /\ IsInjective(Tail(s))
           /\ s[1] \in ToSet(s)
           /\ ToSet(Tail(s)) = ToSet(s) \ {s[1]}
<1>1. /\ Tail(s) \in Seq(S) /\ Len(s) \in Nat \ {0} /\ Len(Tail(s)) = Len(s) - 1
      /\ \A i \in 1 .. Len(s) - 1 : Tail(s)[i] = s[i + 1]
      /\ DOMAIN s = 1 .. Len(s) /\ DOMAIN Tail(s) = 1 .. Len(s) - 1
  BY HeadTailProperties, LenProperties, EmptySeq
<1>2. IsInjective(Tail(s))
  BY <1>1 DEF IsInjective
<1>3. s[1] \in ToSet(s)
  BY <1>1 DEF ToSet
<1>4. ToSet(Tail(s)) \subseteq ToSet(s) \ {s[1]}
  BY <1>1 DEF ToSet, IsInjective
<1>5. ASSUME NEW x \in ToSet(s) \ {s[1]} PROVE x \in ToSet(Tail(s))
  <2>1. PICK i \in 1 .. Len(s) : x = s[i] /\ i # 1
    BY <1>1, <1>5 DEF ToSet
  <2>2. i - 1 \in 1 .. Len(s) - 1 /\ Tail(s)[i - 1] = x
    BY <1>1, <2>1
  <2> QED BY <1>1, <2>2 DEF ToSet
<1> QED BY <1>1, <1>2, <1>3, <1>4, <1>5

LEMMA AppendOf ==
    ASSUME NEW S, NEW s \in Seq(S), IsInjective(s), NEW e \in S, e \notin ToSet(s)
    PROVE  /\ Append(s, e) \in Seq(S) /\ Len(s) \in Nat
           /\ Append(s, e) # <<>> /\ Len(Append(s, e)) = Len(s) + 1
           /\ \A i \in 1 .. Len(s) : Append(s, e)[i] = s[i]
           /\ Append(s, e)[Len(s) + 1] = e
           /\ IsInjective(Append(s, e))
           /\ ToSet(Append(s, e)) = ToSet(s) \cup {e}
<1>1. /\ Append(s, e) \in Seq(S) /\ Append(s, e) # <<>>
      /\ Len(s) \in Nat /\ Len(Append(s, e)) = Len(s) + 1
      /\ \A i \in 1 .. Len(s) : Append(s, e)[i] = s[i]
      /\ Append(s, e)[Len(s) + 1] = e
      /\ DOMAIN s = 1 .. Len(s) /\ DOMAIN Append(s, e) = 1 .. Len(s) + 1
  BY AppendProperties, LenProperties
<1>2. ToSet(Append(s, e)) = ToSet(s) \cup {e}
  BY <1>1 DEF ToSet
<1>3. IsInjective(Append(s, e))
  BY <1>1 DEF IsInjective, ToSet
<1> QED BY <1>1, <1>2, <1>3

LEMMA ConsOf ==
    ASSUME NEW S, NEW s \in Seq(S), IsInjective(s), NEW e \in S, e \notin ToSet(s)
    PROVE  /\ <<e>> \o s \in Seq(S) /\ Len(s) \in Nat
           /\ <<e>> \o s # <<>> /\ Len(<<e>> \o s) = Len(s) + 1
           /\ (<<e>> \o s)[1] = e
           /\ \A i \in 1 .. Len(s) : (<<e>> \o s)[i + 1] = s[i]
           /\ IsInjective(<<e>> \o s)
           /\ ToSet(<<e>> \o s) = ToSet(s) \cup {e}
<1> DEFINE c == <<e>> \o s
<1>1. <<e>> \in Seq(S) /\ Len(<<e>>) = 1 /\ <<e>>[1] = e
  OBVIOUS
<1>2. /\ c \in Seq(S) /\ Len(s) \in Nat /\ Len(c) = Len(s) + 1
      /\ \A i \in 1 .. Len(s) + 1 : c[i] = IF i <= 1 THEN <<e>>[i] ELSE s[i - 1]
      /\ DOMAIN s = 1 .. Len(s) /\ DOMAIN c = 1 .. Len(s) + 1
  BY <1>1, ConcatProperties, LenProperties
<1>3. c[1] = e /\ c # <<>> /\ \A i \in 1 .. Len(s) : c[i + 1] = s[i]
  BY <1>1, <1>2
<1>4. \A i \in 2 .. Len(s) + 1 : c[i] = s[i - 1] /\ i - 1 \in 1 .. Len(s)
  BY <1>2
<1>5. ToSet(c) = ToSet(s) \cup {e}
  <2>1. ToSet(c) \subseteq ToSet(s) \cup {e}
    BY <1>2, <1>3, <1>4 DEF ToSet
  <2>2. ASSUME NEW x \in ToSet(s) PROVE x \in ToSet(c)
    <3>1. PICK i \in 1 .. Len(s) : x = s[i]
      BY <1>2, <2>2 DEF ToSet
    <3>2. i + 1 \in 1 .. Len(s) + 1 /\ c[i + 1] = x
      BY <1>2, <1>3, <3>1
    <3> QED BY <1>2, <3>2 DEF ToSet
  <2>3. e \in ToSet(c)
    BY <1>2, <1>3 DEF ToSet
  <2> QED BY <2>1, <2>2, <2>3
<1>6. IsInjective(c)
  BY <1>2, <1>3, <1>4 DEF IsInjective, ToSet
<1> QED BY <1>2, <1>3, <1>5, <1>6

LEMMA RemoveAtElements ==
    ASSUME NEW S, NEW s \in Seq(S), NEW i \in 1 .. Len(s)
    PROVE  /\ RemoveAt(s, i) \in Seq(S) /\ Len(s) \in Nat
           /\ Len(RemoveAt(s, i)) = Len(s) - 1
           /\ DOMAIN RemoveAt(s, i) = 1 .. Len(s) - 1
           /\ \A j \in 1 .. Len(s) - 1 : RemoveAt(s, i)[j] = IF j < i THEN s[j] ELSE s[j + 1]
<1> DEFINE a == SubSeq(s, 1, i - 1)
           b == SubSeq(s, i + 1, Len(s))
           r == RemoveAt(s, i)
<1>0. Len(s) \in Nat /\ DOMAIN s = 1 .. Len(s) /\ \A j \in 1 .. Len(s) : s[j] \in S
  BY LenProperties, ElementOfSeq
<1>1. /\ Len(s) \in Nat /\ DOMAIN s = 1 .. Len(s) /\ \A j \in 1 .. Len(s) : s[j] \in S
      /\ i \in Int /\ 1 <= i /\ i <= Len(s)
  BY <1>0
<1>2. /\ a \in Seq(S) /\ Len(a) = i - 1
      /\ \A j \in 1 .. i - 1 : a[j] = s[j]
  <2>1. \A j \in 1 .. i - 1 : s[j] \in S
    BY <1>1
  <2> QED BY <1>1, <2>1, SubSeqProperties
<1>3. /\ b \in Seq(S) /\ Len(b) = Len(s) - i
      /\ \A j \in 1 .. Len(s) - i : b[j] = s[i + j]
  <2>1. \A j \in i + 1 .. Len(s) : s[j] \in S
    BY <1>1
  <2>2. i + 1 \in Int /\ Len(s) \in Int
    BY <1>1
  <2>3. /\ b \in Seq(S)
        /\ Len(b) = IF i + 1 <= Len(s) THEN Len(s) - (i + 1) + 1 ELSE 0
        /\ \A j \in 1 .. Len(s) - (i + 1) + 1 : b[j] = s[(i + 1) + j - 1]
    BY <2>1, <2>2, SubSeqProperties
  <2> HIDE DEF b
  <2>4. Len(s) - (i + 1) + 1 = Len(s) - i /\ \A j \in 1 .. Len(s) - i : (i + 1) + j - 1 = i + j
    BY <1>1
  <2>5. Len(b) = Len(s) - i
    <3>1. CASE i + 1 <= Len(s)
      BY <2>2, <2>3, <2>4, <3>1
    <3>2. CASE ~ (i + 1 <= Len(s))
      <4> DEFINE n == Len(s)
      <4>0. n \in Nat /\ i \in Int /\ i <= n /\ ~ (i + 1 <= n)
        BY <1>1, <3>2
      <4> HIDE DEF n
      <4>3. i = n /\ n - i = 0
        BY <4>0
      <4>1. i = Len(s) /\ Len(s) - i = 0
        BY <4>3 DEF n
      <4> QED BY <2>3, <3>2, <4>1
    <3> QED BY <3>1, <3>2
  <2>6. ASSUME NEW j \in 1 .. Len(s) - i PROVE b[j] = s[i + j]
    BY <1>1, <2>3, <2>4
  <2> QED BY <2>3, <2>5, <2>6
<1>4. r = a \o b
  BY DEF RemoveAt
<1> HIDE DEF a, b, r
<1>5. /\ r \in Seq(S) /\ Len(r) = Len(s) - 1 /\ DOMAIN r = 1 .. Len(s) - 1
      /\ \A j \in 1 .. Len(s) - 1 : r[j] = IF j < i THEN s[j] ELSE s[j + 1]
  <2>1. /\ r \in Seq(S) /\ Len(r) = Len(s) - 1
        /\ \A j \in 1 .. Len(s) - 1 : r[j] = IF j <= i - 1 THEN a[j] ELSE b[j - (i - 1)]
    <3>1. /\ r \in Seq(S) /\ Len(r) = Len(a) + Len(b)
          /\ \A j \in 1 .. Len(a) + Len(b) : r[j] = IF j <= Len(a) THEN a[j] ELSE b[j - Len(a)]
      BY <1>2, <1>3, <1>4, ConcatProperties
    <3>2. Len(a) + Len(b) = Len(s) - 1
      BY <1>1, <1>2, <1>3
    <3> QED BY <1>2, <3>1, <3>2
  <2> QED BY <1>1, <1>2, <1>3, <2>1, LenProperties
<1> QED BY <1>1, <1>5 DEF r

LEMMA RemoveAtOf ==
    ASSUME NEW S, NEW s \in Seq(S), IsInjective(s), NEW i \in 1 .. Len(s)
    PROVE  /\ RemoveAt(s, i) \in Seq(S)
           /\ IsInjective(RemoveAt(s, i))
           /\ ToSet(RemoveAt(s, i)) = ToSet(s) \ {s[i]}
<1> DEFINE r == RemoveAt(s, i)
<1>1. /\ Len(s) \in Nat /\ DOMAIN s = 1 .. Len(s) /\ \A j \in 1 .. Len(s) : s[j] \in S
      /\ i \in Int /\ 1 <= i /\ i <= Len(s)
  BY LenProperties, ElementOfSeq
<1>5. /\ r \in Seq(S) /\ DOMAIN r = 1 .. Len(s) - 1
      /\ \A j \in 1 .. Len(s) - 1 : r[j] = IF j < i THEN s[j] ELSE s[j + 1]
  BY RemoveAtElements
<1> HIDE DEF r
<1>6. IsInjective(r)
  <2> SUFFICES ASSUME NEW j \in 1 .. Len(s) - 1, NEW l \in 1 .. Len(s) - 1, r[j] = r[l]
               PROVE  j = l
    BY <1>5 DEF IsInjective
  <2> DEFINE at(x) == IF x < i THEN x ELSE x + 1
  <2>1. at(j) \in DOMAIN s /\ at(l) \in DOMAIN s /\ r[j] = s[at(j)] /\ r[l] = s[at(l)]
    BY <1>1, <1>5
  <2>2. at(j) = at(l)
    BY <2>1 DEF IsInjective
  <2> QED BY <1>1, <2>2
<1>7. ToSet(r) \subseteq ToSet(s) \ {s[i]}
  BY <1>1, <1>5 DEF IsInjective, ToSet
<1>8. ASSUME NEW x \in ToSet(s) \ {s[i]} PROVE x \in ToSet(r)
  <2>1. PICK j \in 1 .. Len(s) : x = s[j] /\ j # i
    BY <1>1, <1>8 DEF ToSet
  <2>2. CASE j < i
    BY <1>1, <1>5, <2>1, <2>2 DEF ToSet
  <2>3. CASE j > i
    <3>1. j - 1 \in 1 .. Len(s) - 1 /\ r[j - 1] = x
      BY <1>1, <1>5, <2>1, <2>3
    <3> QED BY <1>5, <3>1 DEF ToSet
  <2> QED BY <1>1, <2>1, <2>2, <2>3
<1> QED BY <1>5, <1>6, <1>7, <1>8 DEF r

\* e goes in before position i, or at the end.
LEMMA InsertAtOf ==
    ASSUME NEW S, NEW s \in Seq(S), NEW e \in S, NEW i \in 1 .. Len(s) + 1
    PROVE  /\ InsertAt(s, i, e) \in Seq(S) /\ Len(s) \in Nat
           /\ Len(InsertAt(s, i, e)) = Len(s) + 1
           /\ \A j \in 1 .. Len(s) + 1 :
                 InsertAt(s, i, e)[j] = IF j < i THEN s[j] ELSE IF j = i THEN e ELSE s[j - 1]
           /\ ToSet(InsertAt(s, i, e)) = ToSet(s) \cup {e}
           /\ IsInjective(s) /\ e \notin ToSet(s) => IsInjective(InsertAt(s, i, e))
<1> DEFINE n == Len(s)
           a == SubSeq(s, 1, i - 1)
           b == SubSeq(s, i, n)
           r == InsertAt(s, i, e)
<1>1. /\ n \in Nat /\ DOMAIN s = 1 .. n /\ \A j \in 1 .. n : s[j] \in S
      /\ i \in Int /\ 1 <= i /\ i <= n + 1
  BY LenProperties, ElementOfSeq
<1>2. r = a \o <<e>> \o b
  BY DEF InsertAt
<1> HIDE DEF r
<1>3. a \in Seq(S) /\ Len(a) = i - 1 /\ \A j \in 1 .. i - 1 : a[j] = s[j]
  <2>1. \A j \in 1 .. i - 1 : s[j] \in S
    BY <1>1
  <2> QED BY <1>1, <2>1, SubSeqProperties
<1>4. b \in Seq(S) /\ Len(b) = n - i + 1 /\ \A j \in 1 .. n - i + 1 : b[j] = s[i + j - 1]
  <2>1. \A j \in i .. n : s[j] \in S
    BY <1>1
  <2>2. /\ b \in Seq(S) /\ Len(b) = IF i <= n THEN n - i + 1 ELSE 0
        /\ \A j \in 1 .. n - i + 1 : b[j] = s[i + j - 1]
    BY <1>1, <2>1, SubSeqProperties
  <2>3. ~ (i <= n) => n - i + 1 = 0
    BY <1>1
  <2> HIDE DEF b, n
  <2> QED BY <2>2, <2>3
<1> HIDE DEF a, b, n
<1>5. /\ <<e>> \in Seq(S) /\ Len(<<e>>) = 1 /\ <<e>>[1] = e
  OBVIOUS
<1>6. /\ a \o <<e>> \in Seq(S) /\ Len(a \o <<e>>) = i
      /\ \A j \in 1 .. i : (a \o <<e>>)[j] = IF j < i THEN s[j] ELSE e
  <2>1. /\ a \o <<e>> \in Seq(S) /\ Len(a \o <<e>>) = Len(a) + Len(<<e>>)
        /\ \A j \in 1 .. Len(a) + Len(<<e>>) :
              (a \o <<e>>)[j] = IF j <= Len(a) THEN a[j] ELSE <<e>>[j - Len(a)]
    BY <1>3, <1>5, ConcatProperties
  <2>2. Len(a) + Len(<<e>>) = i
    BY <1>1, <1>3, <1>5
  <2> QED BY <1>1, <1>3, <1>5, <2>1, <2>2
<1>7. /\ r \in Seq(S) /\ Len(r) = n + 1
      /\ \A j \in 1 .. n + 1 : r[j] = IF j < i THEN s[j] ELSE IF j = i THEN e ELSE s[j - 1]
  <2> DEFINE c == a \o <<e>>
  <2>1. c \in Seq(S) /\ Len(c) = i /\ \A j \in 1 .. i : c[j] = IF j < i THEN s[j] ELSE e
    BY <1>6
  <2>2. r = c \o b
    BY <1>2
  <2> HIDE DEF c
  <2>3. /\ c \o b \in Seq(S) /\ Len(c \o b) = Len(c) + Len(b)
        /\ \A j \in 1 .. Len(c) + Len(b) : (c \o b)[j] = IF j <= Len(c) THEN c[j] ELSE b[j - Len(c)]
    BY <1>4, <2>1, ConcatProperties
  <2>4. Len(c) + Len(b) = n + 1
    BY <1>1, <1>4, <2>1
  <2>5. ASSUME NEW j \in 1 .. n + 1
        PROVE  r[j] = IF j < i THEN s[j] ELSE IF j = i THEN e ELSE s[j - 1]
    <3>1. r[j] = IF j <= i THEN c[j] ELSE b[j - i]
      BY <2>1, <2>2, <2>3, <2>4
    <3>2. CASE j <= i
      <4>1. j \in 1 .. i
        BY <1>1, <3>2
      <4>2. c[j] = IF j < i THEN s[j] ELSE e
        BY <2>1, <4>1
      <4>3. j < i \/ j = i
        BY <1>1, <3>2
      <4> QED BY <1>1, <3>1, <3>2, <4>2, <4>3
    <3>3. CASE ~ (j <= i)
      <4>1. j - i \in 1 .. n - i + 1 /\ i + (j - i) - 1 = j - 1 /\ ~ (j < i) /\ j # i
        BY <1>1, <3>3
      <4>2. b[j - i] = s[i + (j - i) - 1]
        BY <1>4, <4>1
      <4> QED BY <3>1, <3>3, <4>1, <4>2
    <3> QED BY <3>2, <3>3
  <2> QED BY <2>2, <2>3, <2>4, <2>5
<1>8. DOMAIN r = 1 .. n + 1
  BY <1>7, LenProperties
<1>9. ToSet(r) = ToSet(s) \cup {e}
  <2>1. ASSUME NEW x \in ToSet(r) PROVE x \in ToSet(s) \cup {e}
    <3>1. PICK j \in 1 .. n + 1 : x = r[j]
      BY <1>8 DEF ToSet
    <3>2. j < i => j \in 1 .. n
      BY <1>1
    <3>3. ~ (j < i) /\ j # i => j - 1 \in 1 .. n
      BY <1>1
    <3> QED BY <1>1, <1>7, <3>1, <3>2, <3>3 DEF ToSet
  <2>2. ASSUME NEW x \in ToSet(s) PROVE x \in ToSet(r)
    <3>1. PICK j \in 1 .. n : x = s[j]
      BY <1>1 DEF ToSet
    <3>2. CASE j < i
      BY <1>1, <1>7, <1>8, <3>1, <3>2 DEF ToSet
    <3>3. CASE ~ (j < i)
      <4>1. j + 1 \in 1 .. n + 1 /\ ~ (j + 1 < i) /\ j + 1 # i /\ j + 1 - 1 = j
        BY <1>1, <3>1, <3>3
      <4>2. r[j + 1] = x
        BY <1>7, <3>1, <4>1
      <4> QED BY <1>8, <4>1, <4>2 DEF ToSet
    <3> QED BY <3>2, <3>3
  <2>3. i \in 1 .. n + 1 /\ r[i] = e
    BY <1>1, <1>7
  <2>4. e \in ToSet(r)
    BY <1>8, <2>3 DEF ToSet
  <2> QED BY <2>1, <2>2, <2>4
<1>10. ASSUME IsInjective(s), e \notin ToSet(s) PROVE IsInjective(r)
  <2> SUFFICES ASSUME NEW j \in 1 .. n + 1, NEW l \in 1 .. n + 1, r[j] = r[l]
               PROVE  j = l
    BY <1>8 DEF IsInjective
  <2>1. \A x \in 1 .. n : s[x] # e
    BY <1>1, <1>10 DEF ToSet
  <2>2. \A x, y \in 1 .. n : s[x] = s[y] => x = y
    BY <1>1, <1>10 DEF IsInjective
  <2> DEFINE at(x) == IF x < i THEN x ELSE x - 1
  <2>3. \A x \in 1 .. n + 1 : x # i => at(x) \in 1 .. n /\ r[x] = s[at(x)]
    BY <1>1, <1>7
  <2>4. r[i] = e
    BY <1>1, <1>7
  <2>5. j # i <=> l # i
    BY <2>1, <2>3, <2>4
  <2>6. j # i => at(j) = at(l)
    BY <2>2, <2>3, <2>5
  <2> QED BY <1>1, <2>5, <2>6
<1> QED BY <1>1, <1>7, <1>9, <1>10 DEF n, r

\* Every element comes before none that is smaller under p.
Sorted(s, p) == \A i, j \in 1 .. Len(s) : i < j => p[s[i]] <= p[s[j]]

\* There is a place for e behind everything not greater, before everything else.
LEMMA PlaceInSorted ==
    ASSUME NEW S, NEW s \in Seq(S), NEW p \in [S -> Int], NEW e \in S
    PROVE  \E i \in 1 .. Len(s) + 1 :
              /\ i <= Len(s) => p[e] < p[s[i]]
              /\ \A j \in 1 .. i - 1 : p[e] >= p[s[j]]
<1> DEFINE n == Len(s)
           I == {i \in 1 .. n + 1 : i = n + 1 \/ p[e] < p[s[i]]}
<1>1. n \in Nat /\ \A j \in 1 .. n : s[j] \in S
  BY LenProperties, ElementOfSeq
<1> HIDE DEF n
<1>2. I \subseteq Nat /\ n + 1 \in I
  BY <1>1
<1>3. PICK i \in I : \A y \in I : i <= y
  <2> HIDE DEF I
  <2> QED BY <1>2, NatMin
<1>4. ASSUME NEW j \in 1 .. i - 1 PROVE p[e] >= p[s[j]]
  <2>1. j \in 1 .. n /\ ~ (i <= j)
    BY <1>1, <1>3
  <2>2. j \notin I
    BY <1>3, <2>1
  <2>3. ~ (p[e] < p[s[j]])
    BY <1>1, <2>1, <2>2
  <2>4. p[e] \in Int /\ p[s[j]] \in Int
    BY <1>1, <2>1
  <2> QED BY <2>3, <2>4
<1>5. i \in 1 .. n + 1 /\ (i <= n => p[e] < p[s[i]])
  BY <1>1, <1>3
<1> HIDE DEF I
<1> QED BY <1>4, <1>5 DEF n

LEMMA InsertSorted ==
    ASSUME NEW S, NEW s \in Seq(S), NEW p \in [S -> Int], NEW e \in S,
           NEW i \in 1 .. Len(s) + 1, Sorted(s, p),
           i <= Len(s) => p[e] <= p[s[i]],
           \A j \in 1 .. i - 1 : p[e] >= p[s[j]]
    PROVE  Sorted(InsertAt(s, i, e), p)
<1> DEFINE n == Len(s)
           r == InsertAt(s, i, e)
<1>1. /\ n \in Nat /\ Len(r) = n + 1 /\ i \in 1 .. n + 1
      /\ \A j \in 1 .. n + 1 : r[j] = IF j < i THEN s[j] ELSE IF j = i THEN e ELSE s[j - 1]
  BY InsertAtOf
<1>2. /\ \A j \in 1 .. n : s[j] \in S /\ p[s[j]] \in Int
      /\ p[e] \in Int
  BY ElementOfSeq
<1>3. \A j, k \in 1 .. n : j <= k => p[s[j]] <= p[s[k]]
  <2>1. \A j, k \in 1 .. n : j < k => p[s[j]] <= p[s[k]]
    BY DEF Sorted
  <2>2. \A j, k \in 1 .. n : j <= k => j < k \/ j = k
    BY <1>1
  <2>3. \A j \in 1 .. n : p[s[j]] <= p[s[j]]
    BY <1>2
  <2> QED BY <2>1, <2>2, <2>3
<1>4. i <= n => p[e] <= p[s[i]]
  OBVIOUS
<1> HIDE DEF n, r
<1>5. ASSUME NEW j \in 1 .. n + 1, NEW k \in 1 .. n + 1, j < k
      PROVE  p[r[j]] <= p[r[k]]
  <2>1. CASE j < i /\ k < i
    <3>1. j \in 1 .. n /\ k \in 1 .. n /\ j <= k /\ r[j] = s[j] /\ r[k] = s[k]
      BY <1>1, <1>5, <2>1
    <3> QED BY <1>3, <3>1
  <2>2. CASE j < i /\ k = i
    <3>1. j \in 1 .. i - 1 /\ r[j] = s[j] /\ r[k] = e /\ j \in 1 .. n
      BY <1>1, <1>5, <2>2
    <3> QED BY <1>2, <3>1
  <2>3. CASE j < i /\ k > i
    <3>1. j \in 1 .. n /\ k - 1 \in 1 .. n /\ j <= k - 1 /\ r[j] = s[j] /\ r[k] = s[k - 1]
      BY <1>1, <1>5, <2>3
    <3> QED BY <1>3, <3>1
  <2>4. CASE j = i
    <3>1. k - 1 \in 1 .. n /\ i \in 1 .. n /\ i <= k - 1 /\ i <= n /\ r[j] = e /\ r[k] = s[k - 1]
      BY <1>1, <1>5, <2>4
    <3>2. p[e] <= p[s[i]] /\ p[s[i]] <= p[s[k - 1]]
      BY <1>3, <1>4, <3>1
    <3>3. p[e] \in Int /\ p[s[i]] \in Int /\ p[s[k - 1]] \in Int
      BY <1>2, <3>1
    <3> QED BY <3>1, <3>2, <3>3
  <2>5. CASE j > i
    <3>1. /\ j - 1 \in 1 .. n /\ k - 1 \in 1 .. n /\ j - 1 <= k - 1
          /\ r[j] = s[j - 1] /\ r[k] = s[k - 1]
      BY <1>1, <1>5, <2>5
    <3> QED BY <1>3, <3>1
  <2> QED BY <1>1, <1>5, <2>1, <2>2, <2>3, <2>4, <2>5
<1> QED BY <1>1, <1>5 DEF Sorted, r

LEMMA TailSorted ==
    ASSUME NEW S, NEW s \in Seq(S), s # <<>>, NEW p, Sorted(s, p)
    PROVE  Sorted(Tail(s), p)
<1> DEFINE n == Len(s)
           r == Tail(s)
<1>1. /\ n \in Nat \ {0} /\ Len(r) = n - 1
      /\ \A i \in 1 .. n - 1 : r[i] = s[i + 1]
  BY HeadTailProperties, EmptySeq
<1>2. \A i, j \in 1 .. n : i < j => p[s[i]] <= p[s[j]]
  BY DEF Sorted
<1> HIDE DEF n, r
<1>3. ASSUME NEW i \in 1 .. n - 1, NEW j \in 1 .. n - 1, i < j
      PROVE  p[r[i]] <= p[r[j]]
  <2>1. i + 1 \in 1 .. n /\ j + 1 \in 1 .. n /\ i + 1 < j + 1
    BY <1>1, <1>3
  <2> QED BY <1>1, <1>2, <2>1
<1> QED BY <1>1, <1>3 DEF Sorted, r

LEMMA RemoveSorted ==
    ASSUME NEW S, NEW s \in Seq(S), NEW k \in 1 .. Len(s), NEW p, Sorted(s, p)
    PROVE  Sorted(RemoveAt(s, k), p)
<1> DEFINE n == Len(s)
           r == RemoveAt(s, k)
<1>1. /\ n \in Nat /\ Len(r) = n - 1
      /\ \A j \in 1 .. n - 1 : r[j] = IF j < k THEN s[j] ELSE s[j + 1]
  BY RemoveAtElements
<1>2. \A i, j \in 1 .. n : i < j => p[s[i]] <= p[s[j]]
  BY DEF Sorted
<1> DEFINE at(x) == IF x < k THEN x ELSE x + 1
<1>3. k \in 1 .. n
  OBVIOUS
<1> HIDE DEF n, r
<1>4. \A x \in 1 .. n - 1 : at(x) \in 1 .. n /\ r[x] = s[at(x)]
  BY <1>1, <1>3
<1>5. \A x, y \in 1 .. n - 1 : x < y => at(x) < at(y)
  BY <1>1, <1>3
<1> HIDE DEF at
<1>6. \A x, y \in 1 .. n - 1 : x < y => p[r[x]] <= p[r[y]]
  BY <1>2, <1>4, <1>5
<1> QED BY <1>1, <1>6 DEF Sorted, r

\* Beside a list on which calls still wait there are at most n things to fetch
\* for the calls of W, which wait on the list or were woken from it.
Promised(n, list, W) == list # <<>> => n <= Cardinality(W \ ToSet(list))

LEMMA OwedStays ==
    ASSUME NEW n \in Nat, NEW list, NEW W, NEW X, IsFiniteSet(X), W \subseteq X, Promised(n, list, W)
    PROVE  Promised(n, list, X)
<1> DEFINE A == W \ ToSet(list)
           B == X \ ToSet(list)
<1>1. IsFiniteSet(B) /\ A \in SUBSET B
  BY FS_Difference
<1>2. IsFiniteSet(A) /\ Cardinality(A) <= Cardinality(B) /\ Cardinality(A) \in Nat /\ Cardinality(B) \in Nat
  <2> HIDE DEF A, B
  <2>1. IsFiniteSet(A) /\ Cardinality(A) <= Cardinality(B)
    BY <1>1, FS_Subset
  <2> QED BY <1>1, <2>1, FS_CardinalityType
<1>3. list # <<>> => n <= Cardinality(A)
  BY DEF Promised
<1> HIDE DEF A, B
<1>4. list # <<>> => n <= Cardinality(B)
  BY <1>2, <1>3
<1> QED BY <1>4 DEF Promised, B

\* Nothing is left.
LEMMA OwedZero ==
    ASSUME NEW list, NEW W, IsFiniteSet(W)
    PROVE  Promised(0, list, W)
<1>1. IsFiniteSet(W \ ToSet(list))
  BY FS_Difference
<1>2. Cardinality(W \ ToSet(list)) \in Nat
  BY <1>1, FS_CardinalityType
<1> QED BY <1>2 DEF Promised

\* t fetches one, whether it was woken for it or not.
LEMMA OwedSpent ==
    ASSUME NEW n \in Nat \ {0}, NEW list, NEW W, NEW X, NEW t,
           IsFiniteSet(X), W \subseteq X \cup {t}, Promised(n, list, W)
    PROVE  Promised(n - 1, list, X)
<1> DEFINE A == W \ ToSet(list)
           B == X \ ToSet(list)
<1>1. IsFiniteSet(B) /\ A \in SUBSET (B \cup {t})
  BY FS_Difference
<1>2. list # <<>> => n <= Cardinality(A)
  BY DEF Promised
<1> HIDE DEF A, B
<1>3. /\ IsFiniteSet(B \cup {t})
      /\ Cardinality(B \cup {t}) = IF t \in B THEN Cardinality(B) ELSE Cardinality(B) + 1
  BY <1>1, FS_AddElement
<1>4. IsFiniteSet(A) /\ Cardinality(A) <= Cardinality(B \cup {t})
  BY <1>1, <1>3, FS_Subset
<1>5. Cardinality(A) \in Nat /\ Cardinality(B) \in Nat
  BY <1>1, <1>4, FS_CardinalityType
<1>6. list # <<>> => n - 1 <= Cardinality(B)
  BY <1>2, <1>3, <1>4, <1>5
<1> QED BY <1>6 DEF Promised, B

\* One more has come, and the first call of the list is woken for it.
LEMMA OwedPaid ==
    ASSUME NEW S, NEW n \in Nat, NEW list \in Seq(S), list # <<>>, IsInjective(list),
           NEW W, NEW X, IsFiniteSet(X), W \subseteq X, ToSet(list) \subseteq W, Promised(n, list, W)
    PROVE  Promised(n + 1, Tail(list), X)
<1> DEFINE A == W \ ToSet(list)
           B == X \ ToSet(Tail(list))
           h == list[1]
<1>1. ToSet(Tail(list)) = ToSet(list) \ {h} /\ h \in ToSet(list)
  BY TailOf
<1>2. IsFiniteSet(B) /\ A \cup {h} \in SUBSET B /\ h \notin A
  BY <1>1, FS_Difference
<1>3. n <= Cardinality(A)
  BY DEF Promised
<1> HIDE DEF A, B, h
<1>4. IsFiniteSet(A \cup {h}) /\ Cardinality(A \cup {h}) <= Cardinality(B)
  BY <1>2, FS_Subset
<1>5. IsFiniteSet(A)
  BY <1>4, FS_Subset
<1>6. Cardinality(A \cup {h}) = Cardinality(A) + 1
  BY <1>2, <1>5, FS_AddElement
<1>7. Cardinality(A) \in Nat /\ Cardinality(B) \in Nat
  BY <1>2, <1>5, FS_CardinalityType
<1>8. n + 1 <= Cardinality(B)
  BY <1>3, <1>4, <1>6, <1>7
<1> QED BY <1>8 DEF Promised, B

\* A call leaves the list without being woken for anything.
LEMMA OwedLeft ==
    ASSUME NEW S, NEW n \in Nat, NEW list \in Seq(S), IsInjective(list), NEW i \in 1 .. Len(list),
           NEW W, NEW X, IsFiniteSet(X), W \subseteq X \cup {list[i]}, Promised(n, list, W)
    PROVE  Promised(n, RemoveAt(list, i), X)
<1> DEFINE A == W \ ToSet(list)
           B == X \ ToSet(RemoveAt(list, i))
<1>1. ToSet(RemoveAt(list, i)) = ToSet(list) \ {list[i]} /\ list[i] \in ToSet(list) /\ list # <<>>
  <2>1. DOMAIN list = 1 .. Len(list) /\ list # <<>>
    BY LenProperties, EmptySeq
  <2> QED BY <2>1, RemoveAtOf DEF ToSet
<1>2. IsFiniteSet(B) /\ A \in SUBSET B
  BY <1>1, FS_Difference
<1>3. n <= Cardinality(A)
  BY <1>1 DEF Promised
<1> HIDE DEF A, B
<1>4. IsFiniteSet(A) /\ Cardinality(A) <= Cardinality(B)
  BY <1>2, FS_Subset
<1>5. Cardinality(A) \in Nat /\ Cardinality(B) \in Nat
  BY <1>2, <1>4, FS_CardinalityType
<1>6. n <= Cardinality(B)
  BY <1>3, <1>4, <1>5
<1> QED BY <1>6 DEF Promised, B

\* How often e stands in s.
Count(s, e) == Cardinality({i \in DOMAIN s : s[i] = e})

LEMMA CountIs ==
    ASSUME NEW S, NEW s \in Seq(S), NEW e
    PROVE  /\ IsFiniteSet({i \in DOMAIN s : s[i] = e}) /\ Count(s, e) \in Nat
           /\ Count(s, e) > 0 <=> e \in ToSet(s)
<1> DEFINE A == {i \in DOMAIN s : s[i] = e}
<1>1. DOMAIN s = 1 .. Len(s) /\ Len(s) \in Nat
  BY LenProperties
<1>2. IsFiniteSet(A)
  <2>1. IsFiniteSet(1 .. Len(s)) /\ A \in SUBSET (1 .. Len(s))
    BY <1>1, FS_Interval
  <2> QED BY <2>1, FS_Subset
<1>3. A # {} <=> e \in ToSet(s)
  BY DEF ToSet
<1> HIDE DEF A
<1>4. Cardinality(A) \in Nat /\ (Cardinality(A) = 0 <=> A = {})
  BY <1>2, FS_CardinalityType, FS_EmptySet
<1>5. Cardinality(A) > 0 <=> e \in ToSet(s)
  BY <1>3, <1>4
<1> QED BY <1>2, <1>4, <1>5 DEF Count, A

LEMMA CountAppend ==
    ASSUME NEW S, NEW s \in Seq(S), NEW d \in S, NEW e
    PROVE  Count(Append(s, d), e) = IF d = e THEN Count(s, e) + 1 ELSE Count(s, e)
<1> DEFINE n == Len(s)
           r == Append(s, d)
           A == {i \in DOMAIN s : s[i] = e}
           B == {i \in DOMAIN r : r[i] = e}
<1>1. /\ n \in Nat /\ DOMAIN s = 1 .. n /\ DOMAIN r = 1 .. n + 1
      /\ r[n + 1] = d /\ \A i \in 1 .. n : r[i] = s[i]
  BY LenProperties, AppendProperties
<1>2. IsFiniteSet(A)
  BY CountIs
<1> HIDE DEF n, r
<1>3. B = (IF d = e THEN A \cup {n + 1} ELSE A) /\ n + 1 \notin A
  BY <1>1
<1> HIDE DEF A, B
<1>4. Cardinality(B) = IF d = e THEN Cardinality(A) + 1 ELSE Cardinality(A)
  BY <1>2, <1>3, FS_AddElement
<1> QED BY <1>4 DEF A, B, r, Count

LEMMA CountRemove ==
    ASSUME NEW S, NEW s \in Seq(S), NEW k \in 1 .. Len(s), NEW e
    PROVE  Count(RemoveAt(s, k), e) = IF s[k] = e THEN Count(s, e) - 1 ELSE Count(s, e)
<1> DEFINE n == Len(s)
           r == RemoveAt(s, k)
           A == {i \in DOMAIN s : s[i] = e}
           B == {i \in DOMAIN r : r[i] = e}
           at(x) == IF x < k THEN x ELSE x + 1
           f == [x \in B |-> at(x)]
<1>1. /\ n \in Nat /\ DOMAIN s = 1 .. n /\ DOMAIN r = 1 .. n - 1 /\ k \in 1 .. n
      /\ \A j \in 1 .. n - 1 : r[j] = IF j < k THEN s[j] ELSE s[j + 1]
  BY LenProperties, RemoveAtElements
<1>2. IsFiniteSet(A)
  BY CountIs
<1>3. r \in Seq(S)
  BY RemoveAtElements
<1> HIDE DEF n, r
<1>4. IsFiniteSet(B)
  BY <1>3, CountIs
<1>5. \A x \in 1 .. n - 1 : at(x) \in 1 .. n /\ at(x) # k /\ r[x] = s[at(x)]
  BY <1>1
<1>6. \A x, y \in 1 .. n - 1 : x # y => at(x) # at(y)
  BY <1>1
<1>7. \A i \in 1 .. n : i # k => \E x \in 1 .. n - 1 : at(x) = i
  <2> SUFFICES ASSUME NEW i \in 1 .. n, i # k PROVE \E x \in 1 .. n - 1 : at(x) = i
    OBVIOUS
  <2>1. CASE i < k
    <3>1. i \in 1 .. n - 1 /\ at(i) = i
      BY <1>1, <2>1
    <3> QED BY <3>1
  <2>2. CASE i > k
    <3>1. i - 1 \in 1 .. n - 1 /\ at(i - 1) = i
      BY <1>1, <2>2
    <3> QED BY <3>1
  <2> QED BY <1>1, <2>1, <2>2
<1> HIDE DEF at
<1>8. ExistsBijection(B, A \ {k})
  <2>1. f \in [B -> A \ {k}]
    BY <1>1, <1>5
  <2>2. \A x, y \in B : f[x] = f[y] => x = y
    BY <1>1, <1>6
  <2>3. \A i \in A \ {k} : \E x \in B : f[x] = i
    BY <1>1, <1>5, <1>7
  <2> HIDE DEF A, B, f
  <2>4. f \in Bijection(B, A \ {k})
    BY <2>1, <2>2, <2>3 DEF Bijection, Injection, Surjection, IsInjective
  <2> QED BY <2>4 DEF ExistsBijection
<1>9. k \in A <=> s[k] = e
  BY <1>1
<1> HIDE DEF A, B
<1>10. Cardinality(A \ {k}) = Cardinality(B)
  BY <1>4, <1>8, FS_Bijection
<1>11. Cardinality(A \ {k}) = IF k \in A THEN Cardinality(A) - 1 ELSE Cardinality(A)
  BY <1>2, FS_RemoveElement
<1> QED BY <1>9, <1>10, <1>11 DEF A, B, r, Count

\* Whatever stands in s has a last place there.
LEMMA LastPlace ==
    ASSUME NEW S, NEW s \in Seq(S), NEW e \in ToSet(s)
    PROVE  \E i \in DOMAIN s : s[i] = e /\ \A j \in i + 1 .. Len(s) : s[j] # e
<1> DEFINE n == Len(s)
           K == {k \in 0 .. n - 1 : s[n - k] = e}
<1>1. n \in Nat /\ DOMAIN s = 1 .. n
  BY LenProperties
<1>2. PICK i \in DOMAIN s : s[i] = e
  BY DEF ToSet
<1> HIDE DEF n
<1>3. n - i \in K
  <2>1. n - i \in 0 .. n - 1 /\ n - (n - i) = i
    BY <1>1
  <2> QED BY <1>2, <2>1
<1>4. PICK k \in K : \A l \in K : k <= l
  <2>1. K \subseteq Nat /\ K # {}
    BY <1>1, <1>3
  <2> HIDE DEF K
  <2> QED BY <2>1, NatMin
<1>5. n - k \in 1 .. n /\ s[n - k] = e
  BY <1>1
<1>6. ASSUME NEW j \in (n - k) + 1 .. n PROVE s[j] # e
  <2>1. j \in 1 .. n /\ n - j \in 0 .. n - 1 /\ n - (n - j) = j /\ n - j < k
    BY <1>1, <1>5
  <2>2. n - j \notin K
    BY <1>4, <2>1
  <2> QED BY <2>1, <2>2
<1> QED BY <1>1, <1>5, <1>6 DEF n

\* a stands somewhere before b.
Ahead(s, a, b) == \E i, j \in 1 .. Len(s) : i < j /\ s[i] = a /\ s[j] = b

LEMMA AheadTail ==
    ASSUME NEW S, NEW s \in Seq(S), s # <<>>
    PROVE  /\ \A a, b : Ahead(Tail(s), a, b) => Ahead(s, a, b)
           /\ \A b \in ToSet(Tail(s)) : Ahead(s, s[1], b)
<1> DEFINE n == Len(s)
           r == Tail(s)
<1>1. /\ n \in Nat \ {0} /\ Len(r) = n - 1 /\ DOMAIN r = 1 .. n - 1
      /\ \A i \in 1 .. n - 1 : r[i] = s[i + 1]
  BY HeadTailProperties, EmptySeq, LenProperties
<1> HIDE DEF n, r
<1>2. \A i \in 1 .. n - 1 : i + 1 \in 1 .. n /\ 1 \in 1 .. n /\ 1 < i + 1
  BY <1>1
<1>3. ASSUME NEW a, NEW b, Ahead(r, a, b) PROVE Ahead(s, a, b)
  <2>1. PICK i \in 1 .. n - 1, j \in 1 .. n - 1 : i < j /\ r[i] = a /\ r[j] = b
    BY <1>1, <1>3 DEF Ahead
  <2>2. i + 1 < j + 1 /\ s[i + 1] = a /\ s[j + 1] = b
    BY <1>1, <2>1
  <2> QED BY <1>2, <2>2 DEF Ahead, n
<1>4. ASSUME NEW b \in ToSet(r) PROVE Ahead(s, s[1], b)
  <2>1. PICK j \in 1 .. n - 1 : r[j] = b
    BY <1>1 DEF ToSet
  <2>2. s[j + 1] = b
    BY <1>1, <2>1
  <2> QED BY <1>2, <2>2 DEF Ahead, n
<1> QED BY <1>3, <1>4 DEF r

LEMMA AheadRemove ==
    ASSUME NEW S, NEW s \in Seq(S), NEW k \in 1 .. Len(s), NEW a, NEW b, Ahead(RemoveAt(s, k), a, b)
    PROVE  Ahead(s, a, b)
<1> DEFINE n == Len(s)
           r == RemoveAt(s, k)
           at(x) == IF x < k THEN x ELSE x + 1
<1>1. /\ n \in Nat /\ k \in 1 .. n /\ Len(r) = n - 1
      /\ \A j \in 1 .. n - 1 : r[j] = IF j < k THEN s[j] ELSE s[j + 1]
  BY RemoveAtElements
<1> HIDE DEF n, r
<1>2. PICK i \in 1 .. n - 1, j \in 1 .. n - 1 : i < j /\ r[i] = a /\ r[j] = b
  BY <1>1 DEF Ahead, r
<1>3. /\ at(i) \in 1 .. n /\ at(j) \in 1 .. n /\ at(i) < at(j)
      /\ s[at(i)] = a /\ s[at(j)] = b
  BY <1>1, <1>2
<1> HIDE DEF at
<1> QED BY <1>3 DEF Ahead, n

LEMMA AheadInsert ==
    ASSUME NEW S, NEW s \in Seq(S), NEW e \in S, NEW k \in 1 .. Len(s) + 1,
           NEW a, NEW b, Ahead(InsertAt(s, k, e), a, b)
    PROVE  \/ Ahead(s, a, b)
           \/ a = e /\ \E j \in 1 .. Len(s) : k <= j /\ b = s[j]
           \/ b = e /\ \E j \in 1 .. k - 1 : a = s[j]
<1> DEFINE n == Len(s)
           r == InsertAt(s, k, e)
<1>1. /\ n \in Nat /\ k \in 1 .. n + 1 /\ Len(r) = n + 1
      /\ \A j \in 1 .. n + 1 : r[j] = IF j < k THEN s[j] ELSE IF j = k THEN e ELSE s[j - 1]
  BY InsertAtOf
<1> HIDE DEF n, r
<1>2. PICK i \in 1 .. n + 1, j \in 1 .. n + 1 : i < j /\ r[i] = a /\ r[j] = b
  BY <1>1 DEF Ahead, r
<1>3. CASE i = k
  <2>1. a = e /\ j - 1 \in 1 .. n /\ k <= j - 1 /\ b = s[j - 1]
    BY <1>1, <1>2, <1>3
  <2> QED BY <2>1 DEF n
<1>4. CASE j = k
  <2>1. b = e /\ i \in 1 .. k - 1 /\ a = s[i]
    BY <1>1, <1>2, <1>4
  <2> QED BY <2>1
<1>5. CASE i # k /\ j # k
  <2> DEFINE at(x) == IF x < k THEN x ELSE x - 1
  <2>1. /\ at(i) \in 1 .. n /\ at(j) \in 1 .. n /\ at(i) < at(j)
        /\ s[at(i)] = a /\ s[at(j)] = b
    BY <1>1, <1>2, <1>5
  <2> HIDE DEF at
  <2> QED BY <2>1 DEF Ahead, n
<1> QED BY <1>3, <1>4, <1>5
=============================================================================
