---------------------------- MODULE DataLemmas -----------------------------
(* Lemmas about data that the proofs of several components rest on. What is *)
(* true of every number, interval or finite set is shown for the least one  *)
(* for which it would not be: sums over a finite set as FiniteSetsExt       *)
(* defines them, and what lies between the ends of an interval.             *)
EXTENDS Integers, FiniteSetsExt, FiniteSetTheorems, WellFoundedInduction, TLAPS

\* A set of natural numbers has a least element.
LEMMA LeastNat ==
  ASSUME NEW S \in SUBSET Nat, S # {}
  PROVE  \E m \in S : \A n \in S : m <= n
<1> DEFINE R == {ss \in Nat \X Nat : ss[1] < ss[2]}
<1>1. IsWellFoundedOn(R, Nat)
  BY NatLessThanWellFounded DEF OpToRel
<1>2. PICK m \in S : \A n \in S : ~(<<n, m>> \in R)
  BY <1>1, WFMin
<1>3. ASSUME NEW n \in S PROVE m <= n
  <2>1. ~(<<n, m>> \in R) /\ m \in Nat /\ n \in Nat
    BY <1>2
  <2>2. ~(n < m)
    BY <2>1
  <2> QED BY <2>1, <2>2
<1> QED BY <1>3

\* A bounded one has a greatest element, which is its Max.
LEMMA MaxOfBounded ==
  ASSUME NEW n \in Nat, NEW S \in SUBSET (0..n), S # {}
  PROVE  Max(S) \in S /\ \A x \in S : x <= Max(S)
<1> DEFINE Below == {n - x : x \in S}
<1>1. Below \in SUBSET Nat /\ Below # {}
  <2>1. \A x \in S : n - x \in Nat
    OBVIOUS
  <2> QED BY <2>1
<1>2. PICK m \in Below : \A k \in Below : m <= k
  <2> HIDE DEF Below
  <2> QED BY <1>1, LeastNat
<1>3. PICK y \in S : m = n - y
  BY <1>2
<1>4. ASSUME NEW x \in S PROVE y >= x
  <2>1. m <= n - x
    BY <1>2
  <2>2. x \in 0..n /\ y \in 0..n
    OBVIOUS
  <2> HIDE DEF Below
  <2> QED BY <1>3, <2>1, <2>2
<1>5. Max(S) \in S /\ \A x \in S : Max(S) >= x
  BY <1>4 DEF Max
<1> QED BY <1>5

-----------------------------------------------------------------------------
(* Sums over a finite set                                                  *)

\* The element of a set that the sum adds next.
OneOf(s) == CHOOSE x \in s : TRUE

\* g is the sum of v over the subsets of S.
SumsUp(g, S, v) ==
  g = [s \in SUBSET S |-> IF s = {} THEN 0 ELSE v[OneOf(s)] + g[s \ {OneOf(s)}]]

\* ... over those of at most n elements.
SumsUpTo(g, n, S, v) ==
  \A s \in SUBSET S : Cardinality(s) <= n =>
    g[s] = IF s = {} THEN 0 ELSE v[OneOf(s)] + g[s \ {OneOf(s)}]

\* One element less.
LEMMA SmallerSet ==
  ASSUME NEW S, IsFiniteSet(S), NEW s \in SUBSET S, s # {}
  PROVE  /\ OneOf(s) \in s /\ s \ {OneOf(s)} \in SUBSET S
         /\ Cardinality(s) \in Nat /\ Cardinality(s) >= 1
         /\ Cardinality(s \ {OneOf(s)}) = Cardinality(s) - 1
<1>1. OneOf(s) \in s
  BY DEF OneOf
<1>2. IsFiniteSet(s)
  BY FS_Subset
<1>3. Cardinality(s \ {OneOf(s)}) = Cardinality(s) - 1 /\ Cardinality(s) \in Nat
  BY <1>1, <1>2, FS_RemoveElement, FS_CardinalityType
<1>4. Cardinality(s) # 0
  BY <1>2, FS_EmptySet
<1> QED BY <1>1, <1>3, <1>4

\* There is a function that sums up the subsets.
LEMMA SumExists ==
  ASSUME NEW S, IsFiniteSet(S), NEW v
  PROVE  \E g : SumsUp(g, S, v)
<1> DEFINE Bad == {n \in Nat : ~\E g : SumsUpTo(g, n, S, v)}
<1>1. Bad = {}
  <2> SUFFICES ASSUME Bad # {} PROVE FALSE
    OBVIOUS
  <2>1. PICK m \in Bad : \A n \in Bad : m <= n
    BY LeastNat
  <2>2. CASE m = 0
    <3> DEFINE g == [s \in SUBSET S |-> 0]
    <3>1. ASSUME NEW s \in SUBSET S, Cardinality(s) <= 0 PROVE s = {}
      BY <3>1, FS_Subset, FS_EmptySet, FS_CardinalityType
    <3>2. SumsUpTo(g, 0, S, v)
      BY <3>1 DEF SumsUpTo
    <3> QED BY <2>1, <2>2, <3>2
  <2>3. CASE m # 0
    <3>1. m - 1 \in Nat /\ m - 1 \notin Bad
      BY <2>1, <2>3
    <3>2. PICK h : SumsUpTo(h, m - 1, S, v)
      BY <3>1
    <3> DEFINE g == [s \in SUBSET S |->
                       IF Cardinality(s) <= m - 1 THEN h[s]
                       ELSE v[OneOf(s)] + h[s \ {OneOf(s)}]]
    <3>3. ASSUME NEW s \in SUBSET S, Cardinality(s) <= m
          PROVE  g[s] = IF s = {} THEN 0 ELSE v[OneOf(s)] + g[s \ {OneOf(s)}]
      <4>1. CASE s = {}
        <5>1. Cardinality(s) <= m - 1
          BY <3>1, <4>1, FS_EmptySet
        <5> QED BY <3>2, <4>1, <5>1 DEF SumsUpTo
      <4>2. CASE s # {}
        <5> DEFINE t == s \ {OneOf(s)}
        <5>1. /\ t \in SUBSET S /\ Cardinality(s) \in Nat
              /\ Cardinality(t) = Cardinality(s) - 1
          BY <4>2, SmallerSet
        <5>2. m \in Nat /\ Cardinality(t) <= m - 1
          BY <2>1, <3>3, <5>1
        <5>3. g[t] = h[t]
          BY <5>1, <5>2
        <5>4. Cardinality(s) <= m - 1 => h[s] = v[OneOf(s)] + h[t]
          BY <3>2, <4>2 DEF SumsUpTo
        <5>5. g[s] = v[OneOf(s)] + h[t]
          BY <5>4
        <5> QED BY <4>2, <5>3, <5>5
      <4> QED BY <4>1, <4>2
    <3>4. SumsUpTo(g, m, S, v)
      BY <3>3 DEF SumsUpTo
    <3> QED BY <2>1, <3>4
  <2> QED BY <2>2, <2>3
<1>2. Cardinality(S) \in Nat
  BY FS_CardinalityType
<1>3. PICK h : SumsUpTo(h, Cardinality(S), S, v)
  BY <1>1, <1>2
<1> DEFINE g == [s \in SUBSET S |-> h[s]]
<1>4. ASSUME NEW s \in SUBSET S
      PROVE  g[s] = IF s = {} THEN 0 ELSE v[OneOf(s)] + g[s \ {OneOf(s)}]
  <2>1. Cardinality(s) <= Cardinality(S)
    BY FS_Subset
  <2>2. h[s] = IF s = {} THEN 0 ELSE v[OneOf(s)] + h[s \ {OneOf(s)}]
    BY <1>3, <2>1 DEF SumsUpTo
  <2>3. s \ {OneOf(s)} \in SUBSET S
    OBVIOUS
  <2> QED BY <2>2, <2>3
<1>5. SumsUp(g, S, v)
  BY <1>4 DEF SumsUp
<1> QED BY <1>5

\* Between the smallest and the largest summand, once for each element.
LEMMA SumBounded ==
  ASSUME NEW S, IsFiniteSet(S), NEW v, NEW g, SumsUp(g, S, v),
         NEW lo \in Int, NEW hi \in Int, \A x \in S : v[x] \in lo..hi,
         NEW T \in SUBSET S
  PROVE  g[T] \in Cardinality(T) * lo..Cardinality(T) * hi
<1> DEFINE Fine(s) == g[s] \in Cardinality(s) * lo..Cardinality(s) * hi
           Bad == {Cardinality(s) : s \in {t \in SUBSET S : ~Fine(t)}}
<1>1. ASSUME NEW s \in SUBSET S PROVE Cardinality(s) \in Nat
  BY FS_Subset, FS_CardinalityType
<1>2. Bad = {}
  <2> SUFFICES ASSUME Bad # {} PROVE FALSE
    OBVIOUS
  <2>1. PICK m \in Bad : \A n \in Bad : m <= n
    <3>1. Bad \in SUBSET Nat
      BY <1>1
    <3> HIDE DEF Bad
    <3> QED BY <3>1, LeastNat
  <2>2. PICK s \in SUBSET S : ~Fine(s) /\ m = Cardinality(s)
    BY <2>1
  <2>3. s # {}
    <3> SUFFICES ASSUME s = {} PROVE FALSE
      OBVIOUS
    <3>1. g[s] = 0 /\ Cardinality(s) = 0
      BY FS_EmptySet DEF SumsUp
    <3> QED BY <2>2, <3>1
  <2> DEFINE t == s \ {OneOf(s)}
             n == Cardinality(t)
  <2>4. /\ OneOf(s) \in s /\ t \in SUBSET S /\ n \in Nat
        /\ Cardinality(s) = n + 1
    <3>1. /\ OneOf(s) \in s /\ t \in SUBSET S /\ Cardinality(s) \in Nat
          /\ n = Cardinality(s) - 1
      BY <2>3, SmallerSet
    <3>2. n \in Nat
      BY <1>1, <3>1
    <3> HIDE DEF n
    <3> QED BY <3>1, <3>2
  <2>5. Fine(t)
    <3>1. ~(m <= Cardinality(t)) 
      BY <2>2, <2>4
    <3> QED BY <2>1, <2>4, <3>1
  <2>6. g[s] = v[OneOf(s)] + g[t]
    BY <2>3 DEF SumsUp
  <2>7. v[OneOf(s)] \in lo..hi
    BY <2>4
  <2>8. (n + 1) * lo = n * lo + lo /\ (n + 1) * hi = n * hi + hi
    BY <2>4
  <2>9. n * lo \in Int /\ n * hi \in Int
    BY <2>4
  <2>10. g[t] \in n * lo..n * hi
    BY <2>5
  <2> HIDE DEF n, t
  <2>11. v[OneOf(s)] + g[t] \in n * lo + lo..n * hi + hi
    BY <2>7, <2>9, <2>10
  <2>12. Fine(s)
    BY <2>4, <2>6, <2>8, <2>11
  <2> QED BY <2>2, <2>12
<1> QED BY <1>2

\* So is the average of n numbers whose sum is within n times the bounds.
LEMMA AverageBounded ==
  ASSUME NEW n \in Nat, n > 0, NEW sum \in Int, NEW lo \in Int, NEW hi \in Int,
         sum \in n * lo..n * hi
  PROVE  sum \div n \in lo..hi
OBVIOUS
=============================================================================
