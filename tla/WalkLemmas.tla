------------------------------- MODULE WalkLemmas -------------------------------
(***************************************************************************)
(* A walk along a linked list visits one tasklet after the other, each     *)
(* found from the one before.  These lemmas tell where it goes: induction  *)
(* along the walk, and how long a list without repetition can be.          *)
(***************************************************************************)
EXTENDS Integers, FiniteSets, FiniteSetTheorems, WellFoundedInduction, TLAPS

LEMMA LeastNumber ==
    ASSUME NEW S \in SUBSET Nat, S # {}
    PROVE  \E n \in S : \A m \in S : n <= m
<1>. DEFINE R == OpToRel(<, Nat)
<1>1. IsWellFoundedOn(R, Nat)
  BY NatLessThanWellFounded
<1>2. ASSUME NEW x \in Nat, NEW y \in Nat, y < x PROVE <<y, x>> \in R
  BY <1>2 DEF OpToRel
<1>. HIDE DEF R
<1>3. PICK x \in S : \A y \in S : ~(<<y, x>> \in R)
  BY <1>1, WFMin
<1>4. ASSUME NEW m \in S PROVE x <= m
  <2>1. ~(m < x)
    BY <1>2, <1>3
  <2>. QED
    BY <2>1
<1>. QED
  BY <1>4

(* Two walks that start at the same place, and go on alike from any place,  *)
(* are the same.                                                            *)
GoAlike(a, N, f, g) ==
    /\ a <= N => f[a] = g[a]
    /\ \A n \in (a + 1)..N : f[n-1] = g[n-1] => f[n] = g[n]

LEMMA SameWalk ==
    ASSUME NEW a \in Nat, NEW N \in Nat, NEW f, NEW g, GoAlike(a, N, f, g)
    PROVE  \A n \in a..N : f[n] = g[n]
<1>. DEFINE S == {n \in a..N : f[n] # g[n]}
<1>1. SUFFICES ASSUME S # {} PROVE FALSE
  OBVIOUS
<1>2. PICK n \in S : \A m \in S : n <= m
  <2>1. S \in SUBSET Nat
    OBVIOUS
  <2>. HIDE DEF S
  <2>. QED
    BY <1>1, <2>1, LeastNumber
<1>3. n # a /\ n \in (a + 1)..N
  BY DEF GoAlike
<1>4. f[n-1] = g[n-1]
  <2>1. n - 1 \in a..N /\ ~(n <= n - 1)
    BY <1>3
  <2>. QED
    BY <1>2, <2>1
<1>. QED
  BY <1>3, <1>4 DEF GoAlike

(* f visits T between m and n, and nothing twice. *)
Visits(m, n, f, T) ==
    /\ \A i \in m..n : f[i] \in T
    /\ \A i, j \in m..n : f[i] = f[j] => i = j

LEMMA NoRepetition ==
    ASSUME NEW T, IsFiniteSet(T), NEW m \in Int, NEW n \in Int, NEW f, Visits(m, n, f, T)
    PROVE  n - m + 1 <= Cardinality(T) /\ Cardinality(T) \in Nat
<1>. DEFINE h == [i \in m..n |-> f[i]]
<1>1. h \in Injection(m..n, T)
  BY DEF Injection, IsInjective, Visits
<1>2. IsFiniteSet(m..n) /\ Cardinality(m..n) <= Cardinality(T) /\ Cardinality(T) \in Nat
  BY <1>1, FS_Injection, FS_CardinalityType
<1>3. Cardinality(m..n) = IF m > n THEN 0 ELSE n - m + 1
  BY FS_Interval
<1>. QED
  BY <1>2, <1>3

LEMMA IntervalSize ==
    ASSUME NEW n \in Nat
    PROVE  Cardinality(1..n) = n
<1>1. Cardinality(1..n) = IF 1 > n THEN 0 ELSE n - 1 + 1
  BY FS_Interval
<1>. QED
  BY <1>1
================================================================================
