------------------------------ MODULE Induction ------------------------------
(***************************************************************************)
(* Induction over the natural numbers and recursive functions on them, in  *)
(* terms of sets: what is to hold of every number is a set of numbers, and *)
(* a recursive definition is a function iterated from a first value.       *)
(***************************************************************************)
EXTENDS FiniteSetTheorems, WellFoundedInduction, TLAPS


(* A set of numbers that is not empty has a least one.                     *)
LEMMA LeastNumber ==
  ASSUME NEW S \in SUBSET Nat, S # {}
  PROVE  \E n \in S : \A k \in S : n <= k
<1> DEFINE T == {0 .. n : n \in S}
<1>1. IsWellFoundedOn(StrictSubsetOrdering(Nat), FiniteSubsetsOf(Nat))
  BY FS_StrictSubsetOrderingWellFounded
<1>2. T \subseteq FiniteSubsetsOf(Nat)
  <2>1. \A n \in S : 0 .. n \in SUBSET Nat OBVIOUS
  <2>2. \A n \in S : IsFiniteSet(0 .. n) BY FS_Interval
  <2> QED BY <2>1, <2>2 DEF FiniteSubsetsOf
<1>3. T # {} OBVIOUS
<1> HIDE DEF T
<1>6. \E x \in T : \A y \in T : <<y, x>> \notin StrictSubsetOrdering(Nat)
  BY <1>1, <1>2, <1>3, WFMin
<1>4. PICK n \in S : \A k \in S : <<0 .. k, 0 .. n>> \notin StrictSubsetOrdering(Nat)
  BY <1>6 DEF T
<1>5. ASSUME NEW k \in S, k < n PROVE FALSE
  <2>1. 0 .. k \subseteq 0 .. n BY <1>5
  <2>2. n \in 0 .. n /\ n \notin 0 .. k BY <1>5
  <2>3. <<0 .. k, 0 .. n>> \in StrictSubsetOrdering(Nat)
    BY <2>1, <2>2 DEF StrictSubsetOrdering
  <2> QED BY <2>3, <1>4
<1> QED BY <1>5

(* A set that holds 0 and with each number its successor holds them all.   *)
LEMMA NumberInduction ==
  ASSUME NEW S, 0 \in S, \A n \in Nat : n \in S => n + 1 \in S
  PROVE  Nat \subseteq S
<1> SUFFICES ASSUME Nat \ S # {} PROVE FALSE
  OBVIOUS
<1>1. PICK n \in Nat \ S : \A k \in Nat \ S : n <= k BY LeastNumber
<1>2. n - 1 \in Nat /\ n - 1 \notin Nat \ S BY <1>1
<1> QED BY <1>1, <1>2

(* An induction that ends at a bound.                                      *)
LEMMA InductionUpTo ==
  ASSUME NEW m \in Nat, NEW S, 0 \in S, \A n \in 0 .. m - 1 : n \in S => n + 1 \in S
  PROVE  0 .. m \subseteq S
<1> DEFINE T == S \cup {n \in Nat : n > m}
<1>1. 0 \in T OBVIOUS
<1>2. \A n \in Nat : n \in T => n + 1 \in T OBVIOUS
<1> HIDE DEF T
<1>3. Nat \subseteq T BY <1>1, <1>2, NumberInduction
<1> QED BY <1>3 DEF T


(* A value at 0 and a next value for every value make a function on the    *)
(* numbers up to any bound.                                                *)
Iterates(f, a, F, m) == f[0] = a /\ \A n \in 1 .. m : f[n] = F[f[n - 1]]

LEMMA StepwiseUpTo ==
  ASSUME NEW X, NEW a \in X, NEW F \in [X -> X], NEW m \in Nat
  PROVE  \E f \in [0 .. m -> X] : Iterates(f, a, F, m)
<1> DEFINE Goes(f, k) == f \in [0 .. k -> X] /\ f[0] = a /\ \A n \in 1 .. k : f[n] = F[f[n - 1]]
           S == {k \in Nat : \E f : Goes(f, k)}
<1>1. 0 \in S
  <2>1. Goes([n \in 0 .. 0 |-> a], 0) OBVIOUS
  <2> QED BY <2>1
<1>2. ASSUME NEW k \in Nat, k \in S PROVE k + 1 \in S
  <2>1. PICK f : Goes(f, k) BY <1>2
  <2> DEFINE g == [n \in 0 .. k + 1 |-> IF n <= k THEN f[n] ELSE F[f[k]]]
  <2>2. f[k] \in X /\ F[f[k]] \in X BY <2>1
  <2>3. g \in [0 .. k + 1 -> X] BY <2>1, <2>2
  <2>4. g[0] = a BY <2>1
  <2>5. ASSUME NEW n \in 1 .. k + 1 PROVE g[n] = F[g[n - 1]]
    <3>1. CASE n <= k
      <4>1. n \in 1 .. k /\ n - 1 \in 0 .. k + 1 /\ n - 1 <= k BY <3>1
      <4>2. g[n] = f[n] /\ g[n - 1] = f[n - 1] BY <4>1
      <4> QED BY <2>1, <4>1, <4>2
    <3>2. CASE n = k + 1
      <4>1. n - 1 = k /\ g[n] = F[f[k]] /\ g[k] = f[k] BY <3>2
      <4> QED BY <4>1
    <3> QED BY <3>1, <3>2
  <2>6. Goes(g, k + 1) BY <2>3, <2>4, <2>5
  <2> HIDE DEF Goes, g
  <2> QED BY <2>6
<1> HIDE DEF S
<1>3. m \in S BY <1>1, <1>2, NumberInduction
<1> QED BY <1>3 DEF S, Goes, Iterates

=============================================================================
