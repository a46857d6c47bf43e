----------------------------- MODULE Inductions -----------------------------
(***************************************************************************)
(* Induction over the natural numbers with a set in the place of the       *)
(* property, and what follows from it: recursive functions over an         *)
(* interval are what their definitions say.                                *)
(***************************************************************************)
EXTENDS Integers, WellFoundedInduction, TLAPS

(* A set with zero that has the successor of each of its numbers has all.  *)
LEMMA SetInduction ==
    ASSUME NEW S, 0 \in S, \A n \in Nat : n \in S => n + 1 \in S
    PROVE  Nat \subseteq S
<1> SUFFICES ASSUME Nat \ S # {} PROVE FALSE
  OBVIOUS
<1> DEFINE R == OpToRel(<, Nat)
<1>1. IsWellFoundedOn(R, Nat)
  BY NatLessThanWellFounded
<1>2. PICK x \in Nat \ S : \A y \in Nat \ S : <<y, x>> \notin R
  <2> HIDE DEF R
  <2> QED BY <1>1, WFMin
<1>3. x - 1 \in Nat /\ x - 1 + 1 = x
  OBVIOUS
<1>4. x - 1 \notin S
  BY <1>3
<1>5. <<x - 1, x>> \in R
  BY <1>3 DEF OpToRel
<1> QED
  BY <1>2, <1>3, <1>4, <1>5

(* What holds of the value for zero, and of each value if it does of the   *)
(* one before, holds of all values.                                        *)
LEMMA AlongInterval ==
    ASSUME NEW T, NEW n \in Nat, NEW f, f[0] \in T,
           \A i \in 1 .. n : f[i - 1] \in T => f[i] \in T
    PROVE  \A i \in 0 .. n : f[i] \in T
<1> DEFINE S == {k \in Nat : k <= n => f[k] \in T}
<1>1. 0 \in S
  OBVIOUS
<1>2. ASSUME NEW k \in Nat, k \in S PROVE k + 1 \in S
  <2> SUFFICES ASSUME k + 1 <= n PROVE f[k + 1] \in T
    OBVIOUS
  <2>1. f[k] \in T /\ k + 1 \in 1 .. n /\ (k + 1) - 1 = k
    BY <1>2
  <2> QED
    BY <2>1
<1>3. Nat \subseteq S
  <2> HIDE DEF S
  <2> QED
    BY <1>1, <1>2, SetInduction
<1> QED
  BY <1>3

(* A value for zero and a step make a function over each interval.         *)
StepOver(n, T) == [(1 .. n) \X T -> T]
Iterates(f, n, T, b, G) ==
    f \in [0 .. n -> T] /\ f[0] = b /\ \A i \in 1 .. n : f[i] = G[<<i, f[i - 1]>>]

LEMMA Recursion ==
    ASSUME NEW T, NEW b \in T, NEW n \in Nat, NEW G \in StepOver(n, T)
    PROVE  \E f : Iterates(f, n, T, b, G)
<1> USE DEF StepOver, Iterates
<1> DEFINE Starts(k, f) == f[0] = b /\ \A i \in 1 .. k : f[i] = G[<<i, f[i - 1]>>]
           S == {k \in Nat : k <= n => \E f \in [0 .. k -> T] : Starts(k, f)}
<1>1. 0 \in S
  <2>1. [i \in 0 .. 0 |-> b] \in [0 .. 0 -> T] /\ Starts(0, [i \in 0 .. 0 |-> b])
    OBVIOUS
  <2> QED
    BY <2>1
<1>2. ASSUME NEW k \in Nat, k \in S PROVE k + 1 \in S
  <2> SUFFICES ASSUME k + 1 <= n PROVE \E f \in [0 .. k + 1 -> T] : Starts(k + 1, f)
    OBVIOUS
  <2>1. PICK f \in [0 .. k -> T] : Starts(k, f)
    BY <1>2
  <2> DEFINE g == [i \in 0 .. k + 1 |-> IF i <= k THEN f[i] ELSE G[<<k + 1, f[k]>>]]
  <2>2. f[k] \in T /\ <<k + 1, f[k]>> \in (1 .. n) \X T
    OBVIOUS
  <2>3. g \in [0 .. k + 1 -> T]
    BY <2>2
  <2>4. g[0] = b
    BY <2>1
  <2>5. ASSUME NEW i \in 1 .. k + 1 PROVE g[i] = G[<<i, g[i - 1]>>]
    <3>1. CASE i <= k
      <4>1. i \in 1 .. k /\ i - 1 \in 0 .. k /\ i \in 0 .. k + 1 /\ i - 1 \in 0 .. k + 1
        BY <3>1
      <4>2. g[i] = f[i] /\ g[i - 1] = f[i - 1]
        BY <4>1
      <4> QED
        BY <2>1, <4>1, <4>2
    <3>2. CASE i = k + 1
      <4>1. i - 1 = k /\ k \in 0 .. k + 1 /\ k + 1 \in 0 .. k + 1 /\ ~(k + 1 <= k)
        BY <3>2
      <4>2. g[k] = f[k] /\ g[k + 1] = G[<<k + 1, f[k]>>]
        BY <4>1
      <4> HIDE DEF g
      <4> QED
        BY <3>2, <4>1, <4>2
    <3> QED
      BY <3>1, <3>2
  <2> QED
    BY <2>3, <2>4, <2>5
<1>3. n \in S
  <2> HIDE DEF S
  <2> QED
    BY <1>1, <1>2, SetInduction
<1> QED
  BY <1>3

(* And over all numbers.                                                   *)
StepOf(T) == [(Nat \ {0}) \X T -> T]
Unfolds(f, T, b, G) ==
    f \in [Nat -> T] /\ f[0] = b /\ \A i \in Nat \ {0} : f[i] = G[<<i, f[i - 1]>>]

LEMMA EndlessRecursion ==
    ASSUME NEW T, NEW b \in T, NEW G \in StepOf(T)
    PROVE  \E f : Unfolds(f, T, b, G)
<1> DEFINE Starts(k, f) == /\ f \in [0 .. k -> T] /\ f[0] = b
                           /\ \A i \in 1 .. k : f[i] = G[<<i, f[i - 1]>>]
           Start(k) == CHOOSE f : Starts(k, f)
           whole == [k \in Nat |-> Start(k)[k]]
<1> USE DEF StepOf
<1>1. ASSUME NEW k \in Nat PROVE Starts(k, Start(k))
  <2> DEFINE H == [x \in (1 .. k) \X T |-> G[x]]
  <2>1. H \in StepOver(k, T)
    BY DEF StepOver
  <2>2. PICK f : Iterates(f, k, T, b, H)
    <3> HIDE DEF H
    <3> QED
      BY <2>1, Recursion
  <2>3. \A i \in 1 .. k : f[i] = G[<<i, f[i - 1]>>]
    <3> TAKE i \in 1 .. k
    <3>1. i - 1 \in 0 .. k
      OBVIOUS
    <3>2. <<i, f[i - 1]>> \in (1 .. k) \X T
      BY <2>2, <3>1 DEF Iterates
    <3> QED
      BY <2>2, <3>2 DEF Iterates
  <2>4. Starts(k, f)
    BY <2>2, <2>3 DEF Iterates
  <2> HIDE DEF Starts
  <2> QED
    BY <2>4
<1>2. ASSUME NEW k \in Nat, NEW m \in Nat, NEW f, NEW g, Starts(k, f), Starts(m, g)
      PROVE  \A i \in Nat : i <= k /\ i <= m => f[i] = g[i]
  <2> DEFINE S == {i \in Nat : i <= k /\ i <= m => f[i] = g[i]}
  <2>1. 0 \in S
    BY <1>2
  <2>2. ASSUME NEW i \in Nat, i \in S PROVE i + 1 \in S
    <3> SUFFICES ASSUME i + 1 <= k, i + 1 <= m PROVE f[i + 1] = g[i + 1]
      OBVIOUS
    <3>1. i + 1 \in 1 .. k /\ i + 1 \in 1 .. m /\ (i + 1) - 1 = i /\ f[i] = g[i]
      BY <2>2
    <3> QED
      BY <1>2, <3>1
  <2>3. Nat \subseteq S
    <3> HIDE DEF S
    <3> QED
      BY <2>1, <2>2, SetInduction
  <2> QED
    BY <2>3
<1> HIDE DEF Start
<1>3. whole \in [Nat -> T]
  <2>1. \A k \in Nat : Start(k)[k] \in T
    BY <1>1
  <2> QED
    BY <2>1
<1>4. whole[0] = b
  BY <1>1
<1>5. ASSUME NEW i \in Nat \ {0} PROVE whole[i] = G[<<i, whole[i - 1]>>]
  <2>1. i \in Nat /\ i - 1 \in Nat /\ i \in 1 .. i /\ i - 1 <= i /\ i - 1 <= i - 1
    OBVIOUS
  <2>2. Start(i)[i - 1] = Start(i - 1)[i - 1]
    <3>1. Starts(i, Start(i)) /\ Starts(i - 1, Start(i - 1))
      BY <1>1, <2>1
    <3> HIDE DEF Starts
    <3> QED
      BY <1>2, <2>1, <3>1
  <2>3. Start(i)[i] = G[<<i, Start(i)[i - 1]>>]
    BY <1>1, <2>1
  <2> QED
    BY <2>1, <2>2, <2>3
<1> HIDE DEF whole
<1> QED
  BY <1>3, <1>4, <1>5 DEF Unfolds

(* A set of numbers with a bound has a greatest one.                       *)
LEMMA Greatest ==
    ASSUME NEW S \in SUBSET Nat, S # {}, NEW n \in Nat, \A k \in S : k <= n
    PROVE  \E m \in S : \A k \in S : k <= m
<1> DEFINE R == OpToRel(<, Nat)
           T == {j \in Nat : n - j \in S}
<1>1. IsWellFoundedOn(R, Nat)
  BY NatLessThanWellFounded
<1>2. T # {} /\ T \subseteq Nat
  <2>1. PICK k \in S : TRUE
    OBVIOUS
  <2>2. n - k \in Nat /\ n - (n - k) = k
    BY <2>1
  <2> QED
    BY <2>1, <2>2
<1>3. PICK j \in T : \A i \in T : <<i, j>> \notin R
  <2> HIDE DEF R, T
  <2> QED
    BY <1>1, <1>2, WFMin
<1>4. ASSUME NEW k \in S PROVE k <= n - j
  <2>1. n - k \in T
    <3>1. n - k \in Nat /\ n - (n - k) = k
      OBVIOUS
    <3> QED
      BY <3>1
  <2>2. ~(n - k < j)
    <3>1. <<n - k, j>> \notin R
      BY <1>3, <2>1
    <3> QED
      BY <2>1, <3>1 DEF OpToRel
  <2> QED
    BY <2>1, <2>2
<1> QED
  BY <1>4
=============================================================================
