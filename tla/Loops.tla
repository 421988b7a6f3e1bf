-------------------------------- MODULE Loops ---------------------------------
(***************************************************************************)
(* Lemmas about what loops compute: induction over 0..n, and functions     *)
(* defined by recursion over 0..n.                                         *)
(***************************************************************************)
EXTENDS Integers, WellFoundedInduction, TLAPS

(* A set of natural numbers that is not empty has a least one.             *)
LEMMA Least ==
  ASSUME NEW T, T \subseteq Nat, T # {}
  PROVE  \E x \in T : \A y \in T : x <= y
<1> DEFINE R == {ss \in Nat \X Nat : ss[1] < ss[2]}
<1>1. R = OpToRel(<, Nat)
  BY DEF OpToRel
<1>2. IsWellFoundedOn(R, Nat)
  BY ONLY <1>1, NatLessThanWellFounded
<1> HIDE DEF R
<1>3. PICK x \in T : \A y \in T : ~ (<<y, x>> \in R)
  BY <1>2, WFMin
<1>4. ASSUME NEW y \in T, ~ (x <= y) PROVE FALSE
  <2>1. x \in Nat /\ y \in Nat /\ y < x
    BY <1>4
  <2>2. <<y, x>> \in R
    BY <2>1 DEF R
  <2> QED BY <2>2, <1>3
<1> QED BY <1>4

(* Induction: what holds before the first turn of a loop, and after a turn *)
(* if before it, holds after each.                                         *)
LEMMA EachTurn ==
  ASSUME NEW n \in Nat, NEW T, 0 \in T, \A i \in 1..n : i - 1 \in T => i \in T
  PROVE  \A i \in 0..n : i \in T
<1> SUFFICES ASSUME NEW i \in 0..n, i \notin T PROVE FALSE
  OBVIOUS
<1> DEFINE Bad == {j \in 0..n : j \notin T}
<1>1. Bad \subseteq Nat /\ Bad # {}
  OBVIOUS
<1>2. PICK x \in Bad : \A y \in Bad : x <= y
  BY <1>1, Least
<1>3. x \in 1..n /\ x - 1 \in 0..n /\ ~ (x <= x - 1)
  BY <1>2
<1>4. x - 1 \in T
  BY <1>2, <1>3
<1> QED BY <1>2, <1>3, <1>4

(* f are the values of a loop after each of its n turns.                   *)
IsLoop(f, n, S, d, G) ==
  f \in [0..n -> S] /\ f[0] = d /\ \A i \in 1..n : f[i] = G[<<i, f[i - 1]>>]

(* A loop that starts with d and whose turn i makes G[i, x] of x: there    *)
(* are the values it has after each turn.                                  *)
LEMMA LoopExists ==
  ASSUME NEW n \in Nat, NEW S, NEW d \in S, NEW G \in [(1..n) \X S -> S]
  PROVE  \E f : IsLoop(f, n, S, d, G)
<1> DEFINE Is(f, k) == f[0] = d /\ \A i \in 1..k : f[i] = G[<<i, f[i - 1]>>]
           T == {k \in 0..n : \E f \in [0..k -> S] : Is(f, k)}
<1>1. 0 \in T
  <2> DEFINE f == [i \in 0..0 |-> d]
  <2>1. f \in [0..0 -> S] /\ Is(f, 0)
    OBVIOUS
  <2> HIDE DEF f, Is
  <2> QED BY <2>1
<1>2. ASSUME NEW k \in 1..n, k - 1 \in T PROVE k \in T
  <2>1. PICK f \in [0..k - 1 -> S] : Is(f, k - 1)
    BY <1>2
  <2> DEFINE g == [i \in 0..k |-> IF i = k THEN G[<<k, f[k - 1]>>] ELSE f[i]]
  <2>2. f[k - 1] \in S /\ G[<<k, f[k - 1]>>] \in S
    OBVIOUS
  <2>3. g \in [0..k -> S]
    BY <2>2
  <2>4. Is(g, k)
    <3>1. g[0] = d
      BY <2>1
    <3>2. ASSUME NEW i \in 1..k PROVE g[i] = G[<<i, g[i - 1]>>]
      <4>1. CASE i = k
        <5>1. g[i] = G[<<k, f[k - 1]>>] /\ g[i - 1] = f[k - 1]
          BY <4>1
        <5> QED BY <5>1, <4>1
      <4>2. CASE i # k
        <5>1. i \in 1..k - 1 /\ i - 1 \in 0..k - 1 /\ i - 1 # k
          BY <4>2
        <5>2. g[i] = f[i] /\ g[i - 1] = f[i - 1]
          BY <5>1, <4>2
        <5> QED BY <5>1, <5>2, <2>1
      <4> QED BY <4>1, <4>2
    <3> HIDE DEF g
    <3> QED BY <3>1, <3>2
  <2> HIDE DEF g, Is
  <2> QED BY <2>3, <2>4
<1>3. n \in T
  <2> HIDE DEF T
  <2>1. \A i \in 0..n : i \in T
    BY <1>1, <1>2, EachTurn
  <2> QED BY <2>1
<1> QED BY <1>3 DEF IsLoop

=============================================================================
