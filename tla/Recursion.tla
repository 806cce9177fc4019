----------------------------- MODULE Recursion -----------------------------
(***************************************************************************)
(* Induction and recursion on the naturals, in forms the provers can use.  *)
(* The library states both with an operator as a parameter, which none of  *)
(* the backends can instantiate; here the parameter is a set (the set of   *)
(* the numbers a property holds of) or a function (the steps).  The        *)
(* counters of the reports of raccoon-cli (Report), the imports an import  *)
(* chain reaches (ArchGuard) and the merge of two results (Gate) are       *)
(* recursive functions over a prefix, and RaccoonProofs unfolds them with  *)
(* the lemmas of this module.                                              *)
(***************************************************************************)
EXTENDS Integers, WellFoundedInduction, TLAPS

(* A relation that is well founded on U has a minimal element in every     *)
(* non-empty subset of U.                                                  *)
LEMMA MinimalOf ==
  ASSUME NEW R, NEW U, IsWellFoundedOn(R, U), NEW S, S \subseteq U, S # {}
  PROVE  \E n \in S : \A m \in S : ~ (<<m, n>> \in R)
BY WFMin

(* A non-empty set of naturals has a least element.                        *)
LEMMA LeastOf ==
  ASSUME NEW S, S \subseteq Nat, S # {}
  PROVE  \E n \in S : \A m \in S : n <= m
<1> DEFINE Less == OpToRel(<, Nat)
<1>1. IsWellFoundedOn(Less, Nat)
  BY NatLessThanWellFounded
<1>2. \A m, n \in Nat : m < n => <<m, n>> \in Less
  BY DEF OpToRel
<1> HIDE DEF Less
<1>3. \E n \in S : \A m \in S : ~ (<<m, n>> \in Less)
  BY <1>1, MinimalOf
<1>4. PICK n \in S : \A m \in S : ~ (<<m, n>> \in Less)
  BY <1>3
<1>5. ASSUME NEW m \in S PROVE n <= m
  <2>1. n \in Nat /\ m \in Nat
    OBVIOUS
  <2>2. ~ (m < n)
    BY <1>2, <1>4, <2>1
  <2>3. QED
    BY <2>1, <2>2
<1>6. QED
  BY <1>5

(* A set that holds 0 and the successor of each of its members holds       *)
(* every natural.                                                          *)
LEMMA SetInduction ==
  ASSUME NEW S, 0 \in S, \A n \in Nat : n \in S => n + 1 \in S
  PROVE  Nat \subseteq S
<1> SUFFICES ASSUME Nat \ S # {} PROVE FALSE
  OBVIOUS
<1>1. PICK n \in Nat \ S : \A m \in Nat \ S : n <= m
  BY LeastOf, Nat \ S \subseteq Nat
<1>2. n # 0 /\ n - 1 \in Nat
  BY <1>1
<1>3. n - 1 \in S
  BY <1>1, <1>2
<1>4. QED
  BY <1>1, <1>2, <1>3

\* The function g is defined by recursion from base with the steps F.
Recursive(g, base, F) ==
  /\ g[0] = base
  /\ \A n \in Nat \ {0} : g[n] = F[n][g[n - 1]]

(* A function defined by recursion on Nat satisfies its recursion equation. *)
LEMMA RecursionExists ==
  ASSUME NEW A, NEW base \in A, NEW F \in [Nat -> [A -> A]]
  PROVE  \E g \in [Nat -> A] : Recursive(g, base, F)
<1> DEFINE Good(n, h) == /\ h \in [0..n -> A]
                         /\ h[0] = base
                         /\ \A i \in 1..n : h[i] = F[i][h[i - 1]]
           S == {n \in Nat : \E h \in [0..n -> A] : Good(n, h)}
           H == [n \in Nat |-> CHOOSE h \in [0..n -> A] : Good(n, h)]
           g == [n \in Nat |-> H[n][n]]
<1>1. 0 \in S
  <2>1. Good(0, [i \in 0..0 |-> base])
    OBVIOUS
  <2>2. QED
    BY <2>1
<1>2. ASSUME NEW n \in Nat, n \in S PROVE n + 1 \in S
  <2>1. PICK h \in [0..n -> A] : Good(n, h)
    BY <1>2
  <2> DEFINE k == [i \in 0..(n + 1) |-> IF i = n + 1 THEN F[n + 1][h[n]] ELSE h[i]]
  <2>2. k \in [0..(n + 1) -> A]
    <3>1. F[n + 1][h[n]] \in A
      BY <2>1
    <3>2. QED
      BY <2>1, <3>1
  <2>3. k[0] = base
    BY <2>1
  <2>4. ASSUME NEW i \in 1..(n + 1) PROVE k[i] = F[i][k[i - 1]]
    <3>1. CASE i = n + 1
      BY <3>1
    <3>2. CASE i # n + 1
      <4>1. i \in 1..n /\ i - 1 \in 0..n /\ i \in 0..n
        BY <3>2
      <4>2. k[i] = h[i] /\ k[i - 1] = h[i - 1]
        BY <4>1
      <4>3. QED
        BY <4>1, <4>2, <2>1
    <3>3. QED
      BY <3>1, <3>2
  <2>5. Good(n + 1, k)
    BY <2>2, <2>3, <2>4
  <2> HIDE DEF k, Good
  <2>6. \E j \in [0..(n + 1) -> A] : Good(n + 1, j)
    BY <2>2, <2>5
  <2>7. QED
    BY <2>6
<1>3. Nat \subseteq S
  <2> HIDE DEF S
  <2>1. QED
    BY <1>1, <1>2, SetInduction
<1>4. \A n \in Nat : Good(n, H[n])
  <2> TAKE n \in Nat
  <2>1. \E h \in [0..n -> A] : Good(n, h)
    BY <1>3
  <2> HIDE DEF Good
  <2>2. H[n] = CHOOSE h \in [0..n -> A] : Good(n, h)
    OBVIOUS
  <2>3. QED
    BY <2>1, <2>2
<1> HIDE DEF H
<1>5. ASSUME NEW n \in Nat
      PROVE  \A i \in 0..n : H[n + 1][i] = H[n][i]
  <2> DEFINE T == {i \in Nat : i <= n => H[n + 1][i] = H[n][i]}
  <2>1. 0 \in T
    BY <1>4
  <2>2. ASSUME NEW i \in Nat, i \in T PROVE i + 1 \in T
    <3>1. CASE i + 1 <= n
      <4>1. i + 1 \in 1..n /\ i + 1 \in 1..(n + 1) /\ (i + 1) - 1 = i
        BY <3>1
      <4>2. H[n][i + 1] = F[i + 1][H[n][i]]
        BY <4>1, <1>4
      <4>3. H[n + 1][i + 1] = F[i + 1][H[n + 1][i]]
        BY <4>1, <1>4
      <4>4. QED
        BY <4>2, <4>3, <2>2, <3>1
    <3>2. CASE ~ (i + 1 <= n)
      BY <3>2
    <3>3. QED
      BY <3>1, <3>2
  <2>3. Nat \subseteq T
    <3> HIDE DEF T
    <3>1. QED
      BY <2>1, <2>2, SetInduction
  <2>4. QED
    BY <2>3
<1>6. \A n \in Nat : g[n] = IF n = 0 THEN base ELSE F[n][g[n - 1]]
  <2> TAKE n \in Nat
  <2>1. CASE n = 0
    BY <2>1, <1>4
  <2>2. CASE n # 0
    <3>1. n - 1 \in Nat /\ n \in 1..n /\ n - 1 \in 0..(n - 1) /\ (n - 1) + 1 = n
      BY <2>2
    <3>2. H[n][n] = F[n][H[n][n - 1]]
      BY <3>1, <1>4
    <3>3. H[n][n - 1] = H[n - 1][n - 1]
      BY <3>1, <1>5
    <3>4. QED
      BY <2>2, <3>1, <3>2, <3>3
  <2>3. QED
    BY <2>1, <2>2
<1>7. g \in [Nat -> A]
  <2> SUFFICES ASSUME NEW n \in Nat
               PROVE  H[n][n] \in A
    OBVIOUS
  <2>1. QED
    BY <1>4
<1>8. QED
  BY <1>6, <1>7 DEF Recursive

=============================================================================
