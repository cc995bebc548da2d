----------------------------- MODULE LoopProofs -----------------------------
(***************************************************************************)
(* Induction for the other proofs: over the iterations of a loop, and over *)
(* what a recursive function computes.  A claim is given as the set of the *)
(* numbers it holds of, the body of a loop as a function.                  *)
(***************************************************************************)
EXTENDS Integers, WellFoundedInduction, TLAPS

USE Zenon

\* A set of naturals that is not empty has a least element.
LEMMA LeastNatural ==
  ASSUME NEW T \in SUBSET Nat, T # {}
  PROVE  \E x \in T : \A y \in T : x <= y
  <1> DEFINE R == {xy \in Nat \X Nat : xy[1] < xy[2]}
  <1>1. IsWellFoundedOn(R, Nat)
    BY NatLessThanWellFounded DEF OpToRel
  <1>2. PICK x \in T : \A y \in T : ~(<<y, x>> \in R)
    <2> HIDE DEF R
    <2>1. QED
      BY <1>1, WFMin
  <1>3. \A y \in Nat : y < x => <<y, x>> \in R
    OBVIOUS
  <1>4. \A y \in T : ~(y < x)
    <2> HIDE DEF R
    <2>1. QED
      BY <1>2, <1>3
  <1>5. QED
    BY SMT, <1>4

\* Induction over the iterations of a loop from a to b: G holds those after
\* which what is claimed holds.
LEMMA LoopInduction ==
  ASSUME NEW a \in Nat, NEW b \in Nat, NEW G, a \in G,
         \A k \in a .. b - 1 : k \in G => k + 1 \in G
  PROVE  \A k \in a .. b : k \in G
  <1> DEFINE T == {k \in a .. b : k \notin G}
  <1>1. SUFFICES ASSUME T # {} PROVE FALSE
    OBVIOUS
  <1>2. PICK x \in T : \A y \in T : x <= y
    <2>1. T \in SUBSET Nat
      BY SMT
    <2> HIDE DEF T
    <2>2. QED
      BY <1>1, <2>1, LeastNatural
  <1>3. x # a /\ x \in a .. b
    BY <1>2
  <1>4. x - 1 \in a .. b - 1 /\ x - 1 \notin T
    BY SMT, <1>2, <1>3
  <1>5. QED
    BY SMT, <1>2, <1>4

-----------------------------------------------------------------------------
(* Loops.                                                                  *)

\* f[a], ..., f[b] are the states of a loop from a to b whose body is the
\* function g of the index and the state.
Runs(f, g, m, a, b) == f[a] = m /\ \A k \in a .. b - 1 : f[k + 1] = g[k][f[k]]

\* Such a loop has such states.
LEMMA Iteration ==
  ASSUME NEW S, NEW m \in S, NEW a \in Nat, NEW b \in Nat, a <= b,
         NEW g \in [a .. b - 1 -> [S -> S]]
  PROVE  \E f \in [a .. b -> S] : Runs(f, g, m, a, b)
  <1> DEFINE G == {n \in a .. b : \E f \in [a .. n -> S] : Runs(f, g, m, a, n)}
  <1>1. a \in G
    <2> DEFINE f == [k \in a .. a |-> m]
    <2>1. f \in [a .. a -> S] /\ Runs(f, g, m, a, a)
      BY SMT DEF Runs
    <2> HIDE DEF f
    <2>2. QED
      BY SMT, <2>1
  <1>2. ASSUME NEW n \in a .. b - 1, n \in G PROVE n + 1 \in G
    <2>1. PICK f \in [a .. n -> S] : Runs(f, g, m, a, n)
      BY <1>2
    <2> DEFINE h == [k \in a .. n + 1 |-> IF k = n + 1 THEN g[n][f[n]] ELSE f[k]]
    <2>2. g[n][f[n]] \in S
      BY SMT
    <2>3. h \in [a .. n + 1 -> S]
      BY SMT, <2>2
    <2>4. h[a] = f[a] /\ h[n] = f[n] /\ h[n + 1] = g[n][f[n]]
      BY SMT
    <2>5. \A k \in a .. n - 1 : h[k + 1] = g[k][h[k]]
      BY SMT, <2>1 DEF Runs
    <2>6. Runs(h, g, m, a, n + 1)
      <3> HIDE DEF h
      <3>1. QED
        BY SMT, <2>1, <2>4, <2>5 DEF Runs
    <2>7. QED
      <3> HIDE DEF h
      <3>1. QED
        BY SMT, <2>3, <2>6
  <1>3. b \in G
    <2> HIDE DEF G
    <2>1. \A k \in a .. b : k \in G
      BY <1>1, <1>2, LoopInduction
    <2>2. QED
      BY SMT, <2>1
  <1>4. QED
    BY <1>3

\* The recursive definition of For.
Unrolls(h, g, m, a, b) == h = [va \in a .. b |-> IF va = a THEN m ELSE g[va - 1][h[va - 1]]]

\* It is satisfied by some function.
LEMMA Unrolled ==
  ASSUME NEW S, NEW m \in S, NEW a \in Nat, NEW b \in Nat, a <= b,
         NEW g \in [a .. b - 1 -> [S -> S]]
  PROVE  \E h \in [a .. b -> S] : Unrolls(h, g, m, a, b)
  <1>1. PICK h \in [a .. b -> S] : Runs(h, g, m, a, b)
    BY Iteration
  <1>2. ASSUME NEW va \in a .. b, va # a PROVE h[va] = g[va - 1][h[va - 1]]
    <2>1. va - 1 \in a .. b - 1 /\ (va - 1) + 1 = va
      BY SMT, <1>2
    <2>2. h[(va - 1) + 1] = g[va - 1][h[va - 1]]
      BY <1>1, <2>1 DEF Runs
    <2>3. QED
      BY <2>1, <2>2
  <1>3. Unrolls(h, g, m, a, b)
    BY <1>1, <1>2 DEF Runs, Unrolls
  <1>4. QED
    BY <1>3

\* The states stay in a set that the body does not leave.
LEMMA StaysIn ==
  ASSUME NEW S, NEW a \in Nat, NEW b \in Nat, a <= b, NEW f,
         f[a] \in S, \A k \in a .. b - 1 : f[k] \in S => f[k + 1] \in S
  PROVE  \A k \in a .. b : f[k] \in S
  <1> DEFINE G == {k \in a .. b : f[k] \in S}
  <1>1. a \in G /\ \A k \in a .. b - 1 : k \in G => k + 1 \in G
    BY SMT
  <1>2. \A k \in a .. b : k \in G
    <2> HIDE DEF G
    <2>1. QED
      BY <1>1, LoopInduction
  <1>3. QED
    BY <1>2
=============================================================================
