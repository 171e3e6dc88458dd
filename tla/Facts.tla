------------------------------- MODULE Facts --------------------------------
(***************************************************************************)
(* Facts the proofs of several components rest on: the least-number        *)
(* principle and induction as statements about sets, remainders, and sums  *)
(* over finite sets counted as cardinalities.                              *)
(***************************************************************************)
EXTENDS Integers, FiniteSets, FiniteSetTheorems, WellFoundedInduction, TLAPS

-----------------------------------------------------------------------------
(* Induction.                                                               *)

\* A set of naturals that is not empty has a least element: the intervals below
\* its elements are finite sets, and those are well-founded by inclusion.
LEMMA LeastNat ==
    ASSUME NEW T, T \subseteq Nat, T # {}
    PROVE  \E x \in T : \A y \in T : x <= y
  <1> DEFINE Below == {0 .. k : k \in T}
  <1>1. Below \subseteq FiniteSubsetsOf(Nat) /\ Below # {}
    <2>1. ASSUME NEW k \in T PROVE 0 .. k \in SUBSET Nat /\ IsFiniteSet(0 .. k)
      BY FS_Interval
    <2> QED
      BY <2>1 DEF FiniteSubsetsOf
  <1>2. PICK d \in Below : \A e \in Below : <<e, d>> \notin StrictSubsetOrdering(Nat)
    <2> HIDE DEF Below
    <2> QED
      BY <1>1, FS_StrictSubsetOrderingWellFounded, WFMin
  <1>3. PICK x \in T : d = 0 .. x
    OBVIOUS
  <1>4. ASSUME NEW y \in T, y < x PROVE FALSE
    <2>1. /\ 0 .. y \subseteq 0 .. x /\ x \in 0 .. x /\ x \notin 0 .. y
          /\ 0 .. x \in SUBSET Nat /\ 0 .. y \in SUBSET Nat
      BY <1>4
    <2>2. <<0 .. y, 0 .. x>> \in StrictSubsetOrdering(Nat)
      BY <2>1 DEF StrictSubsetOrdering
    <2> QED
      BY <1>2, <1>3, <2>2
  <1> QED
    BY <1>4

\* Induction: a set that has zero and every successor of its numbers has them all.
LEMMA SetInduction ==
    ASSUME NEW S, 0 \in S, \A n \in Nat : n \in S => n + 1 \in S
    PROVE  Nat \subseteq S
  <1> DEFINE T == {n \in Nat : n \notin S}
  <1>1. SUFFICES ASSUME T # {} PROVE FALSE
    OBVIOUS
  <1>2. PICK x \in T : \A y \in T : x <= y
    BY <1>1, LeastNat
  <1>3. x # 0 /\ x - 1 \in Nat /\ x - 1 \notin T
    BY <1>2
  <1> QED
    BY <1>2, <1>3

\* Induction over the subsets of a finite set: a set that is in G when all the sets
\* with one element less are.
LEMMA SubsetInduction ==
    ASSUME NEW S, IsFiniteSet(S), NEW G,
           \A T \in SUBSET S : (\A x \in T : T \ {x} \in G) => T \in G
    PROVE  SUBSET S \subseteq G
  <1> DEFINE Bad == {T \in SUBSET S : T \notin G}
  <1>1. SUFFICES ASSUME Bad # {} PROVE FALSE
    OBVIOUS
  <1>2. Bad \subseteq FiniteSubsetsOf(S)
    BY FS_FiniteSubsetsOfFinite
  <1>3. PICK d \in Bad : \A e \in Bad : <<e, d>> \notin StrictSubsetOrdering(S)
    <2> HIDE DEF Bad
    <2> QED
      BY <1>1, <1>2, FS_StrictSubsetOrderingWellFounded, WFMin
  <1>4. ASSUME NEW x \in d PROVE d \ {x} \in G
    <2>1. <<d \ {x}, d>> \in StrictSubsetOrdering(S)
      BY <1>3, <1>4 DEF StrictSubsetOrdering
    <2> QED
      BY <1>3, <2>1
  <1> QED
    BY <1>3, <1>4

-----------------------------------------------------------------------------
(* Remainders.                                                              *)

LEMMA DivMod ==
    ASSUME NEW m \in Int, m > 0, NEW x \in Int
    PROVE  x = m * (x \div m) + (x % m)
  OBVIOUS

LEMMA DivModType ==
    ASSUME NEW m \in Int, m > 0, NEW x \in Int
    PROVE  x \div m \in Int /\ x % m \in Int /\ 0 <= x % m /\ x % m < m
  <1>1. x \div m \in Int
    OBVIOUS
  <1>2. x % m \in Int
    OBVIOUS
  <1>3. 0 <= x % m
    OBVIOUS
  <1>4. x % m < m
    OBVIOUS
  <1> QED
    BY <1>1, <1>2, <1>3, <1>4

LEMMA ModOf ==
    ASSUME NEW m \in Int, m > 0, NEW q \in Int, NEW r \in 0 .. m - 1
    PROVE  (m * q + r) % m = r
  OBVIOUS

LEMMA ModOfMultiple ==
    ASSUME NEW m \in Int, m > 0, NEW q \in Int
    PROVE  (m * q) % m = 0
  OBVIOUS

\* Multiples of m are closed under sum and difference, and m apart at the least.
LEMMA MultiplesSum ==
    ASSUME NEW m \in Int, m > 0, NEW x \in Int, NEW y \in Int, x % m = 0, y % m = 0
    PROVE  (x + y) % m = 0 /\ (x - y) % m = 0
  <1> DEFINE p == x \div m
             q == y \div m
  <1>1. p \in Int /\ q \in Int /\ x = m * p /\ y = m * q
    BY DivMod, DivModType
  <1> HIDE DEF p, q
  <1>2. x + y = m * (p + q) /\ x - y = m * (p - q) /\ p + q \in Int /\ p - q \in Int
    BY <1>1
  <1> QED
    BY <1>2, ModOfMultiple

LEMMA MultiplesApart ==
    ASSUME NEW m \in Int, m > 0, NEW x \in Int, x % m = 0, x > 0
    PROVE  x >= m
  <1> DEFINE p == x \div m
  <1>1. p \in Int /\ x = m * p
    BY DivMod, DivModType
  <1> HIDE DEF p
  <1>2. p > 0
    BY <1>1
  <1> QED
    BY <1>1, <1>2

\* x % m for an x at most one turn away.
LEMMA ModTurn ==
    ASSUME NEW m \in Nat, m > 0, NEW x \in Int
    PROVE  /\ x % m \in 0 .. m - 1
           /\ 0 <= x /\ x < m => x % m = x
           /\ 0 - m <= x /\ x < 0 => x % m = x + m
           /\ m <= x /\ x < 2 * m => x % m = x - m
  OBVIOUS

\* A whole turn more changes nothing.
LEMMA ModAgain ==
    ASSUME NEW m \in Nat, m > 0, NEW x \in Int, 0 - m <= x, x < m
    PROVE  (x + m) % m = x % m
  <1>1. CASE x < 0
    <2>1. x % m = x + m /\ (x + m) % m = x + m
      BY <1>1, ModTurn
    <2> QED
      BY <2>1
  <1>2. CASE x >= 0
    <2>1. x % m = x /\ (x + m) % m = x + m - m
      BY <1>2, ModTurn
    <2> QED
      BY <2>1
  <1> QED
    BY <1>1, <1>2

\* Remainders of the next number.
LEMMA ModNext ==
    ASSUME NEW m \in Nat, m > 0, NEW x \in Nat, x < 2 * m - 1
    PROVE  ((x % m) + 1) % m = (x + 1) % m
  <1>1. CASE x < m
    BY <1>1, ModTurn
  <1>2. CASE x >= m
    <2>1. x % m = x - m
      BY <1>2, ModTurn
    <2>2. x - m + 1 < m /\ x - m + 1 >= 0 /\ x + 1 < 2 * m /\ x + 1 >= m
      BY <1>2
    <2>3. (x - m + 1) % m = x - m + 1 /\ (x + 1) % m = x + 1 - m
      BY <2>2, ModTurn
    <2> QED
      BY <2>1, <2>3
  <1> QED
    BY <1>1, <1>2

\* Two places of the ring less than a turn apart are different.
LEMMA ModApart ==
    ASSUME NEW m \in Nat, m > 0, NEW x \in 0 .. m - 1, NEW i \in 0 .. m - 1, NEW j \in 0 .. m - 1,
           (x + i) % m = (x + j) % m
    PROVE  i = j
  <1>1. /\ x + i < m => (x + i) % m = x + i
        /\ x + i >= m => (x + i) % m = x + i - m
    BY ModTurn
  <1>2. /\ x + j < m => (x + j) % m = x + j
        /\ x + j >= m => (x + j) % m = x + j - m
    BY ModTurn
  <1> QED
    BY <1>1, <1>2
=============================================================================
