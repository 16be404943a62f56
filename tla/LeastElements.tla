--------------------------- MODULE LeastElements ---------------------------
(***************************************************************************)
(* Least and greatest elements of sets of naturals, for the proofs about   *)
(* numbered events and changes.                                            *)
(***************************************************************************)
EXTENDS Integers, FiniteSets, FiniteSetTheorems, WellFoundedInduction, TLAPS

\* A non-empty set of naturals has a least element: the sets 1..x shrink with x, and finite sets
\* do not shrink for ever.
LEMMA LeastNatural ==
    ASSUME NEW T \in SUBSET Nat, T # {}
    PROVE  \E x \in T : \A y \in T : x <= y
<1> DEFINE Up(x) == 1..x
           Ups == {Up(x) : x \in T}
           R == StrictSubsetOrdering(Nat)
<1>1. IsWellFoundedOn(R, FiniteSubsetsOf(Nat))
  BY FS_StrictSubsetOrderingWellFounded
<1>2. Ups # {}
  OBVIOUS
<1>3. Ups \subseteq FiniteSubsetsOf(Nat)
  BY FS_Interval DEF FiniteSubsetsOf
<1>4. \E S \in Ups : \A U \in Ups : <<U, S>> \notin R
  <2> HIDE DEF Ups, R
  <2> QED BY <1>1, <1>2, <1>3, WFMin
<1>5. PICK x \in T : \A y \in T : <<Up(y), Up(x)>> \notin R
  BY <1>4
<1>6. ASSUME NEW y \in T, y < x PROVE FALSE
  <2>1. Up(y) \subseteq Up(x)
    BY <1>6
  <2>2. x \in Up(x) /\ x \notin Up(y)
    BY <1>6
  <2>3. <<Up(y), Up(x)>> \in R
    BY <2>1, <2>2 DEF StrictSubsetOrdering
  <2> QED BY <2>3, <1>5
<1> QED BY <1>6

\* A bounded one has a greatest element: its least upper bound.
LEMMA GreatestNatural ==
    ASSUME NEW T \in SUBSET Nat, T # {}, NEW bound \in Nat, \A n \in T : n <= bound
    PROVE  \E m \in T : \A n \in T : n <= m
<1> DEFINE Upper == {u \in Nat : \A n \in T : n <= u}
<1>1. PICK u \in Upper : \A v \in Upper : u <= v
  BY LeastNatural
<1>2. CASE u \in T
  BY <1>1, <1>2
<1>3. CASE u \notin T
  <2>1. \A n \in T : n <= u - 1
    BY <1>1, <1>3
  <2>2. u - 1 \in Nat
    <3>1. PICK n \in T : TRUE
      OBVIOUS
    <3>2. n \in Nat /\ u \in Nat /\ n <= u - 1
      BY <1>1, <2>1
    <3> QED BY <3>2
  <2>3. u - 1 \in Upper
    BY <2>1, <2>2
  <2> QED BY <1>1, <2>3
<1> QED BY <1>2, <1>3

=============================================================================
