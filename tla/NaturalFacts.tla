---------------------------- MODULE NaturalFacts ----------------------------
(***************************************************************************)
(* What the proofs of several components need of the natural numbers.      *)
(***************************************************************************)
EXTENDS Naturals, FiniteSets, FiniteSetTheorems, TLAPS

\* A set of numbers that is not empty has a least one.
LEMMA LeastExists ==
  ASSUME NEW T, T # {}, T \subseteq Nat
  PROVE  \E i \in T : \A j \in T : i <= j
<1> DEFINE Below(n) == 0..(n - 1)
           F == {Below(n) : n \in T}
<1>1. F \subseteq FiniteSubsetsOf(Nat)
  <2> SUFFICES ASSUME NEW n \in T PROVE Below(n) \in FiniteSubsetsOf(Nat)
    OBVIOUS
  <2>1. n - 1 \in Int /\ Below(n) \subseteq Nat
    OBVIOUS
  <2>2. IsFiniteSet(Below(n))
    BY <2>1, FS_Interval
  <2> HIDE DEF Below
  <2> QED
    BY <2>1, <2>2 DEF FiniteSubsetsOf
<1>2. F # {}
  OBVIOUS
<1>3. PICK x \in F : \A y \in F : <<y, x>> \notin StrictSubsetOrdering(Nat)
  <2> HIDE DEF F
  <2> QED
    BY <1>1, <1>2, FS_StrictSubsetOrderingWellFounded, WFMin
<1>4. PICK i \in T : x = Below(i)
  BY <1>3
<1>5. ASSUME NEW j \in T, j < i PROVE FALSE
  <2>1. Below(j) \subseteq Below(i) /\ Below(j) # Below(i)
    <3>1. j \in Below(i) /\ j \notin Below(j)
      BY <1>5
    <3> QED
      BY <1>5, <3>1
  <2>2. Below(j) \in F /\ Below(j) \in SUBSET Nat /\ Below(i) \in SUBSET Nat
    BY <1>1 DEF FiniteSubsetsOf
  <2> HIDE DEF Below, F
  <2>3. <<Below(j), Below(i)>> \in StrictSubsetOrdering(Nat)
    BY <2>1, <2>2 DEF StrictSubsetOrdering
  <2> QED
    BY <1>3, <1>4, <2>2, <2>3
<1> QED
  BY <1>5

=============================================================================
