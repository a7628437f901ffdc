----------------------------- MODULE LeastNumber ------------------------------
(* A set of natural numbers has a least element. *)
EXTENDS Naturals, FiniteSetTheorems, TLAPS

\* The initial intervals of its members are finite sets, among which one has no
\* proper subset.
LEMMA LeastNatural ==
    ASSUME NEW T \in SUBSET Nat, T # {}
    PROVE  \E x \in T : \A y \in T : x <= y
<1> DEFINE D == {0..x : x \in T}
<1>1. D \subseteq FiniteSubsetsOf(Nat)
    <2>1. \A x \in T : IsFiniteSet(0..x) /\ 0..x \in SUBSET Nat
        BY FS_Interval
    <2> QED
        BY <2>1 DEF FiniteSubsetsOf
<1>2. D # {}
    OBVIOUS
<1> HIDE DEF D
<1>3. PICK S \in D : \A U \in D : <<U, S>> \notin StrictSubsetOrdering(Nat)
    BY <1>1, <1>2, WFMin, FS_StrictSubsetOrderingWellFounded
<1>4. PICK x \in T : S = 0..x
    BY <1>3 DEF D
<1>5. ASSUME NEW y \in T, y < x PROVE FALSE
    <2>1. 0..y \in D
        BY DEF D
    <2>2. 0..y \in SUBSET Nat /\ 0..x \in SUBSET Nat
        OBVIOUS
    <2>3. 0..y \subseteq 0..x /\ 0..y # 0..x
        <3>1. x \in 0..x /\ x \notin 0..y
            BY <1>5
        <3> QED
            BY <1>5, <3>1
    <2>4. <<0..y, 0..x>> \in StrictSubsetOrdering(Nat)
        BY <2>2, <2>3 DEF StrictSubsetOrdering
    <2> QED
        BY <1>3, <1>4, <2>1, <2>4
<1> QED
    BY <1>5
===============================================================================
