---------------------------- MODULE BoundedNaturals ----------------------------
(***************************************************************************)
(* Extremal elements of sets of naturals, for the proofs of other modules. *)
(***************************************************************************)
EXTENDS Naturals, TLAPS, WellFoundedInduction

\* A set of naturals up to n that is not empty has a latest one: the well-founded
\* minimum of what separates them from n.
LEMMA LatestExists ==
    ASSUME NEW n \in Nat, NEW T \in SUBSET (0 .. n), T # {}
    PROVE  \E t \in T : \A u \in T : u <= t
<1> DEFINE D == {n - t : t \in T}
<1>0. D \subseteq Nat
  OBVIOUS
<1>1. D # {}
  OBVIOUS
<1>2. IsWellFoundedOn(OpToRel(<, Nat), Nat)
  BY NatLessThanWellFounded
<1> HIDE DEF D
<1>3. PICK d \in D : \A e \in D : ~ (<<e, d>> \in OpToRel(<, Nat))
  BY <1>0, <1>1, <1>2, WFMin
<1>4. \A e \in D : ~ (e < d)
  BY <1>0, <1>3 DEF OpToRel
<1>5. PICK t \in T : d = n - t
  BY DEF D
<1>6. ASSUME NEW u \in T PROVE u <= t
  <2>1. n - u \in D
    BY DEF D
  <2>2. ~ (n - u < n - t)
    BY <1>4, <1>5, <2>1
  <2> QED
    BY <2>2
<1> QED
  BY <1>6

\* A set of naturals that is not empty has a first one.
LEMMA EarliestExists ==
    ASSUME NEW T \in SUBSET Nat, T # {}
    PROVE  \E t \in T : \A u \in T : t <= u
<1>1. IsWellFoundedOn(OpToRel(<, Nat), Nat)
  BY NatLessThanWellFounded
<1>2. PICK t \in T : \A u \in T : ~ (<<u, t>> \in OpToRel(<, Nat))
  BY <1>1, WFMin
<1>3. \A u \in T : ~ (u < t)
  BY <1>2 DEF OpToRel
<1> QED
  BY <1>3
================================================================================
