------------------------------- MODULE MCOrdering -------------------------------
(***************************************************************************)
(* Instances of Ordering for TLC.                                          *)
(***************************************************************************)
EXTENDS Ordering

CONSTANTS hat, bib, jeanne

\* Every collection and every route.
EveryKind == AllKinds
EveryRoute == AllRoutes

\* The lines of a trip are unique: four of them are both items for both persons.
FewEntries == [k \in AllKinds |-> IF k = "kit line" THEN 3 ELSE 4]
================================================================================
