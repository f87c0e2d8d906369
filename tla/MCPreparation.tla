----------------------------- MODULE MCPreparation -----------------------------
(***************************************************************************)
(* Instances of PreparationService for TLC.                                *)
(***************************************************************************)
EXTENDS PreparationInvariant, BaseCatalog, TLC

CONSTANTS home, flat, jeanne, louis, hat, bib

Homes == [p \in Person |-> IF p = louis THEN flat ELSE home]
TwoItemTypes == <<bib, hat>>
TwoStatuses == <<"not_started", "done">>

\* A household that has just been created: no catalog, no trip.
Bare ==
    [item |-> {}, kit |-> {}, kitline |-> {}, status |-> {}, trip |-> {}, participant |-> {},
     next |-> [t \in TableNames |-> 1]]

\* Both households have the base catalog.  At home a kit asks for a bib for
\* jeanne twice, and there is a trip she goes on; louis has a kit and a trip of
\* his own.
Packing ==
    LET catalogs == install_base_catalog(install_base_catalog(Bare, home), flat)
        kits == build_kit(build_kit(catalogs, home, << <<bib, jeanne>>, <<bib, jeanne>> >>),
                          flat, << <<hat, louis>> >>)
    IN  [kits EXCEPT
           !.trip = {[id |-> 1, home |-> home, archived |-> FALSE],
                     [id |-> 2, home |-> flat, archived |-> FALSE]},
           !.participant = {<<1, jeanne>>, <<2, louis>>},
           !.next["trip"] = 3]

\* Everything that touches the catalog, and the lines that refer to it.
CatalogRoutes == {"add item", "edit item", "delete item", "add kit", "delete kit", "edit kit",
                  "add status", "edit status", "delete status", "add trip", "edit trip",
                  "delete trip", "edit participants", "add line", "edit line", "delete line"}

\* What members do to one trip at the same time.
TripRoutes == {"edit item", "delete status", "duplicate trip", "edit line", "pack kit",
               "delete person", "delete household"}

\* How many rows of each table a behaviour may have in all.
FewRows == [item |-> 2, kit |-> 1, kitline |-> 1, status |-> 3, trip |-> 1, line |-> 1]
OneMore == [item |-> 4, kit |-> 2, kitline |-> 3, status |-> 4, trip |-> 3, line |-> 2]

WorkerSymmetry == Permutations(Worker)
================================================================================
