------------------------------ MODULE BaseCatalog ------------------------------
(***************************************************************************)
(* The rows a household starts from: catalog/base_catalog.py, and the kits *)
(* that the seed command adds.  T is the contents of the tables.           *)
(***************************************************************************)
EXTENDS Naturals, Sequences

CONSTANTS
    BASE_ITEM_TYPES,    \* names, in order
    BASE_ITEM_STATUSES  \* what each status counts as, in order

\* The rows are created in order, and the first status finds no default one.
install_base_catalog(T, h) ==
    [T EXCEPT
       !.item = @ \cup {[id |-> T.next["item"] + k - 1, home |-> h, name |-> BASE_ITEM_TYPES[k]] :
                           k \in DOMAIN BASE_ITEM_TYPES},
       !.status = @ \cup {[id |-> T.next["status"] + k - 1, home |-> h,
                           progress |-> BASE_ITEM_STATUSES[k],
                           default |-> k = 1 /\ \A s \in T.status : s.home = h => ~s.default] :
                           k \in DOMAIN BASE_ITEM_STATUSES},
       !.next["item"] = @ + Len(BASE_ITEM_TYPES),
       !.next["status"] = @ + Len(BASE_ITEM_STATUSES)]

\* A kit of h with one line for each <<name, person>>
build_kit(T, h, lines) ==
    LET named(n) == CHOOSE i \in T.item : i.home = h /\ i.name = n
    IN  [T EXCEPT
           !.kit = @ \cup {[id |-> T.next["kit"], home |-> h]},
           !.kitline = @ \cup {[id |-> T.next["kitline"] + k - 1, kit |-> T.next["kit"],
                                item |-> named(lines[k][1]).id, person |-> lines[k][2]] :
                                  k \in DOMAIN lines},
           !.next["kit"] = @ + 1,
           !.next["kitline"] = @ + Len(lines)]
================================================================================
