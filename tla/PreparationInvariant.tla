-------------------------- MODULE PreparationInvariant --------------------------
(***************************************************************************)
(* The inductive invariant behind LinesReferToRows and                     *)
(* NothingReachesOutside.  Those do not survive a step by themselves: a    *)
(* request may write back a row it read long ago, under a key that must    *)
(* not have come to stand for a row of another household since.            *)
(***************************************************************************)
EXTENDS PreparationService

KeyedTables ==
    /\ Keyed(item, next["item"]) /\ Keyed(kit, next["kit"]) /\ Keyed(kitline, next["kitline"])
    /\ Keyed(status, next["status"]) /\ Keyed(trip, next["trip"])

\* The rows that requests hold, when they serve one of ops
Held(ops) == {req[w].row : w \in {v \in Worker : req[v].op \in ops}}

\* The items, statuses and trips that requests know: those they hold, and those
\* that a line they hold refers to, in the household it was looked up in.
Editing      == {w \in Worker : req[w].op = "edit line"}
HeldItems    == Held({"edit item", "save item"})
                  \cup {[id |-> req[w].row.item, home |-> req[w].home] : w \in Editing}
HeldStatuses == Held({"delete status", "add line"})
                  \cup {[id |-> req[w].row.status, home |-> req[w].home] : w \in Editing}
HeldTrips    == Held({"edit trip", "duplicate trip"})
                  \cup {[id |-> req[w].row.trip, home |-> req[w].home] : w \in Editing}

KnownItems    == item \cup HeldItems
KnownStatuses == status \cup HeldStatuses
KnownTrips    == trip \cup HeldTrips

\* A key has always meant the same household, to the table and to the requests.
Agree(K, n) == \A x \in K : x.id < n /\ \A y \in K : x.id = y.id => x.home = y.home
HeldPersonsAgree ==
    \A w \in Editing : req[w].row.person # None => HomeOf[req[w].row.person] = req[w].home
EverybodyAgrees ==
    /\ Agree(KnownItems, next["item"]) /\ Agree(KnownStatuses, next["status"])
    /\ Agree(KnownTrips, next["trip"]) /\ HeldPersonsAgree

\* What a line or a participation refers to is there, in one household.
KitLineStaysHome(k) ==
    \E b \in kit, i \in item :
        /\ k.kit = b.id /\ k.item = i.id /\ i.home = b.home
        /\ k.person \in Someone(b.home)
LineStaysHome(l) ==
    \E t \in trip, i \in item, s \in status :
        /\ l.trip = t.id /\ l.item = i.id /\ l.status = s.id
        /\ i.home = t.home /\ s.home = t.home
        /\ l.person \in Someone(t.home)
ParticipantStaysHome(e) == \E t \in trip : e[1] = t.id /\ e[2] \in Residents(t.home)

EverythingStaysHome ==
    /\ \A r \in item \cup kit \cup status \cup trip : r.home \in household
    /\ \A k \in kitline : KitLineStaysHome(k)
    /\ \A l \in line : LineStaysHome(l)
    /\ \A e \in participant : ParticipantStaysHome(e)

\* Households keep to themselves, whatever requests hold and write back
\* (HouseholdScopedRelation, households/serializers.py:14-15).
PInv == TypeOK /\ KeyedTables /\ EverybodyAgrees /\ EverythingStaysHome
================================================================================
