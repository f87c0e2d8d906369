--------------------------- MODULE PreparationTables ---------------------------
(***************************************************************************)
(* The catalogs and the trips of the households: the tables of             *)
(* catalog/models.py and trips/models.py, and the requests of the members. *)
(*                                                                         *)
(* As in HouseholdTables, a step is one statement in autocommit or one     *)
(* transaction.atomic block, and req[w] is what a request read before.     *)
(* Names of anything but item types, descriptions, colours, quantities and *)
(* dates are left out; the order of the rows is in Ordering.               *)
(***************************************************************************)
EXTENDS Rows, FiniteSets, Functions

CONSTANTS
    Worker,     \* request threads of all gunicorn workers
    Household,  \* households there are at first; none is created
    Served,     \* those whose members call
    Person,     \* persons there are at first; none is added
    HomeOf,     \* the household of each person
    Name,       \* names of item types, lower case and trimmed
    Progress,   \* what a status counts as: ProgressCategory
    None,       \* SQL NULL in the person of a line
    NoRow,      \* a request that holds no row
    Start,      \* the contents of the other tables when the behaviour begins
    Routes,     \* routes that clients call
    MaxKey      \* bound on the keys of each table

VARIABLES
    household,    \* households that have not been deleted
    person,       \* persons that have not been deleted
    item,         \* item types
    kit,
    kitline,      \* lines of the kits
    status,       \* item statuses
    trip,
    participant,  \* <<trip, person>>: who goes where
    line,         \* lines of the trips
    next,         \* next primary key of each table
    req           \* what each worker is doing

tables == <<household, person, item, kit, kitline, status, trip, participant, line, next>>
vars == <<tables, req>>

(***************************************************************************)
(* Rows.                                                                   *)
(***************************************************************************)
For == Person \cup {None}           \* whom a line is for, None when common

ItemRow    == [id : Nat, home : Household, name : Name]
StatusRow  == [id : Nat, home : Household, progress : Progress, default : BOOLEAN]
KitRow     == [id : Nat, home : Household]
KitLineRow == [id : Nat, kit : Nat, item : Nat, person : For]
TripRow    == [id : Nat, home : Household, archived : BOOLEAN]
LineRow    == [id : Nat, trip : Nat, item : Nat, person : For, status : Nat]
TableNames == {"item", "kit", "kitline", "status", "trip", "line"}

AllRoutes ==
    {"add item", "edit item", "delete item", "add kit", "delete kit", "edit kit",
     "add status", "edit status", "delete status",
     "add trip", "edit trip", "delete trip", "duplicate trip", "edit participants",
     "add line", "edit line", "delete line", "pack kit", "delete person", "delete household"}

Idle == [op |-> "none", row |-> NoRow]
Request ==
    {Idle}
    \cup [op : {"add status", "add first status"}, row : Household]
    \cup [op : {"edit item", "save item"}, row : ItemRow]
    \cup [op : {"delete status", "add line"}, row : StatusRow]
    \cup [op : {"edit trip", "duplicate trip"}, row : TripRow]
    \cup [op : {"edit line"}, row : LineRow, home : Household]

(***************************************************************************)
(* What a member of household h may name in a request.                     *)
(***************************************************************************)
\* A faulty Scoped: the rows of everybody.
Unscoped(T, h) == T

\* HouseholdScopedRelation, and the querysets of the views
Scoped(T, h) == {r \in T : r.home = h}

Residents(h) == {p \in person : HomeOf[p] = h}
Someone(h) == Residents(h) \cup {None}
Serving == household \cap Served

default_status(h) == {s \in Scoped(status, h) : s.default}

(***************************************************************************)
(* Unique constraints.                                                     *)
(***************************************************************************)
UniqueItemTypeName(I) == \A i, j \in I : i.home = j.home /\ i.name = j.name => i = j
UniqueDefaultItemStatus(S) ==
    \A s, t \in S : s.home = t.home /\ s.default /\ t.default => s = t
\* unique_trip_line_per_person and unique_common_trip_line together
UniqueTripLine(L) ==
    \A l, m \in L : l.trip = m.trip /\ l.item = m.item /\ l.person = m.person => l = m

(***************************************************************************)
(* Foreign keys, asked when a row is written.                              *)
(***************************************************************************)
Present(T, k) == \E r \in T : r.id = k
KeysOf(T) == {r.id : r \in T}
Assignable(p) == p \in person \cup {None}
LineRefersToRows(l) ==
    /\ Present(trip, l.trip) /\ Present(item, l.item) /\ Present(status, l.status)
    /\ Assignable(l.person)

\* n rows more in table t
UseKeys(t, n) ==
    /\ next[t] + n <= MaxKey[t] + 1
    /\ next' = [next EXCEPT ![t] = @ + n]

\* Ways to give the rows of R the next n keys of the lines of trips, one each
KeysFor(R, n) == Bijection(R, next["line"] .. next["line"] + n - 1)

(***************************************************************************)
(* Requests.                                                               *)
(***************************************************************************)
Called(w, route) == route \in Routes /\ req[w] = Idle
Holds(w, op) == req[w].op = op
Load(w, op, row) ==
    /\ req' = [req EXCEPT ![w] = [op |-> op, row |-> row]]
    /\ UNCHANGED tables
Finish(w) == req' = [req EXCEPT ![w] = Idle]

\* The request ends without a write: refused, failed, or its worker killed.
Abandon(w) ==
    /\ req[w] # Idle
    /\ Finish(w)
    /\ UNCHANGED tables

ASSUME RowAssumption ==
    /\ None \notin Person
    /\ HomeOf \in [Person -> Household] /\ Served \subseteq Household
ASSUME RouteAssumption == Routes \subseteq AllRoutes
ASSUME BoundAssumption == MaxKey \in [TableNames -> Nat]
ASSUME StartAssumption ==
    /\ Start.item \subseteq ItemRow /\ Keyed(Start.item, Start.next["item"])
    /\ Start.kit \subseteq KitRow /\ Keyed(Start.kit, Start.next["kit"])
    /\ Start.kitline \subseteq KitLineRow /\ Keyed(Start.kitline, Start.next["kitline"])
    /\ Start.status \subseteq StatusRow /\ Keyed(Start.status, Start.next["status"])
    /\ Start.trip \subseteq TripRow /\ Keyed(Start.trip, Start.next["trip"])
    /\ Start.next \in [TableNames -> Nat]
    /\ UniqueItemTypeName(Start.item) /\ UniqueDefaultItemStatus(Start.status)
    /\ \A k \in Start.kitline : \E b \in Start.kit, i \in Start.item :
          /\ k.kit = b.id /\ k.item = i.id /\ i.home = b.home
          /\ k.person \in Person => HomeOf[k.person] = b.home
    /\ Start.participant \subseteq Nat \X Person
    /\ \A e \in Start.participant : \E t \in Start.trip : e[1] = t.id /\ HomeOf[e[2]] = t.home
    /\ \A s \in Start.status : \E d \in Start.status : d.home = s.home /\ d.default

\* No trip has a line yet.
Init ==
    /\ household = Household /\ person = Person
    /\ item = Start.item /\ kit = Start.kit /\ kitline = Start.kitline
    /\ status = Start.status
    /\ trip = Start.trip /\ participant = Start.participant
    /\ line = {}
    /\ next = Start.next
    /\ req = [w \in Worker |-> Idle]
================================================================================
