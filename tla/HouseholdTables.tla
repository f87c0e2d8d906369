---------------------------- MODULE HouseholdTables ----------------------------
(***************************************************************************)
(* The tables of households/models.py, the requests that workers are       *)
(* serving over them, and what every handler shares.                       *)
(*                                                                         *)
(* SQLite serialises writers and the project sets no ATOMIC_REQUESTS, so a *)
(* statement outside transaction.atomic is a step of its own and an atomic *)
(* block is one step.  Between two steps of a request any other request    *)
(* may run; what the first one read lives on in memory, here in req[w].    *)
(*                                                                         *)
(* next holds the next primary key of each table.  Names, timestamps and   *)
(* wording are left out.  An address is the account that has it or would   *)
(* have it if it signed up.                                                *)
(***************************************************************************)
EXTENDS Rows

CONSTANTS
    User,            \* accounts, those not yet signed up included
    Worker,          \* request threads of all gunicorn workers
    None,            \* SQL NULL in a column that holds an account
    NoRow,           \* a request that has loaded no row
    Start,           \* the contents of the tables when the behaviour begins
    Closable,        \* accounts an administrator may delete
    Routes,          \* routes that clients call
    MaxHouseholds, MaxMembers, MaxPersons, MaxInvitations  \* bounds on the keys

VARIABLES
    account,         \* accounts_user: "absent", "open" or, once deleted, "closed"
    household, member, person, invitation,     \* the four tables
    expired,         \* keys of the invitations older than Invitation.LIFETIME
    next,            \* next primary key of each table
    req              \* what each worker is doing

tables == <<account, household, member, person, invitation, expired, next>>
vars == <<tables, req>>

(***************************************************************************)
(* Rows.                                                                   *)
(***************************************************************************)
Role == {"owner", "member"}
Account == User \cup {None}

HouseholdRow  == [id : Nat, personal : Account]
MemberRow     == [id : Nat, hh : Nat, user : User, role : Role]
PersonRow     == [id : Nat, hh : Nat, user : Account]
InvitationRow == [id : Nat, hh : Nat, email : User, accepted : BOOLEAN, by : Account]
TableNames == {"household", "member", "person", "invitation"}
Keys == [TableNames -> Nat]

\* HouseholdScopedView and its subclasses: the routes under one household
OwnerRoutes  == {"rename household", "delete household", "invite", "cancel"}
MemberRoutes == {"set role", "remove member"}
PersonRoutes == {"rename person", "delete person", "claim"}
ScopedRoutes == OwnerRoutes \cup MemberRoutes \cup PersonRoutes \cup {"add person"}
AllRoutes    == ScopedRoutes \cup {"create household", "sign up", "accept"}

Idle == [op |-> "none", step |-> "idle", user |-> None, hh |-> NoRow, row |-> NoRow]
Request ==
    [op   : AllRoutes \cup {"none"},
     step : {"idle", "permitted", "loaded", "checked"},
     user : Account,
     hh   : HouseholdRow \cup {NoRow},
     row  : MemberRow \cup PersonRow \cup InvitationRow \cup {NoRow}]

(***************************************************************************)
(* Questions handlers ask of the tables.                                   *)
(***************************************************************************)
HouseholdExists(h) == \E g \in household : g.id = h
AccountExists(u)   == u \in {v \in User : account[v] = "open"} \cup {None}
IsMember(h, u)     == \E m \in member : m.hh = h /\ m.user = u
IsOwner(h, u)      == \E m \in member : m.hh = h /\ m.user = u /\ m.role = "owner"
IsSomeone(h, u)    == \E p \in person : p.hh = h /\ p.user = u

(***************************************************************************)
(* Unique constraints, and the rows a write leaves.                        *)
(***************************************************************************)
UniqueMembershipPerHousehold(M) ==
    \A m, n \in M : m.hh = n.hh /\ m.user = n.user => m.id = n.id
UniqueAccountPersonPerHousehold(P) ==
    \A p, q \in P : p.hh = q.hh /\ p.user = q.user /\ p.user # None => p.id = q.id

\* A faulty Unlinked: it clears the wrong column.
UnlinkedFromItsHousehold(p) == [p EXCEPT !.hh = None]
\* queryset.update(user=None)
Unlinked(p) == [p EXCEPT !.user = None]

\* The AUTOINCREMENT keys of one row in each of these tables are used up.
UseKeys(T) == next' = [t \in TableNames |-> IF t \in T THEN next[t] + 1 ELSE next[t]]

(***************************************************************************)
(* Requests.                                                               *)
(***************************************************************************)
At(w, op, step) == req[w].op = op /\ req[w].step = step

Call(w, op, step, u, h, row) ==
    req' = [req EXCEPT ![w] = [op |-> op, step |-> step, user |-> u, hh |-> h, row |-> row]]

Advance(w, step, row) ==
    /\ req' = [req EXCEPT ![w] = [@ EXCEPT !.step = step, !.row = row]]
    /\ UNCHANGED tables

Finish(w) == req' = [req EXCEPT ![w] = Idle]

\* A faulty Permitted: the filter on personal_of is forgotten.
PermittedOnPersonal(op, h, u) ==
    /\ IsMember(h.id, u)
    /\ op \in OwnerRoutes => IsOwner(h.id, u)
    /\ op \in OwnerRoutes \cup {"rename person", "delete person"} => IsSomeone(h.id, u)

\* permission_classes and household_queryset of the view behind each route
Permitted(op, h, u) ==
    /\ IsMember(h.id, u)
    /\ op \in OwnerRoutes \cup MemberRoutes => h.personal = None
    /\ op \in OwnerRoutes => IsOwner(h.id, u)
    /\ op \in OwnerRoutes \cup {"rename person", "delete person"} => IsSomeone(h.id, u)

\* A route under /households/{household_id}/ is called: the view reads its
\* household among the caller's own and asks its permissions.
Enter(w) ==
    /\ req[w] = Idle
    /\ \E u \in User, h \in household, op \in Routes \cap ScopedRoutes :
          /\ account[u] = "open"
          /\ Permitted(op, h, u)
          /\ Call(w, op, "permitted", u, h, NoRow)
    /\ UNCHANGED tables

\* The request ends without a write: a 403, 404 or 409, a constraint that
\* fails as a 500, a worker that is killed.
Abandon(w) ==
    /\ req[w] # Idle
    /\ Finish(w)
    /\ UNCHANGED tables

(***************************************************************************)
(* What the tables hold when the behaviour begins: any contents the        *)
(* constraints and the handlers allow, with every personal household as    *)
(* the signup left it.                                                     *)
(***************************************************************************)
\* A personal household has its account as only member, owner, and someone;
\* nobody else is linked there and nobody is invited.
Private(h, M, P, I) ==
    /\ \A m \in M : m.hh = h.id => m.user = h.personal /\ m.role = "owner"
    /\ \E m \in M : m.hh = h.id
    /\ \A p \in P : p.hh = h.id => p.user \in {None, h.personal}
    /\ \E p \in P : p.hh = h.id /\ p.user = h.personal
    /\ \A i \in I : i.hh # h.id
PrivateHouseholds(H, M, P, I) == \A h \in H : h.personal # None => Private(h, M, P, I)

ASSUME UserAssumption ==
    None \notin User /\ NoRow \notin HouseholdRow \cup MemberRow \cup PersonRow \cup InvitationRow
ASSUME BoundAssumption ==
    {MaxHouseholds, MaxMembers, MaxPersons, MaxInvitations} \subseteq Nat
ASSUME RouteAssumption == Routes \subseteq AllRoutes /\ Closable \subseteq User
ASSUME StartAssumption ==
    /\ Start.account \in [User -> {"absent", "open", "closed"}]
    /\ Start.household \subseteq HouseholdRow
    /\ Start.member \subseteq MemberRow
    /\ Start.person \subseteq PersonRow
    /\ Start.next \in Keys
    /\ Keyed(Start.household, Start.next["household"])
    /\ Keyed(Start.member, Start.next["member"])
    /\ Keyed(Start.person, Start.next["person"])
    /\ UniqueMembershipPerHousehold(Start.member)
    /\ UniqueAccountPersonPerHousehold(Start.person)
    /\ \A r \in Start.member \cup Start.person : \E h \in Start.household : r.hh = h.id
    /\ PrivateHouseholds(Start.household, Start.member, Start.person, {})

Init ==
    /\ account = Start.account
    /\ household = Start.household
    /\ member = Start.member
    /\ person = Start.person
    /\ invitation = {}
    /\ expired = {}
    /\ next = Start.next
    /\ req = [w \in Worker |-> Idle]
================================================================================
