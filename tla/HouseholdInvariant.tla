--------------------------- MODULE HouseholdInvariant ---------------------------
(***************************************************************************)
(* The inductive invariant behind PersonalHouseholdsStayPrivate.  What a   *)
(* stale row can do later is decided by what it says now, so the invariant *)
(* speaks of the rows that requests hold as well as of the tables.         *)
(***************************************************************************)
EXTENDS HouseholdService

Loaded(w) == req[w].step \in {"loaded", "checked"}
HoldsPerson(w) == req[w].op \in PersonRoutes /\ Loaded(w)
HoldsMember(w) == req[w].op \in MemberRoutes /\ Loaded(w)
HoldsInvitation(w) == req[w].op \in {"cancel", "accept"} /\ Loaded(w)

\* What each request carries, by route and step.
RequestIsTyped(w) ==
    /\ req[w].op \in AllRoutes => req[w].user \in User
    /\ req[w].op \in ScopedRoutes => req[w].hh \in HouseholdRow
    /\ HoldsPerson(w) => req[w].row \in PersonRow /\ req[w].row.hh = req[w].hh.id
    /\ HoldsMember(w) => req[w].row \in MemberRow /\ req[w].row.hh = req[w].hh.id
    /\ HoldsInvitation(w) => req[w].row \in InvitationRow
RequestsAreTyped == \A w \in Worker : RequestIsTyped(w)

(***************************************************************************)
(* The rows in the tables and the rows that requests hold, which may yet   *)
(* be written.                                                             *)
(***************************************************************************)
HeldHouseholds  == {req[w].hh : w \in {v \in Worker : req[v].op \in ScopedRoutes}}
HeldMembers     == {req[w].row : w \in {v \in Worker : HoldsMember(v)}}
HeldPersons     == {req[w].row : w \in {v \in Worker : HoldsPerson(v)}}
HeldInvitations == {req[w].row : w \in {v \in Worker : HoldsInvitation(v)}}

KnownHouseholds  == household \cup HeldHouseholds
KnownMembers     == member \cup HeldMembers
KnownPersons     == person \cup HeldPersons
KnownInvitations == invitation \cup HeldInvitations

\* A key stands for one household for ever.
HouseholdKeys ==
    /\ \A h \in KnownHouseholds : h.id < next["household"]
    /\ \A g, h \in KnownHouseholds : g.id = h.id => g = h

\* A membership never changes household.
MemberKeys ==
    /\ \A m \in KnownMembers : m.id < next["member"] /\ m.hh < next["household"]
    /\ \A m, n \in KnownMembers : m.id = n.id => m.hh = n.hh

\* A person never changes household, nor account in a personal one.
SamePerson(p, q) ==
    /\ p.hh = q.hh
    /\ \A h \in household : h.id = p.hh /\ h.personal # None => p.user = q.user
PersonKeys ==
    /\ \A p \in KnownPersons : p.id < next["person"] /\ p.hh < next["household"]
    /\ \A p, q \in KnownPersons : p.id = q.id => SamePerson(p, q)

InvitationKeys == \A i \in KnownInvitations : i.hh < next["household"]

\* No request holds what could open a personal household that stands.
RequestsRespectPersonal ==
    /\ \A w \in Worker :
          /\ req[w].op \in ScopedRoutes => req[w].hh.personal \in {None, req[w].user}
          /\ req[w].op \in OwnerRoutes \cup MemberRoutes => req[w].hh.personal = None
    /\ \A h \in household : h.personal # None =>
          /\ \A i \in HeldInvitations : i.hh # h.id
          /\ \A w \in Worker : HoldsPerson(w) /\ req[w].row.hh = h.id =>
                /\ req[w].row.user \in {None, h.personal}
                /\ At(w, "delete person", "checked") => req[w].row.user = None
                /\ ~At(w, "claim", "checked")

IInv ==
    /\ TypeOK
    /\ RequestsAreTyped
    /\ HouseholdKeys
    /\ MemberKeys
    /\ PersonKeys
    /\ InvitationKeys
    /\ RequestsRespectPersonal
    /\ PersonalHouseholdsStayPrivate
================================================================================
