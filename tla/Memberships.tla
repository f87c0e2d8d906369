------------------------------ MODULE Memberships ------------------------------
(***************************************************************************)
(* Accounts, households, their members and their persons: signup, the      *)
(* routes of households/views.py up to MemberDetailView, and memberships.py. *)
(*                                                                         *)
(* Every handler reads, decides, and writes last.  Loading an object,      *)
(* checking a business rule and writing are separate steps because they    *)
(* are separate statements in autocommit; the write acts on the row that   *)
(* was loaded, not on the row as it has become.                            *)
(***************************************************************************)
EXTENDS HouseholdTables

--------------------------------------------------------------------------------
(***************************************************************************)
(* create_household: household, owner and person in one transaction.       *)
(***************************************************************************)
\* A faulty create_household: the role is left to its default.
CreateWithDefaultRole(owner, personal_of) ==
    /\ AccountExists(owner)
    /\ next["household"] <= MaxHouseholds
    /\ next["member"] <= MaxMembers
    /\ next["person"] <= MaxPersons
    /\ household' = household \cup {[id |-> next["household"], personal |-> personal_of]}
    /\ member' = member \cup {[id |-> next["member"], hh |-> next["household"],
                               user |-> owner, role |-> "member"]}
    /\ person' = person \cup {[id |-> next["person"], hh |-> next["household"],
                               user |-> owner]}
    /\ UseKeys({"household", "member", "person"})
    /\ UNCHANGED <<account, invitation, expired>>

create_household(owner, personal_of) ==
    /\ AccountExists(owner)
    /\ next["household"] <= MaxHouseholds
    /\ next["member"] <= MaxMembers
    /\ next["person"] <= MaxPersons
    /\ household' = household \cup {[id |-> next["household"], personal |-> personal_of]}
    /\ member' = member \cup {[id |-> next["member"], hh |-> next["household"],
                               user |-> owner, role |-> "owner"]}
    /\ person' = person \cup {[id |-> next["person"], hh |-> next["household"],
                               user |-> owner]}
    /\ UseKeys({"household", "member", "person"})
    /\ UNCHANGED <<account, invitation, expired>>

\* allauth saves the account, in autocommit, before it sends user_signed_up.
SaveAccount(w) ==
    /\ "sign up" \in Routes
    /\ req[w] = Idle
    /\ \E u \in User :
          /\ account[u] = "absent"
          /\ account' = [account EXCEPT ![u] = "open"]
          /\ Call(w, "sign up", "loaded", u, NoRow, NoRow)
    /\ UNCHANGED <<household, member, person, invitation, expired, next>>

\* create_household_for_new_account, the receiver of that signal.
CreatePersonalHousehold(w) ==
    /\ At(w, "sign up", "loaded")
    /\ create_household(req[w].user, req[w].user)
    /\ Finish(w)

CreateHousehold(w) ==
    /\ "create household" \in Routes
    /\ req[w] = Idle
    /\ \E u \in User : account[u] = "open" /\ create_household(u, None)
    /\ UNCHANGED req

\* The on_delete of every key towards an account, when the admin deletes it.
DeleteAccount(u) ==
    LET gone == {h.id : h \in {g \in household : g.personal = u}}
    IN  /\ u \in Closable
        /\ account[u] = "open"
        /\ account' = [account EXCEPT ![u] = "closed"]
        /\ household' = {h \in household : h.personal # u}
        /\ member' = {m \in member : m.user # u /\ m.hh \notin gone}
        /\ person' = {IF p.user = u THEN Unlinked(p) ELSE p :
                         p \in {q \in person : q.hh \notin gone}}
        /\ invitation' = {IF i.by = u THEN [i EXCEPT !.by = None] ELSE i :
                             i \in {j \in invitation : j.hh \notin gone}}
        /\ UNCHANGED <<expired, next, req>>

--------------------------------------------------------------------------------
(***************************************************************************)
(* HouseholdDetailView.                                                    *)
(***************************************************************************)
RenameHousehold(w) ==
    /\ At(w, "rename household", "permitted")
    /\ household' = Saved(household, req[w].hh)
    /\ Finish(w)
    /\ UNCHANGED <<account, member, person, invitation, expired, next>>

DeleteHousehold(w) ==
    LET h == req[w].hh
    IN  /\ At(w, "delete household", "permitted")
        /\ household' = Without(household, h)
        /\ member' = {m \in member : m.hh # h.id}
        /\ person' = {p \in person : p.hh # h.id}
        /\ invitation' = {i \in invitation : i.hh # h.id}
        /\ Finish(w)
        /\ UNCHANGED <<account, expired, next>>

--------------------------------------------------------------------------------
(***************************************************************************)
(* PersonListCreateView, PersonDetailView, PersonClaimView.                *)
(***************************************************************************)
AddPerson(w) ==
    /\ At(w, "add person", "permitted")
    /\ HouseholdExists(req[w].hh.id)
    /\ next["person"] <= MaxPersons
    /\ person' = person \cup {[id |-> next["person"], hh |-> req[w].hh.id, user |-> None]}
    /\ UseKeys({"person"})
    /\ Finish(w)
    /\ UNCHANGED <<account, household, member, invitation, expired>>

\* A faulty LoadPerson: the lookup is not restricted to the household.
LoadPersonOfAnyHousehold(w) ==
    /\ req[w].op \in PersonRoutes /\ req[w].step = "permitted"
    /\ \E p \in person : Advance(w, "loaded", p)

\* A faulty LoadPerson: the row is built from the key in the URL and never read.
LoadPersonUnread(w) ==
    /\ req[w].op \in PersonRoutes /\ req[w].step = "permitted"
    /\ \E id \in 1 .. next["person"] - 1 :
          Advance(w, "loaded", [id |-> id, hh |-> req[w].hh.id, user |-> None])

LoadPerson(w) ==
    /\ req[w].op \in PersonRoutes /\ req[w].step = "permitted"
    /\ \E p \in person : p.hh = req[w].hh.id /\ Advance(w, "loaded", p)

\* The account is read-only in the body, and written back all the same.
RenamePerson(w) ==
    LET p == req[w].row
    IN  /\ At(w, "rename person", "loaded")
        /\ HouseholdExists(p.hh) /\ AccountExists(p.user)
        /\ UniqueAccountPersonPerHousehold(Saved(person, p))
        /\ person' = Saved(person, p)
        /\ Finish(w)
        /\ UNCHANGED <<account, household, member, invitation, expired, next>>

\* A faulty CheckPersonIsNoMember: asks nothing.
SkipMembershipCheck(w) ==
    /\ At(w, "delete person", "loaded")
    /\ Advance(w, "checked", req[w].row)

CheckPersonIsNoMember(w) ==
    /\ At(w, "delete person", "loaded")
    /\ req[w].row.user # None => ~IsMember(req[w].hh.id, req[w].row.user)
    /\ Advance(w, "checked", req[w].row)

DeletePerson(w) ==
    /\ At(w, "delete person", "checked")
    /\ person' = Without(person, req[w].row)
    /\ Finish(w)
    /\ UNCHANGED <<account, household, member, invitation, expired, next>>

CheckCallerIsNobody(w) ==
    /\ At(w, "claim", "loaded")
    /\ ~IsSomeone(req[w].hh.id, req[w].user)
    /\ Advance(w, "checked", req[w].row)

\* A faulty ClaimPerson: the update does not ask for a free person.
ClaimAnyPerson(w) ==
    /\ At(w, "claim", "checked")
    /\ AccountExists(req[w].user)
    /\ \E p \in person :
          LET claimed == [p EXCEPT !.user = req[w].user]
          IN  /\ p.id = req[w].row.id /\ p.hh = req[w].hh.id
              /\ UniqueAccountPersonPerHousehold(Saved(person, claimed))
              /\ person' = Saved(person, claimed)
    /\ Finish(w)
    /\ UNCHANGED <<account, household, member, invitation, expired, next>>

\* The conditional update decides between two claims of the same person.
ClaimPerson(w) ==
    /\ At(w, "claim", "checked")
    /\ AccountExists(req[w].user)
    /\ \E p \in person :
          LET claimed == [p EXCEPT !.user = req[w].user]
          IN  /\ p.id = req[w].row.id /\ p.hh = req[w].hh.id
              /\ p.user = None
              /\ UniqueAccountPersonPerHousehold(Saved(person, claimed))
              /\ person' = Saved(person, claimed)
    /\ Finish(w)
    /\ UNCHANGED <<account, household, member, invitation, expired, next>>

--------------------------------------------------------------------------------
(***************************************************************************)
(* MemberDetailView and remove_member.                                     *)
(***************************************************************************)
\* A faulty is_last_owner: counts the members instead of the owners.
is_last_member(m) == m.role = "owner" /\ OnlyOne({n \in member : n.hh = m.hh})

is_last_owner(m) ==
    m.role = "owner" /\ OnlyOne({n \in member : n.hh = m.hh /\ n.role = "owner"})

\* get_object and IsHouseholdOwnerOrLeavingThemselves
LoadMember(w) ==
    /\ req[w].op \in MemberRoutes /\ req[w].step = "permitted"
    /\ \E m \in member :
          /\ m.hh = req[w].hh.id
          /\ \/ req[w].op = "remove member" /\ m.user = req[w].user
             \/ IsOwner(req[w].hh.id, req[w].user)
          /\ Advance(w, "loaded", m)

\* A faulty CheckRole: anybody may be made an owner.
CheckRoleOfAnybody(w) ==
    LET m == req[w].row
    IN  /\ At(w, "set role", "loaded")
        /\ \E role \in Role :
              /\ role = "member" => ~is_last_owner(m)
              /\ Advance(w, "checked", [m EXCEPT !.role = role])

\* A body without a role skips the checks, and the row is saved all the same.
CheckRole(w) ==
    LET m == req[w].row
    IN  /\ At(w, "set role", "loaded")
        /\ \/ Advance(w, "checked", m)
           \/ \E role \in Role :
                 /\ role = "member" => ~is_last_owner(m)
                 /\ role = "owner" => IsSomeone(req[w].hh.id, m.user)
                 /\ Advance(w, "checked", [m EXCEPT !.role = role])

SetRole(w) ==
    LET m == req[w].row
    IN  /\ At(w, "set role", "checked")
        /\ HouseholdExists(m.hh) /\ AccountExists(m.user)
        /\ UniqueMembershipPerHousehold(Saved(member, m))
        /\ member' = Saved(member, m)
        /\ Finish(w)
        /\ UNCHANGED <<account, household, person, invitation, expired, next>>

CheckLeaving(w) ==
    /\ At(w, "remove member", "loaded")
    /\ ~OnlyOne({m \in member : m.hh = req[w].hh.id})
    /\ ~is_last_owner(req[w].row)
    /\ Advance(w, "checked", req[w].row)

\* A faulty RemoveMember: the person stays linked.
RemoveMemberOnly(w) ==
    /\ At(w, "remove member", "checked")
    /\ member' = Without(member, req[w].row)
    /\ Finish(w)
    /\ UNCHANGED <<account, household, person, invitation, expired, next>>

RemoveMember(w) ==
    LET m == req[w].row
    IN  /\ At(w, "remove member", "checked")
        /\ person' = {IF p.hh = m.hh /\ p.user = m.user THEN Unlinked(p) ELSE p : p \in person}
        /\ member' = Without(member, m)
        /\ Finish(w)
        /\ UNCHANGED <<account, household, invitation, expired, next>>

MembershipStep(w) ==
    \/ SaveAccount(w) \/ CreatePersonalHousehold(w) \/ CreateHousehold(w)
    \/ RenameHousehold(w) \/ DeleteHousehold(w)
    \/ AddPerson(w) \/ LoadPerson(w) \/ RenamePerson(w)
    \/ CheckPersonIsNoMember(w) \/ DeletePerson(w)
    \/ CheckCallerIsNobody(w) \/ ClaimPerson(w)
    \/ LoadMember(w) \/ CheckRole(w) \/ SetRole(w)
    \/ CheckLeaving(w) \/ RemoveMember(w)
================================================================================
