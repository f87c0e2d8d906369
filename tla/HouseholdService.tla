---------------------------- MODULE HouseholdService ----------------------------
(***************************************************************************)
(* The households application: workers serving membership and invitation   *)
(* requests over the same tables, while weeks pass and an administrator    *)
(* deletes accounts.                                                       *)
(***************************************************************************)
EXTENDS Memberships, Invitations

Serve(w) == Enter(w) \/ MembershipStep(w) \/ InvitationStep(w) \/ Abandon(w)

Next ==
    \/ \E w \in Worker : Serve(w)
    \/ \E u \in User : DeleteAccount(u)
    \/ Expire

Spec == Init /\ [][Next]_vars

TypeOK ==
    /\ account \in [User -> {"absent", "open", "closed"}]
    /\ household \subseteq HouseholdRow
    /\ member \subseteq MemberRow
    /\ person \subseteq PersonRow
    /\ invitation \subseteq InvitationRow
    /\ expired \subseteq Nat
    /\ next \in Keys
    /\ req \in [Worker -> Request]

--------------------------------------------------------------------------------
(***************************************************************************)
(* What check_integrity lists of these tables.                             *)
(***************************************************************************)
shared_households_without_a_member ==
    {h \in household : h.personal = None /\ \A m \in member : m.hh # h.id}

persons_whose_account_is_not_a_member ==
    {p \in person : p.user # None /\ ~IsMember(p.hh, p.user)}

--------------------------------------------------------------------------------
(***************************************************************************)
(* Properties that hold whatever the interleaving.                         *)
(***************************************************************************)

\* A personal household stays the private space its signup made: its account
\* is the only member, the owner, and someone there; no claim, rename, role
\* change or invitation reaches it, even one that holds stale rows
\* (SharedHouseholdScopedView, views.py:78-80).
PersonalHouseholdsStayPrivate ==
    PrivateHouseholds(household, member, person, invitation)

\* A personal household goes with its account and never before
\* (HouseholdDetailView serves shared households only, views.py:83-98).
PersonalHouseholdsGoWithTheirAccount ==
    [][\A h \in household :
          h.personal # None /\ account'[h.personal] = "open" => h \in household']_vars

\* Inviting an address again replaces its pending invitation: one door at a
\* time stands open per address and household (invitations.py:21).
OneOpenInvitationPerAddress ==
    \A i, j \in invitation :
        i.hh = j.hh /\ i.email = j.email /\ ~i.accepted /\ ~j.accepted => i = j

\* An invitation is marked accepted in the very step that leaves its accepter
\* a member of the household (accept is one transaction, invitations.py:60-71).
AcceptingAdmits ==
    [][\A i \in invitation' :
          i.by # None /\ i \notin invitation
             => \E m \in member' : m.hh = i.hh /\ m.user = i.by]_vars

\* Two members claiming the same person: a person that has an account changes
\* hands only when a rename writes a stale account back (views.py:174-176).
ClaimsTakeOnlyFreePersons ==
    [][\A p \in person, q \in person' :
          p.id = q.id /\ p.user # None /\ q.user \notin {None, p.user}
             => \E w \in Worker : At(w, "rename person", "loaded") /\ RenamePerson(w)]_vars

--------------------------------------------------------------------------------
(***************************************************************************)
(* Properties the documentation states, which hold when requests are       *)
(* served one at a time and no account is deleted.                         *)
(***************************************************************************)

\* The last owner neither steps down nor leaves (views.py:229, 243).
SharedHouseholdsHaveAnOwner ==
    \A h \in household : \E m \in member : m.hh = h.id /\ m.role = "owner"

\* check_integrity finds nothing to say of memberships and persons: whoever
\* leaves lets go of their person, and the last member does not leave
\* (check_integrity.py:19-38).
MembershipsAreSound ==
    /\ shared_households_without_a_member = {}
    /\ persons_whose_account_is_not_a_member = {}

\* An owner is someone in the household: a member who is nobody is not made
\* an owner, and the person of a member is not deleted (views.py:147, 231-237).
OwnersAreSomeone ==
    \A m \in member : m.role = "owner" => IsSomeone(m.hh, m.user)

\* A token admits one account: once spent it is spent (models.py:128-131).
TokensAreSpentOnce ==
    [][\A i \in invitation, j \in invitation' :
          i.id = j.id /\ i.accepted => j.by \in {i.by, None}]_vars

\* What was deleted does not come back: a household, a membership, a person,
\* an invitation that was cancelled or replaced.  A row that appears has a key
\* that was not used before.
DeletedRowsStayDeleted ==
    [][/\ \A h \in household' : h.id >= next["household"] \/ \E g \in household : g.id = h.id
       /\ \A m \in member' : m.id >= next["member"] \/ \E n \in member : n.id = m.id
       /\ \A p \in person' : p.id >= next["person"] \/ \E q \in person : q.id = p.id
       /\ \A i \in invitation' :
             i.id >= next["invitation"] \/ \E j \in invitation : j.id = i.id]_vars

\* Deleting a person never takes the person of a current member.
MembersKeepTheirPerson ==
    [][\A w \in Worker : At(w, "delete person", "checked") /\ DeletePerson(w)
          => \A p \in person : p.user # None /\ IsMember(p.hh, p.user) => p \in person']_vars

\* Who belongs where, and as what; who is someone; the households of one account
Roster == {<<m.hh, m.user, m.role>> : m \in member}
Somebody == {<<p.hh, p.user>> : p \in {q \in person : q.user # None}}
Personal == {h.id : h \in {g \in household : g.personal # None}}

\* The rules as the documentation words them, applied at the instant of every
\* write: what the service implements when it serves one request at a time.
Rules == INSTANCE HouseholdRules WITH
    House <- 0 .. MaxHouseholds, roster <- Roster, someone <- Somebody, private <- Personal
ImplementsTheRules == Rules!Spec
================================================================================
