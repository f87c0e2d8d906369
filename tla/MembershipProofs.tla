---------------------------- MODULE MembershipProofs ----------------------------
(***************************************************************************)
(* What members may count on.  First, for any number of workers: of two   *)
(* members who claim the same person the first one has it, unless a       *)
(* rename writes an account back.  Then, for one worker: the rules of a   *)
(* household, tokens that admit once, rows that stay deleted, and the     *)
(* service as an implementation of HouseholdRules.                        *)
(***************************************************************************)
EXTENDS HouseholdPrivacyProofs

--------------------------------------------------------------------------------
(***************************************************************************)
(* Claims.  Beyond IInv these need that a key stands for one row of the   *)
(* table of persons.                                                      *)
(***************************************************************************)
PersonsKeyed == Keyed(person, next["person"])

\* A person that has an account passes to another.
TakenOver(p, q) == p.id = q.id /\ p.user # None /\ q.user \notin {None, p.user}
Renaming == \E w \in Worker : At(w, "rename person", "loaded") /\ RenamePerson(w)

\* What every step does to persons
PersonStep ==
    /\ PersonsKeyed'
    /\ \A p \in person, q \in person' : TakenOver(p, q) => Renaming

LEMMA PersonNumbers ==
    ASSUME IInv, [Next]_vars
    PROVE  /\ next["person"] \in Nat /\ next'["person"] \in Nat
           /\ \A p \in person : p.id \in Nat
  <1>1. IInv'
    BY NextIInv
  <1>2. "person" \in TableNames
    BY DEF TableNames
  <1>3. next \in Keys /\ next' \in Keys
    BY <1>1 DEF IInv, TypeOK
  <1>4. next["person"] \in Nat /\ next'["person"] \in Nat
    BY <1>2, <1>3 DEF Keys
  <1>5. \A p \in person : p.id \in Nat
    BY DEF IInv, TypeOK, PersonRow
  <1> QED
    BY <1>4, <1>5

LEMMA FewerPersons ==
    ASSUME PersonsKeyed, person' \subseteq person, next'["person"] = next["person"]
    PROVE  PersonStep
  BY DEF PersonsKeyed, PersonStep, Keyed, TakenOver

LEMMA OneMorePerson ==
    ASSUME IInv, [Next]_vars, PersonsKeyed, NEW q, q.id = next["person"],
           person' = person \cup {q}, next'["person"] = next["person"] + 1
    PROVE  PersonStep
  <1>1. \A p \in person : p.id < next["person"] /\ p.id # q.id
    BY PersonNumbers DEF PersonsKeyed, Keyed
  <1>2. PersonsKeyed'
    BY <1>1, PersonNumbers DEF PersonsKeyed, Keyed
  <1>3. \A p \in person, r \in person' : p.id = r.id => p = r
    BY <1>1 DEF PersonsKeyed, Keyed
  <1> QED
    BY <1>2, <1>3 DEF PersonStep, TakenOver

LEMMA SavedPersonKeyed ==
    ASSUME PersonsKeyed, NEW q, q.id < next["person"], person' = Saved(person, q),
           next'["person"] = next["person"]
    PROVE  PersonsKeyed'
  BY DEF PersonsKeyed, Keyed, Saved

LEMMA RenamingSteps ==
    ASSUME IInv, PersonsKeyed, NEW w \in Worker, RenamePerson(w)
    PROVE  PersonStep
  <1>1. HoldsPerson(w) /\ At(w, "rename person", "loaded")
    BY DEF RenamePerson, At, HoldsPerson, Loaded, PersonRoutes
  <1>2. req[w].row.id < next["person"]
    BY <1>1, HeldBy DEF IInv, PersonKeys, KnownPersons
  <1>3. person' = Saved(person, req[w].row) /\ UNCHANGED next
    BY DEF RenamePerson
  <1> QED
    BY <1>1, <1>2, <1>3, SavedPersonKeyed DEF PersonStep, Renaming

\* The conditional update reaches a person that has no account.
LEMMA ClaimingSteps ==
    ASSUME IInv, PersonsKeyed, NEW w \in Worker, ClaimPerson(w)
    PROVE  PersonStep
  <1>1. PICK p \in person :
          /\ p.user = None
          /\ person' = Saved(person, [p EXCEPT !.user = req[w].user])
    BY DEF ClaimPerson
  <1>2. PICK q : q = [p EXCEPT !.user = req[w].user]
    OBVIOUS
  <1>3. person' = Saved(person, q) /\ UNCHANGED next
    BY <1>1, <1>2 DEF ClaimPerson
  <1>4. q.id = p.id
    BY <1>2 DEF IInv, TypeOK, PersonRow
  <1>5. PersonsKeyed'
    BY <1>3, <1>4, SavedPersonKeyed DEF PersonsKeyed, Keyed
  <1>6. ASSUME NEW x \in person, NEW y \in person', x.id = y.id, x.user # None
        PROVE  x = y
    <2>1. x # p
      BY <1>1, <1>6
    <2>2. x.id # q.id
      BY <1>4, <2>1 DEF PersonsKeyed, Keyed
    <2>3. y \in person
      BY <1>3, <1>6, <2>2 DEF Saved
    <2> QED
      BY <1>6, <2>3 DEF PersonsKeyed, Keyed
  <1> QED
    BY <1>5, <1>6 DEF PersonStep, TakenOver

\* Persons that lose their account, all of those C says, or go
LEMMA UnlinkingSteps ==
    ASSUME IInv, PersonsKeyed, next'["person"] = next["person"],
           \A q \in person' : \E p \in person : q = p \/ q = Unlinked(p)
    PROVE  \A p \in person, q \in person' : ~TakenOver(p, q)
  <1>1. ASSUME NEW p \in person PROVE Unlinked(p).id = p.id /\ Unlinked(p).user = None
    BY DEF Unlinked, IInv, TypeOK, PersonRow
  <1> QED
    BY <1>1 DEF TakenOver, PersonsKeyed, Keyed

LEMMA MappedPersonsKeyed ==
    ASSUME IInv, PersonsKeyed, next'["person"] = next["person"], NEW C, NEW P \in SUBSET person,
           person' = {IF p \in C THEN Unlinked(p) ELSE p : p \in P}
    PROVE  PersonStep
  <1>1. PICK f : f = [p \in P |-> IF p \in C THEN Unlinked(p) ELSE p]
    OBVIOUS
  <1>2. person' = {f[p] : p \in P}
    BY <1>1
  <1>3. ASSUME NEW p \in P PROVE f[p].id = p.id
    <2>1. Unlinked(p).id = p.id
      BY DEF Unlinked, IInv, TypeOK, PersonRow
    <2> QED
      BY <1>1, <2>1
  <1>4. PersonsKeyed'
    BY <1>2, <1>3 DEF PersonsKeyed, Keyed
  <1>5. \A q \in person' : \E p \in person : q = p \/ q = Unlinked(p)
    BY <1>1, <1>2
  <1> QED
    BY <1>4, <1>5, UnlinkingSteps DEF PersonStep

LEMMA RemovingSteps ==
    ASSUME IInv, PersonsKeyed, NEW w \in Worker, RemoveMember(w)
    PROVE  PersonStep
  <1> DEFINE m == req[w].row
  <1>1. PICK C : C = {p \in person : p.hh = m.hh /\ p.user = m.user}
    OBVIOUS
  <1>2. person' = {IF p.hh = m.hh /\ p.user = m.user THEN Unlinked(p) ELSE p : p \in person}
        /\ UNCHANGED next
    BY DEF RemoveMember
  <1>3. person' = {IF p \in C THEN Unlinked(p) ELSE p : p \in person}
    BY <1>1, <1>2
  <1> QED
    BY <1>2, <1>3, MappedPersonsKeyed

LEMMA ClosingSteps ==
    ASSUME IInv, PersonsKeyed, NEW u \in User, DeleteAccount(u)
    PROVE  PersonStep
  <1> DEFINE gone == {h.id : h \in {g \in household : g.personal = u}}
  <1>1. PICK C, P : C = {p \in person : p.user = u} /\ P = {q \in person : q.hh \notin gone}
    OBVIOUS
  <1>2. person' = {IF p.user = u THEN Unlinked(p) ELSE p : p \in {q \in person : q.hh \notin gone}}
        /\ UNCHANGED next
    BY DEF DeleteAccount
  <1>3. person' = {IF p \in C THEN Unlinked(p) ELSE p : p \in P}
    BY <1>1, <1>2
  <1>4. P \in SUBSET person
    BY <1>1
  <1>5. next'["person"] = next["person"]
    BY <1>2
  <1> QED
    BY <1>3, <1>4, <1>5, MappedPersonsKeyed

\* create_household, and AddPerson
LEMMA CreatingSteps ==
    ASSUME IInv, [Next]_vars, PersonsKeyed, NEW w \in Worker,
           CreatePersonalHousehold(w) \/ CreateHousehold(w) \/ AddPerson(w)
    PROVE  PersonStep
  <1>1. CASE AddPerson(w)
    <2>1. PICK q : q = [id |-> next["person"], hh |-> req[w].hh.id, user |-> None]
      OBVIOUS
    <2>2. person' = person \cup {q} /\ q.id = next["person"]
      BY <1>1, <2>1 DEF AddPerson
    <2>3. next'["person"] = next["person"] + 1
      BY <1>1 DEF AddPerson, UseKeys, TableNames
    <2> QED
      BY <2>2, <2>3, OneMorePerson
  <1>2. CASE CreatePersonalHousehold(w) \/ CreateHousehold(w)
    <2>1. PICK u, v : create_household(u, v)
      BY <1>2 DEF CreatePersonalHousehold, CreateHousehold
    <2>2. PICK q : q = [id |-> next["person"], hh |-> next["household"], user |-> u]
      OBVIOUS
    <2>3. person' = person \cup {q} /\ q.id = next["person"]
      BY <2>1, <2>2 DEF create_household
    <2>4. next'["person"] = next["person"] + 1
      BY <2>1 DEF create_household, UseKeys, TableNames
    <2> QED
      BY <2>3, <2>4, OneMorePerson
  <1> QED
    BY <1>1, <1>2

LEMMA OtherSteps ==
    ASSUME PersonsKeyed, NEW w \in Worker,
           Serve(w), ~RenamePerson(w), ~ClaimPerson(w), ~RemoveMember(w),
           ~CreatePersonalHousehold(w), ~CreateHousehold(w), ~AddPerson(w)
    PROVE  PersonStep
  <1>1. CASE Enter(w) \/ Abandon(w)
    BY <1>1, FewerPersons DEF Enter, Abandon, tables
  <1>2. CASE SaveAccount(w) \/ RenameHousehold(w) \/ SetRole(w)
    BY <1>2, FewerPersons DEF SaveAccount, RenameHousehold, SetRole
  <1>3. CASE DeleteHousehold(w) \/ DeletePerson(w)
    <2>1. person' \subseteq person /\ next' = next
      BY <1>3 DEF DeleteHousehold, DeletePerson, Without
    <2> QED
      BY <2>1, FewerPersons
  <1>4. CASE \/ LoadPerson(w) \/ CheckPersonIsNoMember(w) \/ CheckCallerIsNobody(w)
             \/ LoadMember(w) \/ CheckRole(w) \/ CheckLeaving(w)
    BY <1>4, FewerPersons
    DEF LoadPerson, CheckPersonIsNoMember, CheckCallerIsNobody, LoadMember, CheckRole,
        CheckLeaving, Advance, tables
  <1>5. CASE \/ InviteMember(w) \/ LoadInvitation(w) \/ CancelInvitation(w)
             \/ LoadPendingInvitation(w)
    BY <1>5, FewerPersons
    DEF InviteMember, LoadInvitation, CancelInvitation, LoadPendingInvitation, Advance,
        tables
  <1>6. CASE InviteNewcomer(w) \/ Accept(w)
    <2>1. person' = person /\ next'["person"] = next["person"]
      BY <1>6 DEF InviteNewcomer, Accept, UseKeys, TableNames
    <2> QED
      BY <2>1, FewerPersons
  <1> QED
    BY <1>1, <1>2, <1>3, <1>4, <1>5, <1>6 DEF Serve, MembershipStep, InvitationStep

LEMMA PersonSteps == IInv /\ PersonsKeyed /\ [Next]_vars => PersonStep
  <1> SUFFICES ASSUME IInv, PersonsKeyed, [Next]_vars PROVE PersonStep
    OBVIOUS
  <1>1. ASSUME NEW w \in Worker, Serve(w) PROVE PersonStep
    BY <1>1, RenamingSteps, ClaimingSteps, RemovingSteps, CreatingSteps, OtherSteps
  <1>2. ASSUME NEW u \in User, DeleteAccount(u) PROVE PersonStep
    BY <1>2, ClosingSteps
  <1>3. CASE Expire \/ UNCHANGED vars
    BY <1>3, FewerPersons DEF Expire, vars, tables
  <1> QED
    BY <1>1, <1>2, <1>3 DEF Next

\* Of two claims, only one finds the person free: an account takes the person
\* of another only when a rename writes it back (PersonClaimView.post,
\* views.py:174-176).
THEOREM ClaimsAreConditional == Spec => ClaimsTakeOnlyFreePersons
  <1> DEFINE Conditional == \A p \in person, q \in person' :
          p.id = q.id /\ p.user # None /\ q.user \notin {None, p.user}
             => \E w \in Worker : At(w, "rename person", "loaded") /\ RenamePerson(w)
  <1>1. Init => PersonsKeyed
    BY StartAssumption DEF Init, PersonsKeyed
  <1>2. IInv /\ PersonsKeyed /\ [Next]_vars => PersonsKeyed'
    BY PersonSteps DEF PersonStep
  <1>3. IInv /\ PersonsKeyed /\ [Next]_vars => [Conditional]_vars
    BY PersonSteps DEF PersonStep, TakenOver, Renaming
  <1> QED
    BY <1>1, <1>2, <1>3, RequestsStayHarmless, PTL DEF Spec, ClaimsTakeOnlyFreePersons

--------------------------------------------------------------------------------
(***************************************************************************)
(* The rules of a household, when one worker serves one request at a time  *)
(* and no account is deleted.                                              *)
(***************************************************************************)
OneAtATime(w) == Worker = {w} /\ Closable = {}

\* The tables obey the rules when the behaviour begins.
SoundStart ==
    /\ \A h \in Start.household : \E m \in Start.member : m.hh = h.id /\ m.role = "owner"
    /\ \A m \in Start.member : m.role = "owner" =>
          \E p \in Start.person : p.hh = m.hh /\ p.user = m.user
    /\ \A p \in Start.person : p.user # None =>
          \E m \in Start.member : m.hh = p.hh /\ m.user = p.user

LinkedPersonsAreMembers == \A p \in person : p.user # None => IsMember(p.hh, p.user)

TablesAreSound ==
    /\ Keyed(member, next["member"]) /\ PersonsKeyed
    /\ UniqueMembershipPerHousehold(member)
    /\ SharedHouseholdsHaveAnOwner /\ OwnersAreSomeone /\ LinkedPersonsAreMembers

\* What a request read still stands, and what it checked still holds.
RoleMayChange(m, role) ==
    \/ role = m.role
    \/ /\ role = "member" => ~is_last_owner(m)
       /\ role = "owner" => IsSomeone(m.hh, m.user)
RequestIsCurrent(w) ==
    /\ req[w].op \in ScopedRoutes =>
          req[w].hh \in household /\ IsMember(req[w].hh.id, req[w].user)
    /\ HoldsPerson(w) => req[w].row \in person
    /\ HoldsMember(w) /\ req[w].step = "loaded" => req[w].row \in member
    /\ At(w, "delete person", "checked") /\ req[w].row.user # None =>
          ~IsMember(req[w].row.hh, req[w].row.user)
    /\ At(w, "set role", "checked") =>
          \E m \in member, role \in Role :
              RoleMayChange(m, role) /\ req[w].row = [m EXCEPT !.role = role]
    /\ At(w, "remove member", "checked") =>
          req[w].row \in member /\ ~is_last_owner(req[w].row)

SerialInv(w) == TablesAreSound /\ RequestIsCurrent(w)

LEMMA SavedInPlace ==
    ASSUME NEW T, NEW n, Keyed(T, n), NEW r \in T
    PROVE  Saved(T, r) = T
  BY DEF Keyed, Saved

LEMMA IdleIsCurrent ==
    ASSUME NEW w, req'[w] = Idle
    PROVE  RequestIsCurrent(w)'
  BY DEF RequestIsCurrent, Idle, HoldsPerson, HoldsMember, At, ScopedRoutes, OwnerRoutes,
         MemberRoutes, PersonRoutes

LEMMA FinishIsIdle ==
    ASSUME IInv, NEW w \in Worker, Finish(w)
    PROVE  req'[w] = Idle
  BY DEF Finish, IInv, TypeOK

LEMMA SoundWhenUnchanged ==
    ASSUME TablesAreSound, UNCHANGED <<household, member, person>>,
           next'["member"] = next["member"], next'["person"] = next["person"]
    PROVE  TablesAreSound'
  BY DEF TablesAreSound, PersonsKeyed, Keyed, UniqueMembershipPerHousehold,
         SharedHouseholdsHaveAnOwner, OwnersAreSomeone, LinkedPersonsAreMembers, IsMember,
         IsSomeone

LEMMA CurrentWhenUnchanged ==
    ASSUME NEW w, RequestIsCurrent(w), UNCHANGED <<household, member, person, req>>
    PROVE  RequestIsCurrent(w)'
  <1>1. \A m : is_last_owner(m)' = is_last_owner(m)
    BY DEF is_last_owner
  <1>2. \A h, u : /\ IsMember(h, u)' = IsMember(h, u)
                  /\ IsSomeone(h, u)' = IsSomeone(h, u)
    BY DEF IsMember, IsSomeone
  <1>3. \A m, role : RoleMayChange(m, role)' = RoleMayChange(m, role)
    BY <1>1, <1>2 DEF RoleMayChange
  <1> QED
    BY <1>1, <1>2, <1>3 DEF RequestIsCurrent, HoldsPerson, HoldsMember, Loaded, At

\* Numbers, from the types
LEMMA MembershipNumbers ==
    ASSUME IInv
    PROVE  /\ next["household"] \in Nat /\ next["member"] \in Nat /\ next["person"] \in Nat
           /\ \A h \in household : h.id \in Nat /\ h.id < next["household"]
           /\ \A m \in member : /\ m.id \in Nat /\ m.hh \in Nat /\ m.user \in User
                                /\ m.hh < next["household"]
           /\ \A p \in person : p.id \in Nat /\ p.hh \in Nat /\ p.hh < next["household"]
  <1>1. next \in Keys
    BY DEF IInv, TypeOK
  <1>2. next["household"] \in Nat /\ next["member"] \in Nat /\ next["person"] \in Nat
    BY <1>1, NextIsNat
  <1>3. \A h \in household : h.id \in Nat /\ h.id < next["household"]
    BY DEF IInv, TypeOK, HouseholdRow, HouseholdKeys, KnownHouseholds
  <1>4. \A m \in member : /\ m.id \in Nat /\ m.hh \in Nat /\ m.user \in User
                          /\ m.hh < next["household"]
    BY DEF IInv, TypeOK, MemberRow, MemberKeys, KnownMembers
  <1>5. \A p \in person : p.id \in Nat /\ p.hh \in Nat /\ p.hh < next["household"]
    BY DEF IInv, TypeOK, PersonRow, PersonKeys, KnownPersons
  <1> QED
    BY <1>2, <1>3, <1>4, <1>5

\* create_household
LEMMA CreatingSound ==
    ASSUME IInv, TablesAreSound, NEW u \in User, NEW v, create_household(u, v)
    PROVE  TablesAreSound'
  <1>1. PICK m : m = [id |-> next["member"], hh |-> next["household"], user |-> u, role |-> "owner"]
    OBVIOUS
  <1>2. PICK p : p = [id |-> next["person"], hh |-> next["household"], user |-> u]
    OBVIOUS
  <1>3. PICK h : h = [id |-> next["household"], personal |-> v]
    OBVIOUS
  <1>4. member' = member \cup {m} /\ person' = person \cup {p} /\ household' = household \cup {h}
    BY <1>1, <1>2, <1>3 DEF create_household
  <1>5. /\ m.id = next["member"] /\ m.hh = next["household"] /\ m.user = u /\ m.role = "owner"
        /\ p.id = next["person"] /\ p.hh = next["household"] /\ p.user = u
        /\ h.id = next["household"]
    BY <1>1, <1>2, <1>3
  <1>6. next'["member"] = next["member"] + 1 /\ next'["person"] = next["person"] + 1
    BY DEF create_household, UseKeys, TableNames
  <1>7. Keyed(member, next["member"])' /\ PersonsKeyed'
    BY <1>4, <1>5, <1>6, MembershipNumbers DEF TablesAreSound, PersonsKeyed, Keyed
  <1>8. UniqueMembershipPerHousehold(member)'
    BY <1>4, <1>5, MembershipNumbers DEF TablesAreSound, UniqueMembershipPerHousehold
  <1>9. SharedHouseholdsHaveAnOwner'
    BY <1>4, <1>5 DEF TablesAreSound, SharedHouseholdsHaveAnOwner
  <1>10. OwnersAreSomeone'
    BY <1>4, <1>5 DEF TablesAreSound, OwnersAreSomeone, IsSomeone
  <1>11. LinkedPersonsAreMembers'
    BY <1>4, <1>5 DEF TablesAreSound, LinkedPersonsAreMembers, IsMember
  <1> QED
    BY <1>7, <1>8, <1>9, <1>10, <1>11 DEF TablesAreSound

LEMMA DeletingHouseholdSound ==
    ASSUME TablesAreSound, NEW w, DeleteHousehold(w)
    PROVE  TablesAreSound'
  <1>1. PICK h : h = req[w].hh
    OBVIOUS
  <1>2. /\ household' = {g \in household : g.id # h.id}
        /\ member' = {m \in member : m.hh # h.id}
        /\ person' = {p \in person : p.hh # h.id}
        /\ next' = next
    BY <1>1 DEF DeleteHousehold, Without
  <1>3. Keyed(member, next["member"])' /\ PersonsKeyed' /\ UniqueMembershipPerHousehold(member)'
    BY <1>2 DEF TablesAreSound, PersonsKeyed, Keyed, UniqueMembershipPerHousehold
  <1>4. SharedHouseholdsHaveAnOwner'
    BY <1>2 DEF TablesAreSound, SharedHouseholdsHaveAnOwner
  <1>5. OwnersAreSomeone'
    BY <1>2 DEF TablesAreSound, OwnersAreSomeone, IsSomeone
  <1>6. LinkedPersonsAreMembers'
    BY <1>2 DEF TablesAreSound, LinkedPersonsAreMembers, IsMember
  <1> QED
    BY <1>3, <1>4, <1>5, <1>6 DEF TablesAreSound

\* A rename writes what is there already.
LEMMA RenamingWritesNothing ==
    ASSUME IInv, NEW w, SerialInv(w), RenameHousehold(w) \/ RenamePerson(w)
    PROVE  UNCHANGED <<household, member, person, next>>
  <1>1. CASE RenameHousehold(w)
    <2>1. req[w].hh \in household
      BY <1>1 DEF RenameHousehold, At, SerialInv, RequestIsCurrent, ScopedRoutes, OwnerRoutes
    <2>2. Keyed(household, next["household"])
      BY DEF IInv, HouseholdKeys, KnownHouseholds, Keyed
    <2> QED
      BY <1>1, <2>1, <2>2, SavedInPlace DEF RenameHousehold
  <1>2. CASE RenamePerson(w)
    <2>1. req[w].row \in person
      BY <1>2 DEF RenamePerson, At, SerialInv, RequestIsCurrent, HoldsPerson, Loaded, PersonRoutes
    <2> QED
      BY <1>2, <2>1, SavedInPlace DEF RenamePerson, SerialInv, TablesAreSound, PersonsKeyed
  <1> QED
    BY <1>1, <1>2

LEMMA RenamingSound ==
    ASSUME IInv, NEW w, SerialInv(w), RenameHousehold(w) \/ RenamePerson(w)
    PROVE  TablesAreSound'
  BY RenamingWritesNothing, SoundWhenUnchanged DEF SerialInv

LEMMA AddingPersonSound ==
    ASSUME IInv, TablesAreSound, NEW w, AddPerson(w)
    PROVE  TablesAreSound'
  <1>1. PICK q : q = [id |-> next["person"], hh |-> req[w].hh.id, user |-> None]
    OBVIOUS
  <1>2. /\ person' = person \cup {q} /\ q.id = next["person"] /\ q.user = None
        /\ household' = household /\ member' = member
    BY <1>1 DEF AddPerson
  <1>3. next'["person"] = next["person"] + 1 /\ next'["member"] = next["member"]
    BY DEF AddPerson, UseKeys, TableNames
  <1>4. PersonsKeyed'
    BY <1>2, <1>3, MembershipNumbers DEF TablesAreSound, PersonsKeyed, Keyed
  <1>5. Keyed(member, next["member"])' /\ UniqueMembershipPerHousehold(member)'
        /\ SharedHouseholdsHaveAnOwner'
    BY <1>2, <1>3 DEF TablesAreSound, Keyed, UniqueMembershipPerHousehold,
                      SharedHouseholdsHaveAnOwner
  <1>6. OwnersAreSomeone' /\ LinkedPersonsAreMembers'
    BY <1>2 DEF TablesAreSound, OwnersAreSomeone, IsSomeone, LinkedPersonsAreMembers, IsMember
  <1> QED
    BY <1>4, <1>5, <1>6 DEF TablesAreSound

LEMMA DeletingPersonSound ==
    ASSUME IInv, NEW w, SerialInv(w), DeletePerson(w)
    PROVE  TablesAreSound'
  <1>1. PICK r : r = req[w].row
    OBVIOUS
  <1>2. /\ r \in person /\ (r.user # None => ~IsMember(r.hh, r.user))
    BY <1>1 DEF DeletePerson, At, SerialInv, RequestIsCurrent, HoldsPerson, Loaded, PersonRoutes
  <1>3. person' = {p \in person : p.id # r.id} /\ UNCHANGED <<household, member, next>>
    BY <1>1 DEF DeletePerson, Without
  <1>4. \A p \in person : p.id = r.id => p = r
    BY <1>2 DEF SerialInv, TablesAreSound, PersonsKeyed, Keyed
  <1>5. OwnersAreSomeone'
    <2> SUFFICES ASSUME NEW m \in member, m.role = "owner" PROVE IsSomeone(m.hh, m.user)'
      BY <1>3 DEF OwnersAreSomeone
    <2>1. PICK p \in person : p.hh = m.hh /\ p.user = m.user
      BY DEF SerialInv, TablesAreSound, OwnersAreSomeone, IsSomeone
    <2>2. p.user # None /\ IsMember(p.hh, p.user)
      BY <2>1, MembershipNumbers, UserAssumption DEF IsMember
    <2>3. p \in person'
      BY <1>2, <1>3, <1>4, <2>2
    <2> QED
      BY <2>1, <2>3, <1>3 DEF IsSomeone
  <1>6. LinkedPersonsAreMembers' /\ PersonsKeyed'
    BY <1>3 DEF SerialInv, TablesAreSound, LinkedPersonsAreMembers, IsMember, PersonsKeyed, Keyed
  <1>7. Keyed(member, next["member"])' /\ UniqueMembershipPerHousehold(member)'
        /\ SharedHouseholdsHaveAnOwner'
    BY <1>3 DEF SerialInv, TablesAreSound, Keyed, UniqueMembershipPerHousehold,
                SharedHouseholdsHaveAnOwner
  <1> QED
    BY <1>5, <1>6, <1>7 DEF TablesAreSound

LEMMA ClaimingSound ==
    ASSUME IInv, NEW w, SerialInv(w), ClaimPerson(w)
    PROVE  TablesAreSound'
  <1>1. PICK p \in person : /\ p.id = req[w].row.id /\ p.hh = req[w].hh.id /\ p.user = None
                            /\ person' = Saved(person, [p EXCEPT !.user = req[w].user])
    BY DEF ClaimPerson
  <1>2. PICK q : q = [p EXCEPT !.user = req[w].user]
    OBVIOUS
  <1>3. q.id = p.id /\ q.hh = p.hh /\ q.user = req[w].user
    BY <1>2 DEF IInv, TypeOK, PersonRow
  <1>4. person' = {x \in person : x.id # p.id} \cup {q} /\ UNCHANGED <<household, member, next>>
    BY <1>1, <1>2, <1>3 DEF ClaimPerson, Saved
  <1>5. IsMember(q.hh, q.user)
    BY <1>1, <1>3 DEF ClaimPerson, At, SerialInv, RequestIsCurrent, ScopedRoutes, PersonRoutes
  <1>6. \A x \in person : x.id = p.id => x = p
    BY DEF SerialInv, TablesAreSound, PersonsKeyed, Keyed
  <1>7. OwnersAreSomeone'
    <2> SUFFICES ASSUME NEW m \in member, m.role = "owner" PROVE IsSomeone(m.hh, m.user)'
      BY <1>4 DEF OwnersAreSomeone
    <2>1. PICK x \in person : x.hh = m.hh /\ x.user = m.user
      BY DEF SerialInv, TablesAreSound, OwnersAreSomeone, IsSomeone
    <2>2. x.user # None
      BY <2>1, MembershipNumbers, UserAssumption
    <2>3. x \in person'
      BY <1>1, <1>4, <1>6, <2>2
    <2> QED
      BY <2>1, <2>3, <1>4 DEF IsSomeone
  <1>8. LinkedPersonsAreMembers'
    BY <1>4, <1>5 DEF SerialInv, TablesAreSound, LinkedPersonsAreMembers, IsMember
  <1>9. PersonsKeyed'
    BY <1>3, <1>4 DEF SerialInv, TablesAreSound, PersonsKeyed, Keyed
  <1>10. Keyed(member, next["member"])' /\ UniqueMembershipPerHousehold(member)'
        /\ SharedHouseholdsHaveAnOwner'
    BY <1>4 DEF SerialInv, TablesAreSound, Keyed, UniqueMembershipPerHousehold,
                SharedHouseholdsHaveAnOwner
  <1> QED
    BY <1>7, <1>8, <1>9, <1>10 DEF TablesAreSound

\* Somebody else owns the household of a member who is not its last owner.
LEMMA AnotherOwner ==
    ASSUME SharedHouseholdsHaveAnOwner, NEW m \in member, ~is_last_owner(m),
           NEW h \in household, h.id = m.hh
    PROVE  \E n \in member : n # m /\ n.hh = h.id /\ n.role = "owner"
  <1>1. PICK o \in member : o.hh = h.id /\ o.role = "owner"
    BY DEF SharedHouseholdsHaveAnOwner
  <1>2. CASE m.role = "owner"
    <2>1. PICK S : S = {n \in member : n.hh = m.hh /\ n.role = "owner"}
      OBVIOUS
    <2>2. m \in S /\ S # {m}
      BY <1>2, <2>1 DEF is_last_owner, OnlyOne
    <2>3. PICK n \in S : n # m
      BY <2>2
    <2> QED
      BY <2>1, <2>3
  <1> QED
    BY <1>1, <1>2

LEMMA SettingRoleSound ==
    ASSUME IInv, NEW w, SerialInv(w), SetRole(w)
    PROVE  TablesAreSound'
  <1>1. PICK m \in member, role \in Role :
           RoleMayChange(m, role) /\ req[w].row = [m EXCEPT !.role = role]
    BY DEF SetRole, SerialInv, RequestIsCurrent
  <1>2. PICK n : n = [m EXCEPT !.role = role]
    OBVIOUS
  <1>3. n.id = m.id /\ n.hh = m.hh /\ n.user = m.user /\ n.role = role
    BY <1>2 DEF IInv, TypeOK, MemberRow
  <1>4. /\ member' = {x \in member : x.id # m.id} \cup {n}
        /\ UNCHANGED <<household, person, next>>
    BY <1>1, <1>2, <1>3 DEF SetRole, Saved
  <1>5. \A x \in member : x.id = m.id => x = m
    BY DEF SerialInv, TablesAreSound, Keyed
  <1>6. Keyed(member, next["member"])' /\ PersonsKeyed'
    BY <1>3, <1>4 DEF SerialInv, TablesAreSound, Keyed, PersonsKeyed
  <1>7. UniqueMembershipPerHousehold(member)'
    BY <1>3, <1>4, <1>5 DEF SerialInv, TablesAreSound, UniqueMembershipPerHousehold
  <1>8. SharedHouseholdsHaveAnOwner'
    <2> SUFFICES ASSUME NEW h \in household PROVE \E x \in member' : x.hh = h.id /\ x.role = "owner"
      BY <1>4 DEF SharedHouseholdsHaveAnOwner
    <2>1. CASE h.id # m.hh
      BY <2>1, <1>4, <1>5 DEF SerialInv, TablesAreSound, SharedHouseholdsHaveAnOwner
    <2>2. CASE h.id = m.hh /\ role = "owner"
      BY <2>2, <1>3, <1>4
    <2>3. CASE h.id = m.hh /\ role = "member"
      <3>1. CASE m.role = "owner"
        BY <2>3, <3>1, <1>1, <1>4, <1>5, AnotherOwner DEF SerialInv, TablesAreSound, RoleMayChange
      <3>2. CASE m.role # "owner"
        <4>1. PICK x \in member : x.hh = h.id /\ x.role = "owner"
          BY DEF SerialInv, TablesAreSound, SharedHouseholdsHaveAnOwner
        <4> QED
          BY <3>2, <4>1, <1>4, <1>5
      <3> QED
        BY <3>1, <3>2
    <2> QED
      BY <2>1, <2>2, <2>3 DEF Role
  <1>9. OwnersAreSomeone'
    BY <1>1, <1>3, <1>4 DEF SerialInv, TablesAreSound, OwnersAreSomeone, IsSomeone, RoleMayChange
  <1>10. LinkedPersonsAreMembers'
    <2> SUFFICES ASSUME NEW p \in person, p.user # None PROVE IsMember(p.hh, p.user)'
      BY <1>4 DEF LinkedPersonsAreMembers
    <2>1. PICK x \in member : x.hh = p.hh /\ x.user = p.user
      BY DEF SerialInv, TablesAreSound, LinkedPersonsAreMembers, IsMember
    <2> QED
      BY <2>1, <1>3, <1>4, <1>5 DEF IsMember
  <1> QED
    BY <1>6, <1>7, <1>8, <1>9, <1>10 DEF TablesAreSound

LEMMA RemovingSound ==
    ASSUME IInv, NEW w \in Worker, SerialInv(w), RemoveMember(w)
    PROVE  TablesAreSound'
  <1>1. PICK m : m = req[w].row
    OBVIOUS
  <1>2. m \in member /\ ~is_last_owner(m)
    BY <1>1 DEF RemoveMember, At, SerialInv, RequestIsCurrent
  <1>3. PICK f : f = [p \in person |-> IF p.hh = m.hh /\ p.user = m.user THEN Unlinked(p) ELSE p]
    OBVIOUS
  <1>4. /\ person' = {f[p] : p \in person} /\ member' = {x \in member : x.id # m.id}
        /\ UNCHANGED <<household, next>>
    BY <1>1, <1>3 DEF RemoveMember, Without
  <1>5. \A x \in member : x.id = m.id => x = m
    BY <1>2 DEF SerialInv, TablesAreSound, Keyed
  <1>6. Keyed(member, next["member"])' /\ UniqueMembershipPerHousehold(member)'
    BY <1>4 DEF SerialInv, TablesAreSound, Keyed, UniqueMembershipPerHousehold
  <1>7. PersonsKeyed'
    BY RemovingSteps DEF SerialInv, TablesAreSound, PersonStep
  <1>8. SharedHouseholdsHaveAnOwner'
    <2> SUFFICES ASSUME NEW h \in household PROVE \E x \in member' : x.hh = h.id /\ x.role = "owner"
      BY <1>4 DEF SharedHouseholdsHaveAnOwner
    <2>1. CASE h.id # m.hh
      BY <2>1, <1>4, <1>5 DEF SerialInv, TablesAreSound, SharedHouseholdsHaveAnOwner
    <2>2. CASE h.id = m.hh
      BY <2>2, <1>2, <1>4, <1>5, AnotherOwner DEF SerialInv, TablesAreSound
    <2> QED
      BY <2>1, <2>2
  <1>9. OwnersAreSomeone'
    <2> SUFFICES ASSUME NEW x \in member, x.id # m.id, x.role = "owner"
                 PROVE  IsSomeone(x.hh, x.user)'
      BY <1>4 DEF OwnersAreSomeone
    <2>1. PICK p \in person : p.hh = x.hh /\ p.user = x.user
      BY DEF SerialInv, TablesAreSound, OwnersAreSomeone, IsSomeone
    <2>2. ~(x.hh = m.hh /\ x.user = m.user)
      BY <1>2 DEF SerialInv, TablesAreSound, UniqueMembershipPerHousehold
    <2>3. f[p] = p
      BY <1>3, <2>1, <2>2
    <2>4. p \in person'
      BY <1>4, <2>3
    <2> QED
      BY <2>1, <2>4, <1>4 DEF IsSomeone
  <1>10. LinkedPersonsAreMembers'
    <2> SUFFICES ASSUME NEW p \in person, f[p].user # None PROVE IsMember(f[p].hh, f[p].user)'
      BY <1>4 DEF LinkedPersonsAreMembers
    <2>1. f[p] = p /\ ~(p.hh = m.hh /\ p.user = m.user)
      <3>1. Unlinked(p).user = None
        BY DEF Unlinked, IInv, TypeOK, PersonRow
      <3> QED
        BY <1>3, <3>1
    <2>2. PICK x \in member : x.hh = p.hh /\ x.user = p.user
      BY <2>1 DEF SerialInv, TablesAreSound, LinkedPersonsAreMembers, IsMember
    <2>3. x \in member'
      BY <1>4, <1>5, <2>1, <2>2
    <2> QED
      BY <2>1, <2>2, <2>3 DEF IsMember
  <1> QED
    BY <1>6, <1>7, <1>8, <1>9, <1>10 DEF TablesAreSound

LEMMA AcceptingSound ==
    ASSUME IInv, TablesAreSound, NEW w \in Worker, Accept(w)
    PROVE  TablesAreSound'
  <1>1. PICK i, u : i = req[w].row /\ u = req[w].user
    OBVIOUS
  <1>2. UNCHANGED <<household, person>> /\ next'["person"] = next["person"]
    BY DEF Accept, UseKeys, TableNames
  <1>3. CASE IsMember(i.hh, u)
    <2>1. member' = member /\ next'["member"] = next["member"]
      BY <1>1, <1>3 DEF Accept, UseKeys, TableNames
    <2> QED
      BY <1>2, <2>1, SoundWhenUnchanged
  <1>4. CASE ~IsMember(i.hh, u)
    <2>1. PICK m : m = [id |-> next["member"], hh |-> i.hh, user |-> u, role |-> "member"]
      OBVIOUS
    <2>2. /\ member' = member \cup {m} /\ m.id = next["member"] /\ m.hh = i.hh /\ m.user = u
          /\ m.role = "member"
      BY <1>1, <1>4, <2>1 DEF Accept
    <2>3. next'["member"] = next["member"] + 1
      BY <1>1, <1>4 DEF Accept, UseKeys, TableNames
    <2>4. Keyed(member, next["member"])'
      BY <2>2, <2>3, MembershipNumbers DEF TablesAreSound, Keyed
    <2>5. UniqueMembershipPerHousehold(member)'
      BY <1>4, <2>2 DEF TablesAreSound, UniqueMembershipPerHousehold, IsMember
    <2>6. SharedHouseholdsHaveAnOwner' /\ OwnersAreSomeone' /\ PersonsKeyed'
      BY <1>2, <2>2 DEF TablesAreSound, SharedHouseholdsHaveAnOwner, OwnersAreSomeone, IsSomeone,
                        PersonsKeyed, Keyed
    <2>7. LinkedPersonsAreMembers'
      BY <1>2, <2>2 DEF TablesAreSound, LinkedPersonsAreMembers, IsMember
    <2> QED
      BY <2>4, <2>5, <2>6, <2>7 DEF TablesAreSound
  <1> QED
    BY <1>3, <1>4

--------------------------------------------------------------------------------
(***************************************************************************)
(* What a request holds, after a step that writes nothing.                 *)
(***************************************************************************)
LEMMA AdvanceFields ==
    ASSUME IInv, NEW w \in Worker, NEW step, NEW row, Advance(w, step, row)
    PROVE  /\ req'[w].op = req[w].op /\ req'[w].hh = req[w].hh /\ req'[w].user = req[w].user
           /\ req'[w].step = step /\ req'[w].row = row
           /\ UNCHANGED <<household, member, person>>
  BY AdvanceMoves DEF IInv, tables

LEMMA SameQuestions ==
    ASSUME UNCHANGED <<household, member, person>>
    PROVE  /\ \A m : is_last_owner(m)' = is_last_owner(m)
           /\ \A h, u : IsMember(h, u)' = IsMember(h, u) /\ IsSomeone(h, u)' = IsSomeone(h, u)
           /\ \A m, role : RoleMayChange(m, role)' = RoleMayChange(m, role)
  <1>1. \A m : is_last_owner(m)' = is_last_owner(m)
    BY DEF is_last_owner
  <1>2. \A h, u : IsMember(h, u)' = IsMember(h, u) /\ IsSomeone(h, u)' = IsSomeone(h, u)
    BY DEF IsMember, IsSomeone
  <1> QED
    BY <1>1, <1>2 DEF RoleMayChange

LEMMA RoutesApart ==
    /\ \A r \in PersonRoutes : r \in ScopedRoutes /\ r \notin MemberRoutes
                               /\ r \notin {"set role", "remove member"}
    /\ \A r \in MemberRoutes : r \in ScopedRoutes /\ r \notin PersonRoutes /\ r # "delete person"
    /\ \A r \in {"sign up", "accept", "cancel", "none"} :
          r \notin PersonRoutes \cup MemberRoutes /\ r # "delete person"
    /\ \A r \in {"sign up", "accept", "none"} : r \notin ScopedRoutes
    /\ "cancel" \in ScopedRoutes
  BY DEF ScopedRoutes, OwnerRoutes, MemberRoutes, PersonRoutes

LEMMA EnteringIsCurrent ==
    ASSUME IInv, NEW w \in Worker, Enter(w)
    PROVE  RequestIsCurrent(w)'
  <1>1. PICK u \in User, h \in household, op \in Routes \cap ScopedRoutes :
           Permitted(op, h, u) /\ Call(w, op, "permitted", u, h, NoRow)
    BY DEF Enter
  <1>2. req'[w].step = "permitted" /\ req'[w].hh = h /\ req'[w].user = u
    BY <1>1, CallMoves DEF IInv
  <1>3. UNCHANGED <<household, member, person>>
    BY DEF Enter, tables
  <1>4. IsMember(h.id, u)'
    BY <1>1, <1>3 DEF Permitted, IsMember
  <1>5. (req[w].hh \in household /\ IsMember(req[w].hh.id, req[w].user))'
    BY <1>1, <1>2, <1>3, <1>4 DEF IsMember
  <1> QED
    BY <1>2, <1>5 DEF RequestIsCurrent, HoldsPerson, HoldsMember, Loaded, At

LEMMA LoadingIsCurrent ==
    ASSUME IInv, NEW w \in Worker, RequestIsCurrent(w), LoadPerson(w) \/ LoadMember(w)
    PROVE  RequestIsCurrent(w)'
  <1>1. CASE LoadPerson(w)
    <2>1. PICK p \in person : Advance(w, "loaded", p)
      BY <1>1 DEF LoadPerson
    <2>2. /\ req'[w].op = req[w].op /\ req'[w].hh = req[w].hh /\ req'[w].user = req[w].user
          /\ req'[w].step = "loaded" /\ req'[w].row = p
          /\ UNCHANGED <<household, member, person>>
      BY <2>1, AdvanceFields
    <2>3. req[w].op \in PersonRoutes
      BY <1>1 DEF LoadPerson
    <2> QED
      BY <2>2, <2>3, SameQuestions, RoutesApart
      DEF RequestIsCurrent, HoldsPerson, HoldsMember, Loaded, At
  <1>2. CASE LoadMember(w)
    <2>1. PICK m \in member : Advance(w, "loaded", m)
      BY <1>2 DEF LoadMember
    <2>2. /\ req'[w].op = req[w].op /\ req'[w].hh = req[w].hh /\ req'[w].user = req[w].user
          /\ req'[w].step = "loaded" /\ req'[w].row = m
          /\ UNCHANGED <<household, member, person>>
      BY <2>1, AdvanceFields
    <2>3. req[w].op \in MemberRoutes
      BY <1>2 DEF LoadMember
    <2> QED
      BY <2>2, <2>3, SameQuestions, RoutesApart
      DEF RequestIsCurrent, HoldsPerson, HoldsMember, Loaded, At
  <1> QED
    BY <1>1, <1>2

LEMMA CheckingPersonIsCurrent ==
    ASSUME IInv, NEW w \in Worker, RequestIsCurrent(w),
           CheckPersonIsNoMember(w) \/ CheckCallerIsNobody(w)
    PROVE  RequestIsCurrent(w)'
  <1>1. PICK r : r = req[w].row
    OBVIOUS
  <1>2. Advance(w, "checked", r) /\ req[w].op \in PersonRoutes /\ req[w].step = "loaded"
    BY <1>1 DEF CheckPersonIsNoMember, CheckCallerIsNobody, At, PersonRoutes
  <1>3. /\ req'[w].op = req[w].op /\ req'[w].hh = req[w].hh /\ req'[w].user = req[w].user
        /\ req'[w].step = "checked" /\ req'[w].row = r
        /\ UNCHANGED <<household, member, person>>
    BY <1>2, AdvanceFields
  <1>4. r \in person /\ r.hh = req[w].hh.id
    BY <1>1, <1>2 DEF RequestIsCurrent, HoldsPerson, Loaded, IInv, RequestsAreTyped, RequestIsTyped
  <1>5. req[w].op = "delete person" /\ r.user # None => ~IsMember(r.hh, r.user)
    BY <1>1, <1>4 DEF CheckPersonIsNoMember, CheckCallerIsNobody, At
  <1> QED
    BY <1>2, <1>3, <1>4, <1>5, SameQuestions, RoutesApart
    DEF RequestIsCurrent, HoldsPerson, HoldsMember, Loaded, At

LEMMA CheckingRoleIsCurrent ==
    ASSUME IInv, NEW w \in Worker, RequestIsCurrent(w), CheckRole(w)
    PROVE  RequestIsCurrent(w)'
  <1>1. PICK m : m = req[w].row
    OBVIOUS
  <1>2. At(w, "set role", "loaded") /\ req[w].op \in MemberRoutes
    BY DEF CheckRole, At, MemberRoutes
  <1>3. m \in member /\ m.hh = req[w].hh.id
    BY <1>1, <1>2 DEF RequestIsCurrent, HoldsMember, Loaded, At, IInv, RequestsAreTyped,
                      RequestIsTyped
  <1>4. PICK role \in Role :
           RoleMayChange(m, role) /\ Advance(w, "checked", [m EXCEPT !.role = role])
    <2>1. CASE Advance(w, "checked", m)
      <3>1. m.role \in Role /\ [m EXCEPT !.role = m.role] = m
        BY <1>3 DEF IInv, TypeOK, MemberRow
      <3> QED
        BY <2>1, <3>1 DEF RoleMayChange
    <2> QED
      BY <1>1, <1>3, <2>1 DEF CheckRole, RoleMayChange
  <1>5. PICK n : n = [m EXCEPT !.role = role]
    OBVIOUS
  <1>6. /\ req'[w].op = req[w].op /\ req'[w].hh = req[w].hh /\ req'[w].user = req[w].user
        /\ req'[w].step = "checked" /\ req'[w].row = n
        /\ UNCHANGED <<household, member, person>>
    BY <1>4, <1>5, AdvanceFields
  <1>7. \E x \in member', r \in Role :
           RoleMayChange(x, r)' /\ req'[w].row = [x EXCEPT !.role = r]
    BY <1>3, <1>4, <1>5, <1>6, SameQuestions
  <1> QED
    BY <1>2, <1>6, <1>7, SameQuestions, RoutesApart
    DEF RequestIsCurrent, HoldsPerson, HoldsMember, Loaded, At

LEMMA CheckingLeaverIsCurrent ==
    ASSUME IInv, NEW w \in Worker, RequestIsCurrent(w), CheckLeaving(w)
    PROVE  RequestIsCurrent(w)'
  <1>1. PICK m : m = req[w].row
    OBVIOUS
  <1>2. /\ At(w, "remove member", "loaded") /\ req[w].op \in MemberRoutes
        /\ Advance(w, "checked", m) /\ ~is_last_owner(m)
    BY <1>1 DEF CheckLeaving, At, MemberRoutes
  <1>3. m \in member
    BY <1>1, <1>2 DEF RequestIsCurrent, HoldsMember, Loaded, At
  <1>4. /\ req'[w].op = req[w].op /\ req'[w].hh = req[w].hh /\ req'[w].user = req[w].user
        /\ req'[w].step = "checked" /\ req'[w].row = m
        /\ UNCHANGED <<household, member, person>>
    BY <1>2, AdvanceFields
  <1> QED
    BY <1>2, <1>3, <1>4, SameQuestions, RoutesApart
    DEF RequestIsCurrent, HoldsPerson, HoldsMember, Loaded, At

LEMMA OtherRoutesAreCurrent ==
    ASSUME IInv, NEW w \in Worker, RequestIsCurrent(w),
           SaveAccount(w) \/ LoadPendingInvitation(w) \/ LoadInvitation(w)
    PROVE  RequestIsCurrent(w)'
  <1>1. CASE SaveAccount(w) \/ LoadPendingInvitation(w)
    <2>1. PICK op \in {"sign up", "accept"} : \E step, u, h, r : Call(w, op, step, u, h, r)
      BY <1>1 DEF SaveAccount, LoadPendingInvitation
    <2>2. req'[w].op = op
      BY <2>1, CallMoves DEF IInv
    <2> QED
      BY <2>2, RoutesApart DEF RequestIsCurrent, HoldsPerson, HoldsMember, At
  <1>2. CASE LoadInvitation(w)
    <2>1. PICK i \in invitation : Advance(w, "loaded", i)
      BY <1>2 DEF LoadInvitation
    <2>2. /\ req'[w].op = req[w].op /\ req'[w].hh = req[w].hh /\ req'[w].user = req[w].user
          /\ UNCHANGED <<household, member, person>>
      BY <2>1, AdvanceFields
    <2>3. req[w].op = "cancel"
      BY <1>2 DEF LoadInvitation, At
    <2> QED
      BY <2>2, <2>3, SameQuestions, RoutesApart DEF RequestIsCurrent, HoldsPerson, HoldsMember, At
  <1> QED
    BY <1>1, <1>2

--------------------------------------------------------------------------------
(***************************************************************************)
(* Every step.                                                             *)
(***************************************************************************)
LEMMA ReadingSteps ==
    ASSUME IInv, NEW w \in Worker, SerialInv(w),
           \/ Enter(w) \/ LoadPerson(w) \/ LoadMember(w) \/ CheckPersonIsNoMember(w)
           \/ CheckCallerIsNobody(w) \/ CheckRole(w) \/ CheckLeaving(w)
           \/ SaveAccount(w) \/ LoadPendingInvitation(w) \/ LoadInvitation(w)
    PROVE  SerialInv(w)'
  <1>1. RequestIsCurrent(w)'
    BY EnteringIsCurrent, LoadingIsCurrent, CheckingPersonIsCurrent, CheckingRoleIsCurrent,
       CheckingLeaverIsCurrent, OtherRoutesAreCurrent DEF SerialInv
  <1>2. UNCHANGED <<household, member, person, next>>
    BY DEF Enter, LoadPerson, LoadMember, CheckPersonIsNoMember, CheckCallerIsNobody, CheckRole,
           CheckLeaving, SaveAccount, LoadPendingInvitation, LoadInvitation, Advance, tables
  <1>3. TablesAreSound'
    BY <1>2, SoundWhenUnchanged DEF SerialInv
  <1> QED
    BY <1>1, <1>3 DEF SerialInv

LEMMA ClosingRequests ==
    ASSUME IInv, NEW w \in Worker, SerialInv(w),
           \/ Abandon(w) \/ InviteMember(w) \/ InviteNewcomer(w) \/ CancelInvitation(w)
    PROVE  TablesAreSound' /\ Finish(w)
  <1>1. CASE Abandon(w) \/ InviteMember(w) \/ CancelInvitation(w)
    <2>1. UNCHANGED <<household, member, person, next>> /\ Finish(w)
      BY <1>1 DEF Abandon, InviteMember, CancelInvitation, tables
    <2> QED
      BY <2>1, SoundWhenUnchanged DEF SerialInv
  <1>2. CASE InviteNewcomer(w)
    <2>1. UNCHANGED <<household, member, person>> /\ Finish(w)
      BY <1>2 DEF InviteNewcomer
    <2>2. next'["member"] = next["member"] /\ next'["person"] = next["person"]
      BY <1>2 DEF InviteNewcomer, UseKeys, TableNames
    <2> QED
      BY <2>1, <2>2, SoundWhenUnchanged DEF SerialInv
  <1> QED
    BY <1>1, <1>2

LEMMA WritingSteps ==
    ASSUME IInv, NEW w \in Worker, SerialInv(w),
           \/ CreatePersonalHousehold(w) \/ RenameHousehold(w) \/ DeleteHousehold(w)
           \/ AddPerson(w) \/ RenamePerson(w) \/ DeletePerson(w) \/ ClaimPerson(w)
           \/ SetRole(w) \/ RemoveMember(w) \/ Accept(w)
    PROVE  TablesAreSound' /\ Finish(w)
  <1>1. Finish(w)
    BY DEF CreatePersonalHousehold, RenameHousehold, DeleteHousehold, AddPerson, RenamePerson,
           DeletePerson, ClaimPerson, SetRole, RemoveMember, Accept
  <1>2. CASE CreatePersonalHousehold(w)
    <2>1. create_household(req[w].user, req[w].user)
      BY <1>2 DEF CreatePersonalHousehold
    <2>2. req[w].user \in User
      BY <1>2 DEF CreatePersonalHousehold, At, IInv, RequestsAreTyped, RequestIsTyped, AllRoutes
    <2> QED
      BY <1>1, <2>1, <2>2, CreatingSound DEF SerialInv
  <1>3. TablesAreSound'
    BY <1>2, RenamingSound, DeletingHouseholdSound, AddingPersonSound, DeletingPersonSound,
       ClaimingSound, SettingRoleSound, RemovingSound, AcceptingSound DEF SerialInv
  <1> QED
    BY <1>1, <1>3

LEMMA SerialSteps ==
    ASSUME NEW w, OneAtATime(w), IInv, SerialInv(w), [Next]_vars
    PROVE  SerialInv(w)'
  <1> USE DEF OneAtATime
  <1>1. ASSUME TablesAreSound', Finish(w) PROVE SerialInv(w)'
    BY <1>1, FinishIsIdle, IdleIsCurrent DEF SerialInv
  <1>2. ASSUME UNCHANGED <<household, member, person, next, req>> PROVE SerialInv(w)'
    BY <1>2, SoundWhenUnchanged, CurrentWhenUnchanged DEF SerialInv
  <1>3. CASE Serve(w)
    <2>1. CASE CreateHousehold(w)
      <3>1. PICK u \in User : create_household(u, None)
        BY <2>1 DEF CreateHousehold
      <3>2. TablesAreSound'
        BY <3>1, CreatingSound DEF SerialInv
      <3>3. req'[w] = Idle
        BY <2>1 DEF CreateHousehold
      <3> QED
        BY <3>2, <3>3, IdleIsCurrent DEF SerialInv
    <2> QED
      BY <1>1, <1>3, <2>1, ReadingSteps, ClosingRequests, WritingSteps
      DEF Serve, MembershipStep, InvitationStep
  <1>4. CASE Expire
    BY <1>2, <1>4 DEF Expire
  <1>5. CASE UNCHANGED vars
    BY <1>2, <1>5 DEF vars, tables
  <1>6. \A u \in User : ~DeleteAccount(u)
    BY DEF DeleteAccount
  <1> QED
    BY <1>3, <1>4, <1>5, <1>6 DEF Next

LEMMA SerialStart ==
    ASSUME NEW w, OneAtATime(w), SoundStart, Init
    PROVE  SerialInv(w)
  <1>1. /\ household = Start.household /\ member = Start.member /\ person = Start.person
        /\ next = Start.next /\ req[w] = Idle
    BY DEF Init, OneAtATime
  <1>2. TablesAreSound
    BY <1>1, StartAssumption DEF SoundStart, TablesAreSound, PersonsKeyed,
       SharedHouseholdsHaveAnOwner, OwnersAreSomeone, LinkedPersonsAreMembers, IsMember, IsSomeone
  <1>3. RequestIsCurrent(w)
    BY <1>1 DEF RequestIsCurrent, Idle, HoldsPerson, HoldsMember, At, ScopedRoutes, OwnerRoutes,
                MemberRoutes, PersonRoutes
  <1> QED
    BY <1>2, <1>3 DEF SerialInv

LEMMA SerialInvHolds ==
    ASSUME NEW w, OneAtATime(w), SoundStart
    PROVE  Spec => [](IInv /\ SerialInv(w))
  <1>1. Init => SerialInv(w)
    BY SerialStart
  <1>2. IInv /\ SerialInv(w) /\ [Next]_vars => SerialInv(w)'
    BY SerialSteps
  <1> QED
    BY <1>1, <1>2, RequestsStayHarmless, PTL DEF Spec

\* Served one request at a time, a household never loses its last owner: the
\* counts of is_last_owner still hold when the write they allowed comes
\* (views.py:229, 243).
THEOREM OwnersRemain ==
    ASSUME NEW w, OneAtATime(w), SoundStart PROVE Spec => []SharedHouseholdsHaveAnOwner
  <1>1. SerialInv(w) => SharedHouseholdsHaveAnOwner
    BY DEF SerialInv, TablesAreSound
  <1> QED
    BY <1>1, SerialInvHolds, PTL

\* Served one request at a time, whoever is made an owner is someone and stays
\* someone (views.py:147, 231-237).
THEOREM OwnersStaySomeone ==
    ASSUME NEW w, OneAtATime(w), SoundStart PROVE Spec => []OwnersAreSomeone
  <1>1. SerialInv(w) => OwnersAreSomeone
    BY DEF SerialInv, TablesAreSound
  <1> QED
    BY <1>1, SerialInvHolds, PTL

\* Served one request at a time, the service gives check_integrity nothing to
\* list among memberships and persons (check_integrity.py:19-38).
THEOREM MembershipsStaySound ==
    ASSUME NEW w, OneAtATime(w), SoundStart PROVE Spec => []MembershipsAreSound
  <1>1. SerialInv(w) => MembershipsAreSound
    <2> SUFFICES ASSUME SerialInv(w) PROVE MembershipsAreSound
      OBVIOUS
    <2>1. shared_households_without_a_member = {}
      BY DEF SerialInv, TablesAreSound, SharedHouseholdsHaveAnOwner,
             shared_households_without_a_member
    <2>2. persons_whose_account_is_not_a_member = {}
      BY DEF SerialInv, TablesAreSound, LinkedPersonsAreMembers,
             persons_whose_account_is_not_a_member
    <2> QED
      BY <2>1, <2>2 DEF MembershipsAreSound
  <1> QED
    BY <1>1, SerialInvHolds, PTL

\* No deletion takes the person of a member.
OnlyStrangersGo ==
    \A w \in Worker : At(w, "delete person", "checked") /\ DeletePerson(w)
        => \A p \in person : p.user # None /\ IsMember(p.hh, p.user) => p \in person'

LEMMA StrangersGo ==
    ASSUME NEW w, OneAtATime(w), IInv, SerialInv(w)
    PROVE  OnlyStrangersGo
  <1> SUFFICES ASSUME DeletePerson(w), NEW p \in person, p.user # None, IsMember(p.hh, p.user)
               PROVE  p \in person'
    BY DEF OneAtATime, OnlyStrangersGo
  <1>1. PICK r : r = req[w].row
    OBVIOUS
  <1>2. r \in person /\ (r.user # None => ~IsMember(r.hh, r.user))
    BY <1>1 DEF DeletePerson, At, SerialInv, RequestIsCurrent, HoldsPerson, Loaded, PersonRoutes
  <1>3. person' = {q \in person : q.id # r.id}
    BY <1>1 DEF DeletePerson, Without
  <1>4. p.id = r.id => p = r
    BY <1>2 DEF SerialInv, TablesAreSound, PersonsKeyed, Keyed
  <1> QED
    BY <1>2, <1>3, <1>4

\* Served one request at a time, a person who is deleted is nobody's, or that
\* of an account that is no longer a member (views.py:147).
THEOREM PersonsOfMembersStay ==
    ASSUME NEW w, OneAtATime(w), SoundStart PROVE Spec => MembersKeepTheirPerson
  <1>1. IInv /\ SerialInv(w) /\ [Next]_vars => [OnlyStrangersGo]_vars
    BY StrangersGo
  <1> QED
    BY <1>1, SerialInvHolds, PTL DEF Spec, MembersKeepTheirPerson, OnlyStrangersGo

--------------------------------------------------------------------------------
(***************************************************************************)
(* Tokens.                                                                 *)
(***************************************************************************)
TokenInv(w) ==
    /\ Keyed(invitation, next["invitation"])
    /\ At(w, "accept", "loaded") => req[w].row \in invitation /\ ~req[w].row.accepted

Spent == \A i \in invitation, j \in invitation' :
            i.id = j.id /\ i.accepted => j.by \in {i.by, None}

InvitationStays == Keyed(invitation, next["invitation"])' /\ Spent

LEMMA FewerInvitations ==
    ASSUME Keyed(invitation, next["invitation"]), invitation' \subseteq invitation,
           next'["invitation"] = next["invitation"]
    PROVE  InvitationStays
  BY DEF Keyed, InvitationStays, Spent

LEMMA InvitingNewcomer ==
    ASSUME IInv, NEW w, Keyed(invitation, next["invitation"]), InviteNewcomer(w)
    PROVE  InvitationStays
  <1>1. PICK email \in User : invitation' =
           (invitation \ OpenInvitations(req[w].hh.id, email)) \cup
               {[id |-> next["invitation"], hh |-> req[w].hh.id, email |-> email,
                 accepted |-> FALSE, by |-> None]}
    BY DEF InviteNewcomer
  <1>2. PICK q : q = [id |-> next["invitation"], hh |-> req[w].hh.id, email |-> email,
                      accepted |-> FALSE, by |-> None]
    OBVIOUS
  <1>3. q.id = next["invitation"]
    BY <1>2
  <1>4. \A j \in invitation' : j \in invitation \/ j = q
    BY <1>1, <1>2
  <1>5. next["invitation"] \in Nat /\ next'["invitation"] = next["invitation"] + 1
    BY NextIsNat DEF IInv, TypeOK, InviteNewcomer, UseKeys, TableNames
  <1>6. \A i \in invitation : i.id \in Nat /\ i.id < next["invitation"]
    BY DEF IInv, TypeOK, InvitationRow, Keyed
  <1> QED
    BY <1>3, <1>4, <1>5, <1>6 DEF Keyed, InvitationStays, Spent

LEMMA SpendingToken ==
    ASSUME IInv, NEW w, TokenInv(w), Accept(w)
    PROVE  InvitationStays
  <1>1. PICK i : i = req[w].row
    OBVIOUS
  <1>2. i \in invitation /\ ~i.accepted
    BY <1>1 DEF TokenInv, Accept
  <1>3. PICK a : a = Accepted(i, req[w].user)
    OBVIOUS
  <1>4. a.id = i.id
    BY <1>3 DEF Accepted
  <1>5. invitation' = {j \in invitation : j.id # i.id} \cup {a}
    BY <1>1, <1>3, <1>4 DEF Accept, Saved
  <1>6. next'["invitation"] = next["invitation"]
    BY DEF Accept, UseKeys, TableNames
  <1>7. Keyed(invitation, next["invitation"])'
    BY <1>2, <1>4, <1>5, <1>6 DEF TokenInv, Keyed
  <1>8. Spent
    BY <1>2, <1>4, <1>5 DEF Spent, TokenInv, Keyed
  <1> QED
    BY <1>7, <1>8 DEF InvitationStays

LEMMA TokenStart == ASSUME NEW w, OneAtATime(w), Init PROVE TokenInv(w)
  BY DEF Init, OneAtATime, TokenInv, Keyed, At, Idle

LEMMA TokenSteps ==
    ASSUME NEW w, OneAtATime(w), IInv, TokenInv(w), [Next]_vars
    PROVE  TokenInv(w)' /\ Spent
  <1> USE DEF OneAtATime
  <1>1. ASSUME InvitationStays, Finish(w) PROVE TokenInv(w)' /\ Spent
    <2>1. req'[w].op = "none"
      BY <1>1, FinishIsIdle DEF Idle
    <2> QED
      BY <1>1, <2>1 DEF InvitationStays, TokenInv, At
  <1>2. ASSUME InvitationStays, UNCHANGED <<invitation, req>> PROVE TokenInv(w)' /\ Spent
    BY <1>2 DEF InvitationStays, TokenInv, At
  <1>3. ASSUME InvitationStays, req'[w].op # "accept" PROVE TokenInv(w)' /\ Spent
    BY <1>3 DEF InvitationStays, TokenInv, At
  <1>4. CASE LoadPendingInvitation(w)
    <2>1. PICK u \in User, i \in invitation : ~i.accepted /\ Call(w, "accept", "loaded", u, NoRow, i)
      BY <1>4 DEF LoadPendingInvitation
    <2>2. req'[w].row = i /\ invitation' = invitation /\ next' = next
      BY <1>4, <2>1, CallMoves DEF LoadPendingInvitation, IInv, tables
    <2>3. InvitationStays
      BY <2>2, FewerInvitations DEF TokenInv
    <2>4. (req[w].row \in invitation /\ ~req[w].row.accepted)'
      BY <2>1, <2>2
    <2> QED
      BY <2>3, <2>4 DEF InvitationStays, TokenInv
  <1>5. CASE InviteNewcomer(w)
    BY <1>1, <1>5, InvitingNewcomer DEF InviteNewcomer, TokenInv
  <1>6. CASE Accept(w)
    BY <1>1, <1>6, SpendingToken DEF Accept
  <1>7. CASE \/ Abandon(w) \/ RenameHousehold(w) \/ DeleteHousehold(w) \/ RenamePerson(w)
             \/ DeletePerson(w) \/ ClaimPerson(w) \/ SetRole(w) \/ RemoveMember(w)
             \/ InviteMember(w) \/ CancelInvitation(w)
    <2>1. invitation' \subseteq invitation /\ next' = next /\ Finish(w)
      BY <1>7 DEF Abandon, RenameHousehold, DeleteHousehold, RenamePerson, DeletePerson,
                  ClaimPerson, SetRole, RemoveMember, InviteMember, CancelInvitation, Without,
                  tables
    <2> QED
      BY <1>1, <2>1, FewerInvitations DEF TokenInv
  <1>8. CASE CreatePersonalHousehold(w) \/ AddPerson(w)
    <2>1. invitation' = invitation /\ next'["invitation"] = next["invitation"] /\ Finish(w)
      BY <1>8 DEF CreatePersonalHousehold, create_household, AddPerson, UseKeys, TableNames
    <2> QED
      BY <1>1, <2>1, FewerInvitations DEF TokenInv
  <1>9. CASE CreateHousehold(w) \/ Expire \/ UNCHANGED vars
    <2>1. invitation' = invitation /\ next'["invitation"] = next["invitation"] /\ req' = req
      BY <1>9 DEF CreateHousehold, create_household, UseKeys, TableNames, Expire, vars, tables
    <2> QED
      BY <1>2, <2>1, FewerInvitations DEF TokenInv
  <1>10. CASE Enter(w) \/ SaveAccount(w)
    <2>1. invitation' = invitation /\ next' = next
      BY <1>10 DEF Enter, SaveAccount, tables
    <2>2. PICK op \in ScopedRoutes \cup {"sign up"} :
                \E step, u, h : Call(w, op, step, u, h, NoRow)
      BY <1>10 DEF Enter, SaveAccount
    <2>3. req'[w].op = op
      BY <2>2, CallMoves DEF IInv
    <2> QED
      BY <1>3, <2>1, <2>2, <2>3, FewerInvitations, RoutesApart DEF TokenInv
  <1>11. CASE \/ LoadPerson(w) \/ CheckPersonIsNoMember(w) \/ CheckCallerIsNobody(w)
              \/ LoadMember(w) \/ CheckRole(w) \/ CheckLeaving(w) \/ LoadInvitation(w)
    <2>1. \E step, row : Advance(w, step, row)
      BY <1>11 DEF LoadPerson, CheckPersonIsNoMember, CheckCallerIsNobody, LoadMember, CheckRole,
                   CheckLeaving, LoadInvitation
    <2>2. req[w].op # "accept"
      BY <1>11, RoutesApart DEF LoadPerson, CheckPersonIsNoMember, CheckCallerIsNobody, LoadMember,
                   CheckRole, CheckLeaving, LoadInvitation, At
    <2>3. req'[w].op # "accept" /\ invitation' = invitation /\ next' = next
      BY <2>1, <2>2, AdvanceMoves DEF IInv, tables
    <2> QED
      BY <1>3, <2>3, FewerInvitations DEF TokenInv
  <1>12. \A u \in User : ~DeleteAccount(u)
    BY DEF DeleteAccount
  <1> QED
    BY <1>4, <1>5, <1>6, <1>7, <1>8, <1>9, <1>10, <1>11, <1>12
    DEF Next, Serve, MembershipStep, InvitationStep

\* Served one request at a time, a token admits one account: the acceptance
\* still holds the row as it stands, unspent (invitations.py:60-71).
THEOREM TokensAdmitOnce ==
    ASSUME NEW w, OneAtATime(w) PROVE Spec => TokensAreSpentOnce
  <1> DEFINE Once == \A i \in invitation, j \in invitation' :
          i.id = j.id /\ i.accepted => j.by \in {i.by, None}
  <1>1. Init => TokenInv(w)
    BY TokenStart
  <1>2. IInv /\ TokenInv(w) /\ [Next]_vars => TokenInv(w)'
    BY TokenSteps
  <1>3. IInv /\ TokenInv(w) /\ [Next]_vars => [Once]_vars
    BY TokenSteps DEF Spent
  <1> QED
    BY <1>1, <1>2, <1>3, RequestsStayHarmless, PTL DEF Spec, TokensAreSpentOnce

--------------------------------------------------------------------------------
(***************************************************************************)
(* Deleted rows: a step writes rows that are in the tables, or new ones.   *)
(***************************************************************************)
NothingRestored(T, U, n) == \A r \in U : r.id >= n \/ \E s \in T : s.id = r.id

TablesStay ==
    /\ NothingRestored(household, household', next["household"])
    /\ NothingRestored(member, member', next["member"])
    /\ NothingRestored(person, person', next["person"])
    /\ NothingRestored(invitation, invitation', next["invitation"])

LEMMA FewerRows == ASSUME NEW T, NEW U, NEW n, U \subseteq T PROVE NothingRestored(T, U, n)
  BY DEF NothingRestored

LEMMA SavingARow ==
    ASSUME NEW T, NEW n, NEW r \in T, NEW a, a.id = r.id
    PROVE  NothingRestored(T, Saved(T, a), n)
  BY DEF NothingRestored, Saved

LEMMA AddingARow ==
    ASSUME NEW T, NEW U, NEW n \in Nat, NEW a, a.id = n, U \subseteq T \cup {a}
    PROVE  NothingRestored(T, U, n)
  <1>1. n >= n
    OBVIOUS
  <1> QED
    BY <1>1 DEF NothingRestored

LEMMA FoundingRestoresNothing ==
    ASSUME IInv, NEW owner \in User, NEW personal \in Account, create_household(owner, personal)
    PROVE  TablesStay
  <1>1. next["household"] \in Nat /\ next["member"] \in Nat /\ next["person"] \in Nat
    BY MembershipNumbers
  <1>2. NothingRestored(household, household', next["household"])
    <2>1. PICK h : h = [id |-> next["household"], personal |-> personal]
      OBVIOUS
    <2> QED
      BY <1>1, <2>1, AddingARow DEF create_household
  <1>3. NothingRestored(member, member', next["member"])
    <2>1. PICK m : m = [id |-> next["member"], hh |-> next["household"], user |-> owner,
                        role |-> "owner"]
      OBVIOUS
    <2>2. m.id = next["member"] /\ member' = member \cup {m}
      BY <2>1 DEF create_household
    <2> QED
      BY <1>1, <2>2, AddingARow
  <1>4. NothingRestored(person, person', next["person"])
    <2>1. PICK p : p = [id |-> next["person"], hh |-> next["household"], user |-> owner]
      OBVIOUS
    <2>2. p.id = next["person"] /\ person' = person \cup {p}
      BY <2>1 DEF create_household
    <2> QED
      BY <1>1, <2>2, AddingARow
  <1>5. NothingRestored(invitation, invitation', next["invitation"])
    BY FewerRows DEF create_household
  <1> QED
    BY <1>2, <1>3, <1>4, <1>5 DEF TablesStay

\* The steps that write a person
LEMMA PersonsRestored ==
    ASSUME IInv, NEW w, SerialInv(w),
           \/ AddPerson(w) \/ RenamePerson(w) \/ ClaimPerson(w) \/ RemoveMember(w)
    PROVE  NothingRestored(person, person', next["person"])
  <1>1. CASE AddPerson(w)
    <2>1. PICK p : p = [id |-> next["person"], hh |-> req[w].hh.id, user |-> None]
      OBVIOUS
    <2>2. p.id = next["person"] /\ person' = person \cup {p}
      BY <1>1, <2>1 DEF AddPerson
    <2> QED
      BY <2>2, AddingARow, MembershipNumbers
  <1>2. CASE RenamePerson(w)
    <2>1. req[w].row \in person
      BY <1>2 DEF RenamePerson, At, SerialInv, RequestIsCurrent, HoldsPerson, Loaded, PersonRoutes
    <2> QED
      BY <1>2, <2>1, SavingARow DEF RenamePerson
  <1>3. CASE ClaimPerson(w)
    <2>1. PICK p \in person : person' = Saved(person, [p EXCEPT !.user = req[w].user])
      BY <1>3 DEF ClaimPerson
    <2>2. [p EXCEPT !.user = req[w].user].id = p.id
      BY DEF IInv, TypeOK, PersonRow
    <2> QED
      BY <2>1, <2>2, SavingARow
  <1>4. CASE RemoveMember(w)
    <2>1. \A q \in person' : \E p \in person : q = p \/ q = Unlinked(p)
      BY <1>4 DEF RemoveMember
    <2>2. \A p \in person : Unlinked(p).id = p.id
      BY DEF Unlinked, IInv, TypeOK, PersonRow
    <2> QED
      BY <2>1, <2>2 DEF NothingRestored
  <1> QED
    BY <1>1, <1>2, <1>3, <1>4

\* The steps that write a membership
LEMMA MembersRestored ==
    ASSUME IInv, NEW w, SerialInv(w), SetRole(w) \/ RemoveMember(w) \/ Accept(w)
    PROVE  NothingRestored(member, member', next["member"])
  <1>1. CASE SetRole(w)
    <2>1. PICK m \in member, role \in Role : req[w].row = [m EXCEPT !.role = role]
      BY <1>1 DEF SetRole, SerialInv, RequestIsCurrent
    <2>2. [m EXCEPT !.role = role].id = m.id
      BY DEF IInv, TypeOK, MemberRow
    <2> QED
      BY <1>1, <2>1, <2>2, SavingARow DEF SetRole
  <1>2. CASE RemoveMember(w)
    <2>1. member' \subseteq member
      BY <1>2 DEF RemoveMember, Without
    <2> QED
      BY <2>1, FewerRows
  <1>3. CASE Accept(w)
    <2>1. PICK m : m = [id |-> next["member"], hh |-> req[w].row.hh, user |-> req[w].user,
                        role |-> "member"]
      OBVIOUS
    <2>2. m.id = next["member"] /\ member' \subseteq member \cup {m}
      BY <1>3, <2>1 DEF Accept
    <2> QED
      BY <2>2, AddingARow, MembershipNumbers
  <1> QED
    BY <1>1, <1>2, <1>3

\* The steps that write an invitation
LEMMA InvitationsRestored ==
    ASSUME IInv, NEW w, TokenInv(w), InviteNewcomer(w) \/ Accept(w)
    PROVE  NothingRestored(invitation, invitation', next["invitation"])
  <1>1. CASE InviteNewcomer(w)
    <2>1. PICK email \in User : invitation' =
             (invitation \ OpenInvitations(req[w].hh.id, email)) \cup
                 {[id |-> next["invitation"], hh |-> req[w].hh.id, email |-> email,
                   accepted |-> FALSE, by |-> None]}
      BY <1>1 DEF InviteNewcomer
    <2>2. PICK i : i = [id |-> next["invitation"], hh |-> req[w].hh.id, email |-> email,
                        accepted |-> FALSE, by |-> None]
      OBVIOUS
    <2>3. i.id = next["invitation"]
      BY <2>2
    <2>4. invitation' \subseteq invitation \cup {i}
      BY <2>1, <2>2
    <2>5. next["invitation"] \in Nat
      BY NextIsNat DEF IInv, TypeOK, TableNames
    <2> QED
      BY <2>3, <2>4, <2>5, AddingARow
  <1>2. CASE Accept(w)
    <2>1. PICK a : a = Accepted(req[w].row, req[w].user)
      OBVIOUS
    <2>2. a.id = req[w].row.id
      BY <2>1 DEF Accepted
    <2>3. req[w].row \in invitation /\ invitation' = Saved(invitation, a)
      BY <1>2, <2>1 DEF Accept, TokenInv
    <2> QED
      BY <2>2, <2>3, SavingARow
  <1> QED
    BY <1>1, <1>2

LEMMA NothingRestoredByAStep ==
    ASSUME NEW w, OneAtATime(w), IInv, SerialInv(w), TokenInv(w), [Next]_vars
    PROVE  TablesStay
  <1> USE DEF OneAtATime
  <1> DEFINE
        Households == NothingRestored(household, household', next["household"])
        Members == NothingRestored(member, member', next["member"])
        Persons == NothingRestored(person, person', next["person"])
        Tokens == NothingRestored(invitation, invitation', next["invitation"])
  <1>1. /\ household' \subseteq household => Households
        /\ member' \subseteq member => Members
        /\ person' \subseteq person => Persons
        /\ invitation' \subseteq invitation => Tokens
    BY FewerRows
  <1>2. CASE CreateHousehold(w)
    <2>1. PICK u \in User : create_household(u, None)
      BY <1>2 DEF CreateHousehold
    <2> QED
      BY <2>1, FoundingRestoresNothing DEF Account
  <1>3. CASE CreatePersonalHousehold(w)
    <2>1. create_household(req[w].user, req[w].user)
      BY <1>3 DEF CreatePersonalHousehold
    <2>2. req[w].user \in User
      BY <1>3 DEF CreatePersonalHousehold, At, IInv, RequestsAreTyped, RequestIsTyped, AllRoutes
    <2> QED
      BY <2>1, <2>2, FoundingRestoresNothing DEF Account
  <1>4. CASE RenameHousehold(w)
    <2>1. req[w].hh \in household
      BY <1>4 DEF RenameHousehold, At, SerialInv, RequestIsCurrent, ScopedRoutes, OwnerRoutes
    <2>2. Households
      BY <1>4, <2>1, SavingARow DEF RenameHousehold
    <2>3. UNCHANGED <<member, person, invitation>>
      BY <1>4 DEF RenameHousehold
    <2> QED
      BY <1>1, <2>2, <2>3 DEF TablesStay
  <1>5. CASE AddPerson(w) \/ RenamePerson(w) \/ ClaimPerson(w)
    <2>1. UNCHANGED <<household, member, invitation>>
      BY <1>5 DEF AddPerson, RenamePerson, ClaimPerson
    <2> QED
      BY <1>1, <1>5, <2>1, PersonsRestored DEF TablesStay
  <1>6. CASE SetRole(w)
    <2>1. UNCHANGED <<household, person, invitation>>
      BY <1>6 DEF SetRole
    <2> QED
      BY <1>1, <1>6, <2>1, MembersRestored DEF TablesStay
  <1>7. CASE RemoveMember(w)
    <2>1. UNCHANGED <<household, invitation>>
      BY <1>7 DEF RemoveMember
    <2> QED
      BY <1>1, <1>7, <2>1, MembersRestored, PersonsRestored DEF TablesStay
  <1>8. CASE InviteNewcomer(w)
    <2>1. UNCHANGED <<household, member, person>>
      BY <1>8 DEF InviteNewcomer
    <2> QED
      BY <1>1, <1>8, <2>1, InvitationsRestored DEF TablesStay
  <1>9. CASE Accept(w)
    <2>1. UNCHANGED <<household, person>>
      BY <1>9 DEF Accept
    <2> QED
      BY <1>1, <1>9, <2>1, MembersRestored, InvitationsRestored DEF TablesStay
  <1>10. CASE \/ Enter(w) \/ Abandon(w) \/ LoadPerson(w) \/ CheckPersonIsNoMember(w)
              \/ CheckCallerIsNobody(w) \/ LoadMember(w) \/ CheckRole(w) \/ CheckLeaving(w)
              \/ LoadInvitation(w) \/ LoadPendingInvitation(w) \/ SaveAccount(w)
              \/ Expire \/ UNCHANGED vars
    <2>1. UNCHANGED <<household, member, person, invitation>>
      BY <1>10 DEF Enter, Abandon, LoadPerson, CheckPersonIsNoMember, CheckCallerIsNobody,
                   LoadMember, CheckRole, CheckLeaving, LoadInvitation, LoadPendingInvitation,
                   SaveAccount, Expire, Advance, vars, tables
    <2> QED
      BY <1>1, <2>1 DEF TablesStay
  <1>11. CASE \/ DeleteHousehold(w) \/ DeletePerson(w) \/ InviteMember(w)
              \/ CancelInvitation(w)
    <2>1. /\ household' \subseteq household /\ member' \subseteq member
          /\ person' \subseteq person /\ invitation' \subseteq invitation
      BY <1>11 DEF DeleteHousehold, DeletePerson, InviteMember, CancelInvitation, Without
    <2> QED
      BY <1>1, <2>1 DEF TablesStay
  <1>12. \A u \in User : ~DeleteAccount(u)
    BY DEF DeleteAccount
  <1> QED
    BY <1>2, <1>3, <1>4, <1>5, <1>6, <1>7, <1>8, <1>9, <1>10, <1>11, <1>12
    DEF Next, Serve, MembershipStep, InvitationStep

\* Served one request at a time, no save brings back a household, a membership,
\* a person or an invitation that was deleted: what a request holds is still in
\* its table when it is written (views.py:93, 144, 238, invitations.py:65).
THEOREM WhatIsDeletedStaysDeleted ==
    ASSUME NEW w, OneAtATime(w), SoundStart PROVE Spec => DeletedRowsStayDeleted
  <1>1. Init => TokenInv(w)
    BY TokenStart
  <1>2. IInv /\ TokenInv(w) /\ [Next]_vars => TokenInv(w)'
    BY TokenSteps
  <1> DEFINE Stay ==
          /\ \A h \in household' : h.id >= next["household"] \/ \E g \in household : g.id = h.id
          /\ \A m \in member' : m.id >= next["member"] \/ \E n \in member : n.id = m.id
          /\ \A p \in person' : p.id >= next["person"] \/ \E q \in person : q.id = p.id
          /\ \A i \in invitation' :
                i.id >= next["invitation"] \/ \E j \in invitation : j.id = i.id
  <1>3. IInv /\ SerialInv(w) /\ TokenInv(w) /\ [Next]_vars => [Stay]_vars
    BY NothingRestoredByAStep DEF TablesStay, NothingRestored
  <1> QED
    BY <1>1, <1>2, <1>3, SerialInvHolds, PTL DEF Spec, DeletedRowsStayDeleted

--------------------------------------------------------------------------------
(***************************************************************************)
(* The service implements HouseholdRules: each step is one of its steps,   *)
(* or changes nothing of what it speaks of.                                *)
(***************************************************************************)
\* The keys of the households are those the abstract rules may name.
RoomAtStart == Start.next["household"] <= MaxHouseholds + 1
RoomInv == next["household"] <= MaxHouseholds + 1

LEMMA Stutters ==
    ASSUME UNCHANGED <<Roster, Somebody, Personal>>
    PROVE  [Rules!Next]_(Rules!vars)
  BY DEF Rules!vars

LEMMA QuietStutters ==
    ASSUME UNCHANGED <<household, member, person>>
    PROVE  [Rules!Next]_(Rules!vars)
  BY Stutters DEF Roster, Somebody, Personal

\* Of a household that is not personal and may be named
LEMMA SharedHouses ==
    ASSUME IInv, RoomInv, NEW h \in household
    PROVE  /\ h.id \in 0 .. MaxHouseholds
           /\ h.personal = None => h.id \notin Personal
  <1>1. h.id \in 0 .. MaxHouseholds
    BY MembershipNumbers, BoundAssumption DEF RoomInv
  <1>2. \A g \in household : g.id = h.id => g = h
    BY DEF IInv, HouseholdKeys, KnownHouseholds
  <1> QED
    BY <1>1, <1>2 DEF Personal

LEMMA RosterMembers ==
    ASSUME IInv, NEW h
    PROVE  /\ \A m \in member : m.hh = h => m.user \in Rules!Members(h)
           /\ \A m \in member : m.hh = h /\ m.role = "owner" => m.user \in Rules!Owners(h)
  <1>1. \A m \in member : m.user \in User /\ m.role \in {"owner", "member"}
    BY DEF IInv, TypeOK, MemberRow, Role
  <1> QED
    BY <1>1 DEF Rules!Members, Rules!Owners, Roster

LEMMA Founding ==
    ASSUME IInv, NEW u \in User, NEW v, create_household(u, v)
    PROVE  [Rules!Next]_(Rules!vars)
  <1>1. PICK h, m, p :
          /\ h = [id |-> next["household"], personal |-> v]
          /\ m = [id |-> next["member"], hh |-> next["household"], user |-> u, role |-> "owner"]
          /\ p = [id |-> next["person"], hh |-> next["household"], user |-> u]
    OBVIOUS
  <1>2. member' = member \cup {m} /\ person' = person \cup {p} /\ household' = household \cup {h}
    BY <1>1 DEF create_household
  <1>3. /\ m.hh = next["household"] /\ m.user = u /\ m.role = "owner"
        /\ p.hh = next["household"] /\ p.user = u
        /\ h.id = next["household"] /\ h.personal = v
    BY <1>1
  <1>4. PICK n : n = next["household"]
    OBVIOUS
  <1>5. Roster' = Roster \cup {<<n, u, "owner">>}
    BY <1>2, <1>3, <1>4 DEF Roster
  <1>6. Somebody' = Somebody \cup {<<n, u>>}
    BY <1>2, <1>3, <1>4, UserAssumption DEF Somebody
  <1>7. Personal' \in {Personal, Personal \cup {n}}
    <2>1. CASE v = None
      BY <1>2, <1>3, <1>4, <2>1 DEF Personal
    <2>2. CASE v # None
      BY <1>2, <1>3, <1>4, <2>2 DEF Personal
    <2> QED
      BY <2>1, <2>2
  <1>8. Rules!Members(n) = {}
    BY <1>4, MembershipNumbers DEF Rules!Members, Roster
  <1>9. n \in 0 .. MaxHouseholds
    BY <1>4, MembershipNumbers, BoundAssumption DEF create_household
  <1>10. Rules!Found(n, u)
    BY <1>5, <1>6, <1>7, <1>8 DEF Rules!Found
  <1> QED
    BY <1>9, <1>10 DEF Rules!Next

LEMMA Dissolving ==
    ASSUME IInv, RoomInv, NEW w \in Worker, SerialInv(w), DeleteHousehold(w)
    PROVE  [Rules!Next]_(Rules!vars)
  <1>1. PICK h : h = req[w].hh
    OBVIOUS
  <1>2. /\ household' = {g \in household : g.id # h.id}
        /\ member' = {m \in member : m.hh # h.id}
        /\ person' = {p \in person : p.hh # h.id}
    BY <1>1 DEF DeleteHousehold, Without
  <1>3. h \in household /\ IsMember(h.id, req[w].user)
    BY <1>1 DEF DeleteHousehold, At, SerialInv, RequestIsCurrent, ScopedRoutes, OwnerRoutes
  <1>4. h.personal = None
    BY <1>1 DEF DeleteHousehold, At, IInv, RequestsRespectPersonal, OwnerRoutes
  <1>5. h.id \in 0 .. MaxHouseholds /\ h.id \notin Personal
    BY <1>3, <1>4, SharedHouses
  <1>6. Rules!Members(h.id) # {}
    BY <1>3, RosterMembers DEF IsMember
  <1>7. Roster' = {e \in Roster : e[1] # h.id}
    BY <1>2 DEF Roster
  <1>8. Somebody' = {e \in Somebody : e[1] # h.id}
    BY <1>2 DEF Somebody
  <1>9. Personal' = Personal
    BY <1>2, <1>5 DEF Personal
  <1>10. Rules!Dissolve(h.id)
    BY <1>5, <1>6, <1>7, <1>8, <1>9 DEF Rules!Dissolve
  <1> QED
    BY <1>5, <1>10 DEF Rules!Next

LEMMA Joining ==
    ASSUME IInv, RoomInv, NEW w \in Worker, SerialInv(w), Accept(w)
    PROVE  [Rules!Next]_(Rules!vars)
  <1>1. PICK i, u : i = req[w].row /\ u = req[w].user
    OBVIOUS
  <1>2. UNCHANGED <<household, person>>
    BY DEF Accept
  <1>3. CASE IsMember(i.hh, u)
    <2>1. member' = member
      BY <1>1, <1>3 DEF Accept
    <2> QED
      BY <1>2, <2>1, QuietStutters
  <1>4. CASE ~IsMember(i.hh, u)
    <2>1. PICK m : m = [id |-> next["member"], hh |-> i.hh, user |-> u, role |-> "member"]
      OBVIOUS
    <2>2. member' = member \cup {m} /\ m.hh = i.hh /\ m.user = u /\ m.role = "member"
      BY <1>1, <1>4, <2>1 DEF Accept
    <2>3. PICK h \in household : h.id = i.hh
      BY <1>1 DEF Accept, HouseholdExists
    <2>4. u \in User
      BY <1>1 DEF Accept, At, IInv, RequestsAreTyped, RequestIsTyped, AllRoutes
    <2>5. h.personal = None
      BY <1>1, <2>3 DEF Accept, At, IInv, RequestsRespectPersonal, HeldInvitations, HoldsInvitation,
                        Loaded
    <2>6. h.id \in 0 .. MaxHouseholds /\ h.id \notin Personal
      BY <2>5, SharedHouses
    <2>7. Rules!Members(h.id) # {}
      BY RosterMembers DEF SerialInv, TablesAreSound, SharedHouseholdsHaveAnOwner
    <2>8. u \notin Rules!Members(h.id)
      BY <1>4, <2>3 DEF Rules!Members, Roster, IsMember
    <2>9. Roster' = Roster \cup {<<h.id, u, "member">>}
      BY <2>2, <2>3 DEF Roster
    <2>10. Somebody' = Somebody /\ Personal' = Personal
      BY <1>2 DEF Somebody, Personal
    <2>11. Rules!Join(h.id, u)
      BY <2>6, <2>7, <2>8, <2>9, <2>10 DEF Rules!Join
    <2> QED
      BY <2>4, <2>6, <2>11 DEF Rules!Next
  <1> QED
    BY <1>3, <1>4

LEMMA BecomingSomeone ==
    ASSUME IInv, RoomInv, NEW w \in Worker, SerialInv(w), ClaimPerson(w)
    PROVE  [Rules!Next]_(Rules!vars)
  <1>1. PICK p \in person : /\ p.id = req[w].row.id /\ p.hh = req[w].hh.id /\ p.user = None
                            /\ person' = Saved(person, [p EXCEPT !.user = req[w].user])
    BY DEF ClaimPerson
  <1>2. PICK h, u, q : h = req[w].hh /\ u = req[w].user /\ q = [p EXCEPT !.user = u]
    OBVIOUS
  <1>3. q.id = p.id /\ q.hh = h.id /\ q.user = u
    BY <1>1, <1>2 DEF IInv, TypeOK, PersonRow
  <1>4. person' = {x \in person : x.id # p.id} \cup {q} /\ UNCHANGED <<household, member>>
    BY <1>1, <1>2, <1>3 DEF ClaimPerson, Saved
  <1>5. u \in User /\ h \in household /\ IsMember(h.id, u)
    BY <1>2 DEF ClaimPerson, At, SerialInv, RequestIsCurrent, ScopedRoutes, PersonRoutes, IInv,
                RequestsAreTyped, RequestIsTyped, AllRoutes
  <1>6. \A x \in person : x.id = p.id => x = p
    BY DEF SerialInv, TablesAreSound, PersonsKeyed, Keyed
  <1>7. u # None
    BY <1>5, UserAssumption
  <1>8. Somebody' = Somebody \cup {<<h.id, u>>}
    <2>1. {x \in person' : x.user # None} = {x \in person : x.user # None} \cup {q}
      BY <1>1, <1>3, <1>4, <1>6, <1>7
    <2> QED
      BY <1>3, <2>1 DEF Somebody
  <1>9. Roster' = Roster /\ Personal' = Personal
    BY <1>4 DEF Roster, Personal
  <1>10. h.id \in 0 .. MaxHouseholds /\ u \in Rules!Members(h.id)
    BY <1>5, SharedHouses, RosterMembers DEF IsMember
  <1>11. Rules!BecomeSomeone(h.id, u)
    BY <1>8, <1>9, <1>10 DEF Rules!BecomeSomeone
  <1> QED
    BY <1>5, <1>10, <1>11 DEF Rules!Next

LEMMA Strangers ==
    ASSUME IInv, NEW w \in Worker, SerialInv(w), AddPerson(w) \/ DeletePerson(w)
    PROVE  [Rules!Next]_(Rules!vars)
  <1>1. CASE AddPerson(w)
    <2>1. PICK q : q = [id |-> next["person"], hh |-> req[w].hh.id, user |-> None]
      OBVIOUS
    <2>2. person' = person \cup {q} /\ q.user = None /\ UNCHANGED <<household, member>>
      BY <1>1, <2>1 DEF AddPerson
    <2>3. {x \in person' : x.user # None} = {x \in person : x.user # None}
      BY <2>2
    <2> QED
      BY <2>2, <2>3, Stutters DEF Roster, Somebody, Personal
  <1>2. CASE DeletePerson(w)
    <2>1. PICK r : r = req[w].row
      OBVIOUS
    <2>2. r \in person /\ (r.user # None => ~IsMember(r.hh, r.user))
      BY <1>2, <2>1 DEF DeletePerson, At, SerialInv, RequestIsCurrent, HoldsPerson, Loaded,
                        PersonRoutes
    <2>3. r.user = None
      BY <2>2 DEF SerialInv, TablesAreSound, LinkedPersonsAreMembers
    <2>4. person' = {q \in person : q.id # r.id} /\ UNCHANGED <<household, member>>
      BY <1>2, <2>1 DEF DeletePerson, Without
    <2>5. \A q \in person : q.id = r.id => q = r
      BY <2>2 DEF SerialInv, TablesAreSound, PersonsKeyed, Keyed
    <2>6. {x \in person' : x.user # None} = {x \in person : x.user # None}
      BY <2>3, <2>4, <2>5
    <2> QED
      BY <2>4, <2>6, Stutters DEF Roster, Somebody, Personal
  <1> QED
    BY <1>1, <1>2

\* The household of a request about members, and the row it is about
LEMMA MemberRequest ==
    ASSUME IInv, RoomInv, NEW w \in Worker, SerialInv(w), req[w].op \in MemberRoutes,
           NEW m \in member, m.hh = req[w].hh.id
    PROVE  /\ m.hh \in 0 .. MaxHouseholds /\ m.hh \notin Personal
           /\ m.user \in User /\ m.user \in Rules!Members(m.hh)
  <1>1. PICK h : h = req[w].hh
    OBVIOUS
  <1>2. h \in household /\ h.personal = None
    BY <1>1 DEF SerialInv, RequestIsCurrent, ScopedRoutes, IInv, RequestsRespectPersonal
  <1> QED
    BY <1>1, <1>2, SharedHouses, RosterMembers, MembershipNumbers

\* A membership is one triple of the roster.
LEMMA WithoutOne ==
    ASSUME IInv, TablesAreSound, NEW m \in member
    PROVE  {<<x.hh, x.user, x.role>> : x \in {y \in member : y.id # m.id}}
              = Rules!Without(m.hh, m.user)
  <1>1. \A x \in member : x.id # m.id <=> ~(x.hh = m.hh /\ x.user = m.user)
    BY DEF TablesAreSound, Keyed, UniqueMembershipPerHousehold
  <1>2. ASSUME NEW e \in {<<x.hh, x.user, x.role>> : x \in {y \in member : y.id # m.id}}
        PROVE  e \in Rules!Without(m.hh, m.user)
    <2>1. PICK x \in member : x.id # m.id /\ e = <<x.hh, x.user, x.role>>
      BY <1>2
    <2>2. e \in Roster /\ e[1] = x.hh /\ e[2] = x.user
      BY <2>1 DEF Roster
    <2> QED
      BY <1>1, <2>1, <2>2 DEF Rules!Without
  <1>3. ASSUME NEW e \in Rules!Without(m.hh, m.user)
        PROVE  e \in {<<x.hh, x.user, x.role>> : x \in {y \in member : y.id # m.id}}
    <2>1. e \in Roster /\ ~(e[1] = m.hh /\ e[2] = m.user)
      BY DEF Rules!Without
    <2>2. PICK x \in member : e = <<x.hh, x.user, x.role>>
      BY <2>1 DEF Roster
    <2>3. x.id # m.id
      BY <1>1, <2>1, <2>2
    <2> QED
      BY <2>2, <2>3
  <1> QED
    BY <1>2, <1>3

\* Somebody else owns the household of m.
LEMMA OtherOwners ==
    ASSUME IInv, NEW w \in Worker, SerialInv(w), NEW m \in member, ~is_last_owner(m),
           NEW h \in household, h.id = m.hh
    PROVE  Rules!Owners(m.hh) \ {m.user} # {}
  <1>1. PICK n \in member : n # m /\ n.hh = m.hh /\ n.role = "owner"
    BY AnotherOwner DEF SerialInv, TablesAreSound
  <1>2. n.user # m.user
    BY <1>1 DEF SerialInv, TablesAreSound, UniqueMembershipPerHousehold, Keyed
  <1> QED
    BY <1>1, <1>2, RosterMembers

LEMMA Leaving ==
    ASSUME IInv, RoomInv, NEW w \in Worker, SerialInv(w), RemoveMember(w)
    PROVE  [Rules!Next]_(Rules!vars)
  <1>1. PICK m, h : m = req[w].row /\ h = req[w].hh
    OBVIOUS
  <1>2. m \in member /\ ~is_last_owner(m) /\ req[w].op \in MemberRoutes
    BY <1>1 DEF RemoveMember, At, SerialInv, RequestIsCurrent, MemberRoutes
  <1>3. m.hh = h.id /\ h \in household
    BY <1>1, <1>2 DEF RemoveMember, At, IInv, RequestsAreTyped, RequestIsTyped, HoldsMember, Loaded,
                      SerialInv, RequestIsCurrent, ScopedRoutes
  <1>4. /\ m.hh \in 0 .. MaxHouseholds /\ m.hh \notin Personal
        /\ m.user \in User /\ m.user \in Rules!Members(m.hh)
    BY <1>1, <1>2, <1>3, MemberRequest
  <1>5. Rules!Owners(m.hh) \ {m.user} # {}
    BY <1>2, <1>3, OtherOwners
  <1>6. PICK f : f = [p \in person |-> IF p.hh = m.hh /\ p.user = m.user THEN Unlinked(p) ELSE p]
    OBVIOUS
  <1>7. /\ person' = {f[p] : p \in person} /\ member' = {x \in member : x.id # m.id}
        /\ UNCHANGED household
    BY <1>1, <1>6 DEF RemoveMember, Without
  <1>8. \A p \in person : /\ p.hh = m.hh /\ p.user = m.user => f[p].user = None
                          /\ ~(p.hh = m.hh /\ p.user = m.user) => f[p] = p
    <2>1. \A p \in person : Unlinked(p).user = None
      BY DEF Unlinked, IInv, TypeOK, PersonRow
    <2> QED
      BY <1>6, <2>1
  <1>9. {x \in person' : x.user # None}
           = {x \in person : x.user # None /\ ~(x.hh = m.hh /\ x.user = m.user)}
    BY <1>7, <1>8
  <1>10. Somebody' = Somebody \ {<<m.hh, m.user>>}
    BY <1>9 DEF Somebody
  <1>11. Roster' = Rules!Without(m.hh, m.user)
    BY <1>2, <1>7, WithoutOne DEF Roster, SerialInv
  <1>12. Personal' = Personal
    BY <1>7 DEF Personal
  <1>13. Rules!Leave(m.hh, m.user)
    BY <1>4, <1>5, <1>10, <1>11, <1>12 DEF Rules!Leave
  <1> QED
    BY <1>4, <1>13 DEF Rules!Next

LEMMA ChangingRole ==
    ASSUME IInv, RoomInv, NEW w \in Worker, SerialInv(w), SetRole(w)
    PROVE  [Rules!Next]_(Rules!vars)
  <1>1. PICK m \in member, role \in Role :
           RoleMayChange(m, role) /\ req[w].row = [m EXCEPT !.role = role]
    BY DEF SetRole, SerialInv, RequestIsCurrent
  <1>2. PICK n, h : n = [m EXCEPT !.role = role] /\ h = req[w].hh
    OBVIOUS
  <1>3. n.id = m.id /\ n.hh = m.hh /\ n.user = m.user /\ n.role = role
    BY <1>2 DEF IInv, TypeOK, MemberRow
  <1>4. /\ member' = {x \in member : x.id # m.id} \cup {n}
        /\ UNCHANGED <<household, person>>
    BY <1>1, <1>2, <1>3 DEF SetRole, Saved
  <1>5. req[w].op \in MemberRoutes /\ n.hh = h.id /\ h \in household
    BY <1>1, <1>2 DEF SetRole, At, IInv, RequestsAreTyped, RequestIsTyped, HoldsMember, Loaded,
                      MemberRoutes, SerialInv, RequestIsCurrent, ScopedRoutes
  <1>6. /\ m.hh \in 0 .. MaxHouseholds /\ m.hh \notin Personal
        /\ m.user \in User /\ m.user \in Rules!Members(m.hh)
    BY <1>2, <1>3, <1>5, MemberRequest
  <1>7. Roster' = Rules!Without(m.hh, m.user) \cup {<<m.hh, m.user, role>>}
    <2>1. Roster' = {<<x.hh, x.user, x.role>> : x \in {y \in member : y.id # m.id}}
                       \cup {<<m.hh, m.user, role>>}
      BY <1>3, <1>4 DEF Roster
    <2> QED
      BY <2>1, WithoutOne DEF SerialInv
  <1>8. Somebody' = Somebody /\ Personal' = Personal
    BY <1>4 DEF Somebody, Personal
  <1>9. CASE role = "owner"
    <2>1. IsSomeone(m.hh, m.user) /\ m.user # None
      BY <1>1, <1>6, <1>9, UserAssumption
         DEF RoleMayChange, SerialInv, TablesAreSound, OwnersAreSomeone
    <2>2. <<m.hh, m.user>> \in Somebody
      BY <2>1 DEF IsSomeone, Somebody
    <2>3. Rules!Promote(m.hh, m.user)
      BY <1>6, <1>7, <1>8, <1>9, <2>2 DEF Rules!Promote
    <2> QED
      BY <1>6, <2>3 DEF Rules!Next
  <1>10. CASE role = "member" /\ m.role = "owner"
    <2>1. Rules!Owners(m.hh) \ {m.user} # {}
      BY <1>1, <1>3, <1>5, <1>10, OtherOwners DEF RoleMayChange
    <2>2. m.user \in Rules!Owners(m.hh)
      BY <1>10, RosterMembers
    <2>3. Rules!Demote(m.hh, m.user)
      BY <1>6, <1>7, <1>8, <1>10, <2>1, <2>2 DEF Rules!Demote
    <2> QED
      BY <1>6, <2>3 DEF Rules!Next
  <1>11. CASE role = "member" /\ m.role = "member"
    <2>1. Roster' = Roster
      <3>1. \A x \in member : x.id = m.id => x = m
        BY DEF SerialInv, TablesAreSound, Keyed
      <3>2. Roster = {<<x.hh, x.user, x.role>> : x \in {y \in member : y.id # m.id}}
                        \cup {<<m.hh, m.user, m.role>>}
        BY <3>1 DEF Roster
      <3> QED
        BY <1>7, <1>11, <3>2, WithoutOne DEF SerialInv
    <2> QED
      BY <1>8, <2>1, Stutters
  <1> QED
    BY <1>9, <1>10, <1>11 DEF Role, IInv, TypeOK, MemberRow

\* Only a new household takes a key of theirs.
LEMMA RoomKept ==
    ASSUME IInv, RoomInv, NEW w, OneAtATime(w), [Next]_vars
    PROVE  RoomInv'
  <1> USE DEF OneAtATime
  <1>1. next["household"] \in Nat
    BY MembershipNumbers
  <1>2. CASE CreatePersonalHousehold(w) \/ CreateHousehold(w)
    <2>1. next["household"] <= MaxHouseholds /\ next'["household"] = next["household"] + 1
      BY <1>2 DEF CreatePersonalHousehold, CreateHousehold, create_household, UseKeys, TableNames
    <2> QED
      BY <1>1, <2>1, BoundAssumption DEF RoomInv
  <1>3. CASE InviteNewcomer(w) \/ AddPerson(w) \/ Accept(w)
    <2>1. next'["household"] = next["household"]
      BY <1>3 DEF InviteNewcomer, AddPerson, Accept, UseKeys, TableNames
    <2> QED
      BY <2>1 DEF RoomInv
  <1>4. CASE \/ Enter(w) \/ LoadPerson(w) \/ LoadMember(w) \/ CheckPersonIsNoMember(w)
             \/ CheckCallerIsNobody(w) \/ CheckRole(w) \/ CheckLeaving(w) \/ SaveAccount(w)
             \/ LoadPendingInvitation(w) \/ LoadInvitation(w) \/ Abandon(w)
             \/ InviteMember(w) \/ CancelInvitation(w)
    <2>1. next' = next
      BY <1>4 DEF Enter, LoadPerson, LoadMember, CheckPersonIsNoMember, CheckCallerIsNobody,
                  CheckRole, CheckLeaving, SaveAccount, LoadPendingInvitation, LoadInvitation,
                  Abandon, InviteMember, CancelInvitation, Advance, tables
    <2> QED
      BY <2>1 DEF RoomInv
  <1>5. CASE \/ RenameHousehold(w) \/ DeleteHousehold(w) \/ RenamePerson(w) \/ DeletePerson(w)
             \/ ClaimPerson(w) \/ SetRole(w) \/ RemoveMember(w) \/ Expire \/ UNCHANGED vars
    <2>1. next' = next
      BY <1>5 DEF RenameHousehold, DeleteHousehold, RenamePerson, DeletePerson, ClaimPerson, SetRole,
                  RemoveMember, Expire, vars, tables
    <2> QED
      BY <2>1 DEF RoomInv
  <1>6. \A u \in User : ~DeleteAccount(u)
    BY DEF DeleteAccount
  <1> QED
    BY <1>2, <1>3, <1>4, <1>5, <1>6 DEF Next, Serve, MembershipStep, InvitationStep

LEMMA StartObeysRules ==
    ASSUME SoundStart, RoomAtStart, Init
    PROVE  Rules!Init
  <1>1. /\ household = Start.household /\ member = Start.member /\ person = Start.person
        /\ next = Start.next
    BY DEF Init
  <1>2. /\ household \subseteq HouseholdRow /\ member \subseteq MemberRow
        /\ person \subseteq PersonRow
        /\ \A r \in member \cup person : \E h \in household : r.hh = h.id
    BY <1>1, StartAssumption
  <1>3. next["household"] \in Nat /\ next["household"] <= MaxHouseholds + 1
    BY <1>1, NextIsNat, StartAssumption DEF RoomAtStart
  <1>4. \A h \in household : h.id \in 0 .. MaxHouseholds
    BY <1>1, <1>2, <1>3, StartAssumption, BoundAssumption DEF Keyed, HouseholdRow
  <1>5. \A m \in member : /\ m.hh \in 0 .. MaxHouseholds /\ m.user \in User
                          /\ m.role \in {"owner", "member"}
    BY <1>2, <1>4 DEF MemberRow, Role
  <1>6. \A p \in person : /\ p.hh \in 0 .. MaxHouseholds
                          /\ p.user # None => p.user \in User
    BY <1>2, <1>4 DEF PersonRow, Account
  <1>7. Roster \in SUBSET ((0 .. MaxHouseholds) \X User \X {"owner", "member"})
    BY <1>5 DEF Roster
  <1>8. Somebody \in SUBSET ((0 .. MaxHouseholds) \X User)
    BY <1>6 DEF Somebody
  <1>9. Personal \in SUBSET (0 .. MaxHouseholds)
    BY <1>4 DEF Personal
  <1>10. \A h \in 0 .. MaxHouseholds : Rules!Members(h) # {} => Rules!Owners(h) # {}
    <2> SUFFICES ASSUME NEW h \in 0 .. MaxHouseholds, NEW u \in Rules!Members(h)
                 PROVE  Rules!Owners(h) # {}
      OBVIOUS
    <2>1. PICK m \in member : m.hh = h
      BY DEF Rules!Members, Roster
    <2>2. PICK o \in member : o.hh = h /\ o.role = "owner"
      BY <1>1, <1>2, <2>1 DEF SoundStart
    <2> QED
      BY <1>5, <2>2 DEF Rules!Owners, Roster
  <1>11. \A e \in Somebody : e[2] \in Rules!Members(e[1])
    <2> SUFFICES ASSUME NEW p \in person, p.user # None PROVE p.user \in Rules!Members(p.hh)
      BY DEF Somebody
    <2>1. PICK m \in member : m.hh = p.hh /\ m.user = p.user
      BY <1>1 DEF SoundStart
    <2> QED
      BY <1>5, <2>1 DEF Rules!Members, Roster
  <1>12. \A h \in 0 .. MaxHouseholds : \A u \in Rules!Owners(h) : <<h, u>> \in Somebody
    <2> SUFFICES ASSUME NEW h \in 0 .. MaxHouseholds, NEW u \in Rules!Owners(h)
                 PROVE  <<h, u>> \in Somebody
      OBVIOUS
    <2>1. u \in User
      BY DEF Rules!Owners
    <2>2. PICK m \in member : m.hh = h /\ m.user = u /\ m.role = "owner"
      BY DEF Rules!Owners, Roster
    <2>3. PICK p \in person : p.hh = h /\ p.user = u
      BY <1>1, <2>2 DEF SoundStart
    <2> QED
      BY <2>1, <2>3, UserAssumption DEF Somebody
  <1> QED
    BY <1>7, <1>8, <1>9, <1>10, <1>11, <1>12 DEF Rules!Init

LEMMA StepsObeyRules ==
    ASSUME NEW w, OneAtATime(w), IInv, SerialInv(w), RoomInv, [Next]_vars
    PROVE  [Rules!Next]_(Rules!vars)
  <1> USE DEF OneAtATime
  <1>1. CASE CreatePersonalHousehold(w)
    <2>1. create_household(req[w].user, req[w].user)
      BY <1>1 DEF CreatePersonalHousehold
    <2>2. req[w].user \in User
      BY <1>1 DEF CreatePersonalHousehold, At, IInv, RequestsAreTyped, RequestIsTyped, AllRoutes
    <2> QED
      BY <2>1, <2>2, Founding
  <1>2. CASE CreateHousehold(w)
    <2>1. PICK u \in User : create_household(u, None)
      BY <1>2 DEF CreateHousehold
    <2> QED
      BY <2>1, Founding
  <1>3. CASE RenameHousehold(w) \/ RenamePerson(w)
    <2>1. UNCHANGED <<household, member, person>>
      BY <1>3, RenamingWritesNothing
    <2> QED
      BY <2>1, QuietStutters
  <1>4. CASE \/ Enter(w) \/ LoadPerson(w) \/ LoadMember(w) \/ CheckPersonIsNoMember(w)
             \/ CheckCallerIsNobody(w) \/ CheckRole(w) \/ CheckLeaving(w) \/ SaveAccount(w)
             \/ LoadPendingInvitation(w) \/ LoadInvitation(w) \/ Abandon(w)
             \/ InviteMember(w) \/ InviteNewcomer(w) \/ CancelInvitation(w)
             \/ Expire \/ UNCHANGED vars
    <2>1. UNCHANGED <<household, member, person>>
      BY <1>4 DEF Enter, LoadPerson, LoadMember, CheckPersonIsNoMember, CheckCallerIsNobody,
                  CheckRole, CheckLeaving, SaveAccount, LoadPendingInvitation, LoadInvitation,
                  Abandon, InviteMember, InviteNewcomer, CancelInvitation, Advance, Expire, vars,
                  tables
    <2> QED
      BY <2>1, QuietStutters
  <1>5. \A u \in User : ~DeleteAccount(u)
    BY DEF DeleteAccount
  <1> QED
    BY <1>1, <1>2, <1>3, <1>4, <1>5, Dissolving, Joining, BecomingSomeone, Strangers, Leaving,
       ChangingRole
    DEF Next, Serve, MembershipStep, InvitationStep

\* Served one request at a time, every step of the service is a step of the
\* documented rules, whose conditions hold at the instant of the write.
THEOREM ServiceImplementsTheRules ==
    ASSUME NEW w, OneAtATime(w), SoundStart, RoomAtStart PROVE Spec => ImplementsTheRules
  <1>1. Init => Rules!Init
    BY StartObeysRules
  <1>2. Init => RoomInv
    BY DEF Init, RoomInv, RoomAtStart
  <1>3. IInv /\ RoomInv /\ [Next]_vars => RoomInv'
    BY RoomKept
  <1>4. IInv /\ SerialInv(w) /\ RoomInv /\ [Next]_vars => [Rules!Next]_(Rules!vars)
    BY StepsObeyRules
  <1> QED
    BY <1>1, <1>2, <1>3, <1>4, SerialInvHolds, PTL DEF Spec, ImplementsTheRules, Rules!Spec
================================================================================
