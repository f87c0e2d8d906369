------------------------- MODULE HouseholdPrivacyProofs -------------------------
(***************************************************************************)
(* Personal households stay private, whatever requests are interleaved and *)
(* however stale the rows they write back: IInv is inductive.              *)
(*                                                                         *)
(* The argument: a key names one household, one membership, one person for *)
(* ever (HouseholdKeys, MemberKeys, PersonKeys), so a stale row can only   *)
(* land where its original was; and no request that passed its permissions *)
(* holds a row that would open a personal household that still stands      *)
(* (RequestsRespectPersonal).  Each part is kept by every step that brings *)
(* in only known rows, or a row under the next key.                        *)
(***************************************************************************)
EXTENDS HouseholdProofs

KeysGrow == \A t \in TableNames : next'[t] >= next[t]
Grows(t) == next'[t] > next[t]

LEMMA NextIsNat ==
    ASSUME next \in Keys
    PROVE  /\ next["household"] \in Nat /\ next["member"] \in Nat
           /\ next["person"] \in Nat /\ next["invitation"] \in Nat
  BY DEF Keys, TableNames

LEMMA UseKeysGrow ==
    ASSUME next \in Keys, NEW T, UseKeys(T)
    PROVE  KeysGrow /\ \A t \in TableNames \cap T : Grows(t)
  BY DEF UseKeys, Keys, KeysGrow, Grows

LEMMA UnchangedKeysGrow ==
    ASSUME next \in Keys, UNCHANGED next PROVE KeysGrow
  BY DEF Keys, KeysGrow

--------------------------------------------------------------------------------
(***************************************************************************)
(* The keys of known rows.                                                 *)
(***************************************************************************)
LEMMA KnownTyped ==
    ASSUME TypeOK, RequestsAreTyped
    PROVE  /\ KnownHouseholds \subseteq HouseholdRow
           /\ KnownMembers \subseteq MemberRow
           /\ KnownPersons \subseteq PersonRow
           /\ KnownInvitations \subseteq InvitationRow
  BY DEF TypeOK, RequestsAreTyped, RequestIsTyped, KnownHouseholds, KnownMembers,
     KnownPersons, KnownInvitations, HeldHouseholds, HeldMembers, HeldPersons,
     HeldInvitations

LEMMA KnownNumbers ==
    ASSUME TypeOK, RequestsAreTyped
    PROVE  /\ \A h \in KnownHouseholds : h.id \in Nat
           /\ \A m \in KnownMembers : m.id \in Nat /\ m.hh \in Nat
           /\ \A p \in KnownPersons : p.id \in Nat /\ p.hh \in Nat
           /\ \A i \in KnownInvitations : i.hh \in Nat
  BY KnownTyped DEF HouseholdRow, MemberRow, PersonRow, InvitationRow

LEMMA HouseholdKeysKept ==
    ASSUME TypeOK, TypeOK', RequestsAreTyped, HouseholdKeys, KeysGrow,
           \A h \in KnownHouseholds' :
              \/ h \in KnownHouseholds
              \/ /\ h.id = next["household"] /\ Grows("household")
                 /\ \A g \in KnownHouseholds' : g.id = h.id => g = h
    PROVE  HouseholdKeys'
  <1>1. /\ next["household"] \in Nat /\ next'["household"] \in Nat
        /\ next'["household"] >= next["household"]
    BY NextIsNat DEF TypeOK, Keys, KeysGrow, TableNames
  <1>2. \A h \in KnownHouseholds : h.id \in Nat
    BY KnownNumbers
  <1> QED
    BY <1>1, <1>2 DEF HouseholdKeys, Grows

LEMMA MemberKeysKept ==
    ASSUME TypeOK, TypeOK', RequestsAreTyped, MemberKeys, KeysGrow,
           \A m \in KnownMembers' :
              \/ \E n \in KnownMembers : m.id = n.id /\ m.hh = n.hh
              \/ /\ m.id = next["member"] /\ Grows("member")
                 /\ m.hh < next'["household"]
                 /\ \A n \in KnownMembers' : n.id = m.id => n = m
    PROVE  MemberKeys'
  <1>1. /\ next["household"] \in Nat /\ next'["household"] \in Nat
        /\ next'["household"] >= next["household"]
        /\ next["member"] \in Nat /\ next'["member"] \in Nat
        /\ next'["member"] >= next["member"]
    BY NextIsNat DEF TypeOK, Keys, KeysGrow, TableNames
  <1>2. \A m \in KnownMembers : m.id \in Nat /\ m.hh \in Nat
    BY KnownNumbers
  <1> QED
    BY <1>1, <1>2 DEF MemberKeys, Grows

\* Households that stand after a step stood before it or are new.
Standing ==
    \A h \in household' :
        h.personal # None => h \in household \/ h.id = next["household"]

LEMMA PersonKeysKept ==
    ASSUME TypeOK, TypeOK', RequestsAreTyped, PersonKeys, KeysGrow, Standing,
           \A p \in KnownPersons' :
              \/ \E q \in KnownPersons : p.id = q.id /\ SamePerson(p, q)
              \/ /\ p.id = next["person"] /\ Grows("person")
                 /\ p.hh < next'["household"]
                 /\ \A q \in KnownPersons' : q.id = p.id => q = p
    PROVE  PersonKeys'
  <1>1. /\ next["household"] \in Nat /\ next'["household"] \in Nat
        /\ next'["household"] >= next["household"]
        /\ next["person"] \in Nat /\ next'["person"] \in Nat
        /\ next'["person"] >= next["person"]
    BY NextIsNat DEF TypeOK, Keys, KeysGrow, TableNames
  <1>2. \A p \in KnownPersons : p.id \in Nat /\ p.hh \in Nat
    BY KnownNumbers
  <1>3. \A p \in KnownPersons' : p.id < next'["person"] /\ p.hh < next'["household"]
    BY <1>1, <1>2 DEF PersonKeys, SamePerson, Grows
  <1>4. ASSUME NEW p \in KnownPersons', NEW q \in KnownPersons', p.id = q.id
        PROVE  SamePerson(p, q)'
    <2>1. ASSUME NEW r \in KnownPersons, r.id = p.id, SamePerson(p, r),
                 NEW s \in KnownPersons, s.id = q.id, SamePerson(q, s)
          PROVE  SamePerson(p, q)'
      <3>1. SamePerson(r, s) /\ r.hh < next["household"]
        BY <1>4, <2>1 DEF PersonKeys
      <3>2. \A h \in household' : h.id = p.hh /\ h.personal # None => h \in household
        BY <1>1, <1>2, <2>1, <3>1 DEF Standing, SamePerson
      <3> QED
        BY <2>1, <3>1, <3>2 DEF SamePerson
    <2>2. ASSUME p.id = next["person"], NEW r \in KnownPersons, r.id = q.id
          PROVE  FALSE
      BY <1>1, <1>2, <1>4, <2>2 DEF PersonKeys
    <2>3. ASSUME q.id = next["person"], NEW r \in KnownPersons, r.id = p.id
          PROVE  FALSE
      BY <1>1, <1>2, <1>4, <2>3 DEF PersonKeys
    <2>4. CASE p = q
      BY <2>4 DEF SamePerson
    <2> QED
      BY <2>1, <2>2, <2>3, <2>4
  <1> QED
    BY <1>3, <1>4 DEF PersonKeys

LEMMA InvitationKeysKept ==
    ASSUME TypeOK, TypeOK', RequestsAreTyped, HouseholdKeys, InvitationKeys, KeysGrow,
           \A i \in KnownInvitations' :
              \/ \E j \in KnownInvitations : i.hh = j.hh
              \/ \E h \in KnownHouseholds : i.hh = h.id
    PROVE  InvitationKeys'
  <1>1. /\ next["household"] \in Nat /\ next'["household"] \in Nat
        /\ next'["household"] >= next["household"]
    BY NextIsNat DEF TypeOK, Keys, KeysGrow, TableNames
  <1>2. \A i \in KnownInvitations' : i.hh \in Nat /\ i.hh < next["household"]
    BY KnownNumbers DEF HouseholdKeys, InvitationKeys
  <1> QED
    BY <1>1, <1>2 DEF InvitationKeys

--------------------------------------------------------------------------------
(***************************************************************************)
(* What requests hold after a step.                                        *)
(***************************************************************************)
LEMMA QuietHeld ==
    ASSUME Quiet
    PROVE  /\ HeldHouseholds' \subseteq HeldHouseholds
           /\ HeldMembers' \subseteq HeldMembers
           /\ HeldPersons' \subseteq HeldPersons
           /\ HeldInvitations' \subseteq HeldInvitations
  <1>1. HeldHouseholds' \subseteq HeldHouseholds
    BY QuietRequest DEF HeldHouseholds
  <1>2. HeldMembers' \subseteq HeldMembers
    BY QuietRequest DEF HeldMembers
  <1>3. HeldPersons' \subseteq HeldPersons
    BY QuietRequest DEF HeldPersons
  <1>4. HeldInvitations' \subseteq HeldInvitations
    BY QuietRequest DEF HeldInvitations
  <1> QED
    BY <1>1, <1>2, <1>3, <1>4

LEMMA HeldBy ==
    ASSUME NEW v \in Worker
    PROVE  /\ req[v].op \in ScopedRoutes => req[v].hh \in HeldHouseholds
           /\ HoldsMember(v) => req[v].row \in HeldMembers
           /\ HoldsPerson(v) => req[v].row \in HeldPersons
           /\ HoldsInvitation(v) => req[v].row \in HeldInvitations
  BY DEF HeldHouseholds, HeldMembers, HeldPersons, HeldInvitations

LEMMA OthersHeld ==
    ASSUME NEW w \in Worker, Others(w)
    PROVE  /\ \A h \in HeldHouseholds' : h \in HeldHouseholds
                 \/ (h = req'[w].hh /\ req'[w].op \in ScopedRoutes)
           /\ \A m \in HeldMembers' : m \in HeldMembers
                 \/ (m = req'[w].row /\ HoldsMember(w)')
           /\ \A p \in HeldPersons' : p \in HeldPersons
                 \/ (p = req'[w].row /\ HoldsPerson(w)')
           /\ \A i \in HeldInvitations' : i \in HeldInvitations
                 \/ (i = req'[w].row /\ HoldsInvitation(w)')
  <1>1. ASSUME NEW v \in Worker, v # w
        PROVE  /\ req'[v] = req[v]
               /\ HoldsMember(v)' => HoldsMember(v)
               /\ HoldsPerson(v)' => HoldsPerson(v)
               /\ HoldsInvitation(v)' => HoldsInvitation(v)
    BY <1>1 DEF Others, HoldsMember, HoldsPerson, HoldsInvitation, Loaded
  <1>2. ASSUME NEW h \in HeldHouseholds'
        PROVE  h \in HeldHouseholds \/ (h = req'[w].hh /\ req'[w].op \in ScopedRoutes)
    <2>1. PICK v \in Worker : req'[v].op \in ScopedRoutes /\ h = req'[v].hh
      BY DEF HeldHouseholds
    <2> QED
      BY <1>1, <2>1, HeldBy
  <1>3. ASSUME NEW m \in HeldMembers'
        PROVE  m \in HeldMembers \/ (m = req'[w].row /\ HoldsMember(w)')
    <2>1. PICK v \in Worker : HoldsMember(v)' /\ m = req'[v].row
      BY DEF HeldMembers
    <2> QED
      BY <1>1, <2>1, HeldBy
  <1>4. ASSUME NEW p \in HeldPersons'
        PROVE  p \in HeldPersons \/ (p = req'[w].row /\ HoldsPerson(w)')
    <2>1. PICK v \in Worker : HoldsPerson(v)' /\ p = req'[v].row
      BY DEF HeldPersons
    <2> QED
      BY <1>1, <2>1, HeldBy
  <1>5. ASSUME NEW i \in HeldInvitations'
        PROVE  i \in HeldInvitations \/ (i = req'[w].row /\ HoldsInvitation(w)')
    <2>1. PICK v \in Worker : HoldsInvitation(v)' /\ i = req'[v].row
      BY DEF HeldInvitations
    <2> QED
      BY <1>1, <2>1, HeldBy
  <1> QED
    BY <1>2, <1>3, <1>4, <1>5

--------------------------------------------------------------------------------
(***************************************************************************)
(* Steps that only read: they move one request and leave the rows.         *)
(***************************************************************************)
SameRows == UNCHANGED <<household, member, person, invitation, next>>

LEMMA SameRowsKeep ==
    ASSUME IInv, SameRows
    PROVE  PersonalHouseholdsStayPrivate' /\ KeysGrow /\ Standing
  BY UnchangedKeysGrow DEF IInv, TypeOK, SameRows, Standing, PersonalHouseholdsStayPrivate

\* What one request may come to hold by reading.
Reads(w) ==
    /\ req'[w].op \in ScopedRoutes => req'[w].hh \in KnownHouseholds
    /\ HoldsMember(w)' => \E m \in KnownMembers :
          req'[w].row.id = m.id /\ req'[w].row.hh = m.hh
    /\ HoldsPerson(w)' => req'[w].row \in KnownPersons
    /\ HoldsInvitation(w)' => req'[w].row \in KnownInvitations

LEMMA ReadingKeepsKeys ==
    ASSUME IInv, TypeOK', SameRows, NEW w \in Worker, Others(w), Reads(w)
    PROVE  HouseholdKeys' /\ MemberKeys' /\ PersonKeys' /\ InvitationKeys'
  <1> USE DEF IInv
  <1>1. KnownHouseholds' \subseteq KnownHouseholds
    BY OthersHeld DEF SameRows, Reads, KnownHouseholds
  <1>2. \A m \in KnownMembers' : \E n \in KnownMembers : m.id = n.id /\ m.hh = n.hh
    BY OthersHeld DEF SameRows, Reads, KnownMembers
  <1>3. KnownPersons' \subseteq KnownPersons
    BY OthersHeld DEF SameRows, Reads, KnownPersons
  <1>4. KnownInvitations' \subseteq KnownInvitations
    BY OthersHeld DEF SameRows, Reads, KnownInvitations
  <1>5. KeysGrow /\ Standing
    BY SameRowsKeep
  <1>6. HouseholdKeys'
    BY <1>1, <1>5, HouseholdKeysKept
  <1>7. MemberKeys'
    BY <1>2, <1>5, MemberKeysKept
  <1>8. \A p \in KnownPersons : SamePerson(p, p)
    BY DEF SamePerson
  <1>9. PersonKeys'
    BY <1>3, <1>5, <1>8, PersonKeysKept
  <1>10. InvitationKeys'
    BY <1>4, <1>5, InvitationKeysKept
  <1> QED
    BY <1>6, <1>7, <1>9, <1>10

\* What is known of a personal household that stands.
LEMMA PersonalKnown ==
    ASSUME IInv, NEW h \in household, h.personal # None
    PROVE  /\ Private(h, member, person, invitation)
           /\ \A p \in KnownPersons : p.hh = h.id => p.user \in {None, h.personal}
           /\ \A i \in KnownInvitations : i.hh # h.id
  <1>1. Private(h, member, person, invitation)
    BY DEF IInv, PersonalHouseholdsStayPrivate, PrivateHouseholds
  <1>2. ASSUME NEW p \in HeldPersons, p.hh = h.id PROVE p.user \in {None, h.personal}
    <2>1. PICK w \in Worker : HoldsPerson(w) /\ p = req[w].row
      BY DEF HeldPersons
    <2> QED
      BY <1>2, <2>1 DEF IInv, RequestsRespectPersonal
  <1>3. \A i \in HeldInvitations : i.hh # h.id
    BY DEF IInv, RequestsRespectPersonal
  <1> QED
    BY <1>1, <1>2, <1>3 DEF Private, KnownPersons, KnownInvitations

LEMMA ReadingRespectsPersonal ==
    ASSUME IInv, SameRows, NEW w \in Worker, Others(w), Reads(w),
           req'[w].op \in ScopedRoutes => req'[w].hh.personal \in {None, req'[w].user},
           req'[w].op \in OwnerRoutes \cup MemberRoutes => req'[w].hh.personal = None,
           \A h \in household : HoldsPerson(w)' /\ req'[w].row.hh = h.id /\ h.personal # None
               => /\ At(w, "delete person", "checked")' => req'[w].row.user = None
                  /\ ~At(w, "claim", "checked")'
    PROVE  RequestsRespectPersonal'
  <1>1. ASSUME NEW v \in Worker
        PROVE  /\ req'[v].op \in ScopedRoutes
                     => req'[v].hh.personal \in {None, req'[v].user}
               /\ req'[v].op \in OwnerRoutes \cup MemberRoutes
                     => req'[v].hh.personal = None
    BY DEF IInv, RequestsRespectPersonal, Others
  <1>2. household' = household
    BY DEF SameRows
  <1>3. ASSUME NEW h \in household, h.personal # None, NEW i \in HeldInvitations'
        PROVE  i.hh # h.id
    <2>1. i \in KnownInvitations
      BY OthersHeld DEF Reads, KnownInvitations
    <2> QED
      BY <1>3, <2>1, PersonalKnown
  <1>4. ASSUME NEW h \in household, h.personal # None, NEW v \in Worker,
               HoldsPerson(v)', req'[v].row.hh = h.id
        PROVE  /\ req'[v].row.user \in {None, h.personal}
               /\ At(v, "delete person", "checked")' => req'[v].row.user = None
               /\ ~At(v, "claim", "checked")'
    <2>1. CASE v # w
      <3>1. req'[v] = req[v] /\ HoldsPerson(v)
        BY <1>4, <2>1 DEF Others, HoldsPerson, Loaded
      <3> QED
        BY <1>4, <3>1 DEF IInv, RequestsRespectPersonal, At
    <2>2. CASE v = w
      <3>1. req'[v].row \in KnownPersons
        BY <1>4, <2>2 DEF Reads
      <3>2. \A p \in KnownPersons : p.hh = h.id => p.user \in {None, h.personal}
        BY <1>4, PersonalKnown
      <3> QED
        BY <1>4, <2>2, <3>1, <3>2
    <2> QED
      BY <2>1, <2>2
  <1> QED
    BY <1>1, <1>2, <1>3, <1>4 DEF RequestsRespectPersonal

LEMMA ReadingKeepsIInv ==
    ASSUME IInv, TypeOK', RequestsAreTyped', SameRows, NEW w \in Worker, Others(w), Reads(w),
           req'[w].op \in ScopedRoutes => req'[w].hh.personal \in {None, req'[w].user},
           req'[w].op \in OwnerRoutes \cup MemberRoutes => req'[w].hh.personal = None,
           \A h \in household : HoldsPerson(w)' /\ req'[w].row.hh = h.id /\ h.personal # None
               => /\ At(w, "delete person", "checked")' => req'[w].row.user = None
                  /\ ~At(w, "claim", "checked")'
    PROVE  IInv'
  BY ReadingKeepsKeys, ReadingRespectsPersonal, SameRowsKeep DEF IInv

\* A request that goes on keeps its household.
LEMMA AdvanceKeepsHousehold ==
    ASSUME IInv, NEW w \in Worker, NEW step, NEW row, Advance(w, step, row)
    PROVE  /\ SameRows /\ Others(w)
           /\ req'[w].op \in ScopedRoutes => req'[w].hh \in KnownHouseholds
           /\ req'[w].op \in ScopedRoutes => req'[w].hh.personal \in {None, req'[w].user}
           /\ req'[w].op \in OwnerRoutes \cup MemberRoutes => req'[w].hh.personal = None
           /\ req'[w].op = req[w].op /\ req'[w].step = step /\ req'[w].row = row
  <1>1. /\ Others(w) /\ UNCHANGED tables
        /\ req'[w].op = req[w].op /\ req'[w].user = req[w].user
        /\ req'[w].hh = req[w].hh
        /\ req'[w].step = step /\ req'[w].row = row
    BY AdvanceMoves DEF IInv
  <1>2. SameRows
    BY <1>1 DEF tables, SameRows
  <1>3. req[w].op \in ScopedRoutes => req[w].hh \in KnownHouseholds
    BY HeldBy DEF KnownHouseholds
  <1>4. /\ req[w].op \in ScopedRoutes => req[w].hh.personal \in {None, req[w].user}
        /\ req[w].op \in OwnerRoutes \cup MemberRoutes => req[w].hh.personal = None
    BY DEF IInv, RequestsRespectPersonal
  <1> QED
    BY <1>1, <1>2, <1>3, <1>4

LEMMA EnterKeepsIInv ==
    ASSUME IInv, TypeOK', RequestsAreTyped', NEW w \in Worker, Enter(w)
    PROVE  IInv'
  <1>1. PICK u \in User, h \in household, op \in Routes \cap ScopedRoutes :
           Permitted(op, h, u) /\ Call(w, op, "permitted", u, h, NoRow)
    BY DEF Enter
  <1>2. /\ Others(w)
        /\ req'[w].op = op /\ req'[w].step = "permitted" /\ req'[w].user = u
        /\ req'[w].hh = h
    BY <1>1, CallMoves DEF IInv
  <1>3. ~HoldsPerson(w)' /\ ~HoldsMember(w)' /\ ~HoldsInvitation(w)'
    BY <1>2 DEF HoldsPerson, HoldsMember, HoldsInvitation, Loaded
  <1>4. SameRows /\ Reads(w)
    BY <1>2, <1>3 DEF Enter, tables, SameRows, Reads, KnownHouseholds
  <1>5. h.personal \in {None, u}
    <2>1. PICK m \in member : m.hh = h.id /\ m.user = u
      BY <1>1 DEF Permitted, IsMember
    <2> QED
      BY <2>1, PersonalKnown DEF Private
  <1>6. op \in OwnerRoutes \cup MemberRoutes => h.personal = None
    BY <1>1 DEF Permitted
  <1> QED
    BY <1>2, <1>3, <1>4, <1>5, <1>6, ReadingKeepsIInv

LEMMA SaveAccountKeepsIInv ==
    ASSUME IInv, TypeOK', RequestsAreTyped', NEW w \in Worker, SaveAccount(w)
    PROVE  IInv'
  <1>1. PICK u \in User : Call(w, "sign up", "loaded", u, NoRow, NoRow)
    BY DEF SaveAccount
  <1>2. Others(w) /\ req'[w].op = "sign up"
    BY <1>1, CallMoves DEF IInv
  <1>3. /\ ~HoldsPerson(w)' /\ ~HoldsMember(w)' /\ ~HoldsInvitation(w)'
        /\ req'[w].op \notin ScopedRoutes
        /\ req'[w].op \notin OwnerRoutes \cup MemberRoutes
    BY <1>2, RoutesAreApart DEF HoldsPerson, HoldsMember, HoldsInvitation
  <1>4. SameRows /\ Reads(w)
    BY <1>3 DEF SaveAccount, SameRows, Reads
  <1> QED
    BY <1>2, <1>3, <1>4, ReadingKeepsIInv

\* Three kinds of rows a request reads or carries on.
LEMMA AdvancePersonKeepsIInv ==
    ASSUME IInv, TypeOK', RequestsAreTyped', NEW w \in Worker,
           NEW step \in {"loaded", "checked"}, NEW row \in KnownPersons,
           req[w].op \in PersonRoutes, Advance(w, step, row),
           step = "checked" => \A h \in household : row.hh = h.id /\ h.personal # None
               => req[w].op # "claim" /\ (req[w].op = "delete person" => row.user = None)
    PROVE  IInv'
  <1>1. /\ SameRows /\ Others(w)
        /\ req'[w].op \in ScopedRoutes => req'[w].hh \in KnownHouseholds
        /\ req'[w].op \in ScopedRoutes => req'[w].hh.personal \in {None, req'[w].user}
        /\ req'[w].op \in OwnerRoutes \cup MemberRoutes => req'[w].hh.personal = None
        /\ req'[w].op = req[w].op /\ req'[w].step = step /\ req'[w].row = row
    BY AdvanceKeepsHousehold
  <1>2. ~HoldsMember(w)' /\ ~HoldsInvitation(w)'
    BY <1>1, RoutesAreApart DEF HoldsMember, HoldsInvitation
  <1>3. Reads(w)
    BY <1>1, <1>2 DEF Reads
  <1>4. \A h \in household : HoldsPerson(w)' /\ req'[w].row.hh = h.id /\ h.personal # None
           => /\ At(w, "delete person", "checked")' => req'[w].row.user = None
              /\ ~At(w, "claim", "checked")'
    BY <1>1 DEF At
  <1> QED
    BY <1>1, <1>3, <1>4, ReadingKeepsIInv

LEMMA AdvanceMemberKeepsIInv ==
    ASSUME IInv, TypeOK', RequestsAreTyped', NEW w \in Worker, NEW step, NEW row,
           NEW m \in KnownMembers, row.id = m.id, row.hh = m.hh,
           req[w].op \in MemberRoutes, Advance(w, step, row)
    PROVE  IInv'
  <1>1. ~HoldsPerson(w)' /\ ~HoldsInvitation(w)'
    BY AdvanceKeepsHousehold, RoutesAreApart DEF HoldsPerson, HoldsInvitation
  <1>2. Reads(w)
    BY <1>1, AdvanceKeepsHousehold DEF Reads
  <1> QED
    BY <1>1, <1>2, AdvanceKeepsHousehold, ReadingKeepsIInv

LEMMA AdvanceInvitationKeepsIInv ==
    ASSUME IInv, TypeOK', RequestsAreTyped', NEW w \in Worker, NEW step,
           NEW row \in KnownInvitations, req[w].op = "cancel", Advance(w, step, row)
    PROVE  IInv'
  <1>1. ~HoldsPerson(w)' /\ ~HoldsMember(w)'
    <2>1. req'[w].op \in OwnerRoutes
      BY AdvanceKeepsHousehold, RoutesAreApart
    <2> QED
      BY <2>1, RoutesAreApart DEF HoldsPerson, HoldsMember
  <1>2. Reads(w)
    BY <1>1, AdvanceKeepsHousehold DEF Reads
  <1> QED
    BY <1>1, <1>2, AdvanceKeepsHousehold, ReadingKeepsIInv

LEMMA LoadsKeepIInv ==
    ASSUME IInv, TypeOK', RequestsAreTyped', NEW w \in Worker,
           LoadPerson(w) \/ LoadMember(w) \/ LoadInvitation(w)
    PROVE  IInv'
  <1>1. CASE LoadPerson(w)
    <2>1. PICK p \in person : Advance(w, "loaded", p)
      BY <1>1 DEF LoadPerson
    <2>2. p \in KnownPersons /\ req[w].op \in PersonRoutes
      BY <1>1 DEF LoadPerson, KnownPersons
    <2> QED
      BY <2>1, <2>2, AdvancePersonKeepsIInv
  <1>2. CASE LoadMember(w)
    <2>1. PICK m \in member : Advance(w, "loaded", m)
      BY <1>2 DEF LoadMember
    <2>2. m \in KnownMembers /\ req[w].op \in MemberRoutes
      BY <1>2 DEF LoadMember, KnownMembers
    <2> QED
      BY <2>1, <2>2, AdvanceMemberKeepsIInv
  <1>3. CASE LoadInvitation(w)
    <2>1. PICK i \in invitation : Advance(w, "loaded", i)
      BY <1>3 DEF LoadInvitation
    <2>2. i \in KnownInvitations /\ req[w].op = "cancel"
      BY <1>3 DEF LoadInvitation, KnownInvitations, At
    <2> QED
      BY <2>1, <2>2, AdvanceInvitationKeepsIInv
  <1> QED
    BY <1>1, <1>2, <1>3

LEMMA LoadPendingInvitationKeepsIInv ==
    ASSUME IInv, TypeOK', RequestsAreTyped', NEW w \in Worker, LoadPendingInvitation(w)
    PROVE  IInv'
  <1>1. PICK u \in User, i \in invitation : Call(w, "accept", "loaded", u, NoRow, i)
    BY DEF LoadPendingInvitation
  <1>2. Others(w) /\ req'[w].op = "accept" /\ req'[w].row = i
    BY <1>1, CallMoves DEF IInv
  <1>3. /\ ~HoldsPerson(w)' /\ ~HoldsMember(w)'
        /\ req'[w].op \notin ScopedRoutes
        /\ req'[w].op \notin OwnerRoutes \cup MemberRoutes
    BY <1>2, RoutesAreApart DEF HoldsPerson, HoldsMember
  <1>4. SameRows /\ Reads(w)
    BY <1>2, <1>3 DEF LoadPendingInvitation, tables, SameRows, Reads, KnownInvitations
  <1> QED
    BY <1>2, <1>3, <1>4, ReadingKeepsIInv

\* The checks of the two routes that could take a person away, or take one
\* over: in a personal household its account is a member and is someone.
LEMMA PersonChecksKeepIInv ==
    ASSUME IInv, TypeOK', RequestsAreTyped', NEW w \in Worker,
           CheckPersonIsNoMember(w) \/ CheckCallerIsNobody(w)
    PROVE  IInv'
  <1>1. /\ HoldsPerson(w) /\ req[w].op \in PersonRoutes
        /\ Advance(w, "checked", req[w].row)
    BY DEF CheckPersonIsNoMember, CheckCallerIsNobody, At, HoldsPerson, Loaded, PersonRoutes
  <1>2. req[w].row \in KnownPersons
    BY <1>1, HeldBy DEF KnownPersons
  <1>3. ASSUME NEW h \in household, req[w].row.hh = h.id, h.personal # None
        PROVE  req[w].op # "claim" /\ (req[w].op = "delete person" => req[w].row.user = None)
    <2>1. /\ req[w].hh.id = h.id /\ req[w].op \in ScopedRoutes
      BY <1>1, <1>3, RoutesAreApart DEF IInv, RequestsAreTyped, RequestIsTyped
    <2>2. req[w].hh = h
      BY <2>1, HeldBy DEF IInv, HouseholdKeys, KnownHouseholds
    <2>3. h.personal = req[w].user
      BY <1>3, <2>1, <2>2 DEF IInv, RequestsRespectPersonal
    <2>4. IsMember(h.id, h.personal) /\ IsSomeone(h.id, h.personal)
      BY <1>3, PersonalKnown DEF Private, IsMember, IsSomeone
    <2>5. req[w].row.user \in {None, h.personal}
      BY <1>2, <1>3, PersonalKnown
    <2>6. CASE CheckPersonIsNoMember(w)
      BY <2>1, <2>4, <2>5, <2>6 DEF CheckPersonIsNoMember, At
    <2>7. CASE CheckCallerIsNobody(w)
      BY <2>1, <2>3, <2>4, <2>7 DEF CheckCallerIsNobody, At
    <2> QED
      BY <2>6, <2>7
  <1> QED
    BY <1>1, <1>2, <1>3, AdvancePersonKeepsIInv

LEMMA MemberChecksKeepIInv ==
    ASSUME IInv, TypeOK', RequestsAreTyped', NEW w \in Worker,
           CheckRole(w) \/ CheckLeaving(w)
    PROVE  IInv'
  <1>1. HoldsMember(w) /\ req[w].op \in MemberRoutes
    BY DEF CheckRole, CheckLeaving, At, HoldsMember, Loaded, MemberRoutes
  <1>2. req[w].row \in KnownMembers /\ req[w].row \in MemberRow
    BY <1>1, HeldBy DEF KnownMembers, IInv, RequestsAreTyped, RequestIsTyped
  <1>3. \A role : /\ [req[w].row EXCEPT !.role = role].id = req[w].row.id
                  /\ [req[w].row EXCEPT !.role = role].hh = req[w].row.hh
    BY <1>2 DEF MemberRow
  <1>4. CASE CheckRole(w)
    <2>1. CASE Advance(w, "checked", req[w].row)
      BY <1>1, <1>2, <2>1, AdvanceMemberKeepsIInv
    <2>2. ASSUME NEW role \in Role, Advance(w, "checked", [req[w].row EXCEPT !.role = role])
          PROVE  IInv'
      BY <1>1, <1>2, <1>3, <2>2, AdvanceMemberKeepsIInv
    <2> QED
      BY <1>4, <2>1, <2>2 DEF CheckRole
  <1>5. CASE CheckLeaving(w)
    <2>1. Advance(w, "checked", req[w].row)
      BY <1>5 DEF CheckLeaving
    <2> QED
      BY <1>1, <1>2, <2>1, AdvanceMemberKeepsIInv
  <1> QED
    BY <1>4, <1>5

--------------------------------------------------------------------------------
(***************************************************************************)
(* Steps that write: they end a request, and every row they leave was      *)
(* known or stands under the next key.                                     *)
(***************************************************************************)
HouseholdsKnown ==
    \A h \in household' :
        \/ h \in KnownHouseholds
        \/ /\ h.id = next["household"] /\ Grows("household")
           /\ \A g \in household' : g.id = h.id => g = h
MembersKnown ==
    \A m \in member' :
        \/ \E n \in KnownMembers : m.id = n.id /\ m.hh = n.hh
        \/ /\ m.id = next["member"] /\ Grows("member")
           /\ m.hh < next'["household"]
           /\ \A n \in member' : n.id = m.id => n = m
PersonsKnown ==
    \A p \in person' :
        \/ \E q \in KnownPersons : p.id = q.id /\ SamePerson(p, q)
        \/ /\ p.id = next["person"] /\ Grows("person")
           /\ p.hh < next'["household"]
           /\ \A q \in person' : q.id = p.id => q = p
InvitationsKnown ==
    \A i \in invitation' :
        \/ \E j \in KnownInvitations : i.hh = j.hh
        \/ \E h \in KnownHouseholds : i.hh = h.id

LEMMA WritingKeepsKeys ==
    ASSUME IInv, TypeOK', Quiet, KeysGrow, Standing,
           HouseholdsKnown, MembersKnown, PersonsKnown, InvitationsKnown
    PROVE  HouseholdKeys' /\ MemberKeys' /\ PersonKeys' /\ InvitationKeys'
  <1>1. /\ next["household"] \in Nat /\ next["member"] \in Nat /\ next["person"] \in Nat
    BY NextIsNat DEF IInv, TypeOK
  <1>2. HouseholdKeys'
    <2>1. \A h \in HeldHouseholds' : h \in KnownHouseholds /\ h.id # next["household"]
      BY <1>1, QuietHeld, KnownNumbers DEF IInv, HouseholdKeys, KnownHouseholds
    <2>2. \A h \in KnownHouseholds' :
              \/ h \in KnownHouseholds
              \/ /\ h.id = next["household"] /\ Grows("household")
                 /\ \A g \in KnownHouseholds' : g.id = h.id => g = h
      BY <2>1 DEF HouseholdsKnown, KnownHouseholds
    <2> QED
      BY <2>2, HouseholdKeysKept DEF IInv
  <1>3. MemberKeys'
    <2>1. \A m \in HeldMembers' : m \in KnownMembers /\ m.id # next["member"]
      BY <1>1, QuietHeld, KnownNumbers DEF IInv, MemberKeys, KnownMembers
    <2>2. \A m \in KnownMembers' :
              \/ \E n \in KnownMembers : m.id = n.id /\ m.hh = n.hh
              \/ /\ m.id = next["member"] /\ Grows("member")
                 /\ m.hh < next'["household"]
                 /\ \A n \in KnownMembers' : n.id = m.id => n = m
      BY <2>1 DEF MembersKnown, KnownMembers
    <2> QED
      BY <2>2, MemberKeysKept DEF IInv
  <1>4. PersonKeys'
    <2>1. \A p \in HeldPersons' : p \in KnownPersons /\ p.id # next["person"]
      BY <1>1, QuietHeld, KnownNumbers DEF IInv, PersonKeys, KnownPersons
    <2>2. \A p : SamePerson(p, p)
      BY DEF SamePerson
    <2>3. \A p \in KnownPersons' :
              \/ \E q \in KnownPersons : p.id = q.id /\ SamePerson(p, q)
              \/ /\ p.id = next["person"] /\ Grows("person")
                 /\ p.hh < next'["household"]
                 /\ \A q \in KnownPersons' : q.id = p.id => q = p
      BY <2>1, <2>2 DEF PersonsKnown, KnownPersons
    <2> QED
      BY <2>3, PersonKeysKept DEF IInv
  <1>5. InvitationKeys'
    <2>1. \A i \in KnownInvitations' :
              \/ \E j \in KnownInvitations : i.hh = j.hh
              \/ \E h \in KnownHouseholds : i.hh = h.id
      BY QuietHeld DEF InvitationsKnown, KnownInvitations
    <2> QED
      BY <2>1, InvitationKeysKept DEF IInv
  <1> QED
    BY <1>2, <1>3, <1>4, <1>5

LEMMA WritingRespectsPersonal ==
    ASSUME IInv, Quiet, Standing
    PROVE  RequestsRespectPersonal'
  <1>1. ASSUME NEW w \in Worker
        PROVE  /\ req'[w].op \in ScopedRoutes
                     => req'[w].hh.personal \in {None, req'[w].user}
               /\ req'[w].op \in OwnerRoutes \cup MemberRoutes
                     => req'[w].hh.personal = None
    BY QuietRequest DEF IInv, RequestsRespectPersonal
  <1>2. ASSUME NEW h \in household', h.personal # None, NEW i \in HeldInvitations'
        PROVE  i.hh # h.id
    <2>1. i \in HeldInvitations /\ i \in KnownInvitations
      BY QuietHeld DEF KnownInvitations
    <2>2. CASE h \in household
      BY <1>2, <2>1, <2>2, PersonalKnown
    <2>3. CASE h.id = next["household"]
      BY <2>1, <2>3, KnownNumbers, NextIsNat DEF IInv, TypeOK, InvitationKeys
    <2> QED
      BY <1>2, <2>2, <2>3 DEF Standing
  <1>3. ASSUME NEW h \in household', h.personal # None, NEW w \in Worker,
               HoldsPerson(w)', req'[w].row.hh = h.id
        PROVE  /\ req'[w].row.user \in {None, h.personal}
               /\ At(w, "delete person", "checked")' => req'[w].row.user = None
               /\ ~At(w, "claim", "checked")'
    <2>1. HoldsPerson(w) /\ req'[w] = req[w]
      BY <1>3, QuietRequest
    <2>2. req[w].row \in KnownPersons
      BY <2>1, HeldBy DEF KnownPersons
    <2>3. h.id # next["household"]
      BY <1>3, <2>1, <2>2, KnownNumbers, NextIsNat DEF IInv, TypeOK, PersonKeys
    <2>4. h \in household
      BY <1>3, <2>3 DEF Standing
    <2> QED
      BY <1>3, <2>1, <2>4 DEF IInv, RequestsRespectPersonal, At
  <1> QED
    BY <1>1, <1>2, <1>3 DEF RequestsRespectPersonal

LEMMA WritingKeepsIInv ==
    ASSUME IInv, TypeOK', RequestsAreTyped', Quiet, KeysGrow, Standing,
           HouseholdsKnown, MembersKnown, PersonsKnown, InvitationsKnown,
           PersonalHouseholdsStayPrivate'
    PROVE  IInv'
  BY WritingKeepsKeys, WritingRespectsPersonal DEF IInv

\* Fewer rows are no new rows.
LEMMA FewerKnown ==
    /\ household' \subseteq household => HouseholdsKnown /\ Standing
    /\ member' \subseteq member => MembersKnown
    /\ person' \subseteq person => PersonsKnown
    /\ invitation' \subseteq invitation => InvitationsKnown
  <1>1. household' \subseteq household => HouseholdsKnown /\ Standing
    BY DEF HouseholdsKnown, Standing, KnownHouseholds
  <1>2. member' \subseteq member => MembersKnown
    BY DEF MembersKnown, KnownMembers
  <1>3. person' \subseteq person => PersonsKnown
    BY DEF PersonsKnown, KnownPersons, SamePerson
  <1>4. invitation' \subseteq invitation => InvitationsKnown
    BY DEF InvitationsKnown, KnownInvitations
  <1> QED
    BY <1>1, <1>2, <1>3, <1>4

\* A household of a route for shared households is none that stands personal.
LEMMA SharedRoute ==
    ASSUME IInv, NEW w \in Worker, req[w].op \in OwnerRoutes \cup MemberRoutes,
           NEW h \in household, h.personal # None
    PROVE  h.id # req[w].hh.id /\ req[w].hh.personal = None
  <1>1. req[w].op \in ScopedRoutes
    BY RoutesAreApart
  <1>2. req[w].hh.personal = None
    BY DEF IInv, RequestsRespectPersonal
  <1>3. h.id = req[w].hh.id => h = req[w].hh
    BY <1>1, HeldBy DEF IInv, HouseholdKeys, KnownHouseholds
  <1> QED
    BY <1>2, <1>3

LEMMA RenameHouseholdKeepsIInv ==
    ASSUME IInv, TypeOK', RequestsAreTyped', NEW w \in Worker, RenameHousehold(w)
    PROVE  IInv'
  <1>1. /\ req[w].op \in OwnerRoutes /\ household' = Saved(household, req[w].hh)
        /\ UNCHANGED <<member, person, invitation, next>> /\ Finish(w)
    BY DEF RenameHousehold, At, OwnerRoutes
  <1>2. req[w].hh \in KnownHouseholds /\ req[w].hh.personal = None
    BY <1>1, HeldBy, RoutesAreApart DEF KnownHouseholds, IInv, RequestsRespectPersonal
  <1>3. \A h \in household' : h \in KnownHouseholds /\ (h.personal # None => h \in household)
    BY <1>1, <1>2 DEF Saved, KnownHouseholds
  <1>4. HouseholdsKnown /\ Standing
    BY <1>3 DEF HouseholdsKnown, Standing
  <1>5. MembersKnown /\ PersonsKnown /\ InvitationsKnown
    BY <1>1, FewerKnown
  <1>6. PersonalHouseholdsStayPrivate'
    BY <1>1, <1>3 DEF IInv, PersonalHouseholdsStayPrivate, PrivateHouseholds
  <1>7. Quiet /\ KeysGrow
    BY <1>1, FinishIsQuiet, UnchangedKeysGrow DEF IInv, TypeOK
  <1> QED
    BY <1>4, <1>5, <1>6, <1>7, WritingKeepsIInv

LEMMA DeleteHouseholdKeepsIInv ==
    ASSUME IInv, TypeOK', RequestsAreTyped', NEW w \in Worker, DeleteHousehold(w)
    PROVE  IInv'
  <1>1. /\ req[w].op \in OwnerRoutes /\ household' = Without(household, req[w].hh)
        /\ member' = {m \in member : m.hh # req[w].hh.id}
        /\ person' = {p \in person : p.hh # req[w].hh.id}
        /\ invitation' = {i \in invitation : i.hh # req[w].hh.id}
        /\ UNCHANGED next /\ Finish(w)
    BY DEF DeleteHousehold, At, OwnerRoutes
  <1>2. household' \subseteq household
    BY <1>1 DEF Without
  <1>3. HouseholdsKnown /\ Standing /\ MembersKnown /\ PersonsKnown /\ InvitationsKnown
    BY <1>1, <1>2, FewerKnown
  <1>4. ASSUME NEW h \in household', h.personal # None
        PROVE  Private(h, member', person', invitation')
    <2>1. Private(h, member, person, invitation)
      BY <1>2, <1>4, PersonalKnown
    <2>2. h.id # req[w].hh.id
      BY <1>1, <1>2, <1>4, SharedRoute
    <2> QED
      BY <1>1, <2>1, <2>2 DEF Private
  <1>5. PersonalHouseholdsStayPrivate'
    BY <1>4 DEF PersonalHouseholdsStayPrivate, PrivateHouseholds
  <1>6. Quiet /\ KeysGrow
    BY <1>1, FinishIsQuiet, UnchangedKeysGrow DEF IInv, TypeOK
  <1> QED
    BY <1>3, <1>5, <1>6, WritingKeepsIInv

--------------------------------------------------------------------------------
(***************************************************************************)
(* Writes that leave the households: PrivateKept is what each must show.   *)
(***************************************************************************)
PrivateKept ==
    \A h \in household : h.personal # None => Private(h, member', person', invitation')

LEMMA WritingRowsKeepsIInv ==
    ASSUME IInv, TypeOK', RequestsAreTyped', Quiet, KeysGrow, UNCHANGED household,
           MembersKnown, PersonsKnown, InvitationsKnown, PrivateKept
    PROVE  IInv'
  <1>1. PersonalHouseholdsStayPrivate'
    BY DEF PrivateKept, PersonalHouseholdsStayPrivate, PrivateHouseholds
  <1> QED
    BY <1>1, FewerKnown, WritingKeepsIInv

LEMMA AddPersonKeepsIInv ==
    ASSUME IInv, TypeOK', RequestsAreTyped', NEW w \in Worker, AddPerson(w)
    PROVE  IInv'
  <1> DEFINE new == [id |-> next["person"], hh |-> req[w].hh.id, user |-> None]
  <1>1. /\ req[w].op \in ScopedRoutes /\ person' = person \cup {new}
        /\ UseKeys({"person"}) /\ Finish(w)
        /\ UNCHANGED <<household, member, invitation>>
    BY DEF AddPerson, At, ScopedRoutes
  <1>2. KeysGrow /\ Grows("person")
    BY <1>1, UseKeysGrow DEF IInv, TypeOK, TableNames
  <1>3. /\ next["household"] \in Nat /\ next'["household"] \in Nat
        /\ next'["household"] >= next["household"]
    BY <1>2 DEF IInv, TypeOK, Keys, KeysGrow, TableNames
  <1>4. req[w].hh.id \in Nat /\ req[w].hh.id < next["household"]
    BY <1>1, HeldBy, KnownNumbers DEF KnownHouseholds, IInv, HouseholdKeys
  <1>5. \A p \in person : p.id # next["person"]
    BY KnownNumbers, NextIsNat DEF IInv, TypeOK, KnownPersons, PersonKeys
  <1>6. \A p \in person' : p \in person \/ p = new
    BY <1>1
  <1>7. \A q \in person' : q.id = new.id => q = new
    BY <1>5, <1>6
  <1>8. \A p \in person : p \in KnownPersons /\ SamePerson(p, p)
    BY DEF KnownPersons, SamePerson
  <1>9. new.id = next["person"] /\ new.hh < next'["household"]
    BY <1>3, <1>4
  <1>10. PersonsKnown
    BY <1>2, <1>6, <1>7, <1>8, <1>9 DEF PersonsKnown
  <1>11. PrivateKept
    <2> SUFFICES ASSUME NEW h \in household, h.personal # None
                 PROVE  Private(h, member', person', invitation')
      BY DEF PrivateKept
    <2>1. Private(h, member, person, invitation)
      BY PersonalKnown
    <2>2. new.user = None /\ person \subseteq person'
      BY <1>1
    <2> QED
      BY <1>1, <1>6, <2>1, <2>2 DEF Private
  <1>12. Quiet
    BY <1>1, FinishIsQuiet DEF IInv
  <1> QED
    BY <1>1, <1>2, <1>10, <1>11, <1>12, FewerKnown, WritingRowsKeepsIInv

LEMMA RenamePersonKeepsIInv ==
    ASSUME IInv, TypeOK', RequestsAreTyped', NEW w \in Worker, RenamePerson(w)
    PROVE  IInv'
  <1> DEFINE row == req[w].row
  <1>1. /\ HoldsPerson(w) /\ person' = Saved(person, row) /\ Finish(w)
        /\ UNCHANGED <<household, member, invitation, next>>
    BY DEF RenamePerson, At, HoldsPerson, Loaded, PersonRoutes
  <1>2. row \in KnownPersons
    BY <1>1, HeldBy DEF KnownPersons
  <1>3. \A p \in person' : p \in person \/ p = row
    BY <1>1 DEF Saved
  <1>4. PersonsKnown
    BY <1>2, <1>3 DEF PersonsKnown, KnownPersons, SamePerson
  <1>5. ASSUME NEW h \in household, h.personal # None
        PROVE  Private(h, member', person', invitation')
    <2>1. /\ Private(h, member, person, invitation)
          /\ row.hh = h.id => row.user \in {None, h.personal}
      BY <1>2, <1>5, PersonalKnown
    <2>2. PICK p \in person : p.hh = h.id /\ p.user = h.personal
      BY <2>1 DEF Private
    <2>3. p.id = row.id => SamePerson(p, row)
      BY <1>2 DEF IInv, PersonKeys, KnownPersons
    <2>4. \E q \in person' : q.hh = h.id /\ q.user = h.personal
      <3>1. CASE p.id = row.id
        <4>1. row.hh = h.id /\ row.user = h.personal
          BY <1>5, <2>2, <2>3, <3>1 DEF SamePerson
        <4> QED
          BY <1>1, <4>1 DEF Saved
      <3>2. CASE p.id # row.id
        BY <1>1, <2>2, <3>2 DEF Saved
      <3> QED
        BY <3>1, <3>2
    <2> QED
      BY <1>1, <1>3, <2>1, <2>4 DEF Private
  <1>6. Quiet /\ KeysGrow
    BY <1>1, FinishIsQuiet, UnchangedKeysGrow DEF IInv, TypeOK
  <1> QED
    BY <1>1, <1>4, <1>5, <1>6, FewerKnown, WritingRowsKeepsIInv DEF PrivateKept

LEMMA DeletePersonKeepsIInv ==
    ASSUME IInv, TypeOK', RequestsAreTyped', NEW w \in Worker, DeletePerson(w)
    PROVE  IInv'
  <1> DEFINE row == req[w].row
  <1>1. /\ HoldsPerson(w) /\ At(w, "delete person", "checked")
        /\ person' = Without(person, row) /\ Finish(w)
        /\ UNCHANGED <<household, member, invitation, next>>
    BY DEF DeletePerson, At, HoldsPerson, Loaded, PersonRoutes
  <1>2. row \in KnownPersons
    BY <1>1, HeldBy DEF KnownPersons
  <1>3. person' \subseteq person
    BY <1>1 DEF Without
  <1>4. ASSUME NEW h \in household, h.personal # None
        PROVE  Private(h, member', person', invitation')
    <2>1. Private(h, member, person, invitation)
      BY <1>4, PersonalKnown
    <2>2. PICK p \in person : p.hh = h.id /\ p.user = h.personal
      BY <2>1 DEF Private
    <2>3. p.id = row.id => SamePerson(p, row)
      BY <1>2 DEF IInv, PersonKeys, KnownPersons
    <2>4. row.hh = h.id => row.user = None
      BY <1>1, <1>4 DEF IInv, RequestsRespectPersonal
    <2>5. p.id # row.id
      BY <1>4, <2>2, <2>3, <2>4 DEF SamePerson
    <2>6. p \in person'
      BY <1>1, <2>5 DEF Without
    <2> QED
      BY <1>1, <1>3, <2>1, <2>2, <2>6 DEF Private
  <1>5. Quiet /\ KeysGrow
    BY <1>1, FinishIsQuiet, UnchangedKeysGrow DEF IInv, TypeOK
  <1> QED
    BY <1>1, <1>3, <1>4, <1>5, FewerKnown, WritingRowsKeepsIInv DEF PrivateKept

LEMMA ClaimPersonKeepsIInv ==
    ASSUME IInv, TypeOK', RequestsAreTyped', NEW w \in Worker, ClaimPerson(w)
    PROVE  IInv'
  <1>1. /\ HoldsPerson(w) /\ At(w, "claim", "checked") /\ Finish(w)
        /\ UNCHANGED <<household, member, invitation, next>>
    BY DEF ClaimPerson, At, HoldsPerson, Loaded, PersonRoutes
  <1>2. PICK p \in person :
           /\ p.id = req[w].row.id /\ p.hh = req[w].hh.id
           /\ person' = Saved(person, [p EXCEPT !.user = req[w].user])
    BY DEF ClaimPerson
  <1> DEFINE claimed == [p EXCEPT !.user = req[w].user]
  <1>3. claimed.id = p.id /\ claimed.hh = p.hh
    BY DEF IInv, TypeOK, PersonRow
  <1>4. req[w].row.hh = p.hh
    BY <1>1, <1>2 DEF IInv, RequestsAreTyped, RequestIsTyped
  <1>5. ASSUME NEW h \in household, h.personal # None PROVE h.id # p.hh
    BY <1>1, <1>4, <1>5 DEF IInv, RequestsRespectPersonal
  <1>6. \A q \in person' : q \in person \/ q = claimed
    BY <1>2 DEF Saved
  <1>7. SamePerson(claimed, p) /\ \A q \in person : SamePerson(q, q)
    BY <1>3, <1>5 DEF SamePerson
  <1>8. PersonsKnown
    BY <1>3, <1>6, <1>7 DEF PersonsKnown, KnownPersons
  <1>9. ASSUME NEW h \in household, h.personal # None
        PROVE  Private(h, member', person', invitation')
    <2>1. Private(h, member, person, invitation)
      BY <1>9, PersonalKnown
    <2>2. claimed.hh # h.id
      BY <1>3, <1>5, <1>9
    <2>3. \A q \in person : q.hh = h.id => q \in person'
      <3> SUFFICES ASSUME NEW q \in person, q.hh = h.id PROVE q \in person'
        OBVIOUS
      <3>1. q.id # p.id
        BY <1>5, <1>9 DEF IInv, PersonKeys, KnownPersons, SamePerson
      <3> QED
        BY <1>2, <1>3, <3>1 DEF Saved
    <2> QED
      BY <1>1, <1>6, <2>1, <2>2, <2>3 DEF Private
  <1>10. Quiet /\ KeysGrow
    BY <1>1, FinishIsQuiet, UnchangedKeysGrow DEF IInv, TypeOK
  <1> QED
    BY <1>1, <1>8, <1>9, <1>10, FewerKnown, WritingRowsKeepsIInv DEF PrivateKept

\* A member row that a request holds lies in no personal household that stands.
LEMMA HeldMemberIsShared ==
    ASSUME IInv, NEW w \in Worker, HoldsMember(w), NEW h \in household, h.personal # None
    PROVE  h.id # req[w].row.hh
  <1>1. req[w].op \in MemberRoutes /\ req[w].row.hh = req[w].hh.id
    BY DEF HoldsMember, IInv, RequestsAreTyped, RequestIsTyped
  <1> QED
    BY <1>1, SharedRoute

LEMMA SetRoleKeepsIInv ==
    ASSUME IInv, TypeOK', RequestsAreTyped', NEW w \in Worker, SetRole(w)
    PROVE  IInv'
  <1> DEFINE row == req[w].row
  <1>1. /\ HoldsMember(w) /\ member' = Saved(member, row) /\ Finish(w)
        /\ UNCHANGED <<household, person, invitation, next>>
    BY DEF SetRole, At, HoldsMember, Loaded, MemberRoutes
  <1>2. row \in KnownMembers
    BY <1>1, HeldBy DEF KnownMembers
  <1>3. \A m \in member' : m \in member \/ m = row
    BY <1>1 DEF Saved
  <1>4. MembersKnown
    BY <1>2, <1>3 DEF MembersKnown, KnownMembers
  <1>5. ASSUME NEW h \in household, h.personal # None
        PROVE  Private(h, member', person', invitation')
    <2>1. Private(h, member, person, invitation) /\ row.hh # h.id
      BY <1>1, <1>5, PersonalKnown, HeldMemberIsShared
    <2>2. PICK m \in member : m.hh = h.id
      BY <2>1 DEF Private
    <2>3. m.id # row.id
      BY <1>2, <2>1, <2>2 DEF IInv, MemberKeys, KnownMembers
    <2>4. m \in member'
      BY <1>1, <2>3 DEF Saved
    <2> QED
      BY <1>1, <1>3, <2>1, <2>2, <2>4 DEF Private
  <1>6. Quiet /\ KeysGrow
    BY <1>1, FinishIsQuiet, UnchangedKeysGrow DEF IInv, TypeOK
  <1> QED
    BY <1>1, <1>4, <1>5, <1>6, FewerKnown, WritingRowsKeepsIInv DEF PrivateKept

LEMMA UnlinkedKeeps ==
    ASSUME NEW p \in PersonRow
    PROVE  /\ Unlinked(p).id = p.id /\ Unlinked(p).hh = p.hh
           /\ Unlinked(p).user = None
  BY DEF Unlinked, PersonRow

LEMMA RemoveMemberKeepsIInv ==
    ASSUME IInv, TypeOK', RequestsAreTyped', NEW w \in Worker, RemoveMember(w)
    PROVE  IInv'
  <1> DEFINE row == req[w].row
             left(p) == IF p.hh = row.hh /\ p.user = row.user THEN Unlinked(p) ELSE p
  <1>1. /\ HoldsMember(w) /\ member' = Without(member, row) /\ Finish(w)
        /\ person' = {left(p) : p \in person}
        /\ UNCHANGED <<household, invitation, next>>
    BY DEF RemoveMember, At, HoldsMember, Loaded, MemberRoutes
  <1>2. row \in KnownMembers
    BY <1>1, HeldBy DEF KnownMembers
  <1>3. ASSUME NEW p \in person
        PROVE  /\ left(p).id = p.id /\ left(p).hh = p.hh
               /\ p.hh # row.hh => left(p) = p
    BY UnlinkedKeeps DEF IInv, TypeOK
  <1>4. ASSUME NEW h \in household, h.personal # None PROVE h.id # row.hh
    BY <1>1, <1>4, HeldMemberIsShared
  <1>5. ASSUME NEW q \in person'
        PROVE  \E p \in person : q.id = p.id /\ q.hh = p.hh /\ (p.hh # row.hh => q = p)
    <2>1. PICK p \in person : q = left(p)
      BY <1>1
    <2> QED
      BY <1>3, <2>1
  <1>6. PersonsKnown
    <2> SUFFICES ASSUME NEW q \in person'
                 PROVE  \E p \in KnownPersons : q.id = p.id /\ SamePerson(q, p)
      BY DEF PersonsKnown
    <2>1. PICK p \in person : q.id = p.id /\ q.hh = p.hh /\ (p.hh # row.hh => q = p)
      BY <1>5
    <2>2. SamePerson(q, p)
      BY <1>4, <2>1 DEF SamePerson
    <2> QED
      BY <2>1, <2>2 DEF KnownPersons
  <1>7. ASSUME NEW h \in household, h.personal # None
        PROVE  Private(h, member', person', invitation')
    <2>1. Private(h, member, person, invitation) /\ row.hh # h.id
      BY <1>4, <1>7, PersonalKnown
    <2>2. PICK m \in member : m.hh = h.id
      BY <2>1 DEF Private
    <2>3. m.id # row.id
      BY <1>2, <2>1, <2>2 DEF IInv, MemberKeys, KnownMembers
    <2>4. m \in member' /\ member' \subseteq member
      BY <1>1, <2>3 DEF Without
    <2>5. PICK p \in person : p.hh = h.id /\ p.user = h.personal
      BY <2>1 DEF Private
    <2>6. p \in person'
      BY <1>1, <1>3, <2>1, <2>5
    <2>7. \A q \in person' : q.hh = h.id => q \in person
      BY <1>5, <2>1
    <2> QED
      BY <1>1, <2>1, <2>2, <2>4, <2>5, <2>6, <2>7 DEF Private
  <1>8. Quiet /\ KeysGrow
    BY <1>1, FinishIsQuiet, UnchangedKeysGrow DEF IInv, TypeOK
  <1>9. MembersKnown /\ InvitationsKnown
    BY <1>1, FewerKnown DEF Without
  <1> QED
    BY <1>1, <1>6, <1>7, <1>8, <1>9, WritingRowsKeepsIInv DEF PrivateKept

LEMMA InvitingKeepsIInv ==
    ASSUME IInv, TypeOK', RequestsAreTyped', NEW w \in Worker,
           InviteMember(w) \/ InviteNewcomer(w)
    PROVE  IInv'
  <1>1. /\ req[w].op \in OwnerRoutes /\ Finish(w)
        /\ UNCHANGED <<household, member, person>>
    BY DEF InviteMember, InviteNewcomer, At, OwnerRoutes
  <1>2. \A i \in invitation' : i \in invitation \/ i.hh = req[w].hh.id
    BY DEF InviteMember, InviteNewcomer
  <1>3. req[w].hh \in KnownHouseholds
    BY <1>1, HeldBy, RoutesAreApart DEF KnownHouseholds
  <1>4. InvitationsKnown
    BY <1>2, <1>3 DEF InvitationsKnown, KnownInvitations
  <1>5. ASSUME NEW h \in household, h.personal # None
        PROVE  Private(h, member', person', invitation')
    <2>1. Private(h, member, person, invitation) /\ req[w].hh.id # h.id
      BY <1>1, <1>5, PersonalKnown, SharedRoute
    <2> QED
      BY <1>1, <1>2, <2>1 DEF Private
  <1>6. Quiet /\ KeysGrow
    BY <1>1, FinishIsQuiet, UnchangedKeysGrow, UseKeysGrow
    DEF IInv, TypeOK, InviteMember, InviteNewcomer
  <1> QED
    BY <1>1, <1>4, <1>5, <1>6, FewerKnown, WritingRowsKeepsIInv DEF PrivateKept

LEMMA CancelInvitationKeepsIInv ==
    ASSUME IInv, TypeOK', RequestsAreTyped', NEW w \in Worker, CancelInvitation(w)
    PROVE  IInv'
  <1>1. /\ Finish(w) /\ UNCHANGED <<household, member, person, next>>
        /\ invitation' \subseteq invitation
    BY DEF CancelInvitation, Without
  <1>2. ASSUME NEW h \in household, h.personal # None
        PROVE  Private(h, member', person', invitation')
    BY <1>1, <1>2, PersonalKnown DEF Private
  <1>3. Quiet /\ KeysGrow
    BY <1>1, FinishIsQuiet, UnchangedKeysGrow DEF IInv, TypeOK
  <1> QED
    BY <1>1, <1>2, <1>3, FewerKnown, WritingRowsKeepsIInv DEF PrivateKept

LEMMA AcceptKeepsIInv ==
    ASSUME IInv, TypeOK', RequestsAreTyped', NEW w \in Worker, Accept(w)
    PROVE  IInv'
  <1> DEFINE i == req[w].row
             joining == [id |-> next["member"], hh |-> i.hh, user |-> req[w].user,
                         role |-> "member"]
  <1>1. /\ HoldsInvitation(w) /\ Finish(w) /\ UNCHANGED <<household, person>>
        /\ invitation' = Saved(invitation, Accepted(i, req[w].user))
    BY DEF Accept, At, HoldsInvitation, Loaded
  <1>2. /\ KeysGrow
        /\ UNCHANGED member \/ (member' = member \cup {joining} /\ Grows("member"))
    <2>1. CASE IsMember(i.hh, req[w].user)
      BY <2>1, UseKeysGrow DEF Accept, IInv, TypeOK
    <2>2. CASE ~IsMember(i.hh, req[w].user)
      BY <2>2, UseKeysGrow DEF Accept, IInv, TypeOK, TableNames
    <2> QED
      BY <2>1, <2>2
  <1>3. i \in KnownInvitations
    BY <1>1, HeldBy DEF KnownInvitations
  <1>4. \A j \in invitation' : j \in invitation \/ j.hh = i.hh
    BY <1>1 DEF Saved, Accepted
  <1>5. InvitationsKnown
    BY <1>3, <1>4 DEF InvitationsKnown, KnownInvitations
  <1>6. /\ next["household"] \in Nat /\ next'["household"] \in Nat
        /\ next'["household"] >= next["household"] /\ next["member"] \in Nat
    BY <1>2 DEF IInv, TypeOK, Keys, KeysGrow, TableNames
  <1>7. i.hh < next'["household"]
    BY <1>3, <1>6, KnownNumbers DEF IInv, InvitationKeys
  <1>8. \A m \in member : m.id # next["member"]
    BY <1>6, KnownNumbers DEF IInv, KnownMembers, MemberKeys
  <1>9. MembersKnown
    <2>1. CASE UNCHANGED member
      BY <2>1, FewerKnown
    <2>2. CASE member' = member \cup {joining} /\ Grows("member")
      <3>1. joining.id = next["member"] /\ joining.hh < next'["household"]
        BY <1>7
      <3>2. \A m \in member' : m \in member \/ m = joining
        BY <2>2
      <3>3. \A m \in member' : m.id = joining.id => m = joining
        BY <1>8, <3>1, <3>2
      <3> QED
        BY <2>2, <3>1, <3>2, <3>3 DEF MembersKnown, KnownMembers
    <2> QED
      BY <1>2, <2>1, <2>2
  <1>10. ASSUME NEW h \in household, h.personal # None
        PROVE  Private(h, member', person', invitation')
    <2>1. Private(h, member, person, invitation) /\ i.hh # h.id
      BY <1>3, <1>10, PersonalKnown
    <2>2. member \subseteq member' /\ \A m \in member' : m \in member \/ m.hh = i.hh
      BY <1>2
    <2> QED
      BY <1>1, <1>4, <2>1, <2>2 DEF Private
  <1>11. Quiet
    BY <1>1, FinishIsQuiet DEF IInv
  <1> QED
    BY <1>1, <1>2, <1>5, <1>9, <1>10, <1>11, FewerKnown, WritingRowsKeepsIInv DEF PrivateKept

--------------------------------------------------------------------------------
(***************************************************************************)
(* Households that appear with an owner, and those an account takes along. *)
(***************************************************************************)
LEMMA CreationKeepsIInv ==
    ASSUME IInv, TypeOK', RequestsAreTyped', Quiet, NEW owner \in User,
           NEW personal_of \in {None, owner}, create_household(owner, personal_of)
    PROVE  IInv'
  <1> DEFINE h0 == next["household"]
             new == [id |-> h0, personal |-> personal_of]
             mem == [id |-> next["member"], hh |-> h0, user |-> owner, role |-> "owner"]
             per == [id |-> next["person"], hh |-> h0, user |-> owner]
  <1>1. /\ household' = household \cup {new}
        /\ member' = member \cup {mem}
        /\ person' = person \cup {per}
        /\ invitation' = invitation
        /\ UseKeys({"household", "member", "person"})
    BY DEF create_household
  <1>2. KeysGrow /\ Grows("household") /\ Grows("member") /\ Grows("person")
    BY <1>1, UseKeysGrow DEF IInv, TypeOK, TableNames
  <1>3. /\ h0 \in Nat /\ next["member"] \in Nat /\ next["person"] \in Nat
        /\ next'["household"] \in Nat
    BY DEF IInv, TypeOK, Keys, TableNames
  <1>4. /\ \A h \in household : h.id # h0
        /\ \A m \in member : m.id # next["member"] /\ m.hh # h0
        /\ \A p \in person : p.id # next["person"] /\ p.hh # h0
        /\ \A i \in invitation : i.hh # h0
    BY <1>3, KnownNumbers DEF IInv, KnownHouseholds, KnownMembers, KnownPersons,
       KnownInvitations, HouseholdKeys, MemberKeys, PersonKeys, InvitationKeys
  <1>5. h0 < next'["household"]
    BY <1>2, <1>3 DEF Grows
  <1>6. HouseholdsKnown /\ Standing
    BY <1>1, <1>2, <1>4 DEF HouseholdsKnown, Standing, KnownHouseholds
  <1>7. MembersKnown
    BY <1>1, <1>2, <1>4, <1>5 DEF MembersKnown, KnownMembers
  <1>8. \A p \in person : p \in KnownPersons /\ SamePerson(p, p)
    BY DEF KnownPersons, SamePerson
  <1>9. PersonsKnown
    BY <1>1, <1>2, <1>4, <1>5, <1>8 DEF PersonsKnown
  <1>10. InvitationsKnown
    BY <1>1, FewerKnown
  <1>11. ASSUME NEW h \in household', h.personal # None
         PROVE  Private(h, member', person', invitation')
    <2>1. CASE h \in household
      <3>1. Private(h, member, person, invitation) /\ h.id # h0
        BY <1>4, <1>11, <2>1, PersonalKnown
      <3> QED
        BY <1>1, <3>1 DEF Private
    <2>2. CASE h = new
      <3>1. personal_of = owner /\ h.id = h0 /\ h.personal = owner
        BY <1>11, <2>2
      <3>2. mem \in member' /\ mem.hh = h0 /\ mem.user = owner /\ mem.role = "owner"
        BY <1>1
      <3>3. per \in person' /\ per.hh = h0 /\ per.user = owner
        BY <1>1
      <3>4. \A m \in member' : m.hh = h0 => m = mem
        BY <1>1, <1>4
      <3>5. \A p \in person' : p.hh = h0 => p = per
        BY <1>1, <1>4
      <3>6. \A i \in invitation' : i.hh # h0
        BY <1>1, <1>4
      <3> HIDE DEF mem, per, new, h0
      <3> QED
        BY <3>1, <3>2, <3>3, <3>4, <3>5, <3>6 DEF Private
    <2> QED
      BY <1>1, <2>1, <2>2
  <1>12. PersonalHouseholdsStayPrivate'
    BY <1>11 DEF PersonalHouseholdsStayPrivate, PrivateHouseholds
  <1> QED
    BY <1>2, <1>6, <1>7, <1>9, <1>10, <1>12, WritingKeepsIInv

LEMMA DeleteAccountKeepsIInv ==
    ASSUME IInv, TypeOK', RequestsAreTyped', NEW u \in User, DeleteAccount(u)
    PROVE  IInv'
  <1> DEFINE gone == {h.id : h \in {g \in household : g.personal = u}}
             unlinked(p) == IF p.user = u THEN Unlinked(p) ELSE p
             unsigned(i) == IF i.by = u THEN [i EXCEPT !.by = None] ELSE i
  <1>1. /\ household' = {h \in household : h.personal # u}
        /\ member' = {m \in member : m.user # u /\ m.hh \notin gone}
        /\ person' = {unlinked(p) : p \in {q \in person : q.hh \notin gone}}
        /\ invitation' = {unsigned(i) : i \in {j \in invitation : j.hh \notin gone}}
        /\ UNCHANGED <<next, req>>
    BY DEF DeleteAccount
  <1>2. u # None
    BY UserAssumption
  <1>3. household' \subseteq household /\ member' \subseteq member
    BY <1>1
  <1>4. ASSUME NEW p \in person
        PROVE  /\ unlinked(p).id = p.id /\ unlinked(p).hh = p.hh
               /\ unlinked(p) # p => p.user = u /\ unlinked(p).user = None
    BY UnlinkedKeeps DEF IInv, TypeOK
  <1>5. ASSUME NEW q \in person'
        PROVE  \E p \in person : /\ q.id = p.id /\ q.hh = p.hh
                                 /\ q = p \/ (p.user = u /\ q.user = None)
    <2>1. PICK p \in person : q = unlinked(p)
      BY <1>1
    <2> QED
      BY <1>4, <2>1
  <1>6. \A i \in invitation' : \E j \in invitation : i.hh = j.hh
    BY <1>1 DEF IInv, TypeOK, InvitationRow
  <1>7. ASSUME NEW h \in household', h.personal # None PROVE h.id \notin gone
    BY <1>1, <1>7 DEF IInv, HouseholdKeys, KnownHouseholds
  <1>8. HouseholdsKnown /\ Standing /\ MembersKnown
    BY <1>3, FewerKnown
  <1>9. PersonsKnown
    <2> SUFFICES ASSUME NEW q \in person'
                 PROVE  \E p \in KnownPersons : q.id = p.id /\ SamePerson(q, p)
      BY DEF PersonsKnown
    <2>1. PICK p \in person : /\ q.id = p.id /\ q.hh = p.hh
                              /\ q = p \/ (p.user = u /\ q.user = None)
      BY <1>5
    <2>2. CASE q = p
      BY <2>1, <2>2 DEF KnownPersons, SamePerson
    <2>3. CASE p.user = u /\ q # p
      <3>1. PICK r \in person : r.hh \notin gone /\ q = unlinked(r)
        BY <1>1
      <3>2. q.hh \notin gone
        BY <1>4, <3>1
      <3>3. ASSUME NEW h \in household, h.id = p.hh, h.personal # None PROVE FALSE
        <4>1. h.personal = u
          BY <2>3, <3>3, <1>2, PersonalKnown DEF KnownPersons
        <4> QED
          BY <2>1, <3>2, <3>3, <4>1
      <3> QED
        BY <2>1, <3>3 DEF KnownPersons, SamePerson
    <2> QED
      BY <2>1, <2>2, <2>3
  <1>10. InvitationsKnown
    BY <1>6 DEF InvitationsKnown, KnownInvitations
  <1>11. ASSUME NEW h \in household', h.personal # None
         PROVE  Private(h, member', person', invitation')
    <2>1. /\ Private(h, member, person, invitation)
          /\ h.id \notin gone /\ h.personal # u
      BY <1>1, <1>3, <1>7, <1>11, PersonalKnown
    <2>2. PICK m \in member : m.hh = h.id
      BY <2>1 DEF Private
    <2>3. m \in member'
      BY <1>1, <2>1, <2>2 DEF Private
    <2>4. PICK p \in person : p.hh = h.id /\ p.user = h.personal
      BY <2>1 DEF Private
    <2>5. unlinked(p) = p /\ unlinked(p) \in person'
      BY <1>1, <2>1, <2>4
    <2>6. \A q \in person' : q.hh = h.id => q.user \in {None, h.personal}
      BY <1>5, <2>1 DEF Private
    <2> QED
      BY <1>3, <1>6, <2>1, <2>2, <2>3, <2>4, <2>5, <2>6 DEF Private
  <1>12. PersonalHouseholdsStayPrivate'
    BY <1>11 DEF PersonalHouseholdsStayPrivate, PrivateHouseholds
  <1>13. Quiet /\ KeysGrow
    BY <1>1, UnchangedIsQuiet, UnchangedKeysGrow DEF IInv, TypeOK
  <1> QED
    BY <1>8, <1>9, <1>10, <1>12, <1>13, WritingKeepsIInv

LEMMA SameRowsKeepIInv ==
    ASSUME IInv, TypeOK', RequestsAreTyped', SameRows, Quiet
    PROVE  IInv'
  BY SameRowsKeep, FewerKnown, WritingKeepsIInv DEF SameRows

--------------------------------------------------------------------------------
LEMMA InitIInv == Init => IInv
  <1> SUFFICES ASSUME Init PROVE IInv
    OBVIOUS
  <1>1. \A w \in Worker : req[w].op = "none"
    BY DEF Init, Idle
  <1>2. \A w \in Worker : ~HoldsPerson(w) /\ ~HoldsMember(w) /\ ~HoldsInvitation(w)
    BY <1>1, NoneIsNoRoute DEF HoldsPerson, HoldsMember, HoldsInvitation
  <1>3. /\ HeldHouseholds = {} /\ HeldMembers = {} /\ HeldPersons = {}
        /\ HeldInvitations = {}
    BY <1>1, <1>2, NoneIsNoRoute DEF HeldHouseholds, HeldMembers, HeldPersons,
       HeldInvitations
  <1>4. HouseholdKeys
    BY <1>3, StartAssumption DEF Init, HouseholdKeys, KnownHouseholds, Keyed
  <1>5. MemberKeys
    BY <1>3, StartAssumption DEF Init, MemberKeys, KnownMembers, Keyed
  <1>6. PersonKeys
    BY <1>3, StartAssumption DEF Init, PersonKeys, KnownPersons, Keyed, SamePerson
  <1>7. InvitationKeys
    BY <1>3 DEF Init, InvitationKeys, KnownInvitations
  <1>8. RequestsRespectPersonal
    BY <1>1, <1>2, <1>3, NoneIsNoRoute DEF RequestsRespectPersonal
  <1>9. PersonalHouseholdsStayPrivate
    BY StartAssumption DEF Init, PersonalHouseholdsStayPrivate
  <1> QED
    BY <1>4, <1>5, <1>6, <1>7, <1>8, <1>9, InitTypeOK, InitRequestsAreTyped DEF IInv

LEMMA NextIInv == IInv /\ [Next]_vars => IInv'
  <1> SUFFICES ASSUME IInv, [Next]_vars PROVE IInv'
    OBVIOUS
  <1>1. TypeOK' /\ RequestsAreTyped'
    BY NextTypeOK, NextRequestsAreTyped DEF IInv
  <1>2. ASSUME NEW w \in Worker, Enter(w) PROVE IInv'
    BY <1>1, <1>2, EnterKeepsIInv
  <1>3. ASSUME NEW w \in Worker, SaveAccount(w) PROVE IInv'
    BY <1>1, <1>3, SaveAccountKeepsIInv
  <1>4. ASSUME NEW w \in Worker, CreatePersonalHousehold(w) PROVE IInv'
    <2>1. req[w].user \in User
      BY <1>4, RoutesAreApart DEF CreatePersonalHousehold, At, IInv, RequestsAreTyped,
         RequestIsTyped
    <2> QED
      BY <1>1, <1>4, <2>1, CreationKeepsIInv, FinishIsQuiet
      DEF CreatePersonalHousehold, IInv
  <1>5. ASSUME NEW w \in Worker, CreateHousehold(w) PROVE IInv'
    BY <1>1, <1>5, CreationKeepsIInv, UnchangedIsQuiet DEF CreateHousehold
  <1>6. ASSUME NEW w \in Worker, RenameHousehold(w) PROVE IInv'
    BY <1>1, <1>6, RenameHouseholdKeepsIInv
  <1>7. ASSUME NEW w \in Worker, DeleteHousehold(w) PROVE IInv'
    BY <1>1, <1>7, DeleteHouseholdKeepsIInv
  <1>8. ASSUME NEW w \in Worker, AddPerson(w) PROVE IInv'
    BY <1>1, <1>8, AddPersonKeepsIInv
  <1>9. ASSUME NEW w \in Worker, RenamePerson(w) PROVE IInv'
    BY <1>1, <1>9, RenamePersonKeepsIInv
  <1>10. ASSUME NEW w \in Worker, DeletePerson(w) PROVE IInv'
    BY <1>1, <1>10, DeletePersonKeepsIInv
  <1>11. ASSUME NEW w \in Worker, ClaimPerson(w) PROVE IInv'
    BY <1>1, <1>11, ClaimPersonKeepsIInv
  <1>12. ASSUME NEW w \in Worker, SetRole(w) PROVE IInv'
    BY <1>1, <1>12, SetRoleKeepsIInv
  <1>13. ASSUME NEW w \in Worker, RemoveMember(w) PROVE IInv'
    BY <1>1, <1>13, RemoveMemberKeepsIInv
  <1>14. ASSUME NEW w \in Worker, LoadPerson(w) \/ LoadMember(w) \/ LoadInvitation(w)
         PROVE  IInv'
    BY <1>1, <1>14, LoadsKeepIInv
  <1>15. ASSUME NEW w \in Worker, CheckPersonIsNoMember(w) \/ CheckCallerIsNobody(w)
         PROVE  IInv'
    BY <1>1, <1>15, PersonChecksKeepIInv
  <1>16. ASSUME NEW w \in Worker, CheckRole(w) \/ CheckLeaving(w) PROVE IInv'
    BY <1>1, <1>16, MemberChecksKeepIInv
  <1>17. ASSUME NEW w \in Worker, InviteMember(w) \/ InviteNewcomer(w) PROVE IInv'
    BY <1>1, <1>17, InvitingKeepsIInv
  <1>18. ASSUME NEW w \in Worker, CancelInvitation(w) PROVE IInv'
    BY <1>1, <1>18, CancelInvitationKeepsIInv
  <1>19. ASSUME NEW w \in Worker, LoadPendingInvitation(w) PROVE IInv'
    BY <1>1, <1>19, LoadPendingInvitationKeepsIInv
  <1>20. ASSUME NEW w \in Worker, Accept(w) PROVE IInv'
    BY <1>1, <1>20, AcceptKeepsIInv
  <1>21. ASSUME NEW w \in Worker, Abandon(w) PROVE IInv'
    BY <1>1, <1>21, SameRowsKeepIInv, FinishIsQuiet DEF Abandon, SameRows, tables, IInv
  <1>22. ASSUME NEW u \in User, DeleteAccount(u) PROVE IInv'
    BY <1>1, <1>22, DeleteAccountKeepsIInv
  <1>23. CASE Expire
    BY <1>1, <1>23, SameRowsKeepIInv, UnchangedIsQuiet DEF Expire, SameRows
  <1>24. CASE UNCHANGED vars
    BY <1>1, <1>24, SameRowsKeepIInv, UnchangedIsQuiet DEF vars, tables, SameRows
  <1> QED
    BY <1>2, <1>3, <1>4, <1>5, <1>6, <1>7, <1>8, <1>9, <1>10, <1>11, <1>12, <1>13,
       <1>14, <1>15, <1>16, <1>17, <1>18, <1>19, <1>20, <1>21, <1>22, <1>23, <1>24
    DEF Next, Serve, MembershipStep, InvitationStep

\* No request holds what could open a personal household, however stale the
\* rows that get_object and household_queryset read (views.py:64-80, 126-142).
THEOREM RequestsStayHarmless == Spec => []IInv
  BY InitIInv, NextIInv, PTL DEF Spec

\* A personal household stays its account's own, whatever stale row a request
\* writes back and whoever else is served meanwhile (views.py:78-80).
THEOREM PersonalPrivacy == Spec => []PersonalHouseholdsStayPrivate
  <1>1. IInv => PersonalHouseholdsStayPrivate
    BY DEF IInv
  <1> QED
    BY RequestsStayHarmless, <1>1, PTL

\* A personal household goes in one way only, with its account
\* (HouseholdDetailView.delete reaches shared households, views.py:83-98).
THEOREM PersonalHouseholdsLast == Spec => PersonalHouseholdsGoWithTheirAccount
  <1> DEFINE Last == \A h \in household :
                 h.personal # None /\ account'[h.personal] = "open" => h \in household'
  <1>1. IInv /\ [Next]_vars => [Last]_vars
    <2> SUFFICES ASSUME IInv, Next, NEW h \in household, h.personal # None,
                        account'[h.personal] = "open"
                 PROVE  h \in household'
      BY DEF vars, tables
    <2>1. ASSUME NEW w \in Worker, RenameHousehold(w) PROVE h \in household'
      <3>1. h.id # req[w].hh.id
        BY <2>1, SharedRoute DEF RenameHousehold, At, OwnerRoutes
      <3> QED
        BY <2>1, <3>1 DEF RenameHousehold, Saved
    <2>2. ASSUME NEW w \in Worker, DeleteHousehold(w) PROVE h \in household'
      <3>1. h.id # req[w].hh.id
        BY <2>2, SharedRoute DEF DeleteHousehold, At, OwnerRoutes
      <3> QED
        BY <2>2, <3>1 DEF DeleteHousehold, Without
    <2>3. ASSUME NEW w \in Worker, CreatePersonalHousehold(w) \/ CreateHousehold(w)
          PROVE  h \in household'
      BY <2>3 DEF CreatePersonalHousehold, CreateHousehold, create_household
    <2>4. ASSUME NEW u \in User, DeleteAccount(u) PROVE h \in household'
      <3>1. h.personal # u
        BY <2>4 DEF DeleteAccount, IInv, TypeOK
      <3> QED
        BY <2>4, <3>1 DEF DeleteAccount
    <2>5. ASSUME UNCHANGED household PROVE h \in household'
      BY <2>5
    <2>6. ASSUME NEW w \in Worker,
                 Enter(w) \/ SaveAccount(w) \/ InvitationStep(w) \/ Abandon(w)
          PROVE  UNCHANGED household
      BY <2>6 DEF Enter, SaveAccount, InvitationStep, InviteMember, InviteNewcomer,
         LoadInvitation, CancelInvitation, LoadPendingInvitation, Accept, Abandon,
         Advance, tables
    <2>7. ASSUME NEW w \in Worker,
                 \/ AddPerson(w) \/ LoadPerson(w) \/ RenamePerson(w)
                 \/ CheckPersonIsNoMember(w) \/ DeletePerson(w)
                 \/ CheckCallerIsNobody(w) \/ ClaimPerson(w)
                 \/ LoadMember(w) \/ CheckRole(w) \/ SetRole(w)
                 \/ CheckLeaving(w) \/ RemoveMember(w)
          PROVE  UNCHANGED household
      BY <2>7 DEF AddPerson, LoadPerson, RenamePerson, CheckPersonIsNoMember,
         DeletePerson, CheckCallerIsNobody, ClaimPerson, LoadMember, CheckRole, SetRole,
         CheckLeaving, RemoveMember, Advance, tables
    <2>8. Expire => UNCHANGED household
      BY DEF Expire
    <2> QED
      BY <2>1, <2>2, <2>3, <2>4, <2>5, <2>6, <2>7, <2>8 DEF Next, Serve, MembershipStep
  <1> QED
    BY InitIInv, NextIInv, <1>1, PTL DEF Spec, PersonalHouseholdsGoWithTheirAccount
================================================================================
