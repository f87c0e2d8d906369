---------------------------- MODULE HouseholdProofs ----------------------------
(***************************************************************************)
(* Proofs about HouseholdService, for any number of workers, any accounts  *)
(* and any contents of the tables at the start: its types, and what the    *)
(* transactions of households/invitations.py guarantee.                    *)
(***************************************************************************)
EXTENDS HouseholdInvariant, TLAPS

LEMMA IdleTyped == Idle \in Request
  BY DEF Idle, Request, Account

LEMMA InitTypeOK == Init => TypeOK
  BY StartAssumption, IdleTyped DEF Init, TypeOK

LEMMA FinishTyped ==
    ASSUME req \in [Worker -> Request], NEW w \in Worker, Finish(w)
    PROVE  req' \in [Worker -> Request]
  BY IdleTyped DEF Finish

LEMMA AdvanceTyped ==
    ASSUME req \in [Worker -> Request], NEW w \in Worker,
           NEW step \in {"loaded", "checked"},
           NEW row \in MemberRow \cup PersonRow \cup InvitationRow \cup {NoRow},
           Advance(w, step, row)
    PROVE  req' \in [Worker -> Request] /\ UNCHANGED tables
  <1>1. [req[w] EXCEPT !.step = step, !.row = row] \in Request
    BY DEF Request
  <1> QED
    BY <1>1 DEF Advance

LEMMA CallTyped ==
    ASSUME req \in [Worker -> Request], NEW w \in Worker,
           NEW op \in AllRoutes, NEW step \in {"permitted", "loaded"}, NEW u \in User,
           NEW h \in HouseholdRow \cup {NoRow},
           NEW row \in InvitationRow \cup {NoRow},
           Call(w, op, step, u, h, row)
    PROVE  req' \in [Worker -> Request]
  BY DEF Call, Request, Account

LEMMA UseKeysTyped ==
    ASSUME next \in Keys, NEW T, UseKeys(T)
    PROVE  next' \in Keys
  BY DEF UseKeys, Keys

LEMMA CreateHouseholdTyped ==
    ASSUME TypeOK, NEW owner \in User, NEW personal_of \in Account,
           create_household(owner, personal_of)
    PROVE  /\ account' \in [User -> {"absent", "open", "closed"}]
           /\ household' \subseteq HouseholdRow
           /\ member' \subseteq MemberRow
           /\ person' \subseteq PersonRow
           /\ invitation' \subseteq InvitationRow
           /\ expired' \subseteq Nat
           /\ next' \in Keys
  <1>1. [id |-> next["household"], personal |-> personal_of] \in HouseholdRow
    BY DEF TypeOK, Keys, TableNames, HouseholdRow
  <1>2. [id |-> next["person"], hh |-> next["household"], user |-> owner] \in PersonRow
    BY DEF TypeOK, Keys, TableNames, PersonRow, Account
  <1>3. [id |-> next["member"], hh |-> next["household"], user |-> owner, role |-> "owner"]
           \in MemberRow
    BY DEF TypeOK, Keys, TableNames, MemberRow, Role
  <1>4. next' \in Keys
    BY UseKeysTyped DEF TypeOK, create_household
  <1> QED
    BY <1>1, <1>2, <1>3, <1>4 DEF TypeOK, create_household

LEMMA NextTypeOK == TypeOK /\ RequestsAreTyped /\ [Next]_vars => TypeOK'
  <1> SUFFICES ASSUME TypeOK, RequestsAreTyped, [Next]_vars PROVE TypeOK'
    OBVIOUS
  <1> USE DEF TypeOK
  <1>1. ASSUME NEW w \in Worker, Enter(w) PROVE TypeOK'
    BY <1>1, CallTyped DEF Enter, tables, AllRoutes
  <1>2. ASSUME NEW w \in Worker, SaveAccount(w) PROVE TypeOK'
    BY <1>2, CallTyped DEF SaveAccount, AllRoutes
  <1>3. ASSUME NEW w \in Worker, CreatePersonalHousehold(w) PROVE TypeOK'
    BY <1>3, FinishTyped, CreateHouseholdTyped DEF CreatePersonalHousehold,
       RequestsAreTyped, RequestIsTyped, At, AllRoutes, Account
  <1>4. ASSUME NEW w \in Worker, CreateHousehold(w) PROVE TypeOK'
    BY <1>4, CreateHouseholdTyped DEF CreateHousehold, Account
  <1>5. ASSUME NEW w \in Worker, RenameHousehold(w) PROVE TypeOK'
    BY <1>5, FinishTyped DEF RenameHousehold, Saved, RequestsAreTyped, RequestIsTyped, At,
       ScopedRoutes, OwnerRoutes
  <1>6. ASSUME NEW w \in Worker, DeleteHousehold(w) PROVE TypeOK'
    BY <1>6, FinishTyped DEF DeleteHousehold, Without
  <1>7. ASSUME NEW w \in Worker, AddPerson(w) PROVE TypeOK'
    <2>1. [id |-> next["person"], hh |-> req[w].hh.id, user |-> None] \in PersonRow
      BY <1>7 DEF AddPerson, RequestsAreTyped, RequestIsTyped, At, ScopedRoutes, PersonRow, HouseholdRow,
                  Keys, TableNames, Account
    <2> QED
      BY <1>7, <2>1, FinishTyped, UseKeysTyped DEF AddPerson
  <1>8. ASSUME NEW w \in Worker, LoadPerson(w) PROVE TypeOK'
    BY <1>8, AdvanceTyped DEF LoadPerson, tables
  <1>9. ASSUME NEW w \in Worker, RenamePerson(w) PROVE TypeOK'
    BY <1>9, FinishTyped DEF RenamePerson, Saved, RequestsAreTyped, RequestIsTyped, HoldsPerson,
       Loaded, At, PersonRoutes
  <1>10. ASSUME NEW w \in Worker, CheckPersonIsNoMember(w) PROVE TypeOK'
    BY <1>10, AdvanceTyped DEF CheckPersonIsNoMember, tables, RequestsAreTyped, RequestIsTyped,
       HoldsPerson, Loaded, At, PersonRoutes
  <1>11. ASSUME NEW w \in Worker, DeletePerson(w) PROVE TypeOK'
    BY <1>11, FinishTyped DEF DeletePerson, Without
  <1>12. ASSUME NEW w \in Worker, CheckCallerIsNobody(w) PROVE TypeOK'
    BY <1>12, AdvanceTyped DEF CheckCallerIsNobody, tables, RequestsAreTyped, RequestIsTyped,
       HoldsPerson, Loaded, At, PersonRoutes
  <1>13. ASSUME NEW w \in Worker, ClaimPerson(w) PROVE TypeOK'
    BY <1>13, FinishTyped DEF ClaimPerson, Saved, RequestsAreTyped, RequestIsTyped, At,
       AllRoutes, ScopedRoutes, PersonRoutes, PersonRow, Account
  <1>14. ASSUME NEW w \in Worker, LoadMember(w) PROVE TypeOK'
    BY <1>14, AdvanceTyped DEF LoadMember, tables
  <1>15. ASSUME NEW w \in Worker, CheckRole(w) PROVE TypeOK'
    BY <1>15, AdvanceTyped DEF CheckRole, tables, RequestsAreTyped, RequestIsTyped, HoldsMember,
       Loaded, At, MemberRoutes, MemberRow
  <1>16. ASSUME NEW w \in Worker, SetRole(w) PROVE TypeOK'
    BY <1>16, FinishTyped DEF SetRole, Saved, RequestsAreTyped, RequestIsTyped, HoldsMember,
       Loaded, At, MemberRoutes
  <1>17. ASSUME NEW w \in Worker, CheckLeaving(w) PROVE TypeOK'
    BY <1>17, AdvanceTyped DEF CheckLeaving, tables, RequestsAreTyped, RequestIsTyped,
       HoldsMember, Loaded, At, MemberRoutes
  <1>18. ASSUME NEW w \in Worker, RemoveMember(w) PROVE TypeOK'
    BY <1>18, FinishTyped DEF RemoveMember, Without, Unlinked, PersonRow,
       Account
  <1>19. ASSUME NEW w \in Worker, InviteMember(w) PROVE TypeOK'
    BY <1>19, FinishTyped DEF InviteMember
  <1>20. ASSUME NEW w \in Worker, InviteNewcomer(w) PROVE TypeOK'
    <2>1. ASSUME NEW email \in User
          PROVE  [id |-> next["invitation"], hh |-> req[w].hh.id, email |-> email,
                  accepted |-> FALSE, by |-> None] \in InvitationRow
      BY <1>20 DEF InviteNewcomer, RequestsAreTyped, RequestIsTyped, At, ScopedRoutes, OwnerRoutes,
                   InvitationRow, HouseholdRow, Keys, TableNames, Account
    <2> QED
      BY <1>20, <2>1, FinishTyped, UseKeysTyped DEF InviteNewcomer
  <1>21. ASSUME NEW w \in Worker, LoadInvitation(w) PROVE TypeOK'
    BY <1>21, AdvanceTyped DEF LoadInvitation, tables
  <1>22. ASSUME NEW w \in Worker, CancelInvitation(w) PROVE TypeOK'
    BY <1>22, FinishTyped DEF CancelInvitation, Without
  <1>23. ASSUME NEW w \in Worker, LoadPendingInvitation(w) PROVE TypeOK'
    BY <1>23, CallTyped DEF LoadPendingInvitation, tables, AllRoutes
  <1>24. ASSUME NEW w \in Worker, Accept(w) PROVE TypeOK'
    <2>1. req[w].row \in InvitationRow /\ req[w].user \in User
      BY <1>24 DEF Accept, RequestsAreTyped, RequestIsTyped, HoldsInvitation, Loaded, At, AllRoutes
    <2>2. Accepted(req[w].row, req[w].user) \in InvitationRow
      BY <2>1 DEF Accepted, InvitationRow, Account
    <2>3. [id |-> next["member"], hh |-> req[w].row.hh, user |-> req[w].user,
           role |-> "member"] \in MemberRow
      BY <2>1 DEF InvitationRow, MemberRow, Role, Keys, TableNames
    <2>4. member' \subseteq MemberRow /\ invitation' \subseteq InvitationRow
      BY <1>24, <2>2, <2>3 DEF Accept, Saved
    <2> QED
      BY <1>24, <2>4, FinishTyped, UseKeysTyped DEF Accept
  <1>25. ASSUME NEW w \in Worker, Abandon(w) PROVE TypeOK'
    BY <1>25, FinishTyped DEF Abandon, tables
  <1>26. ASSUME NEW u \in User, DeleteAccount(u) PROVE TypeOK'
    BY <1>26 DEF DeleteAccount, Unlinked, PersonRow, InvitationRow, Account
  <1>27. CASE Expire
    BY <1>27 DEF Expire, InvitationRow
  <1>28. CASE UNCHANGED vars
    BY <1>28 DEF vars, tables
  <1> QED
    BY <1>1, <1>2, <1>3, <1>4, <1>5, <1>6, <1>7, <1>8, <1>9, <1>10, <1>11,
       <1>12, <1>13, <1>14, <1>15, <1>16, <1>17, <1>18, <1>19, <1>20, <1>21,
       <1>22, <1>23, <1>24, <1>25, <1>26, <1>27, <1>28
    DEF Next, Serve, MembershipStep, InvitationStep

--------------------------------------------------------------------------------
(***************************************************************************)
(* How a step moves the requests: it ends one (Quiet), or it takes one a   *)
(* statement further and leaves the others where they are (Others).        *)
(***************************************************************************)
Quiet == \A v \in Worker : req'[v] \in {Idle, req[v]}
Others(w) == \A v \in Worker \ {w} : req'[v] = req[v]

LEMMA FinishIsQuiet ==
    ASSUME TypeOK, NEW w \in Worker, Finish(w)
    PROVE  Quiet
  BY DEF TypeOK, Finish, Quiet

LEMMA UnchangedIsQuiet == ASSUME UNCHANGED req PROVE Quiet
  BY DEF Quiet

LEMMA AdvanceMoves ==
    ASSUME TypeOK, NEW w \in Worker, NEW step, NEW row, Advance(w, step, row)
    PROVE  /\ Others(w) /\ UNCHANGED tables
           /\ req'[w].op = req[w].op /\ req'[w].user = req[w].user
           /\ req'[w].hh = req[w].hh
           /\ req'[w].step = step /\ req'[w].row = row
  <1>1. req \in [Worker -> Request]
    BY DEF TypeOK
  <1>2. req' = [req EXCEPT ![w] = [req[w] EXCEPT !.step = step, !.row = row]]
    BY DEF Advance
  <1>3. Others(w) /\ req'[w] = [req[w] EXCEPT !.step = step, !.row = row]
    BY <1>1, <1>2 DEF Others
  <1>4. UNCHANGED tables
    BY DEF Advance
  <1> QED
    BY <1>1, <1>3, <1>4 DEF Request

LEMMA CallMoves ==
    ASSUME TypeOK, NEW w \in Worker, NEW op, NEW step, NEW u, NEW h, NEW row,
           Call(w, op, step, u, h, row)
    PROVE  /\ Others(w)
           /\ req'[w].op = op /\ req'[w].step = step /\ req'[w].user = u
           /\ req'[w].hh = h /\ req'[w].row = row
  <1>1. /\ Others(w)
        /\ req'[w] = [op |-> op, step |-> step, user |-> u, hh |-> h, row |-> row]
    BY DEF TypeOK, Call, Others
  <1> QED
    BY <1>1

LEMMA NoneIsNoRoute ==
    /\ "none" \notin AllRoutes /\ "none" \notin ScopedRoutes
    /\ "none" \notin OwnerRoutes \cup MemberRoutes
    /\ "none" \notin PersonRoutes /\ "none" \notin MemberRoutes
    /\ "none" \notin {"cancel", "accept"}
  BY DEF AllRoutes, ScopedRoutes, OwnerRoutes, MemberRoutes, PersonRoutes

LEMMA QuietRequest ==
    ASSUME Quiet, NEW v \in Worker
    PROVE  /\ req'[v].op \in AllRoutes => req'[v] = req[v]
           /\ req'[v].op \in ScopedRoutes => req'[v] = req[v]
           /\ req'[v].op \in OwnerRoutes \cup MemberRoutes => req'[v] = req[v]
           /\ HoldsPerson(v)' => HoldsPerson(v) /\ req'[v] = req[v]
           /\ HoldsMember(v)' => HoldsMember(v) /\ req'[v] = req[v]
           /\ HoldsInvitation(v)' => HoldsInvitation(v) /\ req'[v] = req[v]
  <1>1. Idle.op = "none"
    BY DEF Idle
  <1>2. req'[v] = req[v] \/ req'[v].op = "none"
    BY <1>1 DEF Quiet
  <1>3. /\ HoldsPerson(v)' => HoldsPerson(v) /\ req'[v] = req[v]
        /\ HoldsMember(v)' => HoldsMember(v) /\ req'[v] = req[v]
        /\ HoldsInvitation(v)' => HoldsInvitation(v) /\ req'[v] = req[v]
    BY <1>2, NoneIsNoRoute DEF HoldsPerson, HoldsMember, HoldsInvitation, Loaded
  <1> QED
    BY <1>2, <1>3, NoneIsNoRoute

LEMMA QuietTyped == ASSUME RequestsAreTyped, Quiet PROVE RequestsAreTyped'
  BY QuietRequest DEF RequestsAreTyped, RequestIsTyped

LEMMA OthersTyped ==
    ASSUME RequestsAreTyped, NEW w \in Worker, Others(w), RequestIsTyped(w)'
    PROVE  RequestsAreTyped'
  <1>1. ASSUME NEW v \in Worker, v # w PROVE RequestIsTyped(v)'
    BY <1>1 DEF Others, RequestsAreTyped, RequestIsTyped, HoldsPerson, HoldsMember,
       HoldsInvitation, Loaded
  <1> QED
    BY <1>1 DEF RequestsAreTyped

\* Which routes hold which rows: no route is of two kinds.
LEMMA RoutesAreApart ==
    ASSUME NEW op
    PROVE  /\ op \in PersonRoutes => /\ op \in ScopedRoutes
                                     /\ op \notin MemberRoutes
                                     /\ op # "cancel" /\ op # "accept"
           /\ op \in MemberRoutes => /\ op \in ScopedRoutes
                                     /\ op \notin PersonRoutes
                                     /\ op # "cancel" /\ op # "accept"
           /\ op \in OwnerRoutes => /\ op \in ScopedRoutes
                                    /\ op \notin PersonRoutes /\ op \notin MemberRoutes
           /\ op \in ScopedRoutes => op \in AllRoutes
           /\ op = "cancel" => op \in OwnerRoutes
           /\ op \in {"accept", "sign up"} => /\ op \notin ScopedRoutes
                                             /\ op \notin PersonRoutes
                                             /\ op \notin MemberRoutes
                                             /\ op \notin OwnerRoutes
                                             /\ op \in AllRoutes
  BY DEF AllRoutes, ScopedRoutes, OwnerRoutes, MemberRoutes, PersonRoutes

LEMMA AdvancePersonTyped ==
    ASSUME TypeOK, RequestsAreTyped, NEW w \in Worker, NEW step, NEW row \in PersonRow,
           req[w].op \in PersonRoutes, row.hh = req[w].hh.id, Advance(w, step, row)
    PROVE  RequestsAreTyped'
  <1>1. /\ Others(w)
        /\ req'[w].op = req[w].op /\ req'[w].user = req[w].user
        /\ req'[w].hh = req[w].hh /\ req'[w].row = row
    BY AdvanceMoves
  <1>2. ~HoldsMember(w)' /\ ~HoldsInvitation(w)'
    BY <1>1, RoutesAreApart DEF HoldsPerson, HoldsMember, HoldsInvitation
  <1>3. RequestIsTyped(w)
    BY DEF RequestsAreTyped
  <1>4. RequestIsTyped(w)'
    BY <1>1, <1>2, <1>3 DEF RequestIsTyped
  <1> QED
    BY <1>1, <1>4, OthersTyped

LEMMA AdvanceMemberTyped ==
    ASSUME TypeOK, RequestsAreTyped, NEW w \in Worker, NEW step, NEW row \in MemberRow,
           req[w].op \in MemberRoutes, row.hh = req[w].hh.id, Advance(w, step, row)
    PROVE  RequestsAreTyped'
  <1>1. /\ Others(w)
        /\ req'[w].op = req[w].op /\ req'[w].user = req[w].user
        /\ req'[w].hh = req[w].hh /\ req'[w].row = row
    BY AdvanceMoves
  <1>2. ~HoldsPerson(w)' /\ ~HoldsInvitation(w)'
    BY <1>1, RoutesAreApart DEF HoldsPerson, HoldsMember, HoldsInvitation
  <1>3. RequestIsTyped(w)
    BY DEF RequestsAreTyped
  <1>4. RequestIsTyped(w)'
    BY <1>1, <1>2, <1>3 DEF RequestIsTyped
  <1> QED
    BY <1>1, <1>4, OthersTyped

LEMMA AdvanceInvitationTyped ==
    ASSUME TypeOK, RequestsAreTyped, NEW w \in Worker, NEW step, NEW row \in InvitationRow,
           req[w].op = "cancel", Advance(w, step, row)
    PROVE  RequestsAreTyped'
  <1>1. /\ Others(w)
        /\ req'[w].op = req[w].op /\ req'[w].user = req[w].user
        /\ req'[w].hh = req[w].hh /\ req'[w].row = row
    BY AdvanceMoves
  <1>2. ~HoldsPerson(w)' /\ ~HoldsMember(w)'
    BY <1>1, RoutesAreApart DEF HoldsPerson, HoldsMember, HoldsInvitation
  <1>3. RequestIsTyped(w)
    BY DEF RequestsAreTyped
  <1>4. RequestIsTyped(w)'
    BY <1>1, <1>2, <1>3 DEF RequestIsTyped
  <1> QED
    BY <1>1, <1>4, OthersTyped

LEMMA NextRequestsAreTyped ==
    TypeOK /\ RequestsAreTyped /\ [Next]_vars => RequestsAreTyped'
  <1> SUFFICES ASSUME TypeOK, RequestsAreTyped, [Next]_vars PROVE RequestsAreTyped'
    OBVIOUS
  <1>1. ASSUME NEW w \in Worker, Enter(w) PROVE RequestsAreTyped'
    <2>1. PICK u \in User, h \in household, op \in Routes \cap ScopedRoutes :
             Call(w, op, "permitted", u, h, NoRow)
      BY <1>1 DEF Enter
    <2>2. h \in HouseholdRow
      BY DEF TypeOK
    <2>3. RequestIsTyped(w)'
      BY <2>1, <2>2, CallMoves DEF RequestIsTyped, HoldsPerson, HoldsMember, HoldsInvitation,
         Loaded
    <2> QED
      BY <2>1, <2>3, CallMoves, OthersTyped
  <1>2. ASSUME NEW w \in Worker, SaveAccount(w) PROVE RequestsAreTyped'
    <2>1. PICK u \in User : Call(w, "sign up", "loaded", u, NoRow, NoRow)
      BY <1>2 DEF SaveAccount
    <2>2. RequestIsTyped(w)'
      BY <2>1, CallMoves, RoutesAreApart DEF RequestIsTyped, HoldsPerson, HoldsMember,
         HoldsInvitation, Loaded
    <2> QED
      BY <2>1, <2>2, CallMoves, OthersTyped
  <1>3. ASSUME NEW w \in Worker, LoadPerson(w) PROVE RequestsAreTyped'
    <2>1. PICK p \in person : p.hh = req[w].hh.id /\ Advance(w, "loaded", p)
      BY <1>3 DEF LoadPerson
    <2>2. p \in PersonRow /\ req[w].op \in PersonRoutes
      BY <1>3 DEF TypeOK, LoadPerson
    <2> QED
      BY <2>1, <2>2, AdvancePersonTyped
  <1>4. ASSUME NEW w \in Worker, CheckPersonIsNoMember(w) \/ CheckCallerIsNobody(w)
        PROVE  RequestsAreTyped'
    <2>1. HoldsPerson(w) /\ Advance(w, "checked", req[w].row)
      BY <1>4 DEF CheckPersonIsNoMember, CheckCallerIsNobody, At, HoldsPerson, Loaded,
         PersonRoutes
    <2>2. req[w].op \in PersonRoutes
      BY <2>1 DEF HoldsPerson
    <2> QED
      BY <2>1, <2>2, AdvancePersonTyped DEF RequestsAreTyped, RequestIsTyped
  <1>5. ASSUME NEW w \in Worker, LoadMember(w) PROVE RequestsAreTyped'
    <2>1. PICK m \in member : m.hh = req[w].hh.id /\ Advance(w, "loaded", m)
      BY <1>5 DEF LoadMember
    <2>2. m \in MemberRow /\ req[w].op \in MemberRoutes
      BY <1>5 DEF TypeOK, LoadMember
    <2> QED
      BY <2>1, <2>2, AdvanceMemberTyped
  <1>6. ASSUME NEW w \in Worker, CheckRole(w) PROVE RequestsAreTyped'
    <2>1. /\ req[w].op \in MemberRoutes
          /\ req[w].row \in MemberRow /\ req[w].row.hh = req[w].hh.id
      BY <1>6 DEF CheckRole, At, HoldsMember, Loaded, MemberRoutes, RequestsAreTyped,
         RequestIsTyped
    <2>2. CASE Advance(w, "checked", req[w].row)
      BY <2>1, <2>2, AdvanceMemberTyped
    <2>3. ASSUME NEW role \in Role, Advance(w, "checked", [req[w].row EXCEPT !.role = role])
          PROVE  RequestsAreTyped'
      <3>1. /\ [req[w].row EXCEPT !.role = role] \in MemberRow
            /\ [req[w].row EXCEPT !.role = role].hh = req[w].row.hh
        BY <2>1 DEF MemberRow
      <3> QED
        BY <2>1, <2>3, <3>1, AdvanceMemberTyped
    <2> QED
      BY <1>6, <2>2, <2>3 DEF CheckRole
  <1>7. ASSUME NEW w \in Worker, CheckLeaving(w) PROVE RequestsAreTyped'
    <2>1. HoldsMember(w) /\ Advance(w, "checked", req[w].row)
      BY <1>7 DEF CheckLeaving, At, HoldsMember, Loaded, MemberRoutes
    <2>2. req[w].op \in MemberRoutes
      BY <2>1 DEF HoldsMember
    <2> QED
      BY <2>1, <2>2, AdvanceMemberTyped DEF RequestsAreTyped, RequestIsTyped
  <1>8. ASSUME NEW w \in Worker, LoadInvitation(w) PROVE RequestsAreTyped'
    <2>1. PICK i \in invitation : Advance(w, "loaded", i)
      BY <1>8 DEF LoadInvitation
    <2>2. i \in InvitationRow /\ req[w].op = "cancel"
      BY <1>8 DEF TypeOK, LoadInvitation, At
    <2> QED
      BY <2>1, <2>2, AdvanceInvitationTyped
  <1>9. ASSUME NEW w \in Worker, LoadPendingInvitation(w) PROVE RequestsAreTyped'
    <2>1. PICK u \in User, i \in invitation : Call(w, "accept", "loaded", u, NoRow, i)
      BY <1>9 DEF LoadPendingInvitation
    <2>2. /\ Others(w)
          /\ req'[w].op = "accept" /\ req'[w].user = u /\ req'[w].row = i
          /\ i \in InvitationRow
      BY <2>1, CallMoves DEF TypeOK
    <2>3. ~HoldsPerson(w)' /\ ~HoldsMember(w)' /\ req'[w].op \notin ScopedRoutes
      BY <2>2, RoutesAreApart DEF HoldsPerson, HoldsMember
    <2>4. RequestIsTyped(w)'
      BY <2>2, <2>3 DEF RequestIsTyped
    <2> QED
      BY <2>2, <2>4, OthersTyped
  <1>10. ASSUME NEW w \in Worker,
                \/ CreatePersonalHousehold(w) \/ RenameHousehold(w) \/ DeleteHousehold(w)
                \/ AddPerson(w) \/ RenamePerson(w) \/ DeletePerson(w) \/ ClaimPerson(w)
                \/ SetRole(w) \/ RemoveMember(w)
                \/ InviteMember(w) \/ InviteNewcomer(w) \/ CancelInvitation(w)
                \/ Accept(w) \/ Abandon(w)
         PROVE  RequestsAreTyped'
    <2>1. Finish(w)
      BY <1>10 DEF CreatePersonalHousehold, RenameHousehold, DeleteHousehold, AddPerson,
         RenamePerson, DeletePerson, ClaimPerson, SetRole, RemoveMember, InviteMember,
         InviteNewcomer, CancelInvitation, Accept, Abandon
    <2> QED
      BY <2>1, FinishIsQuiet, QuietTyped
  <1>11. ASSUME \/ \E w \in Worker : CreateHousehold(w)
                \/ \E u \in User : DeleteAccount(u)
                \/ Expire \/ UNCHANGED vars
         PROVE  RequestsAreTyped'
    <2>1. UNCHANGED req
      BY <1>11 DEF CreateHousehold, DeleteAccount, Expire, vars
    <2> QED
      BY <2>1, UnchangedIsQuiet, QuietTyped
  <1> QED
    BY <1>1, <1>2, <1>3, <1>4, <1>5, <1>6, <1>7, <1>8, <1>9, <1>10, <1>11
    DEF Next, Serve, MembershipStep, InvitationStep

LEMMA InitRequestsAreTyped == Init => RequestsAreTyped
  <1> SUFFICES ASSUME Init, NEW w \in Worker PROVE RequestIsTyped(w)
    BY DEF RequestsAreTyped
  <1>1. req[w].op = "none"
    BY DEF Init, Idle
  <1>2. ~HoldsPerson(w) /\ ~HoldsMember(w) /\ ~HoldsInvitation(w)
    BY <1>1, NoneIsNoRoute DEF HoldsPerson, HoldsMember, HoldsInvitation
  <1> QED
    BY <1>1, <1>2, NoneIsNoRoute DEF RequestIsTyped

\* The tables and the requests keep their types whatever is interleaved:
\* every write is of a row some statement read or built.
THEOREM TypeCorrect == Spec => []TypeOK
  <1>1. Init => TypeOK /\ RequestsAreTyped
    BY InitTypeOK, InitRequestsAreTyped
  <1>2. TypeOK /\ RequestsAreTyped /\ [Next]_vars => (TypeOK /\ RequestsAreTyped)'
    BY NextTypeOK, NextRequestsAreTyped
  <1> QED
    BY <1>1, <1>2, PTL DEF Spec

--------------------------------------------------------------------------------
(***************************************************************************)
(* What the two transactions of households/invitations.py guarantee        *)
(* whatever is interleaved with them: invite leaves one open invitation    *)
(* per address, accept marks and admits at once.                           *)
(***************************************************************************)
\* The steps that leave the invitations alone.
LEMMA OtherStepsKeepInvitations ==
    ASSUME Next,
           ~ \E w \in Worker : \/ InviteMember(w) \/ InviteNewcomer(w)
                               \/ CancelInvitation(w) \/ Accept(w) \/ DeleteHousehold(w),
           ~ \E u \in User : DeleteAccount(u)
    PROVE  UNCHANGED invitation
  <1>1. ASSUME NEW w \in Worker,
               \/ Enter(w) \/ SaveAccount(w) \/ CreatePersonalHousehold(w)
               \/ CreateHousehold(w) \/ RenameHousehold(w) \/ AddPerson(w) \/ Abandon(w)
        PROVE  UNCHANGED invitation
    BY <1>1 DEF Enter, SaveAccount, CreatePersonalHousehold, CreateHousehold,
       RenameHousehold, AddPerson, Abandon, create_household, tables
  <1>2. ASSUME NEW w \in Worker,
               \/ LoadPerson(w) \/ RenamePerson(w) \/ CheckPersonIsNoMember(w)
               \/ DeletePerson(w) \/ CheckCallerIsNobody(w) \/ ClaimPerson(w)
        PROVE  UNCHANGED invitation
    BY <1>2 DEF LoadPerson, RenamePerson, CheckPersonIsNoMember, DeletePerson,
       CheckCallerIsNobody, ClaimPerson, Advance, tables
  <1>3. ASSUME NEW w \in Worker,
               \/ LoadMember(w) \/ CheckRole(w) \/ SetRole(w) \/ CheckLeaving(w)
               \/ RemoveMember(w) \/ LoadInvitation(w) \/ LoadPendingInvitation(w)
        PROVE  UNCHANGED invitation
    BY <1>3 DEF LoadMember, CheckRole, SetRole, CheckLeaving, RemoveMember,
       LoadInvitation, LoadPendingInvitation, Advance, tables
  <1>4. Expire => UNCHANGED invitation
    BY DEF Expire
  <1> QED
    BY <1>1, <1>2, <1>3, <1>4 DEF Next, Serve, MembershipStep, InvitationStep

LEMMA DeleteAccountUnsigns ==
    ASSUME TypeOK, NEW u \in User, DeleteAccount(u), NEW i \in invitation'
    PROVE  \E j \in invitation :
              /\ i.id = j.id /\ i.hh = j.hh /\ i.email = j.email
              /\ i.accepted = j.accepted
              /\ i = (IF j.by = u THEN [j EXCEPT !.by = None] ELSE j)
              /\ i = j \/ i.by = None
  <1>1. PICK j \in invitation : i = (IF j.by = u THEN [j EXCEPT !.by = None] ELSE j)
    BY DEF DeleteAccount
  <1>2. j \in InvitationRow
    BY DEF TypeOK
  <1> QED
    BY <1>1, <1>2 DEF InvitationRow

LEMMA AcceptWrites ==
    ASSUME NEW w \in Worker, Accept(w), NEW i \in invitation'
    PROVE  \/ i \in invitation
           \/ /\ i.accepted = TRUE /\ i.by = req[w].user /\ i.hh = req[w].row.hh
  <1>1. invitation' = Saved(invitation, Accepted(req[w].row, req[w].user))
    BY DEF Accept
  <1>2. i \in invitation \/ i = Accepted(req[w].row, req[w].user)
    BY <1>1 DEF Saved
  <1> QED
    BY <1>2 DEF Accepted

\* Inviting an address again closes its earlier door in the same transaction,
\* and no stale row reopens one (invite, invitations.py:19-32).
THEOREM OneDoorPerAddress == Spec => []OneOpenInvitationPerAddress
  <1>1. Init => OneOpenInvitationPerAddress
    BY DEF Init, OneOpenInvitationPerAddress
  <1>2. TypeOK /\ OneOpenInvitationPerAddress /\ [Next]_vars => OneOpenInvitationPerAddress'
    <2> SUFFICES ASSUME TypeOK, OneOpenInvitationPerAddress, [Next]_vars
                 PROVE  OneOpenInvitationPerAddress'
      OBVIOUS
    <2>1. ASSUME invitation' \subseteq invitation PROVE OneOpenInvitationPerAddress'
      BY <2>1 DEF OneOpenInvitationPerAddress
    <2>2. ASSUME NEW w \in Worker,
                 InviteMember(w) \/ CancelInvitation(w) \/ DeleteHousehold(w)
          PROVE  invitation' \subseteq invitation
      BY <2>2 DEF InviteMember, CancelInvitation, DeleteHousehold, Without
    <2>3. ASSUME NEW w \in Worker, InviteNewcomer(w) PROVE OneOpenInvitationPerAddress'
      <3>1. PICK email \in User :
               invitation' = (invitation \ OpenInvitations(req[w].hh.id, email)) \cup
                    {[id |-> next["invitation"], hh |-> req[w].hh.id, email |-> email,
                      accepted |-> FALSE, by |-> None]}
        BY <2>3 DEF InviteNewcomer
      <3> DEFINE new == [id |-> next["invitation"], hh |-> req[w].hh.id, email |-> email,
                         accepted |-> FALSE, by |-> None]
      <3>2. new.hh = req[w].hh.id /\ new.email = email
        OBVIOUS
      <3>3. \A i \in invitation' :
               \/ i = new
               \/ i \in invitation /\ ~(i.hh = new.hh /\ i.email = new.email /\ ~i.accepted)
        BY <3>1, <3>2 DEF OpenInvitations
      <3> HIDE DEF new
      <3> QED
        BY <3>3 DEF OneOpenInvitationPerAddress
    <2>4. ASSUME NEW w \in Worker, Accept(w) PROVE OneOpenInvitationPerAddress'
      <3>1. \A i \in invitation' : i \in invitation \/ i.accepted
        BY <2>4, AcceptWrites
      <3> QED
        BY <3>1 DEF OneOpenInvitationPerAddress
    <2>5. ASSUME NEW u \in User, DeleteAccount(u) PROVE OneOpenInvitationPerAddress'
      <3> SUFFICES ASSUME NEW i \in invitation', NEW j \in invitation',
                          i.hh = j.hh, i.email = j.email, ~i.accepted, ~j.accepted
                   PROVE  i = j
        BY DEF OneOpenInvitationPerAddress
      <3> QED
        BY <2>5, DeleteAccountUnsigns DEF OneOpenInvitationPerAddress
    <2>6. UNCHANGED vars => invitation' \subseteq invitation
      BY DEF vars, tables
    <2> QED
      BY <2>1, <2>2, <2>3, <2>4, <2>5, <2>6, OtherStepsKeepInvitations
  <1> QED
    BY <1>1, <1>2, TypeCorrect, PTL DEF Spec

\* The token is spent and the membership is there in one step: no reader sees
\* an accepted invitation that admitted nobody (accept, invitations.py:60-71).
THEOREM AcceptingIsAtomic == Spec => AcceptingAdmits
  <1> DEFINE Admits == \A i \in invitation' :
                 i.by # None /\ i \notin invitation
                    => \E m \in member' : m.hh = i.hh /\ m.user = i.by
  <1>1. TypeOK /\ [Next]_vars => [Admits]_vars
    <2> SUFFICES ASSUME TypeOK, Next, NEW i \in invitation', i.by # None, i \notin invitation
                 PROVE  \E m \in member' : m.hh = i.hh /\ m.user = i.by
      BY DEF vars, tables
    <2>1. ASSUME NEW w \in Worker,
                 InviteMember(w) \/ CancelInvitation(w) \/ DeleteHousehold(w)
          PROVE  FALSE
      BY <2>1 DEF InviteMember, CancelInvitation, DeleteHousehold, Without
    <2>2. ASSUME NEW w \in Worker, InviteNewcomer(w) PROVE FALSE
      BY <2>2 DEF InviteNewcomer
    <2>3. ASSUME NEW w \in Worker, Accept(w)
          PROVE  \E m \in member' : m.hh = i.hh /\ m.user = i.by
      <3>1. i.hh = req[w].row.hh /\ i.by = req[w].user
        BY <2>3, AcceptWrites
      <3>2. CASE IsMember(req[w].row.hh, req[w].user)
        <4>1. member' = member
          BY <2>3, <3>2 DEF Accept
        <4> QED
          BY <3>1, <3>2, <4>1 DEF IsMember
      <3>3. CASE ~IsMember(req[w].row.hh, req[w].user)
        <4> DEFINE new == [id |-> next["member"], hh |-> req[w].row.hh,
                           user |-> req[w].user, role |-> "member"]
        <4>1. member' = member \cup {new}
          BY <2>3, <3>3 DEF Accept
        <4>2. new \in member' /\ new.hh = i.hh /\ new.user = i.by
          BY <3>1, <4>1
        <4> QED
          BY <4>2
      <3> QED
        BY <3>2, <3>3
    <2>4. ASSUME NEW u \in User, DeleteAccount(u) PROVE FALSE
      BY <2>4, DeleteAccountUnsigns
    <2>5. ASSUME UNCHANGED invitation PROVE FALSE
      BY <2>5
    <2> QED
      BY <2>1, <2>2, <2>3, <2>4, <2>5, OtherStepsKeepInvitations
  <1> QED
    BY <1>1, TypeCorrect, PTL DEF Spec, AcceptingAdmits
================================================================================
