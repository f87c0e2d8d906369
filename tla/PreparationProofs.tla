--------------------------- MODULE PreparationProofs ---------------------------
(***************************************************************************)
(* No interleaving of requests leaves a dangling line, or lets a household *)
(* refer to the rows of another: PInv is an inductive invariant, and       *)
(* LinesReferToRows and NothingReachesOutside follow from it.              *)
(* With one worker, statuses keep a default, lines their progress, and     *)
(* what is deleted stays deleted.                                          *)
(***************************************************************************)
EXTENDS PreparationInvariant, BoundedNaturals, TLAPS

(***************************************************************************)
(* Tables, whatever is in them.                                            *)
(***************************************************************************)
\* The row of T under key k stands in T2, in the same household.
Stands(T, T2, k) == \A y \in T : y.id = k => \E x \in T2 : x.id = k /\ x.home = y.home

LEMMA KeyedSaved ==
    ASSUME NEW T, NEW n, NEW r, Keyed(T, n), r.id < n
    PROVE  Keyed(Saved(T, r), n)
  BY DEF Keyed, Saved

LEMMA KeyedSubset ==
    ASSUME NEW T, NEW T2, NEW n, Keyed(T, n), T2 \subseteq T
    PROVE  Keyed(T2, n)
  BY DEF Keyed

LEMMA KeyedAdded ==
    ASSUME NEW T, NEW n \in Nat, NEW r, Keyed(T, n), \A x \in T : x.id \in Nat, r.id = n
    PROVE  Keyed(T \cup {r}, n + 1)
  BY DEF Keyed

LEMMA AgreeKept ==
    ASSUME NEW K, NEW n, NEW K2, Agree(K, n),
           \A x \in K2 : \E y \in K : x.id = y.id /\ x.home = y.home
    PROVE  Agree(K2, n)
  BY DEF Agree

LEMMA AgreeAdded ==
    ASSUME NEW K, NEW n \in Nat, NEW r, NEW K2, Agree(K, n), \A x \in K : x.id \in Nat, r.id = n,
           K2 \subseteq K \cup {r}
    PROVE  Agree(K2, n + 1)
  BY DEF Agree

LEMMA StandsSaved ==
    ASSUME NEW T, NEW r, NEW k, \A x \in T : x.id = r.id => x.home = r.home
    PROVE  Stands(T, Saved(T, r), k)
  BY DEF Stands, Saved

LEMMA StandsRemoved ==
    ASSUME NEW T, NEW T2, NEW j, NEW k, j # k, \A x \in T : x.id # j => x \in T2
    PROVE  Stands(T, T2, k)
  BY DEF Stands

LEMMA StandsGrown ==
    ASSUME NEW T, NEW T2, NEW k, T \subseteq T2
    PROVE  Stands(T, T2, k)
  BY DEF Stands

--------------------------------------------------------------------------------
(***************************************************************************)
(* Lines and participations after a step.                                  *)
(***************************************************************************)
LEMMA KitLineKept ==
    ASSUME NEW k, KitLineStaysHome(k),
           Stands(kit, kit', k.kit), Stands(item, item', k.item),
           k.person \in person => k.person \in person'
    PROVE  KitLineStaysHome(k)'
  BY DEF KitLineStaysHome, Stands, Someone, Residents

LEMMA LineKept ==
    ASSUME NEW l, LineStaysHome(l),
           Stands(trip, trip', l.trip), Stands(item, item', l.item),
           Stands(status, status', l.status), l.person \in person => l.person \in person'
    PROVE  LineStaysHome(l)'
  BY DEF LineStaysHome, Stands, Someone, Residents

LEMMA ParticipantKept ==
    ASSUME NEW e, ParticipantStaysHome(e), Stands(trip, trip', e[1]),
           e[2] \in person => e[2] \in person'
    PROVE  ParticipantStaysHome(e)'
  BY DEF ParticipantStaysHome, Stands, Residents

--------------------------------------------------------------------------------
(***************************************************************************)
(* Requests after a step.                                                  *)
(***************************************************************************)
Quiet(w) == UNCHANGED req \/ Finish(w)

LEMMA QuietHeld ==
    ASSUME NEW w \in Worker, TypeOK, Quiet(w)
    PROVE  /\ HeldItems' \subseteq HeldItems /\ HeldStatuses' \subseteq HeldStatuses
           /\ HeldTrips' \subseteq HeldTrips
           /\ HeldPersonsAgree => HeldPersonsAgree'
  <1>1. \A v \in Worker : req'[v].op # "none" => req'[v] = req[v]
    BY DEF Quiet, Finish, Idle, TypeOK
  <1>2. Editing' \subseteq Editing /\ \A v \in Editing' : req'[v] = req[v]
    BY <1>1 DEF Editing
  <1>3. \A ops : "none" \notin ops => Held(ops)' \subseteq Held(ops)
    BY <1>1 DEF Held
  <1>4. /\ Held({"edit item", "save item"})' \subseteq Held({"edit item", "save item"})
        /\ Held({"delete status", "add line"})' \subseteq Held({"delete status", "add line"})
        /\ Held({"edit trip", "duplicate trip"})' \subseteq Held({"edit trip", "duplicate trip"})
    BY <1>3
  <1> QED
    BY <1>2, <1>4 DEF HeldItems, HeldStatuses, HeldTrips, HeldPersonsAgree

LEMMA LoadedHeld ==
    ASSUME NEW w \in Worker, NEW op, NEW row, TypeOK, op # "edit line",
           req' = [req EXCEPT ![w] = [op |-> op, row |-> row]]
    PROVE  /\ \A x \in HeldItems' :
                 x \in HeldItems \/ (op \in {"edit item", "save item"} /\ x = row)
           /\ \A x \in HeldStatuses' :
                 x \in HeldStatuses \/ (op \in {"delete status", "add line"} /\ x = row)
           /\ \A x \in HeldTrips' :
                 x \in HeldTrips \/ (op \in {"edit trip", "duplicate trip"} /\ x = row)
           /\ HeldPersonsAgree => HeldPersonsAgree'
  <1>1. PICK q : q = [op |-> op, row |-> row]
    OBVIOUS
  <1>2. q.op = op /\ q.row = row
    BY <1>1
  <1>3. \A v \in Worker : req'[v] = IF v = w THEN q ELSE req[v]
    BY <1>1 DEF TypeOK
  <1>4. Editing' \subseteq Editing /\ \A v \in Editing' : req'[v] = req[v]
    BY <1>2, <1>3 DEF Editing
  <1>5. ASSUME NEW ops, NEW x \in Held(ops)' PROVE x \in Held(ops) \/ (op \in ops /\ x = row)
    <2>1. PICK v \in Worker : req'[v].op \in ops /\ x = req'[v].row
      BY <1>5 DEF Held
    <2> QED
      BY <1>2, <1>3, <2>1 DEF Held
  <1>6. HeldPersonsAgree => HeldPersonsAgree'
    BY <1>4 DEF HeldPersonsAgree
  <1>7. \A x \in HeldItems' :
          x \in HeldItems \/ (op \in {"edit item", "save item"} /\ x = row)
    BY <1>4, <1>5 DEF HeldItems
  <1>8. \A x \in HeldStatuses' :
          x \in HeldStatuses \/ (op \in {"delete status", "add line"} /\ x = row)
    BY <1>4, <1>5 DEF HeldStatuses
  <1>9. \A x \in HeldTrips' :
          x \in HeldTrips \/ (op \in {"edit trip", "duplicate trip"} /\ x = row)
    BY <1>4, <1>5 DEF HeldTrips
  <1> QED
    BY <1>6, <1>7, <1>8, <1>9

LEMMA HeldBy ==
    ASSUME NEW w \in Worker, NEW ops, req[w].op \in ops
    PROVE  req[w].row \in Held(ops)
  BY DEF Held

LEMMA RequestRows ==
    ASSUME NEW q \in Request
    PROVE  /\ q.op \in {"edit item", "save item"} => q.row \in ItemRow
           /\ q.op \in {"delete status", "add line"} => q.row \in StatusRow
           /\ q.op \in {"edit trip", "duplicate trip"} => q.row \in TripRow
           /\ q.op \in {"add status", "add first status"} => q.row \in Household
           /\ q.op = "edit line" => q.row \in LineRow /\ q.home \in Household
  <1>1. CASE q = Idle
    BY <1>1 DEF Idle
  <1>2. CASE q \in [op : {"add status", "add first status"}, row : Household]
    BY <1>2
  <1>3. CASE q \in [op : {"edit item", "save item"}, row : ItemRow]
    BY <1>3
  <1>4. CASE q \in [op : {"delete status", "add line"}, row : StatusRow]
    BY <1>4
  <1>5. CASE q \in [op : {"edit trip", "duplicate trip"}, row : TripRow]
    BY <1>5
  <1>6. CASE q \in [op : {"edit line"}, row : LineRow, home : Household]
    BY <1>6
  <1> QED
    BY <1>1, <1>2, <1>3, <1>4, <1>5, <1>6 DEF Request

LEMMA KnownIds ==
    ASSUME TypeOK
    PROVE  /\ \A x \in KnownItems \cup KnownStatuses \cup KnownTrips : x.id \in Nat
           /\ next["item"] \in Nat /\ next["kit"] \in Nat /\ next["kitline"] \in Nat
           /\ next["status"] \in Nat /\ next["trip"] \in Nat /\ next["line"] \in Nat
  <1>1. \A x \in item \cup status \cup trip : x.id \in Nat
    BY DEF TypeOK, ItemRow, StatusRow, TripRow
  <1>2. \A v \in Worker : req[v].op \in {"edit item", "save item"} => req[v].row \in ItemRow
    BY RequestRows DEF TypeOK
  <1>3. \A v \in Worker : req[v].op \in {"delete status", "add line"} => req[v].row \in StatusRow
    BY RequestRows DEF TypeOK
  <1>4. \A v \in Worker : req[v].op \in {"edit trip", "duplicate trip"} => req[v].row \in TripRow
    BY RequestRows DEF TypeOK
  <1>5. next["item"] \in Nat /\ next["kit"] \in Nat /\ next["kitline"] \in Nat
        /\ next["status"] \in Nat /\ next["trip"] \in Nat /\ next["line"] \in Nat
    BY DEF TypeOK, TableNames
  <1>6. \A v \in Editing : /\ req[v].row.item \in Nat /\ req[v].row.status \in Nat
                            /\ req[v].row.trip \in Nat
    BY RequestRows DEF TypeOK, Editing, LineRow
  <1>7. \A x \in HeldItems : x.id \in Nat
    <2>1. \A x \in Held({"edit item", "save item"}) : x.id \in Nat
      BY <1>2 DEF Held, ItemRow
    <2>2. ASSUME NEW v \in Editing, NEW x, x = [id |-> req[v].row.item, home |-> req[v].home]
          PROVE  x.id \in Nat
      BY <1>6, <2>2
    <2> QED
      BY <2>1, <2>2 DEF HeldItems
  <1>8. \A x \in HeldStatuses : x.id \in Nat
    <2>1. \A x \in Held({"delete status", "add line"}) : x.id \in Nat
      BY <1>3 DEF Held, StatusRow
    <2>2. ASSUME NEW v \in Editing, NEW x, x = [id |-> req[v].row.status, home |-> req[v].home]
          PROVE  x.id \in Nat
      BY <1>6, <2>2
    <2> QED
      BY <2>1, <2>2 DEF HeldStatuses
  <1>9. \A x \in HeldTrips : x.id \in Nat
    <2>1. \A x \in Held({"edit trip", "duplicate trip"}) : x.id \in Nat
      BY <1>4 DEF Held, TripRow
    <2>2. ASSUME NEW v \in Editing, NEW x, x = [id |-> req[v].row.trip, home |-> req[v].home]
          PROVE  x.id \in Nat
      BY <1>6, <2>2
    <2> QED
      BY <2>1, <2>2 DEF HeldTrips
  <1> QED
    BY <1>1, <1>5, <1>7, <1>8, <1>9 DEF KnownItems, KnownStatuses, KnownTrips

\* A request that ends, while tables of the keys requests hold only shrink
LEMMA ShrinkingAgrees ==
    ASSUME PInv, NEW w \in Worker, Quiet(w),
           item' \subseteq item, status' \subseteq status, trip' \subseteq trip,
           next'["item"] = next["item"], next'["status"] = next["status"],
           next'["trip"] = next["trip"]
    PROVE  EverybodyAgrees'
  <1>1. /\ HeldItems' \subseteq HeldItems /\ HeldStatuses' \subseteq HeldStatuses
        /\ HeldTrips' \subseteq HeldTrips /\ HeldPersonsAgree'
    BY QuietHeld DEF PInv, EverybodyAgrees
  <1>4. /\ KnownItems' \subseteq KnownItems /\ KnownStatuses' \subseteq KnownStatuses
        /\ KnownTrips' \subseteq KnownTrips
    BY <1>1 DEF KnownItems, KnownStatuses, KnownTrips
  <1> QED
    BY <1>1, <1>4 DEF PInv, EverybodyAgrees, Agree

--------------------------------------------------------------------------------
(***************************************************************************)
(* Steps that only read.                                                   *)
(***************************************************************************)
LEMMA SameTables ==
    ASSUME PInv, UNCHANGED tables
    PROVE  KeyedTables' /\ EverythingStaysHome'
  BY DEF PInv, tables, KeyedTables, EverythingStaysHome, KitLineStaysHome, LineStaysHome,
         ParticipantStaysHome, Someone, Residents

LEMMA ReadingKeeps ==
    ASSUME PInv, NEW w \in Worker, NEW op, NEW row, Load(w, op, row),
           op # "edit line", [op |-> op, row |-> row] \in Request,
           op \in {"edit item", "save item"} => row \in item,
           op \in {"delete status", "add line"} => row \in status,
           op \in {"edit trip", "duplicate trip"} => row \in trip
    PROVE  PInv'
  <1>1. TypeOK'
    BY DEF PInv, TypeOK, Load, tables
  <1>2. HeldItems' \subseteq KnownItems /\ HeldPersonsAgree'
    BY LoadedHeld DEF PInv, Load, KnownItems, EverybodyAgrees
  <1>3. HeldStatuses' \subseteq KnownStatuses
    BY LoadedHeld DEF PInv, Load, KnownStatuses
  <1>4. HeldTrips' \subseteq KnownTrips
    BY LoadedHeld DEF PInv, Load, KnownTrips
  <1>5. /\ KnownItems' \subseteq KnownItems /\ KnownStatuses' \subseteq KnownStatuses
        /\ KnownTrips' \subseteq KnownTrips /\ next' = next
    BY <1>2, <1>3, <1>4 DEF KnownItems, KnownStatuses, KnownTrips, Load, tables
  <1>6. EverybodyAgrees'
    BY <1>2, <1>5 DEF PInv, EverybodyAgrees, Agree
  <1> QED
    BY <1>1, <1>6, SameTables DEF PInv, Load

\* A line that is loaded refers to rows that are there, in one household.
LEMMA LineLoadedKeeps ==
    ASSUME PInv, NEW w \in Worker, LoadLine(w)
    PROVE  PInv'
  <1>1. PICK h \in Household, t \in trip, l \in line :
          /\ t.home = h /\ l.trip = t.id /\ UNCHANGED tables
          /\ req' = [req EXCEPT ![w] = [op |-> "edit line", row |-> l, home |-> h]]
    BY DEF LoadLine, Serving, Scoped, PInv, TypeOK
  <1>2. PICK q : q = [op |-> "edit line", row |-> l, home |-> h]
    OBVIOUS
  <1>3. q \in Request /\ q.op = "edit line" /\ q.row = l /\ q.home = h
    BY <1>2 DEF PInv, TypeOK, Request
  <1>4. req' = [req EXCEPT ![w] = q]
    BY <1>1, <1>2
  <1>5. \A v \in Worker : req'[v] = IF v = w THEN q ELSE req[v]
    BY <1>4 DEF PInv, TypeOK
  <1>6. TypeOK'
    BY <1>1, <1>3, <1>4 DEF PInv, TypeOK, tables
  <1>7. PICK u \in trip, i \in item, s \in status :
          /\ l.trip = u.id /\ l.item = i.id /\ l.status = s.id
          /\ i.home = u.home /\ s.home = u.home /\ l.person \in Someone(u.home)
    BY DEF PInv, EverythingStaysHome, LineStaysHome
  <1>8. u = t
    BY <1>1, <1>7 DEF PInv, KeyedTables, Keyed
  <1>9. /\ \A ops : "edit line" \notin ops => Held(ops)' \subseteq Held(ops)
        /\ Editing' \subseteq Editing \cup {w}
    BY <1>3, <1>5 DEF Held, Editing
  <1>10. /\ Held({"edit item", "save item"})' \subseteq Held({"edit item", "save item"})
         /\ Held({"delete status", "add line"})' \subseteq Held({"delete status", "add line"})
         /\ Held({"edit trip", "duplicate trip"})' \subseteq Held({"edit trip", "duplicate trip"})
    BY <1>9
  <1>11. /\ \A x \in HeldItems' : x \in HeldItems \/ x = [id |-> l.item, home |-> h]
         /\ \A x \in HeldStatuses' : x \in HeldStatuses \/ x = [id |-> l.status, home |-> h]
         /\ \A x \in HeldTrips' : x \in HeldTrips \/ x = [id |-> l.trip, home |-> h]
    BY <1>3, <1>5, <1>9, <1>10 DEF HeldItems, HeldStatuses, HeldTrips, Editing
  <1>12. HeldPersonsAgree'
    <2>1. l.person # None => HomeOf[l.person] = h
      BY <1>1, <1>7, <1>8 DEF Someone, Residents
    <2> QED
      BY <1>3, <1>5, <2>1 DEF HeldPersonsAgree, Editing, PInv, EverybodyAgrees
  <1>13. /\ \A x \in KnownItems' : \E y \in KnownItems : x.id = y.id /\ x.home = y.home
         /\ \A x \in KnownStatuses' : \E y \in KnownStatuses : x.id = y.id /\ x.home = y.home
         /\ \A x \in KnownTrips' : \E y \in KnownTrips : x.id = y.id /\ x.home = y.home
    <2>1. item' = item /\ status' = status /\ trip' = trip
      BY <1>1 DEF tables
    <2>2. PICK x, y, z : /\ x = [id |-> l.item, home |-> h] /\ y = [id |-> l.status, home |-> h]
                         /\ z = [id |-> l.trip, home |-> h]
      OBVIOUS
    <2>3. /\ x.id = i.id /\ x.home = i.home /\ y.id = s.id /\ y.home = s.home
          /\ z.id = t.id /\ z.home = t.home
      BY <1>1, <1>7, <1>8, <2>2
    <2>4. \A v \in KnownItems' : v \in KnownItems \/ v = x
      BY <1>11, <2>1, <2>2 DEF KnownItems
    <2>5. \A v \in KnownStatuses' : v \in KnownStatuses \/ v = y
      BY <1>11, <2>1, <2>2 DEF KnownStatuses
    <2>6. \A v \in KnownTrips' : v \in KnownTrips \/ v = z
      BY <1>11, <2>1, <2>2 DEF KnownTrips
    <2>7. i \in KnownItems /\ s \in KnownStatuses /\ t \in KnownTrips
      BY DEF KnownItems, KnownStatuses, KnownTrips
    <2> QED
      BY <2>3, <2>4, <2>5, <2>6, <2>7
  <1>14. EverybodyAgrees'
    <2>1. next' = next
      BY <1>1 DEF tables
    <2>3. Agree(KnownItems', next["item"])
      BY <1>13, AgreeKept DEF PInv, EverybodyAgrees
    <2>4. Agree(KnownStatuses', next["status"])
      BY <1>13, AgreeKept DEF PInv, EverybodyAgrees
    <2>5. Agree(KnownTrips', next["trip"])
      BY <1>13, AgreeKept DEF PInv, EverybodyAgrees
    <2> QED
      BY <1>12, <2>1, <2>3, <2>4, <2>5 DEF EverybodyAgrees
  <1> QED
    BY <1>1, <1>6, <1>14, SameTables DEF PInv

LEMMA LoadsKeep ==
    ASSUME PInv, NEW w \in Worker,
           LoadItem(w) \/ LookForDefault(w) \/ LoadStatus(w) \/ LoadTrip(w)
             \/ LoadLineStatus(w) \/ LoadLine(w)
    PROVE  PInv'
  <1>1. CASE LoadItem(w)
    <2>1. PICK i \in item : Load(w, "edit item", i)
      BY <1>1 DEF LoadItem, Scoped
    <2>2. [op |-> "edit item", row |-> i] \in Request
      BY DEF PInv, TypeOK, Request
    <2> QED
      BY <2>1, <2>2, ReadingKeeps
  <1>2. CASE LookForDefault(w)
    <2>1. PICK h \in Household, op \in {"add status", "add first status"} : Load(w, op, h)
      BY <1>2 DEF LookForDefault, Serving, PInv, TypeOK
    <2>2. [op |-> op, row |-> h] \in Request
      BY DEF Request
    <2> QED
      BY <2>1, <2>2, ReadingKeeps
  <1>3. CASE LoadStatus(w)
    <2>1. PICK s \in status : Load(w, "delete status", s)
      BY <1>3 DEF LoadStatus, Scoped
    <2>2. [op |-> "delete status", row |-> s] \in Request
      BY DEF PInv, TypeOK, Request
    <2> QED
      BY <2>1, <2>2, ReadingKeeps
  <1>4. CASE LoadTrip(w)
    <2>1. PICK t \in trip, op \in {"edit trip", "duplicate trip"} : Load(w, op, t)
      BY <1>4 DEF LoadTrip, Scoped
    <2>2. [op |-> op, row |-> t] \in Request
      BY DEF PInv, TypeOK, Request
    <2> QED
      BY <2>1, <2>2, ReadingKeeps
  <1>5. CASE LoadLineStatus(w)
    <2>1. PICK s \in status : Load(w, "add line", s)
      BY <1>5 DEF LoadLineStatus, Scoped
    <2>2. [op |-> "add line", row |-> s] \in Request
      BY DEF PInv, TypeOK, Request
    <2> QED
      BY <2>1, <2>2, ReadingKeeps
  <1>6. CASE LoadLine(w)
    BY <1>6, LineLoadedKeeps
  <1> QED
    BY <1>1, <1>2, <1>3, <1>4, <1>5, <1>6

LEMMA QuietTyped ==
    ASSUME TypeOK, NEW w \in Worker, Quiet(w)
    PROVE  req' \in [Worker -> Request]
  BY DEF TypeOK, Quiet, Finish, Request

LEMMA AbandonKeeps ==
    ASSUME PInv, NEW w \in Worker, Abandon(w)
    PROVE  PInv'
  <1>1. Quiet(w) /\ UNCHANGED tables
    BY DEF Abandon, Quiet
  <1>2. TypeOK'
    BY <1>1, QuietTyped DEF PInv, TypeOK, tables
  <1>3. EverybodyAgrees'
    BY <1>1, ShrinkingAgrees DEF tables
  <1> QED
    BY <1>1, <1>2, <1>3, SameTables DEF PInv

--------------------------------------------------------------------------------
(***************************************************************************)
(* Steps that leave households, persons, items, kits, statuses and trips.  *)
(***************************************************************************)
SameReferences == UNCHANGED <<household, person, item, kit, status, trip>>

LEMMA SameReferencesKeep ==
    ASSUME PInv, SameReferences,
           \A k \in kitline' : k \in kitline \/ KitLineStaysHome(k),
           \A l \in line' : l \in line \/ LineStaysHome(l),
           \A e \in participant' : e \in participant \/ ParticipantStaysHome(e)
    PROVE  EverythingStaysHome'
  <1>1. ASSUME NEW k \in kitline' PROVE KitLineStaysHome(k)'
    BY <1>1 DEF PInv, EverythingStaysHome, SameReferences, KitLineStaysHome, Someone, Residents
  <1>2. ASSUME NEW l \in line' PROVE LineStaysHome(l)'
    BY <1>2 DEF PInv, EverythingStaysHome, SameReferences, LineStaysHome, Someone, Residents
  <1>3. ASSUME NEW e \in participant' PROVE ParticipantStaysHome(e)'
    BY <1>3 DEF PInv, EverythingStaysHome, SameReferences, ParticipantStaysHome, Residents
  <1>4. (\A r \in item \cup kit \cup status \cup trip : r.home \in household)'
    BY DEF PInv, EverythingStaysHome, SameReferences
  <1> QED
    BY <1>1, <1>2, <1>3, <1>4 DEF EverythingStaysHome

LEMMA AddKitLineKeeps ==
    ASSUME PInv, NEW w \in Worker, AddKitLine(w)
    PROVE  PInv'
  <1>1. PICK h \in Serving : \E b \in Scoped(kit, h), c \in KitLineChoices(h) :
          kitline' = kitline \cup
              {[id |-> next["kitline"], kit |-> b.id, item |-> c.item, person |-> c.person]}
    BY DEF AddKitLine
  <1>2. PICK b \in Scoped(kit, h), c \in KitLineChoices(h) :
          kitline' = kitline \cup
              {[id |-> next["kitline"], kit |-> b.id, item |-> c.item, person |-> c.person]}
    BY <1>1
  <1>3. PICK k : k = [id |-> next["kitline"], kit |-> b.id, item |-> c.item, person |-> c.person]
    OBVIOUS
  <1>4. kitline' = kitline \cup {k}
    BY <1>2, <1>3
  <1>5. PICK i \in item : c.item = i.id /\ i.home = h
    BY DEF KitLineChoices, KeysOf, Scoped
  <1>6. b \in kit /\ b.home = h /\ c.person \in Someone(h)
    BY DEF KitLineChoices, Scoped
  <1>7. KitLineStaysHome(k)
    BY <1>3, <1>5, <1>6 DEF KitLineStaysHome
  <1>8. /\ k \in KitLineRow /\ k.id = next["kitline"] /\ next["kitline"] \in Nat
        /\ \A x \in kitline : x.id \in Nat
    BY <1>3, <1>5, <1>6, KnownIds
       DEF KitLineRow, KitRow, ItemRow, For, Someone, Residents, PInv, TypeOK
  <1>9. next' = [next EXCEPT !["kitline"] = @ + 1] /\ Quiet(w) /\ SameReferences
        /\ UNCHANGED <<line, participant>>
    BY DEF AddKitLine, UseKeys, Quiet, SameReferences
  <1>10. TypeOK'
    BY <1>4, <1>8, <1>9, QuietTyped DEF PInv, TypeOK, SameReferences, TableNames
  <1>11. KeyedTables'
    <2>1. next'["kitline"] = next["kitline"] + 1
          /\ \A t \in TableNames \ {"kitline"} : next'[t] = next[t]
      BY <1>9 DEF PInv, TypeOK, TableNames
    <2>2. Keyed(kitline', next["kitline"] + 1)
      BY <1>4, <1>8, KeyedAdded DEF PInv, KeyedTables
    <2> QED
      BY <1>9, <2>1, <2>2 DEF PInv, KeyedTables, TableNames, SameReferences
  <1>12. EverybodyAgrees'
    BY <1>9, ShrinkingAgrees DEF PInv, TypeOK, TableNames, SameReferences
  <1>13. EverythingStaysHome'
    BY <1>4, <1>7, <1>9, SameReferencesKeep
  <1> QED
    BY <1>10, <1>11, <1>12, <1>13 DEF PInv

LEMMA EditKitLineKeeps ==
    ASSUME PInv, NEW w \in Worker, EditKitLine(w)
    PROVE  PInv'
  <1>1. PICK h \in Serving : \E b \in Scoped(kit, h), c \in KitLineChoices(h) :
          \E k \in {l \in kitline : l.kit = b.id} :
              kitline' = Saved(kitline, [k EXCEPT !.item = c.item, !.person = c.person])
    BY DEF EditKitLine
  <1>2. PICK b \in Scoped(kit, h), c \in KitLineChoices(h), k \in kitline :
          /\ k.kit = b.id
          /\ kitline' = Saved(kitline, [k EXCEPT !.item = c.item, !.person = c.person])
    BY <1>1
  <1>3. PICK q : q = [k EXCEPT !.item = c.item, !.person = c.person]
    OBVIOUS
  <1>4. kitline' = Saved(kitline, q)
    BY <1>2, <1>3
  <1>5. PICK i \in item : c.item = i.id /\ i.home = h
    BY DEF KitLineChoices, KeysOf, Scoped
  <1>6. b \in kit /\ b.home = h /\ c.person \in Someone(h) /\ k \in KitLineRow /\ c.item \in Nat
        /\ c.person \in For
    BY <1>5 DEF KitLineChoices, Scoped, PInv, TypeOK, For, Someone, Residents, ItemRow
  <1>7. q \in KitLineRow /\ q.id = k.id /\ q.kit = b.id /\ q.item = c.item /\ q.person = c.person
    BY <1>2, <1>3, <1>6 DEF KitLineRow
  <1>8. KitLineStaysHome(q)
    BY <1>5, <1>6, <1>7 DEF KitLineStaysHome
  <1>9. SameReferences /\ Quiet(w) /\ UNCHANGED <<next, line, participant>>
    BY DEF EditKitLine, SameReferences, Quiet
  <1>10. TypeOK'
    BY <1>4, <1>7, <1>9, QuietTyped DEF PInv, TypeOK, SameReferences, Saved
  <1>11. KeyedTables'
    <2>1. q.id < next["kitline"]
      BY <1>7 DEF PInv, KeyedTables, Keyed
    <2> QED
      BY <1>4, <1>9, <2>1, KeyedSaved DEF PInv, KeyedTables, SameReferences
  <1>12. EverybodyAgrees'
    BY <1>9, ShrinkingAgrees DEF SameReferences
  <1>13. EverythingStaysHome'
    BY <1>4, <1>8, <1>9, SameReferencesKeep DEF Saved
  <1> QED
    BY <1>10, <1>11, <1>12, <1>13 DEF PInv

\* Lines and participations that go take nothing along.
LEMMA LeavingKeeps ==
    ASSUME PInv, NEW w \in Worker, Quiet(w), SameReferences, UNCHANGED next,
           kitline' \subseteq kitline, line' \subseteq line, participant' \subseteq participant
    PROVE  PInv'
  <1>1. TypeOK'
    BY QuietTyped DEF PInv, TypeOK, SameReferences
  <1>2. KeyedTables'
    BY KeyedSubset DEF PInv, KeyedTables, SameReferences
  <1>3. EverybodyAgrees'
    BY ShrinkingAgrees DEF SameReferences
  <1>4. EverythingStaysHome'
    BY SameReferencesKeep
  <1> QED
    BY <1>1, <1>2, <1>3, <1>4 DEF PInv

LEMMA LeavesKeep ==
    ASSUME PInv, NEW w \in Worker, DeleteKitLine(w) \/ RemoveParticipant(w) \/ DeleteLine(w)
    PROVE  PInv'
  <1>1. CASE DeleteKitLine(w)
    BY <1>1, LeavingKeeps DEF DeleteKitLine, SameReferences, Quiet
  <1>2. CASE RemoveParticipant(w)
    BY <1>2, LeavingKeeps DEF RemoveParticipant, SameReferences, Quiet
  <1>3. CASE DeleteLine(w)
    BY <1>3, LeavingKeeps DEF DeleteLine, SameReferences, Quiet
  <1> QED
    BY <1>1, <1>2, <1>3

LEMMA AddParticipantKeeps ==
    ASSUME PInv, NEW w \in Worker, AddParticipant(w)
    PROVE  PInv'
  <1>1. PICK h \in Serving : \E t \in Scoped(trip, h), p \in Residents(h) :
          participant' = participant \cup {<<t.id, p>>}
    BY DEF AddParticipant
  <1>2. PICK t \in Scoped(trip, h), p \in Residents(h) :
          participant' = participant \cup {<<t.id, p>>}
    BY <1>1
  <1>3. ParticipantStaysHome(<<t.id, p>>) /\ <<t.id, p>> \in Nat \X Person
    BY DEF ParticipantStaysHome, Scoped, Residents, PInv, TypeOK, TripRow
  <1>4. SameReferences /\ Quiet(w) /\ UNCHANGED <<next, line, kitline>>
    BY DEF AddParticipant, SameReferences, Quiet
  <1>5. TypeOK'
    BY <1>2, <1>3, <1>4, QuietTyped DEF PInv, TypeOK, SameReferences
  <1>6. KeyedTables'
    BY <1>4 DEF PInv, KeyedTables, SameReferences
  <1>7. EverybodyAgrees'
    BY <1>4, ShrinkingAgrees DEF SameReferences
  <1>8. EverythingStaysHome'
    BY <1>2, <1>3, <1>4, SameReferencesKeep
  <1> QED
    BY <1>5, <1>6, <1>7, <1>8 DEF PInv

--------------------------------------------------------------------------------
(***************************************************************************)
(* Steps that change the rows others refer to.                             *)
(***************************************************************************)
\* Lines either stay, and what they refer to with them, or are looked at apart.
LEMMA EverythingKept ==
    ASSUME PInv,
           \A r \in item' \cup kit' \cup status' \cup trip' : r.home \in household',
           \A k \in kitline' :
              \/ KitLineStaysHome(k)'
              \/ /\ k \in kitline /\ Stands(kit, kit', k.kit) /\ Stands(item, item', k.item)
                 /\ k.person \in person => k.person \in person',
           \A l \in line' :
              \/ LineStaysHome(l)'
              \/ /\ l \in line /\ Stands(trip, trip', l.trip) /\ Stands(item, item', l.item)
                 /\ Stands(status, status', l.status)
                 /\ l.person \in person => l.person \in person',
           \A e \in participant' :
              \/ ParticipantStaysHome(e)'
              \/ /\ e \in participant /\ Stands(trip, trip', e[1])
                 /\ e[2] \in person => e[2] \in person'
    PROVE  EverythingStaysHome'
  <1>1. ASSUME NEW k \in kitline' PROVE KitLineStaysHome(k)'
    BY <1>1, KitLineKept DEF PInv, EverythingStaysHome
  <1>2. ASSUME NEW l \in line' PROVE LineStaysHome(l)'
    BY <1>2, LineKept DEF PInv, EverythingStaysHome
  <1>3. ASSUME NEW e \in participant' PROVE ParticipantStaysHome(e)'
    BY <1>3, ParticipantKept DEF PInv, EverythingStaysHome
  <1> QED
    BY <1>1, <1>2, <1>3 DEF EverythingStaysHome

LEMMA KeysUsed ==
    ASSUME TypeOK, NEW t \in TableNames, NEW n \in Nat, UseKeys(t, n)
    PROVE  /\ next' \in [TableNames -> Nat]
           /\ next'[t] = next[t] + n
           /\ \A u \in TableNames \ {t} : next'[u] = next[u]
  BY DEF TypeOK, UseKeys

\* What requests hold after a step that loads nothing
LEMMA StillHeld ==
    ASSUME PInv, NEW w \in Worker, Quiet(w)
    PROVE  /\ KnownItems' \subseteq item' \cup KnownItems
           /\ KnownStatuses' \subseteq status' \cup KnownStatuses
           /\ KnownTrips' \subseteq trip' \cup KnownTrips
           /\ HeldPersonsAgree'
  BY QuietHeld DEF PInv, EverybodyAgrees, KnownItems, KnownStatuses, KnownTrips

LEMMA AddItemKeeps ==
    ASSUME PInv, NEW w \in Worker, AddItem(w)
    PROVE  PInv'
  <1>1. PICK h \in Serving, n \in Name :
          item' = item \cup {[id |-> next["item"], home |-> h, name |-> n]}
    BY DEF AddItem
  <1>2. PICK i : i = [id |-> next["item"], home |-> h, name |-> n]
    OBVIOUS
  <1>3. item' = item \cup {i} /\ h \in household /\ h \in Household
    BY <1>1, <1>2 DEF Serving, PInv, TypeOK
  <1>4. i \in ItemRow /\ i.id = next["item"] /\ i.home = h /\ \A x \in item : x.id \in Nat
    BY <1>2, <1>3, KnownIds DEF ItemRow, PInv, TypeOK
  <1>5. /\ Quiet(w)
        /\ UNCHANGED <<household, person, kit, kitline, status, trip, participant, line>>
    BY DEF AddItem, Quiet
  <1>6. /\ next' \in [TableNames -> Nat] /\ next'["item"] = next["item"] + 1
        /\ \A u \in TableNames \ {"item"} : next'[u] = next[u]
    BY KeysUsed DEF AddItem, PInv, TableNames
  <1>7. TypeOK'
    BY <1>3, <1>4, <1>5, <1>6, QuietTyped DEF PInv, TypeOK
  <1>8. KeyedTables'
    <2>1. Keyed(item', next["item"] + 1)
      BY <1>3, <1>4, KnownIds, KeyedAdded DEF PInv, KeyedTables
    <2> QED
      BY <1>5, <1>6, <2>1 DEF PInv, KeyedTables, TableNames
  <1>9. EverybodyAgrees'
    <2>1. KnownItems' \subseteq KnownItems \cup {i}
      BY <1>3, <1>5, StillHeld DEF KnownItems
    <2>2. Agree(KnownItems', next["item"] + 1)
      BY <1>4, <2>1, KnownIds, AgreeAdded DEF PInv, EverybodyAgrees
    <2>3. KnownStatuses' \subseteq KnownStatuses /\ KnownTrips' \subseteq KnownTrips
      BY <1>5, StillHeld DEF KnownStatuses, KnownTrips
    <2>4. Agree(KnownStatuses', next["status"]) /\ Agree(KnownTrips', next["trip"])
      BY <2>3 DEF PInv, EverybodyAgrees, Agree
    <2> QED
      BY <1>5, <1>6, <2>2, <2>4, StillHeld DEF EverybodyAgrees, TableNames
  <1>10. EverythingStaysHome'
    <2>1. \A r \in item' \cup kit' \cup status' \cup trip' : r.home \in household'
      BY <1>3, <1>4, <1>5 DEF PInv, EverythingStaysHome
    <2>2. \A k : /\ Stands(item, item', k) /\ Stands(kit, kit', k)
                 /\ Stands(status, status', k) /\ Stands(trip, trip', k)
      BY <1>3, <1>5, StandsGrown
    <2> QED
      BY <1>5, <2>1, <2>2, EverythingKept
  <1> QED
    BY <1>7, <1>8, <1>9, <1>10 DEF PInv

\* An item is written back, as a request holds it but for its name.
LEMMA ItemSavedKeeps ==
    ASSUME PInv, NEW i \in ItemRow, NEW h \in KnownItems, i.id = h.id, i.home = h.home,
           i.home \in household, item' = Saved(item, i), req' \in [Worker -> Request],
           \A x \in HeldItems' : x \in KnownItems \/ x = i,
           HeldStatuses' \subseteq KnownStatuses, HeldTrips' \subseteq KnownTrips,
           HeldPersonsAgree',
           UNCHANGED <<household, person, kit, kitline, status, trip, participant, line, next>>
    PROVE  PInv'
  <1>1. TypeOK'
    BY DEF PInv, TypeOK, Saved
  <1>2. KeyedTables'
    <2>1. i.id < next["item"]
      BY DEF PInv, EverybodyAgrees, Agree
    <2> QED
      BY <2>1, KeyedSaved DEF PInv, KeyedTables
  <1>3. EverybodyAgrees'
    <2>1. \A x \in KnownItems' : x \in KnownItems \/ x = i
      BY DEF KnownItems, Saved
    <2>2. Agree(KnownItems', next["item"])
      BY <2>1, AgreeKept DEF PInv, EverybodyAgrees
    <2>3. KnownStatuses' \subseteq KnownStatuses /\ KnownTrips' \subseteq KnownTrips
      BY DEF KnownStatuses, KnownTrips
    <2>4. Agree(KnownStatuses', next["status"]) /\ Agree(KnownTrips', next["trip"])
      BY <2>3 DEF PInv, EverybodyAgrees, Agree
    <2> QED
      BY <2>2, <2>4 DEF EverybodyAgrees
  <1>4. EverythingStaysHome'
    <2>1. \A r \in item' \cup kit' \cup status' \cup trip' : r.home \in household'
      BY DEF PInv, EverythingStaysHome, Saved
    <2>2. \A x \in item : x.id = i.id => x.home = i.home
      BY DEF PInv, EverybodyAgrees, Agree, KnownItems
    <2>3. \A k : Stands(item, item', k)
      BY <2>2, StandsSaved
    <2>4. \A k : Stands(kit, kit', k) /\ Stands(status, status', k) /\ Stands(trip, trip', k)
      BY StandsGrown
    <2> QED
      BY <2>1, <2>3, <2>4, EverythingKept
  <1> QED
    BY <1>1, <1>2, <1>3, <1>4 DEF PInv

LEMMA RenameItemKeeps ==
    ASSUME PInv, NEW w \in Worker, RenameItem(w)
    PROVE  PInv'
  <1>1. PICK n \in Name :
          /\ item' = Saved(item, [req[w].row EXCEPT !.name = n])
          /\ req' = [req EXCEPT ![w] = [op |-> "save item",
                                        row |-> [req[w].row EXCEPT !.name = n]]]
    BY DEF RenameItem
  <1>2. PICK i : i = [req[w].row EXCEPT !.name = n]
    OBVIOUS
  <1>3. item' = Saved(item, i) /\ req' = [req EXCEPT ![w] = [op |-> "save item", row |-> i]]
    BY <1>1, <1>2
  <1>4. req[w].op = "edit item" /\ req[w].row \in ItemRow
    BY RequestRows DEF RenameItem, Holds, PInv, TypeOK
  <1>5. i \in ItemRow /\ i.id = req[w].row.id /\ i.home = req[w].row.home
    BY <1>2, <1>4 DEF ItemRow
  <1>6. req[w].row \in KnownItems
    BY <1>4, HeldBy DEF KnownItems, HeldItems
  <1>7. [op |-> "save item", row |-> i] \in Request
    BY <1>5 DEF Request
  <1>8. req' \in [Worker -> Request]
    BY <1>3, <1>7 DEF PInv, TypeOK
  <1> DEFINE op == "save item"
  <1>13. /\ op # "edit line" /\ TypeOK /\ HeldPersonsAgree
         /\ req' = [req EXCEPT ![w] = [op |-> op, row |-> i]]
    BY <1>3 DEF PInv, EverybodyAgrees
  <1>14. op \notin {"delete status", "add line", "edit trip", "duplicate trip"}
    OBVIOUS
  <1> HIDE DEF op
  <1>9. \A x \in HeldItems' : x \in KnownItems \/ x = i
    BY <1>13, LoadedHeld DEF KnownItems
  <1>10. HeldStatuses' \subseteq KnownStatuses /\ HeldPersonsAgree'
    BY <1>13, <1>14, LoadedHeld DEF KnownStatuses
  <1>11. HeldTrips' \subseteq KnownTrips
    BY <1>13, <1>14, LoadedHeld DEF KnownTrips
  <1>12. /\ i.home \in household
         /\ UNCHANGED <<household, person, kit, kitline, status, trip, participant, line, next>>
    BY <1>5 DEF RenameItem
  <1> QED
    BY <1>3, <1>5, <1>6, <1>8, <1>9, <1>10, <1>11, <1>12, ItemSavedKeeps

LEMMA SaveItemKeeps ==
    ASSUME PInv, NEW w \in Worker, SaveItem(w)
    PROVE  PInv'
  <1>1. req[w].op \in {"edit item", "save item"} /\ req[w].row \in ItemRow
    BY RequestRows DEF SaveItem, PInv, TypeOK
  <1>2. req[w].row \in KnownItems
    BY <1>1, HeldBy DEF KnownItems, HeldItems
  <1>3. /\ Quiet(w) /\ req[w].row.home \in household /\ item' = Saved(item, req[w].row)
        /\ UNCHANGED <<household, person, kit, kitline, status, trip, participant, line, next>>
    BY DEF SaveItem, Quiet
  <1>4. req' \in [Worker -> Request]
    BY <1>3, QuietTyped DEF PInv
  <1>5. HeldItems' \subseteq KnownItems /\ HeldPersonsAgree'
    BY <1>3, QuietHeld DEF PInv, KnownItems, EverybodyAgrees
  <1>6. HeldStatuses' \subseteq KnownStatuses
    BY <1>3, QuietHeld DEF PInv, KnownStatuses
  <1>7. HeldTrips' \subseteq KnownTrips
    BY <1>3, QuietHeld DEF PInv, KnownTrips
  <1> QED
    BY <1>1, <1>2, <1>3, <1>4, <1>5, <1>6, <1>7, ItemSavedKeeps

LEMMA DeleteItemKeeps ==
    ASSUME PInv, NEW w \in Worker, DeleteItem(w)
    PROVE  PInv'
  <1>1. PICK i \in item :
          /\ item' = item \ {i}
          /\ kitline' = {k \in kitline : k.item # i.id}
          /\ line' = {l \in line : l.item # i.id}
    BY DEF DeleteItem, Scoped
  <1>2. Quiet(w) /\ UNCHANGED <<household, person, kit, status, trip, participant, next>>
    BY DEF DeleteItem, Quiet
  <1>3. TypeOK'
    BY <1>1, <1>2, QuietTyped DEF PInv, TypeOK
  <1>4. KeyedTables'
    BY <1>1, <1>2, KeyedSubset DEF PInv, KeyedTables
  <1>5. EverybodyAgrees'
    BY <1>1, <1>2, ShrinkingAgrees
  <1>6. EverythingStaysHome'
    <2>1. \A r \in item' \cup kit' \cup status' \cup trip' : r.home \in household'
      BY <1>1, <1>2 DEF PInv, EverythingStaysHome
    <2>2. \A k : k # i.id => Stands(item, item', k)
      BY <1>1 DEF Stands
    <2>3. \A k : Stands(kit, kit', k) /\ Stands(status, status', k) /\ Stands(trip, trip', k)
      BY <1>2, StandsGrown
    <2> QED
      BY <1>1, <1>2, <2>1, <2>2, <2>3, EverythingKept
  <1> QED
    BY <1>3, <1>4, <1>5, <1>6 DEF PInv

LEMMA AddKitKeeps ==
    ASSUME PInv, NEW w \in Worker, AddKit(w)
    PROVE  PInv'
  <1>1. PICK h \in Serving : kit' = kit \cup {[id |-> next["kit"], home |-> h]}
    BY DEF AddKit
  <1>2. PICK b : b = [id |-> next["kit"], home |-> h]
    OBVIOUS
  <1>3. kit' = kit \cup {b} /\ h \in household /\ h \in Household
    BY <1>1, <1>2 DEF Serving, PInv, TypeOK
  <1>4. /\ b \in KitRow /\ b.id = next["kit"] /\ b.home = h /\ \A x \in kit : x.id \in Nat
        /\ next["kit"] \in Nat
    BY <1>2, <1>3, KnownIds DEF KitRow, PInv, TypeOK
  <1>5. /\ Quiet(w)
        /\ UNCHANGED <<household, person, item, kitline, status, trip, participant, line>>
    BY DEF AddKit, Quiet
  <1>6. /\ next' \in [TableNames -> Nat] /\ next'["kit"] = next["kit"] + 1
        /\ \A u \in TableNames \ {"kit"} : next'[u] = next[u]
    BY KeysUsed DEF AddKit, PInv, TableNames
  <1>7. TypeOK'
    BY <1>3, <1>4, <1>5, <1>6, QuietTyped DEF PInv, TypeOK
  <1>8. KeyedTables'
    <2>1. Keyed(kit', next["kit"] + 1)
      BY <1>3, <1>4, KeyedAdded DEF PInv, KeyedTables
    <2> QED
      BY <1>5, <1>6, <2>1 DEF PInv, KeyedTables, TableNames
  <1>9. EverybodyAgrees'
    BY <1>5, <1>6, ShrinkingAgrees DEF TableNames
  <1>10. EverythingStaysHome'
    <2>1. \A r \in item' \cup kit' \cup status' \cup trip' : r.home \in household'
      BY <1>3, <1>4, <1>5 DEF PInv, EverythingStaysHome
    <2>2. \A k : /\ Stands(item, item', k) /\ Stands(kit, kit', k)
                 /\ Stands(status, status', k) /\ Stands(trip, trip', k)
      BY <1>3, <1>5, StandsGrown
    <2> QED
      BY <1>5, <2>1, <2>2, EverythingKept
  <1> QED
    BY <1>7, <1>8, <1>9, <1>10 DEF PInv

LEMMA DeleteKitKeeps ==
    ASSUME PInv, NEW w \in Worker, DeleteKit(w)
    PROVE  PInv'
  <1>1. PICK b \in kit : kit' = kit \ {b} /\ kitline' = {k \in kitline : k.kit # b.id}
    BY DEF DeleteKit, Scoped
  <1>2. Quiet(w) /\ UNCHANGED <<household, person, item, status, trip, participant, line, next>>
    BY DEF DeleteKit, Quiet
  <1>3. TypeOK'
    BY <1>1, <1>2, QuietTyped DEF PInv, TypeOK
  <1>4. KeyedTables'
    BY <1>1, <1>2, KeyedSubset DEF PInv, KeyedTables
  <1>5. EverybodyAgrees'
    BY <1>2, ShrinkingAgrees
  <1>6. EverythingStaysHome'
    <2>1. \A r \in item' \cup kit' \cup status' \cup trip' : r.home \in household'
      BY <1>1, <1>2 DEF PInv, EverythingStaysHome
    <2>2. \A k : k # b.id => Stands(kit, kit', k)
      BY <1>1 DEF Stands
    <2>3. \A k : Stands(item, item', k) /\ Stands(status, status', k) /\ Stands(trip, trip', k)
      BY <1>2, StandsGrown
    <2> QED
      BY <1>1, <1>2, <2>1, <2>2, <2>3, EverythingKept
  <1> QED
    BY <1>3, <1>4, <1>5, <1>6 DEF PInv

LEMMA RetaggedLine ==
    ASSUME NEW l \in LineRow, NEW k \in Nat
    PROVE  /\ [l EXCEPT !.item = k] \in LineRow
           /\ [l EXCEPT !.item = k].item = k
           /\ [l EXCEPT !.item = k].trip = l.trip
           /\ [l EXCEPT !.item = k].person = l.person
           /\ [l EXCEPT !.item = k].status = l.status
  BY DEF LineRow

LEMMA RetaggedKitLine ==
    ASSUME NEW l \in KitLineRow, NEW k \in Nat
    PROVE  /\ [l EXCEPT !.item = k] \in KitLineRow
           /\ [l EXCEPT !.item = k].id = l.id
           /\ [l EXCEPT !.item = k].item = k
           /\ [l EXCEPT !.item = k].kit = l.kit
           /\ [l EXCEPT !.item = k].person = l.person
  BY DEF KitLineRow

\* The survivor takes over: it is in the household of the absorbed item.
LEMMA MergeItemKeeps ==
    ASSUME PInv, NEW w \in Worker, MergeItem(w)
    PROVE  PInv'
  <1>1. PICK i : i = req[w].row
    OBVIOUS
  <1>2. i \in ItemRow /\ i \in KnownItems
    BY <1>1, RequestRows, HeldBy DEF MergeItem, Holds, PInv, TypeOK, KnownItems, HeldItems
  <1>3. PICK v \in item :
          /\ v.home = i.home /\ v.id # i.id
          /\ kitline' = Retagged(i.id, v.id) /\ line' = merge_trip_lines(i.id, v.id)
    BY <1>1 DEF MergeItem, matching_item_type, Scoped
  <1>4. /\ Quiet(w) /\ item' = Without(item, i)
        /\ UNCHANGED <<household, person, kit, status, trip, participant, next>>
    BY <1>1 DEF MergeItem, Quiet
  <1>5. v.id \in Nat /\ v \in item'
    BY <1>3, <1>4 DEF Without, PInv, TypeOK, ItemRow
  <1>6. \A x \in item : x.id = i.id => x.home = v.home
    BY <1>2, <1>3 DEF PInv, EverybodyAgrees, Agree, KnownItems
  <1>7. \A l \in line' : \/ l \in line /\ l.item # i.id
                         \/ \E m \in line : m.item = i.id /\ l = [m EXCEPT !.item = v.id]
    BY <1>3 DEF merge_trip_lines
  <1>8. \A k \in kitline' : \/ k \in kitline /\ k.item # i.id
                            \/ \E m \in kitline : m.item = i.id /\ k = [m EXCEPT !.item = v.id]
    BY <1>3 DEF Retagged
  <1>9. TypeOK'
    <2>1. line' \subseteq LineRow
      BY <1>5, <1>7, RetaggedLine DEF PInv, TypeOK
    <2>2. kitline' \subseteq KitLineRow
      BY <1>5, <1>8, RetaggedKitLine DEF PInv, TypeOK
    <2> QED
      BY <1>4, <2>1, <2>2, QuietTyped DEF PInv, TypeOK, Without
  <1>10. KeyedTables'
    <2>1. Keyed(kitline', next["kitline"])
      <3>1. \A k \in kitline : k.id < next["kitline"] /\ \A j \in kitline : k.id = j.id => k = j
        BY DEF PInv, KeyedTables, Keyed
      <3>2. \A k \in kitline' : \E m \in kitline :
                /\ k.id = m.id
                /\ k = IF m.item = i.id THEN [m EXCEPT !.item = v.id] ELSE m
        <4>1. \A m \in kitline : [m EXCEPT !.item = v.id].id = m.id
          BY <1>5, RetaggedKitLine DEF PInv, TypeOK
        <4> QED
          BY <1>8, <4>1
      <3>3. ASSUME NEW j \in kitline', NEW k \in kitline', j.id = k.id PROVE j = k
        <4>1. PICK m \in kitline :
                j.id = m.id /\ j = IF m.item = i.id THEN [m EXCEPT !.item = v.id] ELSE m
          BY <3>2
        <4>2. PICK n \in kitline :
                k.id = n.id /\ k = IF n.item = i.id THEN [n EXCEPT !.item = v.id] ELSE n
          BY <3>2
        <4>3. m = n
          BY <3>1, <3>3, <4>1, <4>2
        <4> QED
          BY <4>1, <4>2, <4>3
      <3>4. \A k \in kitline' : k.id < next["kitline"]
        BY <3>1, <3>2
      <3> QED
        BY <3>3, <3>4 DEF Keyed
    <2> QED
      BY <1>4, <2>1, KeyedSubset DEF PInv, KeyedTables, Without
  <1>11. EverybodyAgrees'
    BY <1>4, ShrinkingAgrees DEF Without
  <1>12. EverythingStaysHome'
    <2>1. \A r \in item' \cup kit' \cup status' \cup trip' : r.home \in household'
      BY <1>4 DEF PInv, EverythingStaysHome, Without
    <2>2. \A k : k # i.id => Stands(item, item', k)
      BY <1>4 DEF Stands, Without
    <2>3. \A k : Stands(kit, kit', k) /\ Stands(status, status', k) /\ Stands(trip, trip', k)
      BY <1>4, StandsGrown
    <2>4. ASSUME NEW l, NEW m \in line, m.item = i.id, l = [m EXCEPT !.item = v.id]
          PROVE  LineStaysHome(l)'
      <3>1. PICK t \in trip, x \in item, s \in status :
              /\ m.trip = t.id /\ m.item = x.id /\ m.status = s.id
              /\ x.home = t.home /\ s.home = t.home /\ m.person \in Someone(t.home)
        BY DEF PInv, EverythingStaysHome, LineStaysHome
      <3>2. l.trip = m.trip /\ l.status = m.status /\ l.person = m.person /\ l.item = v.id
        BY <2>4, <1>5, RetaggedLine DEF PInv, TypeOK
      <3>3. v.home = t.home
        BY <3>1, <2>4, <1>6
      <3> QED
        BY <3>1, <3>2, <3>3, <1>4, <1>5 DEF LineStaysHome, Someone, Residents
    <2>5. ASSUME NEW k, NEW m \in kitline, m.item = i.id, k = [m EXCEPT !.item = v.id]
          PROVE  KitLineStaysHome(k)'
      <3>1. PICK b \in kit, x \in item :
              /\ m.kit = b.id /\ m.item = x.id /\ x.home = b.home /\ m.person \in Someone(b.home)
        BY DEF PInv, EverythingStaysHome, KitLineStaysHome
      <3>2. k.kit = m.kit /\ k.person = m.person /\ k.item = v.id
        BY <2>5, <1>5, RetaggedKitLine DEF PInv, TypeOK
      <3>3. v.home = b.home
        BY <3>1, <2>5, <1>6
      <3> QED
        BY <3>1, <3>2, <3>3, <1>4, <1>5 DEF KitLineStaysHome, Someone, Residents
    <2> QED
      BY <1>4, <1>7, <1>8, <2>1, <2>2, <2>3, <2>4, <2>5, EverythingKept
  <1> QED
    BY <1>9, <1>10, <1>11, <1>12 DEF PInv

--------------------------------------------------------------------------------
(***************************************************************************)
(* Statuses.                                                               *)
(***************************************************************************)
LEMMA AddStatusKeeps ==
    ASSUME PInv, NEW w \in Worker, AddStatus(w)
    PROVE  PInv'
  <1>1. PICK h : h = req[w].row
    OBVIOUS
  <1>2. h \in household /\ h \in Household
    BY <1>1 DEF AddStatus, PInv, TypeOK
  <1>3. PICK g \in Progress :
          status' = status \cup {[id |-> next["status"], home |-> h, progress |-> g,
                                  default |-> Holds(w, "add first status")]}
    BY <1>1 DEF AddStatus
  <1>4. PICK s : s = [id |-> next["status"], home |-> h, progress |-> g,
                      default |-> Holds(w, "add first status")]
    OBVIOUS
  <1>5. status' = status \cup {s}
    BY <1>3, <1>4
  <1>6. next["status"] \in Nat /\ \A x \in status : x.id \in Nat
    BY KnownIds DEF PInv, KnownStatuses
  <1>7. Holds(w, "add first status") \in BOOLEAN
    BY Zenon DEF Holds
  <1>8. s \in StatusRow
    BY <1>2, <1>4, <1>6, <1>7, Zenon DEF StatusRow
  <1>9. s.id = next["status"] /\ s.home = h
    BY <1>4, Zenon
  <1>10. /\ Quiet(w)
         /\ UNCHANGED <<household, person, item, kit, kitline, trip, participant, line>>
    BY DEF AddStatus, Quiet
  <1>11. /\ next' \in [TableNames -> Nat] /\ next'["status"] = next["status"] + 1
         /\ \A u \in TableNames \ {"status"} : next'[u] = next[u]
    BY KeysUsed DEF AddStatus, PInv, TableNames
  <1>12. TypeOK'
    BY <1>5, <1>8, <1>10, <1>11, QuietTyped DEF PInv, TypeOK
  <1>13. KeyedTables'
    <2>1. Keyed(status', next["status"] + 1)
      BY <1>5, <1>6, <1>9, KeyedAdded DEF PInv, KeyedTables
    <2> QED
      BY <1>10, <1>11, <2>1 DEF PInv, KeyedTables, TableNames
  <1>14. EverybodyAgrees'
    <2>1. KnownStatuses' \subseteq KnownStatuses \cup {s}
      BY <1>5, <1>10, StillHeld DEF KnownStatuses
    <2>2. Agree(KnownStatuses', next["status"] + 1)
      BY <1>6, <1>9, <2>1, KnownIds, AgreeAdded DEF PInv, EverybodyAgrees
    <2>3. KnownItems' \subseteq KnownItems /\ KnownTrips' \subseteq KnownTrips
      BY <1>10, StillHeld DEF KnownItems, KnownTrips
    <2>4. Agree(KnownItems', next["item"]) /\ Agree(KnownTrips', next["trip"])
      BY <2>3 DEF PInv, EverybodyAgrees, Agree
    <2> QED
      BY <1>10, <1>11, <2>2, <2>4, StillHeld DEF EverybodyAgrees, TableNames
  <1>15. EverythingStaysHome'
    <2>1. \A r \in item' \cup kit' \cup status' \cup trip' : r.home \in household'
      BY <1>2, <1>5, <1>9, <1>10 DEF PInv, EverythingStaysHome
    <2>2. \A k : /\ Stands(item, item', k) /\ Stands(kit, kit', k)
                 /\ Stands(status, status', k) /\ Stands(trip, trip', k)
      BY <1>5, <1>10, StandsGrown
    <2> QED
      BY <1>10, <2>1, <2>2, EverythingKept
  <1> QED
    BY <1>12, <1>13, <1>14, <1>15 DEF PInv

LEMMA EditedStatus ==
    ASSUME NEW s \in StatusRow, NEW g \in Progress
    PROVE  /\ [s EXCEPT !.progress = g] \in StatusRow
           /\ [s EXCEPT !.progress = g].id = s.id
           /\ [s EXCEPT !.progress = g].home = s.home
  BY Zenon DEF StatusRow

LEMMA DefaultedStatus ==
    ASSUME NEW s \in StatusRow, NEW d \in BOOLEAN
    PROVE  /\ [s EXCEPT !.default = d] \in StatusRow
           /\ [s EXCEPT !.default = d].id = s.id
           /\ [s EXCEPT !.default = d].home = s.home
  BY Zenon DEF StatusRow

\* The statuses are the same, whatever is written about them.
SameStatuses(S, T) ==
    /\ \A x \in S : \E y \in T : x.id = y.id /\ x.home = y.home
    /\ \A y \in T : \E x \in S : x.id = y.id /\ x.home = y.home

LEMMA SavedStatuses ==
    ASSUME NEW T, NEW e, \E y \in T : e.id = y.id, \A y \in T : e.id = y.id => e.home = y.home
    PROVE  SameStatuses(Saved(T, e), T)
  BY DEF SameStatuses, Saved

LEMMA StatusEditsKeep ==
    ASSUME PInv, NEW s \in status, NEW S \in StatusEdits(s)
    PROVE  S \subseteq StatusRow /\ Keyed(S, next["status"]) /\ SameStatuses(S, status)
  <1>1. PICK g \in Progress : \/ S = Saved(status, [s EXCEPT !.progress = g])
                              \/ S = make_default([s EXCEPT !.progress = g])
    BY DEF StatusEdits
  <1>2. PICK e : e = [s EXCEPT !.progress = g]
    OBVIOUS
  <1>3. status \subseteq StatusRow /\ Keyed(status, next["status"])
    BY DEF PInv, TypeOK, KeyedTables
  <1>4. e \in StatusRow /\ e.id = s.id /\ e.home = s.home
    BY <1>2, <1>3, EditedStatus
  <1>5. e.id < next["status"] /\ \A y \in status : e.id = y.id => e.home = y.home
    BY <1>3, <1>4 DEF Keyed
  <1>6. CASE S = Saved(status, e)
    <2>1. S \subseteq StatusRow
      BY <1>3, <1>4, <1>6 DEF Saved
    <2>2. Keyed(S, next["status"])
      BY <1>3, <1>5, <1>6, KeyedSaved
    <2> QED
      BY <1>4, <1>5, <1>6, <2>1, <2>2, SavedStatuses
  <1>7. CASE S = make_default(e)
    <2>1. PICK D : D = {IF t.home = e.home THEN [t EXCEPT !.default = FALSE] ELSE t : t \in status}
      OBVIOUS
    <2>2. PICK d : d = [e EXCEPT !.default = TRUE]
      OBVIOUS
    <2>3. S = Saved(D, d)
      BY <1>7, <2>1, <2>2 DEF make_default
    <2>4. d \in StatusRow /\ d.id = e.id /\ d.home = e.home
      BY <1>4, <2>2, DefaultedStatus
    <2>5. PICK f : f = [t \in status |->
                           IF t.home = e.home THEN [t EXCEPT !.default = FALSE] ELSE t]
      OBVIOUS
    <2>6. ASSUME NEW t \in status PROVE f[t] \in StatusRow /\ f[t].id = t.id /\ f[t].home = t.home
      <3>1. CASE t.home = e.home
        <4>1. f[t] = [t EXCEPT !.default = FALSE]
          BY <2>5, <3>1
        <4> QED
          BY <1>3, <4>1, DefaultedStatus
      <3>2. CASE t.home # e.home
        BY <1>3, <2>5, <3>2
      <3> QED
        BY <3>1, <3>2
    <2>7. D = {f[t] : t \in status}
      BY <2>1, <2>5
    <2>8. S \subseteq StatusRow
      BY <2>3, <2>4, <2>6, <2>7 DEF Saved
    <2>9. Keyed(D, next["status"])
      BY <1>3, <2>6, <2>7 DEF Keyed
    <2>10. Keyed(S, next["status"])
      BY <1>5, <2>3, <2>4, <2>9, KeyedSaved
    <2>11. SameStatuses(D, status)
      BY <2>6, <2>7 DEF SameStatuses
    <2>12. SameStatuses(Saved(D, d), D)
      <3>1. \E y \in D : d.id = y.id
        BY <1>4, <2>4, <2>6, <2>7
      <3>2. \A y \in D : d.id = y.id => d.home = y.home
        BY <1>5, <2>4, <2>6, <2>7
      <3> QED
        BY <3>1, <3>2, SavedStatuses
    <2> QED
      BY <2>3, <2>8, <2>10, <2>11, <2>12 DEF SameStatuses
  <1> QED
    BY <1>1, <1>2, <1>6, <1>7

LEMMA EditStatusKeeps ==
    ASSUME PInv, NEW w \in Worker, EditStatus(w)
    PROVE  PInv'
  <1>1. PICK s \in status : status' \in StatusEdits(s)
    BY DEF EditStatus, Scoped
  <1>2. status' \subseteq StatusRow /\ Keyed(status', next["status"])
        /\ SameStatuses(status', status)
    BY <1>1, StatusEditsKeep
  <1>3. /\ Quiet(w)
        /\ UNCHANGED <<household, person, item, kit, kitline, trip, participant, line, next>>
    BY DEF EditStatus, Quiet
  <1>4. TypeOK'
    BY <1>2, <1>3, QuietTyped DEF PInv, TypeOK
  <1>5. KeyedTables'
    BY <1>2, <1>3 DEF PInv, KeyedTables
  <1>6. EverybodyAgrees'
    <2>1. \A x \in KnownStatuses' : \E y \in KnownStatuses : x.id = y.id /\ x.home = y.home
      BY <1>2, <1>3, StillHeld DEF SameStatuses, KnownStatuses
    <2>2. Agree(KnownStatuses', next["status"])
      BY <2>1, AgreeKept DEF PInv, EverybodyAgrees
    <2>3. KnownItems' \subseteq KnownItems /\ KnownTrips' \subseteq KnownTrips
      BY <1>3, StillHeld DEF KnownItems, KnownTrips
    <2> QED
      BY <1>3, <2>2, <2>3, StillHeld DEF PInv, EverybodyAgrees, Agree
  <1>7. EverythingStaysHome'
    <2>1. \A r \in item' \cup kit' \cup status' \cup trip' : r.home \in household'
      BY <1>2, <1>3 DEF PInv, EverythingStaysHome, SameStatuses
    <2>2. \A k : Stands(status, status', k)
      BY <1>2 DEF SameStatuses, Stands
    <2>3. \A k : Stands(item, item', k) /\ Stands(kit, kit', k) /\ Stands(trip, trip', k)
      BY <1>3, StandsGrown
    <2> QED
      BY <1>3, <2>1, <2>2, <2>3, EverythingKept
  <1> QED
    BY <1>4, <1>5, <1>6, <1>7 DEF PInv

LEMMA MovedLine ==
    ASSUME NEW l \in LineRow, NEW k \in Nat
    PROVE  /\ [l EXCEPT !.status = k] \in LineRow
           /\ [l EXCEPT !.status = k].status = k
           /\ [l EXCEPT !.status = k].trip = l.trip
           /\ [l EXCEPT !.status = k].item = l.item
           /\ [l EXCEPT !.status = k].person = l.person
  BY DEF LineRow

\* The sibling takes over: it is in the household of the status that goes.
LEMMA DeleteStatusKeeps ==
    ASSUME PInv, NEW w \in Worker, DeleteStatus(w)
    PROVE  PInv'
  <1> DEFINE s == req[w].row
  <1>1. s \in StatusRow /\ s \in KnownStatuses
    BY RequestRows, HeldBy DEF DeleteStatus, Holds, PInv, TypeOK, KnownStatuses, HeldStatuses
  <1>2. \/ (\A l \in line : l.status # s.id) /\ UNCHANGED line
        \/ \E r \in Replacements(s) :
              /\ r.id # s.id
              /\ line' = {IF l.status = s.id THEN [l EXCEPT !.status = r.id] ELSE l : l \in line}
    BY Zenon DEF DeleteStatus
  <1>3. /\ Quiet(w) /\ status' = Without(status, s)
        /\ UNCHANGED <<household, person, item, kit, kitline, trip, participant, next>>
    BY DEF DeleteStatus, Quiet
  <1>4. \A l \in line' :
           \/ l \in line /\ l.status # s.id
           \/ \E r \in status, m \in line :
                 /\ r.id # s.id /\ r.home = s.home
                 /\ m.status = s.id /\ l = [m EXCEPT !.status = r.id]
    <2>1. CASE (\A l \in line : l.status # s.id) /\ UNCHANGED line
      BY <2>1
    <2>2. CASE \E r \in Replacements(s) :
                  /\ r.id # s.id
                  /\ line' = {IF l.status = s.id THEN [l EXCEPT !.status = r.id] ELSE l : l \in line}
      <3>1. PICK r \in Replacements(s) :
                  /\ r.id # s.id
                  /\ line' = {IF l.status = s.id THEN [l EXCEPT !.status = r.id] ELSE l : l \in line}
        BY <2>2
      <3>2. r \in status /\ r.home = s.home
        BY DEF Replacements, default_status, Scoped
      <3> QED
        BY <3>1, <3>2
    <2> QED
      BY <1>2, <2>1, <2>2
  <1>5. \A x \in status : x.id = s.id => x.home = s.home
    BY <1>1 DEF PInv, EverybodyAgrees, Agree, KnownStatuses
  <1>6. \A r \in status : r.id \in Nat /\ (r.id # s.id => r \in status')
    BY <1>3 DEF Without, PInv, TypeOK, StatusRow
  <1>7. TypeOK'
    <2>1. line' \subseteq LineRow
      BY <1>4, <1>6, MovedLine DEF PInv, TypeOK
    <2> QED
      BY <1>3, <2>1, QuietTyped DEF PInv, TypeOK, Without
  <1>8. KeyedTables'
    BY <1>3, KeyedSubset DEF PInv, KeyedTables, Without
  <1>9. EverybodyAgrees'
    BY <1>3, ShrinkingAgrees DEF Without
  <1>10. EverythingStaysHome'
    <2>1. \A r \in item' \cup kit' \cup status' \cup trip' : r.home \in household'
      BY <1>3 DEF PInv, EverythingStaysHome, Without
    <2>2. \A k : k # s.id => Stands(status, status', k)
      BY <1>3 DEF Stands, Without
    <2>3. \A k : Stands(kit, kit', k) /\ Stands(item, item', k) /\ Stands(trip, trip', k)
      BY <1>3, StandsGrown
    <2>4. ASSUME NEW l, NEW r \in status, NEW m \in line, r.id # s.id, r.home = s.home,
                 m.status = s.id, l = [m EXCEPT !.status = r.id]
          PROVE  LineStaysHome(l)'
      <3>1. PICK t \in trip, i \in item, x \in status :
              /\ m.trip = t.id /\ m.item = i.id /\ m.status = x.id
              /\ i.home = t.home /\ x.home = t.home /\ m.person \in Someone(t.home)
        BY DEF PInv, EverythingStaysHome, LineStaysHome
      <3>2. l.trip = m.trip /\ l.item = m.item /\ l.person = m.person /\ l.status = r.id
        BY <2>4, <1>6, MovedLine DEF PInv, TypeOK
      <3>3. r.home = t.home
        BY <3>1, <2>4, <1>5
      <3>4. r \in status' /\ UNCHANGED <<person, item, trip>>
        BY <2>4, <1>3, <1>6
      <3>5. m.person \in Someone(t.home)'
        BY <3>1, <3>4 DEF Someone, Residents
      <3> QED
        BY <3>1, <3>2, <3>3, <3>4, <3>5 DEF LineStaysHome
    <2> QED
      BY <1>3, <1>4, <2>1, <2>2, <2>3, <2>4, EverythingKept
  <1> QED
    BY <1>7, <1>8, <1>9, <1>10 DEF PInv

--------------------------------------------------------------------------------
(***************************************************************************)
(* Trips.                                                                  *)
(***************************************************************************)
LEMMA NewTripRow ==
    ASSUME TypeOK, NEW h \in household
    PROVE  NewTrip(h) \in TripRow /\ NewTrip(h).id = next["trip"] /\ NewTrip(h).home = h
  <1>1. h \in Household /\ next["trip"] \in Nat
    BY DEF TypeOK, TableNames
  <1> QED
    BY <1>1, Zenon DEF NewTrip, TripRow

LEMMA TripKeysUsed ==
    ASSUME TypeOK, NEW n \in Nat, UseTripKeys(n)
    PROVE  /\ next' \in [TableNames -> Nat]
           /\ next'["trip"] = next["trip"] + 1
           /\ \A u \in TableNames \ {"trip", "line"} : next'[u] = next[u]
  BY DEF TypeOK, UseTripKeys, TableNames

\* A trip is added, with its participants and lines.
LEMMA TripAddedKeeps ==
    ASSUME PInv, NEW w \in Worker, NEW n \in Nat, NEW h \in household, NEW P \in SUBSET Residents(h),
           Quiet(w), UNCHANGED <<household, person, item, kit, kitline, status>>, UseTripKeys(n),
           trip' = trip \cup {NewTrip(h)},
           participant' = participant \cup {<<next["trip"], p>> : p \in P},
           line' \subseteq LineRow,
           \A l \in line' : l \in line \/ LineStaysHome(l)'
    PROVE  PInv'
  <1>1. NewTrip(h) \in TripRow /\ NewTrip(h).id = next["trip"] /\ NewTrip(h).home = h
    BY NewTripRow DEF PInv
  <1>2. next["trip"] \in Nat /\ \A x \in trip : x.id \in Nat
    BY KnownIds DEF PInv, KnownTrips
  <1>3. /\ next' \in [TableNames -> Nat] /\ next'["trip"] = next["trip"] + 1
        /\ \A u \in TableNames \ {"trip", "line"} : next'[u] = next[u]
    BY TripKeysUsed DEF PInv
  <1>4. P \subseteq Person /\ P \subseteq person
    BY DEF Residents, PInv, TypeOK
  <1>5. TypeOK'
    <2>1. participant' \subseteq Nat \X Person
      BY <1>2, <1>4 DEF PInv, TypeOK
    <2> QED
      BY <1>1, <1>3, <2>1, QuietTyped DEF PInv, TypeOK
  <1>6. KeyedTables'
    <2>1. Keyed(trip', next["trip"] + 1)
      BY <1>1, <1>2, KeyedAdded DEF PInv, KeyedTables
    <2> QED
      BY <1>3, <2>1 DEF PInv, KeyedTables, TableNames
  <1>7. EverybodyAgrees'
    <2>1. KnownTrips' \subseteq KnownTrips \cup {NewTrip(h)}
      BY StillHeld DEF KnownTrips
    <2>2. Agree(KnownTrips', next["trip"] + 1)
      BY <1>1, <1>2, <2>1, KnownIds, AgreeAdded DEF PInv, EverybodyAgrees
    <2>3. KnownItems' \subseteq KnownItems /\ KnownStatuses' \subseteq KnownStatuses
      BY StillHeld DEF KnownItems, KnownStatuses
    <2>4. Agree(KnownItems', next["item"]) /\ Agree(KnownStatuses', next["status"])
      BY <2>3 DEF PInv, EverybodyAgrees, Agree
    <2> QED
      BY <1>3, <2>2, <2>4, StillHeld DEF EverybodyAgrees, TableNames
  <1>8. EverythingStaysHome'
    <2>1. \A r \in item' \cup kit' \cup status' \cup trip' : r.home \in household'
      BY <1>1 DEF PInv, EverythingStaysHome
    <2>2. \A k : /\ Stands(item, item', k) /\ Stands(kit, kit', k)
                 /\ Stands(status, status', k) /\ Stands(trip, trip', k)
      BY StandsGrown
    <2>3. ASSUME NEW p \in P, NEW e, e = <<next["trip"], p>> PROVE ParticipantStaysHome(e)'
      BY <1>1, <1>4, <2>3 DEF ParticipantStaysHome, Residents
    <2>4. \A e \in participant' : e \in participant \/ ParticipantStaysHome(e)'
      BY <2>3
    <2> QED
      BY <2>1, <2>2, <2>4, EverythingKept
  <1> QED
    BY <1>5, <1>6, <1>7, <1>8 DEF PInv

LEMMA AddEmptyTripKeeps ==
    ASSUME PInv, NEW w \in Worker, AddEmptyTrip(w)
    PROVE  PInv'
  <1>1. PICK h \in Serving : \E c \in TripChoices(h) :
          /\ trip' = trip \cup {NewTrip(h)}
          /\ participant' = participant \cup {<<next["trip"], p>> : p \in c.going}
    BY DEF AddEmptyTrip
  <1>2. PICK P \in SUBSET Residents(h) :
          /\ trip' = trip \cup {NewTrip(h)}
          /\ participant' = participant \cup {<<next["trip"], p>> : p \in P}
    BY <1>1 DEF TripChoices
  <1>3. h \in household /\ UseTripKeys(0) /\ Quiet(w)
        /\ UNCHANGED <<household, person, item, kit, kitline, status, line>>
    BY DEF AddEmptyTrip, Serving, Quiet
  <1>4. line' \subseteq LineRow /\ \A l \in line' : l \in line
    BY <1>3 DEF PInv, TypeOK
  <1> QED
    BY <1>2, <1>3, <1>4, TripAddedKeeps

LEMMA EditedTrip ==
    ASSUME NEW t \in TripRow, NEW a \in BOOLEAN
    PROVE  /\ [t EXCEPT !.archived = a] \in TripRow
           /\ [t EXCEPT !.archived = a].id = t.id
           /\ [t EXCEPT !.archived = a].home = t.home
  BY Zenon DEF TripRow

LEMMA EditTripKeeps ==
    ASSUME PInv, NEW w \in Worker, EditTrip(w)
    PROVE  PInv'
  <1> DEFINE held == req[w].row
  <1>1. held \in TripRow /\ held \in KnownTrips
    BY RequestRows, HeldBy DEF EditTrip, Holds, PInv, TypeOK, KnownTrips, HeldTrips
  <1>2. PICK a \in BOOLEAN : trip' = Saved(trip, [held EXCEPT !.archived = a])
    BY Zenon DEF EditTrip
  <1>3. PICK t : t = [held EXCEPT !.archived = a]
    OBVIOUS
  <1>4. t \in TripRow /\ t.id = held.id /\ t.home = held.home
    BY <1>1, <1>3, EditedTrip
  <1>5. trip' = Saved(trip, t)
    BY <1>2, <1>3
  <1>6. /\ Quiet(w) /\ t.home \in household
        /\ UNCHANGED <<household, person, item, kit, kitline, status, participant, line, next>>
    BY <1>4, Zenon DEF EditTrip, Quiet
  <1>7. TypeOK'
    BY <1>4, <1>5, <1>6, QuietTyped DEF PInv, TypeOK, Saved
  <1>8. KeyedTables'
    <2>1. t.id < next["trip"]
      BY <1>1, <1>4 DEF PInv, EverybodyAgrees, Agree
    <2> QED
      BY <1>5, <1>6, <2>1, KeyedSaved DEF PInv, KeyedTables
  <1>9. EverybodyAgrees'
    <2>1. \A x \in KnownTrips' : \E y \in KnownTrips : x.id = y.id /\ x.home = y.home
      BY <1>1, <1>4, <1>5, <1>6, StillHeld DEF Saved, KnownTrips
    <2>2. Agree(KnownTrips', next["trip"])
      BY <2>1, AgreeKept DEF PInv, EverybodyAgrees
    <2>3. KnownItems' \subseteq KnownItems /\ KnownStatuses' \subseteq KnownStatuses
      BY <1>6, StillHeld DEF KnownItems, KnownStatuses
    <2> QED
      BY <1>6, <2>2, <2>3, StillHeld DEF PInv, EverybodyAgrees, Agree
  <1>10. EverythingStaysHome'
    <2>1. \A r \in item' \cup kit' \cup status' \cup trip' : r.home \in household'
      BY <1>5, <1>6 DEF PInv, EverythingStaysHome, Saved
    <2>2. \A x \in trip : x.id = t.id => x.home = t.home
      BY <1>1, <1>4 DEF PInv, EverybodyAgrees, Agree, KnownTrips
    <2>3. \A k : Stands(trip, trip', k)
      BY <1>5, <2>2, StandsSaved
    <2>4. \A k : Stands(kit, kit', k) /\ Stands(status, status', k) /\ Stands(item, item', k)
      BY <1>6, StandsGrown
    <2> QED
      BY <1>6, <2>1, <2>3, <2>4, EverythingKept
  <1> QED
    BY <1>7, <1>8, <1>9, <1>10 DEF PInv

LEMMA DeleteTripKeeps ==
    ASSUME PInv, NEW w \in Worker, DeleteTrip(w)
    PROVE  PInv'
  <1>1. PICK t \in trip :
          /\ trip' = trip \ {t}
          /\ participant' = {e \in participant : e[1] # t.id}
          /\ line' = {l \in line : l.trip # t.id}
    BY DEF DeleteTrip, Scoped
  <1>2. Quiet(w) /\ UNCHANGED <<household, person, item, kit, kitline, status, next>>
    BY DEF DeleteTrip, Quiet
  <1>3. TypeOK'
    BY <1>1, <1>2, QuietTyped DEF PInv, TypeOK
  <1>4. KeyedTables'
    BY <1>1, <1>2, KeyedSubset DEF PInv, KeyedTables
  <1>5. EverybodyAgrees'
    BY <1>1, <1>2, ShrinkingAgrees
  <1>6. EverythingStaysHome'
    <2>1. \A r \in item' \cup kit' \cup status' \cup trip' : r.home \in household'
      BY <1>1, <1>2 DEF PInv, EverythingStaysHome
    <2>2. \A k : k # t.id => Stands(trip, trip', k)
      BY <1>1 DEF Stands
    <2>3. \A k : Stands(item, item', k) /\ Stands(kit, kit', k) /\ Stands(status, status', k)
      BY <1>2, StandsGrown
    <2> QED
      BY <1>1, <1>2, <2>1, <2>2, <2>3, EverythingKept
  <1> QED
    BY <1>3, <1>4, <1>5, <1>6 DEF PInv

--------------------------------------------------------------------------------
(***************************************************************************)
(* New lines of trips.                                                     *)
(***************************************************************************)
\* Rows of household h become lines of its trip with key k.
LEMMA NewLines ==
    ASSUME PInv, NEW R, NEW n, NEW keys \in KeysFor(R, n), NEW k \in Nat, NEW h,
           \A r \in R : r.person \in Someone(h) /\ \E i \in item : r.item = i.id /\ i.home = h,
           NEW s \in status, s.home = h,
           \E t \in trip' : t.id = k /\ t.home = h,
           UNCHANGED <<person, item, status>>
    PROVE  /\ LinesFrom(R, keys, k, s.id) \subseteq LineRow
           /\ \A l \in LinesFrom(R, keys, k, s.id) : LineStaysHome(l)'
  <1>1. ASSUME NEW l \in LinesFrom(R, keys, k, s.id)
        PROVE  l \in LineRow /\ LineStaysHome(l)'
    <2>1. PICK r \in R : l = [id |-> keys[r], trip |-> k, item |-> r.item,
                              person |-> r.person, status |-> s.id]
      BY DEF LinesFrom
    <2>2. l.trip = k /\ l.item = r.item /\ l.person = r.person /\ l.status = s.id
      BY <2>1
    <2>3. next["line"] \in Nat
      BY KnownIds DEF PInv
    <2>4. keys[r] \in next["line"] .. next["line"] + n - 1
      BY DEF KeysFor, Bijection, Injection, Surjection
    <2>5. keys[r] \in Nat
      BY <2>3, <2>4
    <2>6. PICK i \in item : r.item = i.id /\ i.home = h
      OBVIOUS
    <2>7. i.id \in Nat /\ s.id \in Nat /\ r.person \in For
      BY DEF PInv, TypeOK, ItemRow, StatusRow, For, Someone, Residents
    <2>8. l \in LineRow
      BY <2>1, <2>5, <2>6, <2>7 DEF LineRow
    <2>9. PICK t \in trip' : t.id = k /\ t.home = h
      OBVIOUS
    <2>10. l.person \in Someone(t.home)'
      BY <2>2, <2>9 DEF Someone, Residents
    <2>11. LineStaysHome(l)'
      BY <2>2, <2>6, <2>9, <2>10 DEF LineStaysHome
    <2> QED
      BY <2>8, <2>11
  <1> QED
    BY <1>1

\* What is packed of the kits of a household, for its people, is its own.
LEMMA PackedStaysHome ==
    ASSUME PInv, NEW h, NEW kits, NEW going, NEW packed, NEW k \in ToPack(kits, going, packed),
           kits \subseteq KeysOf(Scoped(kit, h)), going \subseteq Residents(h)
    PROVE  k.person \in Someone(h) /\ \E i \in item : k.item = i.id /\ i.home = h
  <1>1. k \in kitline /\ k.kit \in kits /\ k.person \in going \cup {None}
    BY DEF ToPack
  <1>2. PICK b \in kit, i \in item : k.kit = b.id /\ k.item = i.id /\ i.home = b.home
    BY <1>1 DEF PInv, EverythingStaysHome, KitLineStaysHome
  <1>3. PICK c \in kit : c.id = k.kit /\ c.home = h
    BY <1>1 DEF KeysOf, Scoped
  <1>4. b = c
    BY <1>2, <1>3 DEF PInv, KeyedTables, Keyed
  <1> QED
    BY <1>1, <1>2, <1>3, <1>4 DEF Someone

LEMMA GoingAreResidents ==
    ASSUME PInv, NEW t \in KnownTrips
    PROVE  Going(t.id) \subseteq Residents(t.home)
  <1>1. ASSUME NEW p \in Going(t.id) PROVE p \in Residents(t.home)
    <2>1. PICK e : e = <<t.id, p>>
      OBVIOUS
    <2>2. e \in participant
      BY <2>1 DEF Going
    <2>3. PICK u \in trip : e[1] = u.id /\ e[2] \in Residents(u.home)
      BY <2>2 DEF PInv, EverythingStaysHome, ParticipantStaysHome
    <2>4. u.home = t.home
      BY <2>1, <2>3 DEF PInv, EverybodyAgrees, Agree, KnownTrips
    <2> QED
      BY <2>1, <2>3, <2>4
  <1> QED
    BY <1>1

LEMMA AddTripKeeps ==
    ASSUME PInv, NEW w \in Worker, AddTrip(w)
    PROVE  PInv'
  <1>1. PICK h \in Serving :
          \E c \in TripChoices(h), s \in default_status(h), n \in 0 .. MaxKey["line"] :
              LET rows == ToPack(c.kits, c.going, {})
              IN  /\ trip' = trip \cup {NewTrip(h)}
                  /\ participant' = participant \cup {<<next["trip"], p>> : p \in c.going}
                  /\ \E keys \in KeysFor(rows, n) :
                        line' = line \cup LinesFrom(rows, keys, next["trip"], s.id)
                  /\ UseTripKeys(n)
    BY DEF AddTrip
  <1>2. PICK c \in TripChoices(h), s \in default_status(h), n \in 0 .. MaxKey["line"] :
              /\ trip' = trip \cup {NewTrip(h)}
              /\ participant' = participant \cup {<<next["trip"], p>> : p \in c.going}
              /\ \E keys \in KeysFor(ToPack(c.kits, c.going, {}), n) :
                    line' = line \cup LinesFrom(ToPack(c.kits, c.going, {}), keys,
                                                next["trip"], s.id)
              /\ UseTripKeys(n)
    BY <1>1
  <1>3. PICK R : R = ToPack(c.kits, c.going, {})
    OBVIOUS
  <1>4. PICK keys \in KeysFor(R, n) : line' = line \cup LinesFrom(R, keys, next["trip"], s.id)
    BY <1>2, <1>3
  <1>5. PICK k : k = next["trip"]
    OBVIOUS
  <1>6. /\ c.going \in SUBSET Residents(h) /\ c.kits \in SUBSET KeysOf(Scoped(kit, h))
        /\ h \in household /\ s \in status /\ s.home = h /\ k \in Nat /\ n \in Nat
    BY <1>5, KnownIds DEF TripChoices, Serving, default_status, Scoped, PInv
  <1>7. Quiet(w) /\ UNCHANGED <<household, person, item, kit, kitline, status>>
    BY DEF AddTrip, Quiet
  <1>8. \A r \in R : r.person \in Someone(h) /\ \E i \in item : r.item = i.id /\ i.home = h
    <2>1. ASSUME NEW r \in ToPack(c.kits, c.going, {})
          PROVE  r.person \in Someone(h) /\ \E i \in item : r.item = i.id /\ i.home = h
      <3>1. PICK K, G, P : K = c.kits /\ G = c.going /\ P = {}
        OBVIOUS
      <3>2. r \in ToPack(K, G, P)
        BY <2>1, <3>1
      <3>3. K \subseteq KeysOf(Scoped(kit, h)) /\ G \subseteq Residents(h)
        BY <1>6, <3>1
      <3> QED
        BY <3>2, <3>3, PackedStaysHome
    <2> QED
      BY <1>3, <2>1
  <1>9. \E t \in trip' : t.id = k /\ t.home = h
    BY <1>2, <1>5, <1>6, NewTripRow DEF PInv
  <1>10. /\ LinesFrom(R, keys, k, s.id) \subseteq LineRow
         /\ \A l \in LinesFrom(R, keys, k, s.id) : LineStaysHome(l)'
    BY <1>6, <1>7, <1>8, <1>9, NewLines
  <1>11. line' \subseteq LineRow /\ \A l \in line' : l \in line \/ LineStaysHome(l)'
    BY <1>4, <1>5, <1>10 DEF PInv, TypeOK
  <1> QED
    BY <1>2, <1>6, <1>7, <1>11, TripAddedKeeps

LEMMA DuplicateTripKeeps ==
    ASSUME PInv, NEW w \in Worker, DuplicateTrip(w)
    PROVE  PInv'
  <1> DEFINE source == req[w].row
  <1>1. source \in TripRow /\ source \in KnownTrips
    BY RequestRows, HeldBy DEF DuplicateTrip, Holds, PInv, TypeOK, KnownTrips, HeldTrips
  <1>2. PICK s \in default_status(source.home), n \in 0 .. MaxKey["line"] :
          /\ \E keys \in KeysFor({l \in line : l.trip = source.id}, n) :
                line' = line \cup LinesFrom({l \in line : l.trip = source.id}, keys,
                                            next["trip"], s.id)
          /\ UseTripKeys(n)
    BY DEF DuplicateTrip
  <1>3. PICK R : R = {l \in line : l.trip = source.id}
    OBVIOUS
  <1>4. PICK keys \in KeysFor(R, n) : line' = line \cup LinesFrom(R, keys, next["trip"], s.id)
    BY <1>2, <1>3
  <1>5. PICK k : k = next["trip"]
    OBVIOUS
  <1>6. PICK h \in household : h = source.home
    BY DEF DuplicateTrip
  <1>7. s \in status /\ s.home = h /\ k \in Nat /\ n \in Nat
    BY <1>5, <1>6, KnownIds DEF default_status, Scoped, PInv
  <1>8. /\ Quiet(w) /\ trip' = trip \cup {NewTrip(h)}
        /\ participant' = participant \cup {<<next["trip"], p>> : p \in Going(source.id)}
        /\ UNCHANGED <<household, person, item, kit, kitline, status>>
    BY <1>6 DEF DuplicateTrip, Quiet
  <1>9. \A r \in R : r.person \in Someone(h) /\ \E i \in item : r.item = i.id /\ i.home = h
    <2>1. ASSUME NEW r \in R PROVE r.person \in Someone(h) /\ \E i \in item : r.item = i.id /\ i.home = h
      <3>1. r \in line /\ r.trip = source.id
        BY <1>3
      <3>2. PICK t \in trip, i \in item : /\ r.trip = t.id /\ r.item = i.id /\ i.home = t.home
                                          /\ r.person \in Someone(t.home)
        BY <3>1 DEF PInv, EverythingStaysHome, LineStaysHome
      <3>3. t.home = h
        BY <1>1, <1>6, <3>1, <3>2 DEF PInv, EverybodyAgrees, Agree, KnownTrips
      <3> QED
        BY <3>2, <3>3
    <2> QED
      BY <2>1
  <1>10. \E t \in trip' : t.id = k /\ t.home = h
    BY <1>5, <1>8, NewTripRow DEF PInv
  <1>11. /\ LinesFrom(R, keys, k, s.id) \subseteq LineRow
         /\ \A l \in LinesFrom(R, keys, k, s.id) : LineStaysHome(l)'
    BY <1>7, <1>8, <1>9, <1>10, NewLines
  <1>12. line' \subseteq LineRow /\ \A l \in line' : l \in line \/ LineStaysHome(l)'
    BY <1>4, <1>5, <1>11 DEF PInv, TypeOK
  <1>13. Going(source.id) \in SUBSET Residents(h)
    BY <1>1, <1>6, GoingAreResidents
  <1> QED
    BY <1>2, <1>7, <1>8, <1>12, <1>13, TripAddedKeeps

\* Lines are added or written back, nothing else.
LEMMA LinesWrittenKeep ==
    ASSUME PInv, NEW w \in Worker, Quiet(w), SameReferences, UNCHANGED <<kitline, participant>>,
           next' \in [TableNames -> Nat], \A u \in TableNames \ {"line"} : next'[u] = next[u],
           line' \subseteq LineRow, \A l \in line' : l \in line \/ LineStaysHome(l)'
    PROVE  PInv'
  <1>1. TypeOK'
    BY QuietTyped DEF PInv, TypeOK, SameReferences
  <1>2. KeyedTables'
    BY DEF PInv, KeyedTables, TableNames, SameReferences
  <1>3. EverybodyAgrees'
    BY ShrinkingAgrees DEF TableNames, SameReferences
  <1>4. EverythingStaysHome'
    <2>1. \A r \in item' \cup kit' \cup status' \cup trip' : r.home \in household'
      BY DEF PInv, EverythingStaysHome, SameReferences
    <2>2. \A k : /\ Stands(item, item', k) /\ Stands(kit, kit', k)
                 /\ Stands(status, status', k) /\ Stands(trip, trip', k)
      BY StandsGrown DEF SameReferences
    <2> QED
      BY <2>1, <2>2, EverythingKept DEF SameReferences
  <1> QED
    BY <1>1, <1>2, <1>3, <1>4 DEF PInv

LEMMA PackKitKeeps ==
    ASSUME PInv, NEW w \in Worker, PackKit(w)
    PROVE  PInv'
  <1>1. PICK h \in Serving :
          \E t \in Scoped(trip, h), b \in Scoped(kit, h), s \in default_status(h),
             n \in 0 .. MaxKey["line"] :
              LET rows == ToPack({b.id}, Going(t.id), Packed(t.id))
              IN  /\ \E keys \in KeysFor(rows, n) :
                        line' = line \cup LinesFrom(rows, keys, t.id, s.id)
                  /\ UseKeys("line", n)
    BY DEF PackKit
  <1>2. PICK t \in Scoped(trip, h), b \in Scoped(kit, h), s \in default_status(h),
             n \in 0 .. MaxKey["line"] :
              LET rows == ToPack({b.id}, Going(t.id), Packed(t.id))
              IN  /\ \E keys \in KeysFor(rows, n) :
                        line' = line \cup LinesFrom(rows, keys, t.id, s.id)
                  /\ UseKeys("line", n)
    BY <1>1
  <1>3. PICK R : R = ToPack({b.id}, Going(t.id), Packed(t.id))
    OBVIOUS
  <1>4. PICK keys \in KeysFor(R, n) : line' = line \cup LinesFrom(R, keys, t.id, s.id)
    BY <1>2, <1>3
  <1>5. /\ t \in trip /\ t.home = h /\ t.id \in Nat /\ s \in status /\ s.home = h /\ n \in Nat
        /\ {b.id} \in SUBSET KeysOf(Scoped(kit, h)) /\ "line" \in TableNames
    BY DEF default_status, Scoped, KeysOf, PInv, TypeOK, TripRow, TableNames
  <1>6. Going(t.id) \in SUBSET Residents(h)
    BY <1>5, GoingAreResidents DEF KnownTrips
  <1>7. Quiet(w) /\ SameReferences /\ UNCHANGED <<kitline, participant>>
    BY DEF PackKit, Quiet, SameReferences
  <1>8. \A r \in R : r.person \in Someone(h) /\ \E i \in item : r.item = i.id /\ i.home = h
    <2>1. ASSUME NEW r \in ToPack({b.id}, Going(t.id), Packed(t.id))
          PROVE  r.person \in Someone(h) /\ \E i \in item : r.item = i.id /\ i.home = h
      <3>1. PICK K, G, P : K = {b.id} /\ G = Going(t.id) /\ P = Packed(t.id)
        OBVIOUS
      <3>2. r \in ToPack(K, G, P)
        BY <2>1, <3>1
      <3>3. K \subseteq KeysOf(Scoped(kit, h)) /\ G \subseteq Residents(h)
        BY <1>5, <1>6, <3>1
      <3> QED
        BY <3>2, <3>3, PackedStaysHome
    <2> QED
      BY <1>3, <2>1
  <1>9. \E u \in trip' : u.id = t.id /\ u.home = h
    BY <1>5, <1>7 DEF SameReferences
  <1>10. /\ LinesFrom(R, keys, t.id, s.id) \subseteq LineRow
         /\ \A l \in LinesFrom(R, keys, t.id, s.id) : LineStaysHome(l)'
    BY <1>5, <1>7, <1>8, <1>9, NewLines DEF SameReferences
  <1>11. line' \subseteq LineRow /\ \A l \in line' : l \in line \/ LineStaysHome(l)'
    BY <1>4, <1>10 DEF PInv, TypeOK
  <1>12. next' \in [TableNames -> Nat] /\ \A u \in TableNames \ {"line"} : next'[u] = next[u]
    BY <1>2, <1>5, KeysUsed DEF PInv
  <1> QED
    BY <1>7, <1>11, <1>12, LinesWrittenKeep

LEMMA AddLineKeeps ==
    ASSUME PInv, NEW w \in Worker, AddLine(w)
    PROVE  PInv'
  <1> DEFINE h == req[w].row.home
  <1>1. PICK t \in Scoped(trip, h), c \in LineChoices(h) :
          line' = line \cup {[id |-> next["line"], trip |-> t.id, item |-> c.item,
                              person |-> c.person, status |-> c.status]}
    BY DEF AddLine
  <1>2. PICK l : l = [id |-> next["line"], trip |-> t.id, item |-> c.item,
                      person |-> c.person, status |-> c.status]
    OBVIOUS
  <1>3. line' = line \cup {l}
    BY <1>1, <1>2
  <1>4. PICK i \in item, s \in status :
          c.item = i.id /\ i.home = h /\ c.status = s.id /\ s.home = h
    BY DEF LineChoices, KeysOf, Scoped
  <1>5. t \in trip /\ t.home = h /\ c.person \in Someone(h)
    BY DEF LineChoices, Scoped
  <1>6. /\ next["line"] \in Nat /\ t.id \in Nat /\ c.item \in Nat /\ c.status \in Nat
        /\ c.person \in For
    BY <1>4, <1>5, KnownIds
       DEF PInv, TypeOK, ItemRow, StatusRow, TripRow, For, Someone, Residents
  <1>7. l \in LineRow /\ LineStaysHome(l)
    <2>1. l \in LineRow
      BY <1>2, <1>6 DEF LineRow
    <2>2. l.trip = t.id /\ l.item = c.item /\ l.person = c.person /\ l.status = c.status
      BY <1>2
    <2> QED
      BY <1>4, <1>5, <2>1, <2>2 DEF LineStaysHome
  <1>8. Quiet(w) /\ SameReferences /\ UNCHANGED <<kitline, participant>>
    BY DEF AddLine, Quiet, SameReferences
  <1>9. LineStaysHome(l)'
    BY <1>7, <1>8 DEF SameReferences, LineStaysHome, Someone, Residents
  <1>10. line' \subseteq LineRow /\ \A m \in line' : m \in line \/ LineStaysHome(m)'
    BY <1>3, <1>7, <1>9 DEF PInv, TypeOK
  <1>11. next' \in [TableNames -> Nat] /\ \A u \in TableNames \ {"line"} : next'[u] = next[u]
    BY KeysUsed DEF AddLine, PInv, TableNames
  <1> QED
    BY <1>8, <1>10, <1>11, LinesWrittenKeep

LEMMA EditLineKeeps ==
    ASSUME PInv, NEW w \in Worker, EditLine(w)
    PROVE  PInv'
  <1> DEFINE held == req[w].row
  <1> DEFINE h == req[w].home
  <1>1. w \in Editing /\ held \in LineRow /\ h \in Household
    BY RequestRows DEF EditLine, Holds, PInv, TypeOK, Editing
  <1>2. PICK c \in LineColumns(w) :
          LET l == [held EXCEPT !.item = c.item, !.person = c.person, !.status = c.status]
          IN  LineRefersToRows(l) /\ line' = Saved(line, l)
    BY DEF EditLine
  <1>3. PICK x, j, p, k :
          x \in LineRow /\ x = held /\ j = c.item /\ p = c.person /\ k = c.status
    BY <1>1
  <1>4. PICK l : l = [x EXCEPT !.item = j, !.person = p, !.status = k]
    OBVIOUS
  <1>5. LineRefersToRows(l) /\ line' = Saved(line, l)
    BY <1>2, <1>3, <1>4, Zenon
  <1>6. l.trip = x.trip /\ l.item = j /\ l.person = p /\ l.status = k
    BY <1>4 DEF LineRow
  <1>7. PICK t \in trip, i \in item, s \in status :
          x.trip = t.id /\ j = i.id /\ k = s.id /\ p \in person \cup {None}
    BY <1>5, <1>6 DEF LineRefersToRows, Present, Assignable
  <1>8. l \in LineRow
    <2>1. j \in Nat /\ k \in Nat /\ p \in For
      BY <1>7 DEF PInv, TypeOK, ItemRow, StatusRow, For
    <2>2. x \in LineRow
      BY <1>3
    <2> QED
      BY <1>4, <2>1, <2>2 DEF LineRow
  <1>9. Quiet(w) /\ SameReferences /\ UNCHANGED <<kitline, participant, next>>
    BY DEF EditLine, Quiet, SameReferences
  <1>10. LineStaysHome(l)
    <2>1. t.home = h
      <3>1. [id |-> held.trip, home |-> h] \in KnownTrips
        BY <1>1 DEF KnownTrips, HeldTrips
      <3> QED
        BY <1>3, <1>7, <3>1 DEF PInv, EverybodyAgrees, Agree, KnownTrips
    <2>2. i.home = h
      <3>1. CASE j \in KeysOf(Scoped(item, h))
        BY <1>7, <3>1 DEF KeysOf, Scoped, PInv, KeyedTables, Keyed
      <3>2. CASE j = held.item
        <4>1. [id |-> held.item, home |-> h] \in KnownItems
          BY <1>1 DEF KnownItems, HeldItems
        <4> QED
          BY <1>7, <3>2, <4>1 DEF PInv, EverybodyAgrees, Agree, KnownItems
      <3> QED
        BY <1>3, <3>1, <3>2 DEF LineColumns
    <2>3. s.home = h
      <3>1. CASE k \in KeysOf(Scoped(status, h))
        BY <1>7, <3>1 DEF KeysOf, Scoped, PInv, KeyedTables, Keyed
      <3>2. CASE k = held.status
        <4>1. [id |-> held.status, home |-> h] \in KnownStatuses
          BY <1>1 DEF KnownStatuses, HeldStatuses
        <4> QED
          BY <1>7, <3>2, <4>1 DEF PInv, EverybodyAgrees, Agree, KnownStatuses
      <3> QED
        BY <1>3, <3>1, <3>2 DEF LineColumns
    <2>4. p \in Someone(h)
      <3>1. p # None /\ p = held.person => HomeOf[p] = h
        BY <1>1 DEF PInv, EverybodyAgrees, HeldPersonsAgree
      <3> QED
        BY <1>3, <1>7, <3>1 DEF LineColumns, Someone, Residents
    <2> QED
      BY <1>6, <1>7, <2>1, <2>2, <2>3, <2>4 DEF LineStaysHome
  <1>11. LineStaysHome(l)'
    BY <1>9, <1>10 DEF SameReferences, LineStaysHome, Someone, Residents
  <1>12. line' \subseteq LineRow /\ \A m \in line' : m \in line \/ LineStaysHome(m)'
    BY <1>5, <1>8, <1>11 DEF PInv, TypeOK, Saved
  <1>13. next' \in [TableNames -> Nat] /\ \A u \in TableNames \ {"line"} : next'[u] = next[u]
    BY <1>9 DEF PInv, TypeOK
  <1> QED
    BY <1>9, <1>12, <1>13, LinesWrittenKeep

--------------------------------------------------------------------------------
(***************************************************************************)
(* Persons and households that go.                                         *)
(***************************************************************************)
LEMMA EmptiedLine ==
    ASSUME NEW l \in LineRow
    PROVE  /\ [l EXCEPT !.person = None] \in LineRow
           /\ [l EXCEPT !.person = None].person = None
           /\ [l EXCEPT !.person = None].trip = l.trip
           /\ [l EXCEPT !.person = None].item = l.item
           /\ [l EXCEPT !.person = None].status = l.status
  BY DEF LineRow, For

\* What the lines of the persons of P become
LEMMA MadeCommonLines ==
    ASSUME TypeOK, NEW P, NEW l \in MadeCommon(P)
    PROVE  /\ l \in LineRow
           /\ \E m \in line :
                 /\ l.trip = m.trip /\ l.item = m.item /\ l.status = m.status
                 /\ l.person = None \/ (l.person = m.person /\ m.person \notin P)
  <1>1. PICK m \in line : l = IF m.person \in P THEN [m EXCEPT !.person = None] ELSE m
    BY DEF MadeCommon
  <1>2. CASE m.person \in P
    <2>1. l = [m EXCEPT !.person = None]
      BY <1>1, <1>2
    <2> QED
      BY <2>1, EmptiedLine DEF TypeOK
  <1>3. CASE m.person \notin P
    BY <1>1, <1>3 DEF TypeOK
  <1> QED
    BY <1>2, <1>3

LEMMA DeletePersonKeeps ==
    ASSUME PInv, NEW w \in Worker, DeletePerson(w)
    PROVE  PInv'
  <1>1. PICK p \in Person :
          /\ person' = person \ {p}
          /\ kitline' = {k \in kitline : k.person # p}
          /\ participant' = {e \in participant : e[2] # p}
          /\ line' = MadeCommon({p})
    BY DEF DeletePerson, Residents, PInv, TypeOK
  <1>2. Quiet(w) /\ UNCHANGED <<household, item, kit, status, trip, next>>
    BY DEF DeletePerson, Quiet
  <1>3. TypeOK'
    <2>1. line' \subseteq LineRow
      BY <1>1, MadeCommonLines DEF PInv
    <2> QED
      BY <1>1, <1>2, <2>1, QuietTyped DEF PInv, TypeOK
  <1>4. KeyedTables'
    BY <1>1, <1>2, KeyedSubset DEF PInv, KeyedTables
  <1>5. EverybodyAgrees'
    BY <1>2, ShrinkingAgrees
  <1>6. EverythingStaysHome'
    <2>1. \A r \in item' \cup kit' \cup status' \cup trip' : r.home \in household'
      BY <1>2 DEF PInv, EverythingStaysHome
    <2>2. \A k : /\ Stands(item, item', k) /\ Stands(kit, kit', k)
                 /\ Stands(status, status', k) /\ Stands(trip, trip', k)
      BY <1>2, StandsGrown
    <2>3. ASSUME NEW l \in line' PROVE LineStaysHome(l)'
      <3>1. PICK m \in line :
              /\ l.trip = m.trip /\ l.item = m.item /\ l.status = m.status
              /\ l.person = None \/ (l.person = m.person /\ m.person # p)
        BY <1>1, <2>3, MadeCommonLines DEF PInv
      <3>2. PICK t \in trip, i \in item, s \in status :
              /\ m.trip = t.id /\ m.item = i.id /\ m.status = s.id
              /\ i.home = t.home /\ s.home = t.home /\ m.person \in Someone(t.home)
        BY DEF PInv, EverythingStaysHome, LineStaysHome
      <3>3. l.person \in Someone(t.home)'
        BY <1>1, <3>1, <3>2 DEF Someone, Residents
      <3> QED
        BY <1>2, <3>1, <3>2, <3>3 DEF LineStaysHome
    <2> QED
      BY <1>1, <2>1, <2>2, <2>3, EverythingKept
  <1> QED
    BY <1>3, <1>4, <1>5, <1>6 DEF PInv

\* Whatever refers to a row that stays is of a household that stays.
LEMMA DeleteHouseholdKeeps ==
    ASSUME PInv, NEW w \in Worker, DeleteHousehold(w)
    PROVE  PInv'
  <1>1. PICK h \in Serving :
          /\ household' = household \ {h}
          /\ person' = person \ Residents(h)
          /\ item' = item \ Scoped(item, h) /\ kit' = kit \ Scoped(kit, h)
          /\ status' = status \ Scoped(status, h) /\ trip' = trip \ Scoped(trip, h)
          /\ kitline' = {k \in kitline : k.person \notin Residents(h)
                            /\ Present(kit', k.kit) /\ Present(item', k.item)}
          /\ participant' = {e \in participant : Present(trip', e[1]) /\ e[2] \notin Residents(h)}
          /\ line' = {l \in MadeCommon(Residents(h)) :
                            Present(trip', l.trip) /\ Present(item', l.item)}
    BY DEF DeleteHousehold
  <1>2. Quiet(w) /\ UNCHANGED next
    BY DEF DeleteHousehold, Quiet
  <1>3. /\ item' \subseteq item /\ kit' \subseteq kit /\ kitline' \subseteq kitline
        /\ status' \subseteq status /\ trip' \subseteq trip /\ participant' \subseteq participant
        /\ person' \subseteq person /\ household' \subseteq household
    BY <1>1
  <1>4. TypeOK'
    <2>1. line' \subseteq LineRow
      BY <1>1, MadeCommonLines DEF PInv
    <2> QED
      BY <1>2, <1>3, <2>1, QuietTyped DEF PInv, TypeOK
  <1>5. KeyedTables'
    BY <1>2, <1>3, KeyedSubset DEF PInv, KeyedTables
  <1>6. EverybodyAgrees'
    BY <1>2, <1>3, ShrinkingAgrees
  <1>7. EverythingStaysHome'
    <2>1. \A r : /\ r \in item' <=> r \in item /\ r.home # h
                 /\ r \in kit' <=> r \in kit /\ r.home # h
                 /\ r \in status' <=> r \in status /\ r.home # h
                 /\ r \in trip' <=> r \in trip /\ r.home # h
      BY <1>1 DEF Scoped
    <2>2. \A r \in item' \cup kit' \cup status' \cup trip' : r.home \in household'
      BY <1>1, <2>1 DEF PInv, EverythingStaysHome
    <2>3. \A g : g # h => Residents(g) \subseteq Residents(g)'
      BY <1>1 DEF Residents
    <2>4. ASSUME NEW k \in kitline' PROVE KitLineStaysHome(k)'
      <3>1. k \in kitline /\ Present(kit', k.kit)
        BY <1>1, <2>4
      <3>2. PICK b \in kit, i \in item :
              /\ k.kit = b.id /\ k.item = i.id /\ i.home = b.home /\ k.person \in Someone(b.home)
        BY <3>1 DEF PInv, EverythingStaysHome, KitLineStaysHome
      <3>3. b \in kit'
        BY <1>3, <3>1, <3>2 DEF Present, PInv, KeyedTables, Keyed
      <3>4. b.home # h /\ i \in item'
        BY <2>1, <3>2, <3>3
      <3>5. k.person \in Someone(b.home)'
        BY <2>3, <3>2, <3>4 DEF Someone
      <3> QED
        BY <3>2, <3>3, <3>4, <3>5 DEF KitLineStaysHome
    <2>5. ASSUME NEW l \in line' PROVE LineStaysHome(l)'
      <3>1. l \in MadeCommon(Residents(h)) /\ Present(trip', l.trip)
        BY <1>1, <2>5
      <3>2. PICK m \in line :
              /\ l.trip = m.trip /\ l.item = m.item /\ l.status = m.status
              /\ l.person = None \/ l.person = m.person
        BY <3>1, MadeCommonLines DEF PInv
      <3>3. PICK t \in trip, i \in item, s \in status :
              /\ m.trip = t.id /\ m.item = i.id /\ m.status = s.id
              /\ i.home = t.home /\ s.home = t.home /\ m.person \in Someone(t.home)
        BY DEF PInv, EverythingStaysHome, LineStaysHome
      <3>4. t \in trip'
        BY <1>3, <3>1, <3>2, <3>3 DEF Present, PInv, KeyedTables, Keyed
      <3>5. t.home # h /\ i \in item' /\ s \in status'
        BY <2>1, <3>3, <3>4
      <3>6. l.person \in Someone(t.home)'
        BY <2>3, <3>2, <3>3, <3>5 DEF Someone
      <3> QED
        BY <3>2, <3>3, <3>4, <3>5, <3>6 DEF LineStaysHome
    <2>6. ASSUME NEW e \in participant' PROVE ParticipantStaysHome(e)'
      <3>1. e \in participant /\ Present(trip', e[1])
        BY <1>1, <2>6
      <3>2. PICK t \in trip : e[1] = t.id /\ e[2] \in Residents(t.home)
        BY <3>1 DEF PInv, EverythingStaysHome, ParticipantStaysHome
      <3>3. t \in trip'
        BY <1>3, <3>1, <3>2 DEF Present, PInv, KeyedTables, Keyed
      <3>4. t.home # h
        BY <2>1, <3>3
      <3> QED
        BY <2>3, <3>2, <3>3, <3>4 DEF ParticipantStaysHome
    <2> QED
      BY <2>2, <2>4, <2>5, <2>6 DEF EverythingStaysHome
  <1> QED
    BY <1>4, <1>5, <1>6, <1>7 DEF PInv

--------------------------------------------------------------------------------
(***************************************************************************)
(* The invariant.                                                          *)
(***************************************************************************)
LEMMA PInvInit == Init => PInv
  <1> SUFFICES ASSUME Init PROVE PInv
    OBVIOUS
  <1>1. \A w \in Worker : req[w] = Idle
    BY DEF Init
  <1>2. TypeOK
    <2>1. Idle \in Request
      BY DEF Request
    <2> QED
      BY <2>1, StartAssumption, RowAssumption DEF Init, TypeOK
  <1>3. KeyedTables
    BY StartAssumption DEF Init, KeyedTables
  <1>4. EverybodyAgrees
    <2>1. \A w \in Worker : req[w].op = "none"
      BY <1>1 DEF Idle
    <2>2. Editing = {} /\ \A ops : "none" \notin ops => Held(ops) = {}
      BY <2>1 DEF Held, Editing
    <2>3. /\ Held({"edit item", "save item"}) = {} /\ Held({"delete status", "add line"}) = {}
          /\ Held({"edit trip", "duplicate trip"}) = {}
      BY <2>2
    <2>4. KnownItems = item /\ KnownStatuses = status /\ KnownTrips = trip /\ HeldPersonsAgree
      BY <2>2, <2>3 DEF KnownItems, KnownStatuses, KnownTrips, HeldItems, HeldStatuses,
                        HeldTrips, HeldPersonsAgree
    <2> QED
      BY <1>3, <2>4 DEF EverybodyAgrees, KeyedTables, Agree, Keyed
  <1>5. EverythingStaysHome
    <2>1. \A r \in item \cup kit \cup status \cup trip : r.home \in household
      BY <1>2 DEF TypeOK, ItemRow, KitRow, StatusRow, TripRow, Init
    <2>2. ASSUME NEW k \in kitline PROVE KitLineStaysHome(k)
      <3>1. PICK b \in kit, i \in item :
              /\ k.kit = b.id /\ k.item = i.id /\ i.home = b.home
              /\ k.person \in Person => HomeOf[k.person] = b.home
        BY StartAssumption DEF Init
      <3>2. k.person \in Person \cup {None}
        BY <1>2 DEF TypeOK, KitLineRow, For
      <3> QED
        BY <3>1, <3>2 DEF KitLineStaysHome, Someone, Residents, Init
    <2>3. ASSUME NEW e \in participant PROVE ParticipantStaysHome(e)
      <3>1. PICK t \in trip : e[1] = t.id /\ HomeOf[e[2]] = t.home
        BY StartAssumption DEF Init
      <3>2. e[2] \in Person
        BY <1>2 DEF TypeOK
      <3> QED
        BY <3>1, <3>2 DEF ParticipantStaysHome, Residents, Init
    <2> QED
      BY <2>1, <2>2, <2>3 DEF EverythingStaysHome, Init
  <1> QED
    BY <1>2, <1>3, <1>4, <1>5 DEF PInv

LEMMA PInvStep == PInv /\ [Next]_vars => PInv'
  <1> SUFFICES ASSUME PInv, [Next]_vars PROVE PInv'
    OBVIOUS
  <1>1. CASE UNCHANGED vars
    <2>1. UNCHANGED tables /\ UNCHANGED req
      BY <1>1 DEF vars
    <2>2. TypeOK'
      BY <2>1 DEF PInv, TypeOK, tables
    <2>3. EverybodyAgrees'
      <3>1. /\ HeldItems' = HeldItems /\ HeldStatuses' = HeldStatuses
            /\ HeldTrips' = HeldTrips /\ HeldPersonsAgree' = HeldPersonsAgree
        BY <2>1 DEF HeldItems, HeldStatuses, HeldTrips, HeldPersonsAgree, Held, Editing
      <3>2. KnownItems' = KnownItems /\ KnownStatuses' = KnownStatuses /\ KnownTrips' = KnownTrips
        BY <2>1, <3>1 DEF KnownItems, KnownStatuses, KnownTrips, tables
      <3> QED
        BY <2>1, <3>1, <3>2 DEF PInv, EverybodyAgrees, Agree, tables
    <2> QED
      BY <2>1, <2>2, <2>3, SameTables DEF PInv
  <1>2. ASSUME NEW w \in Worker, CatalogStep(w) PROVE PInv'
    BY <1>2, AddItemKeeps, LoadsKeep, RenameItemKeeps, SaveItemKeeps, MergeItemKeeps,
       DeleteItemKeeps, AddKitKeeps, DeleteKitKeeps, AddKitLineKeeps, EditKitLineKeeps,
       LeavesKeep, AddStatusKeeps, EditStatusKeeps, DeleteStatusKeeps
       DEF CatalogStep
  <1>3. ASSUME NEW w \in Worker, TripStep(w) PROVE PInv'
    BY <1>3, AddEmptyTripKeeps, AddTripKeeps, LoadsKeep, EditTripKeeps, DeleteTripKeeps,
       DuplicateTripKeeps, AddParticipantKeeps, LeavesKeep, AddLineKeeps, EditLineKeeps,
       PackKitKeeps, DeletePersonKeeps, DeleteHouseholdKeeps
       DEF TripStep
  <1>4. ASSUME NEW w \in Worker, Abandon(w) PROVE PInv'
    BY <1>4, AbandonKeeps
  <1> QED
    BY <1>1, <1>2, <1>3, <1>4 DEF Next, Serve

\* What a key stands for never changes household, whatever requests hold.
THEOREM HouseholdsStayApart == Spec => []PInv
  BY PInvInit, PInvStep, PTL DEF Spec

\* Every value of every table, and what each request holds, is of its type.
THEOREM PreparationTyped == Spec => []TypeOK
  <1>1. PInv => TypeOK
    BY DEF PInv
  <1> QED
    BY <1>1, HouseholdsStayApart, PTL

\* No line, kit line or participation is left dangling (catalog/models.py and
\* trips/models.py: CASCADE, RESTRICT, SET_NULL; item_types.py, statuses.py).
THEOREM LinesAlwaysReferToRows == Spec => []LinesReferToRows
  <1>1. PInv => LinesReferToRows
    <2> SUFFICES ASSUME PInv PROVE LinesReferToRows
      OBVIOUS
    <2>1. \A r \in item \cup kit \cup status \cup trip : r.home \in household
      BY DEF PInv, EverythingStaysHome
    <2>2. \A l \in line : LineRefersToRows(l)
      BY DEF PInv, EverythingStaysHome, LineStaysHome, LineRefersToRows, Present, Assignable,
             Someone, Residents
    <2>3. \A k \in kitline : Present(kit, k.kit) /\ Present(item, k.item) /\ Assignable(k.person)
      BY DEF PInv, EverythingStaysHome, KitLineStaysHome, Present, Assignable, Someone, Residents
    <2>4. \A e \in participant : Present(trip, e[1]) /\ e[2] \in person
      BY DEF PInv, EverythingStaysHome, ParticipantStaysHome, Present, Residents
    <2> QED
      BY <2>1, <2>2, <2>3, <2>4 DEF LinesReferToRows
  <1> QED
    BY <1>1, HouseholdsStayApart, PTL

\* check_integrity never lists a line or a participant of another household
\* (check_integrity.py:63-100).
THEOREM NothingEverReachesOutside == Spec => []NothingReachesOutside
  <1>1. PInv => NothingReachesOutside
    <2> SUFFICES ASSUME PInv PROVE NothingReachesOutside
      OBVIOUS
    <2>1. \A x, y : /\ x \in kit /\ y \in kit /\ x.id = y.id => x = y
                    /\ x \in item /\ y \in item /\ x.id = y.id => x = y
                    /\ x \in status /\ y \in status /\ x.id = y.id => x = y
                    /\ x \in trip /\ y \in trip /\ x.id = y.id => x = y
      BY DEF PInv, KeyedTables, Keyed
    <2>2. ASSUME NEW k \in kitline, NEW b \in kit, b.id = k.kit
          PROVE  ~ForeignKey(item, k.item, b.home) /\ ~ForeignPerson(k.person, b.home)
      BY <2>1, <2>2 DEF PInv, EverythingStaysHome, KitLineStaysHome, ForeignKey, ForeignPerson,
                        Someone, Residents
    <2>3. ASSUME NEW l \in line, NEW t \in trip, t.id = l.trip
          PROVE  /\ ~ForeignKey(item, l.item, t.home) /\ ~ForeignKey(status, l.status, t.home)
                 /\ ~ForeignPerson(l.person, t.home)
      BY <2>1, <2>3 DEF PInv, EverythingStaysHome, LineStaysHome, ForeignKey, ForeignPerson,
                        Someone, Residents
    <2>4. ASSUME NEW e \in participant, NEW t \in trip, t.id = e[1]
          PROVE  HomeOf[e[2]] = t.home
      BY <2>1, <2>4 DEF PInv, EverythingStaysHome, ParticipantStaysHome, Residents
    <2> QED
      BY <2>2, <2>3, <2>4
         DEF NothingReachesOutside, kit_lines_reaching_outside_their_household,
             trip_lines_reaching_outside_their_household, trip_participants_from_another_household
  <1> QED
    BY <1>1, HouseholdsStayApart, PTL

--------------------------------------------------------------------------------
(***************************************************************************)
(* Nothing is packed twice.                                                *)
(***************************************************************************)
\* New lines of a trip that does not pack their items for their persons
LEMMA UniqueWithMore ==
    ASSUME NEW L, NEW R, NEW keys, NEW k, NEW s, UniqueTripLine(L),
           \A q, r \in R : q.item = r.item /\ q.person = r.person => q = r,
           \A r \in R, l \in L : ~(l.trip = k /\ l.item = r.item /\ l.person = r.person)
    PROVE  UniqueTripLine(L \cup LinesFrom(R, keys, k, s))
  <1>1. \A l \in LinesFrom(R, keys, k, s) : \E r \in R :
          /\ l = [id |-> keys[r], trip |-> k, item |-> r.item, person |-> r.person, status |-> s]
          /\ l.trip = k /\ l.item = r.item /\ l.person = r.person
    BY DEF LinesFrom
  <1>2. ASSUME NEW l \in L, NEW m \in LinesFrom(R, keys, k, s),
               l.trip = m.trip, l.item = m.item, l.person = m.person
        PROVE  FALSE
    BY <1>1, <1>2
  <1>3. ASSUME NEW l \in LinesFrom(R, keys, k, s), NEW m \in LinesFrom(R, keys, k, s),
               l.item = m.item, l.person = m.person
        PROVE  l = m
    <2>1. PICK q \in R :
            /\ l = [id |-> keys[q], trip |-> k, item |-> q.item, person |-> q.person,
                    status |-> s]
            /\ l.item = q.item /\ l.person = q.person
      BY <1>1
    <2>2. PICK r \in R :
            /\ m = [id |-> keys[r], trip |-> k, item |-> r.item, person |-> r.person,
                    status |-> s]
            /\ m.item = r.item /\ m.person = r.person
      BY <1>1
    <2>3. q = r
      BY <1>3, <2>1, <2>2
    <2> QED
      BY <2>1, <2>2, <2>3
  <1> QED
    BY <1>2, <1>3 DEF UniqueTripLine

\* Of what kits repeat, one line is packed for each item and person.
LEMMA PackedOnce ==
    ASSUME PInv, NEW kits, NEW going, NEW packed,
           NEW j \in ToPack(kits, going, packed), NEW k \in ToPack(kits, going, packed),
           j.item = k.item, j.person = k.person
    PROVE  j = k
  <1>1. /\ j \in kitline /\ j.kit \in kits /\ k \in kitline /\ k.kit \in kits
        /\ \A i \in kitline :
              i.kit \in kits /\ i.item = j.item /\ i.person = j.person => j.id <= i.id
        /\ \A i \in kitline :
              i.kit \in kits /\ i.item = k.item /\ i.person = k.person => k.id <= i.id
    BY DEF ToPack
  <1>2. j.id \in Nat /\ k.id \in Nat
    BY <1>1 DEF PInv, TypeOK, KitLineRow
  <1>3. j.id <= k.id /\ k.id <= j.id
    BY <1>1
  <1> QED
    BY <1>1, <1>2, <1>3 DEF PInv, KeyedTables, Keyed

LEMMA NoLineOfANewTrip ==
    ASSUME PInv, NEW l \in line
    PROVE  l.trip # next["trip"]
  <1>1. PICK t \in trip : l.trip = t.id
    BY DEF PInv, EverythingStaysHome, LineStaysHome
  <1>2. t.id < next["trip"] /\ t.id \in Nat /\ next["trip"] \in Nat
    BY KnownIds DEF PInv, KeyedTables, Keyed, TypeOK, TripRow
  <1> QED
    BY <1>1, <1>2

LEMMA TripsPackOnce ==
    ASSUME PInv, NothingIsPackedTwice, NEW w \in Worker, AddTrip(w) \/ DuplicateTrip(w)
    PROVE  NothingIsPackedTwice'
  <1>1. PICK R, keys, k, s :
          /\ k = next["trip"] /\ line' = line \cup LinesFrom(R, keys, k, s)
          /\ \/ \E kits, going : R = ToPack(kits, going, {})
             \/ \E t : R = {l \in line : l.trip = t}
    <2>1. CASE AddTrip(w)
      <3>1. PICK c, s, n :
              \E keys \in KeysFor(ToPack(c.kits, c.going, {}), n) :
                  line' = line \cup LinesFrom(ToPack(c.kits, c.going, {}), keys, next["trip"], s.id)
        BY <2>1 DEF AddTrip
      <3>2. PICK kits, going, R, k, x :
              /\ kits = c.kits /\ going = c.going /\ R = ToPack(kits, going, {})
              /\ k = next["trip"] /\ x = s.id
        OBVIOUS
      <3>3. PICK keys : line' = line \cup LinesFrom(R, keys, k, x)
        BY <3>1, <3>2
      <3> QED
        BY <3>2, <3>3
    <2>2. CASE DuplicateTrip(w)
      <3>1. PICK s, n, t :
              \E keys \in KeysFor({l \in line : l.trip = t}, n) :
                  line' = line \cup LinesFrom({l \in line : l.trip = t}, keys, next["trip"], s.id)
        BY <2>2 DEF DuplicateTrip
      <3>2. PICK R, k, x : R = {l \in line : l.trip = t} /\ k = next["trip"] /\ x = s.id
        OBVIOUS
      <3>3. PICK keys : line' = line \cup LinesFrom(R, keys, k, x)
        BY <3>1, <3>2
      <3> QED
        BY <3>2, <3>3
    <2> QED
      BY <2>1, <2>2
  <1>2. \A q, r \in R : q.item = r.item /\ q.person = r.person => q = r
    <2>1. CASE \E kits, going : R = ToPack(kits, going, {})
      <3>1. PICK kits, going, packed : R = ToPack(kits, going, packed)
        BY <2>1
      <3> QED
        BY <3>1, PackedOnce
    <2>2. CASE \E t : R = {l \in line : l.trip = t}
      BY <2>2 DEF NothingIsPackedTwice, UniqueTripLine
    <2> QED
      BY <1>1, <2>1, <2>2
  <1>3. \A r \in R, l \in line : ~(l.trip = k /\ l.item = r.item /\ l.person = r.person)
    BY <1>1, NoLineOfANewTrip
  <1> QED
    BY <1>1, <1>2, <1>3, UniqueWithMore DEF NothingIsPackedTwice

\* What a kit brings to a trip
LEMMA PackKitInserts ==
    ASSUME NEW w \in Worker, PackKit(w)
    PROVE  \E h, t, b, s, n, R, keys :
              /\ t \in Scoped(trip, h) /\ b \in Scoped(kit, h)
              /\ R = ToPack({b.id}, Going(t.id), Packed(t.id)) /\ keys \in KeysFor(R, n)
              /\ line' = line \cup LinesFrom(R, keys, t.id, s.id)
  BY DEF PackKit

LEMMA KitsPackOnce ==
    ASSUME PInv, NothingIsPackedTwice, NEW w \in Worker, PackKit(w)
    PROVE  NothingIsPackedTwice'
  <1>1. PICK h, t, b, s, n, R, keys :
              /\ t \in Scoped(trip, h) /\ b \in Scoped(kit, h)
              /\ R = ToPack({b.id}, Going(t.id), Packed(t.id)) /\ keys \in KeysFor(R, n)
              /\ line' = line \cup LinesFrom(R, keys, t.id, s.id)
    BY PackKitInserts
  <1>2. PICK K, G, P, k, x :
          K = {b.id} /\ G = Going(t.id) /\ P = Packed(t.id) /\ k = t.id /\ x = s.id
    OBVIOUS
  <1>3. R = ToPack(K, G, P) /\ line' = line \cup LinesFrom(R, keys, k, x)
    BY <1>1, <1>2
  <1>4. \A q, r \in R : q.item = r.item /\ q.person = r.person => q = r
    BY <1>3, PackedOnce
  <1>5. \A r \in R, l \in line : ~(l.trip = k /\ l.item = r.item /\ l.person = r.person)
    BY <1>2, <1>3 DEF ToPack, Packed
  <1> QED
    BY <1>3, <1>4, <1>5, UniqueWithMore DEF NothingIsPackedTwice

LEMMA StatusesLeaveOnce ==
    ASSUME PInv, NothingIsPackedTwice, NEW w \in Worker, DeleteStatus(w)
    PROVE  NothingIsPackedTwice'
  <1> DEFINE s == req[w].row
  <1>1. \/ (\A k \in line : k.status # s.id) /\ UNCHANGED line
        \/ \E r \in Replacements(s) :
              /\ r.id # s.id
              /\ line' = {IF k.status = s.id THEN [k EXCEPT !.status = r.id] ELSE k : k \in line}
    BY Zenon DEF DeleteStatus
  <1>2. CASE UNCHANGED line
    BY <1>2 DEF NothingIsPackedTwice
  <1>3. CASE \E r \in Replacements(s) :
              /\ r.id # s.id
              /\ line' = {IF k.status = s.id THEN [k EXCEPT !.status = r.id] ELSE k : k \in line}
    <2>1. PICK r \in Replacements(s) :
              /\ r.id # s.id
              /\ line' = {IF k.status = s.id THEN [k EXCEPT !.status = r.id] ELSE k : k \in line}
      BY <1>3
    <2>2. \A l \in line : /\ [l EXCEPT !.status = r.id].trip = l.trip
                          /\ [l EXCEPT !.status = r.id].item = l.item
                          /\ [l EXCEPT !.status = r.id].person = l.person
      BY DEF PInv, TypeOK, LineRow
    <2>3. \A m \in line' : \E l \in line :
            /\ m = IF l.status = s.id THEN [l EXCEPT !.status = r.id] ELSE l
            /\ m.trip = l.trip /\ m.item = l.item /\ m.person = l.person
      BY <2>1, <2>2
    <2> QED
      BY <2>3 DEF NothingIsPackedTwice, UniqueTripLine
  <1> QED
    BY <1>1, <1>2, <1>3

\* The survivor gets what it did not have for the same trip and person.
LEMMA MergesPackOnce ==
    ASSUME PInv, NothingIsPackedTwice, NEW w \in Worker, MergeItem(w)
    PROVE  NothingIsPackedTwice'
  <1>1. PICK i : i = req[w].row
    OBVIOUS
  <1>2. PICK v \in item : v.id # i.id /\ line' = merge_trip_lines(i.id, v.id)
    BY <1>1 DEF MergeItem, matching_item_type, Scoped
  <1>3. v.id \in Nat
    BY DEF PInv, TypeOK, ItemRow
  <1>4. ASSUME NEW l \in line'
        PROVE  \/ l \in line /\ l.item # i.id
               \/ \E m \in line :
                     /\ m.item = i.id /\ l = [m EXCEPT !.item = v.id]
                     /\ l.trip = m.trip /\ l.person = m.person /\ l.item = v.id
                     /\ \A k \in line : k.item = v.id => ~(k.trip = m.trip /\ k.person = m.person)
    <2>1. CASE l \in line /\ l.item # i.id
      BY <2>1
    <2>2. CASE ~(l \in line /\ l.item # i.id)
      <3>1. PICK m \in line :
              /\ m.item = i.id /\ l = [m EXCEPT !.item = v.id]
              /\ <<m.trip, m.person>> \notin {<<k.trip, k.person>> : k \in {j \in line : j.item = v.id}}
        BY <1>2, <2>2 DEF merge_trip_lines
      <3>2. l.trip = m.trip /\ l.person = m.person /\ l.item = v.id
        BY <1>3, <3>1, RetaggedLine DEF PInv, TypeOK
      <3>3. \A k \in line : k.item = v.id => ~(k.trip = m.trip /\ k.person = m.person)
        BY <3>1
      <3> QED
        BY <3>1, <3>2, <3>3
    <2> QED
      BY <2>1, <2>2
  <1> QED
    BY <1>4 DEF NothingIsPackedTwice, UniqueTripLine

LEMMA FewerLines ==
    ASSUME NEW L, NEW M, UniqueTripLine(L), M \subseteq L
    PROVE  UniqueTripLine(M)
  BY DEF UniqueTripLine

LEMMA PackedOnceStep ==
    ASSUME PInv, NothingIsPackedTwice, [Next]_vars
    PROVE  NothingIsPackedTwice'
  <1>1. CASE UNCHANGED vars
    BY <1>1 DEF vars, tables, NothingIsPackedTwice
  <1>2. ASSUME NEW w \in Worker, CatalogStep(w) PROVE NothingIsPackedTwice'
    <2>1. DeleteItem(w) => line' \subseteq line
      BY DEF DeleteItem
    <2>2. AddItem(w) \/ RenameItem(w) \/ SaveItem(w) \/ AddKit(w) \/ DeleteKit(w)
            \/ AddKitLine(w) \/ EditKitLine(w) \/ DeleteKitLine(w) \/ AddStatus(w)
            \/ EditStatus(w) => line' = line
      BY DEF AddItem, RenameItem, SaveItem, AddKit, DeleteKit, AddKitLine, EditKitLine,
             DeleteKitLine, AddStatus, EditStatus
    <2>3. LoadItem(w) \/ LookForDefault(w) \/ LoadStatus(w) => line' = line
      BY DEF LoadItem, LookForDefault, LoadStatus, Load, tables
    <2> QED
      BY <1>2, <2>1, <2>2, <2>3, MergesPackOnce, StatusesLeaveOnce, FewerLines
         DEF CatalogStep, NothingIsPackedTwice
  <1>3. ASSUME NEW w \in Worker, TripStep(w) PROVE NothingIsPackedTwice'
    <2>1. AddEmptyTrip(w) \/ EditTrip(w) \/ AddParticipant(w) \/ RemoveParticipant(w)
            => line' = line
      BY DEF AddEmptyTrip, EditTrip, AddParticipant, RemoveParticipant
    <2>2. LoadTrip(w) \/ LoadLineStatus(w) \/ LoadLine(w) => line' = line
      BY DEF LoadTrip, LoadLineStatus, LoadLine, Load, tables
    <2>3. DeleteTrip(w) \/ DeleteLine(w) => line' \subseteq line
      BY DEF DeleteTrip, DeleteLine
    <2>4. AddLine(w) \/ EditLine(w) \/ DeletePerson(w) => UniqueTripLine(line')
      BY DEF AddLine, EditLine, DeletePerson
    <2>5. CASE DeleteHousehold(w)
      <3>1. PICK L : UniqueTripLine(L) /\ line' \subseteq L
        BY <2>5 DEF DeleteHousehold
      <3> QED
        BY <3>1, FewerLines DEF NothingIsPackedTwice
    <2>6. NothingIsPackedTwice' <=> UniqueTripLine(line')
      BY DEF NothingIsPackedTwice
    <2>7. line' \subseteq line => NothingIsPackedTwice'
      BY <2>6, FewerLines DEF NothingIsPackedTwice
    <2> QED
      BY <1>3, <2>1, <2>2, <2>3, <2>4, <2>5, <2>6, <2>7, TripsPackOnce, KitsPackOnce
         DEF TripStep
  <1>4. ASSUME NEW w \in Worker, Abandon(w) PROVE NothingIsPackedTwice'
    BY <1>4 DEF Abandon, tables, NothingIsPackedTwice
  <1> QED
    BY <1>1, <1>2, <1>3, <1>4 DEF Next, Serve

\* No trip ever packs a thing twice for the same person, nor twice in common,
\* however packing, duplicating, merging and editing interleave.
THEOREM NothingIsEverPackedTwice == Spec => []NothingIsPackedTwice
  <1>1. Init => NothingIsPackedTwice
    BY DEF Init, NothingIsPackedTwice, UniqueTripLine
  <1> QED
    BY <1>1, PackedOnceStep, HouseholdsStayApart, PTL DEF Spec

\* What the kit asks for is packed: of the lines that ask for the same, the
\* first is inserted, unless the trip has it.
LEMMA AskedIsPacked ==
    ASSUME PInv, NEW b, NEW t, NEW k \in kitline, k.kit = b,
           k.person \in Going(t) \cup {None}, <<k.item, k.person>> \notin Packed(t)
    PROVE  \E r \in ToPack({b}, Going(t), Packed(t)) : r.item = k.item /\ r.person = k.person
  <1> DEFINE T == {j.id : j \in {i \in kitline :
                      i.kit \in {b} /\ i.item = k.item /\ i.person = k.person}}
  <1>1. T \in SUBSET Nat /\ k.id \in T
    BY DEF PInv, TypeOK, KitLineRow
  <1>2. PICK first \in T : \A u \in T : first <= u
    BY <1>1, EarliestExists
  <1>3. PICK r \in kitline :
          r.id = first /\ r.kit \in {b} /\ r.item = k.item /\ r.person = k.person
    BY <1>2
  <1>4. \A j \in kitline : j.kit \in {b} /\ j.item = r.item /\ j.person = r.person => r.id <= j.id
    BY <1>2, <1>3
  <1>5. r \in ToPack({b}, Going(t), Packed(t))
    BY <1>3, <1>4 DEF ToPack
  <1> QED
    BY <1>3, <1>5

\* Packing a kit adds what the kit asks for, and nothing else.
THEOREM KitsAreAlwaysPackedWhole == Spec => KitsArePackedWhole
  <1> DEFINE Whole(w) ==
        /\ line \subseteq line'
        /\ \E t \in trip, b \in kit :
              /\ t.home = b.home /\ Packed(t.id)' = Packed(t.id) \cup AskedFor(b.id, t.id)
              /\ \A l \in line' \ line : l.trip = t.id
  <1>1. ASSUME PInv, NEW w \in Worker, PackKit(w) PROVE Whole(w)
    <2>1. PICK h, t, b, s, n, R, keys :
              /\ t \in Scoped(trip, h) /\ b \in Scoped(kit, h)
              /\ R = ToPack({b.id}, Going(t.id), Packed(t.id)) /\ keys \in KeysFor(R, n)
              /\ line' = line \cup LinesFrom(R, keys, t.id, s.id)
      BY <1>1, PackKitInserts
    <2>2. t \in trip /\ b \in kit /\ t.home = b.home
      BY <2>1 DEF Scoped
    <2>3. PICK k, x, y : k = t.id /\ x = s.id /\ y = b.id
      OBVIOUS
    <2>4. /\ \A l \in LinesFrom(R, keys, k, x) : \E r \in R :
                l.trip = k /\ l.item = r.item /\ l.person = r.person
          /\ \A r \in R : \E l \in LinesFrom(R, keys, k, x) :
                l.trip = k /\ l.item = r.item /\ l.person = r.person
      <3>1. ASSUME NEW l \in LinesFrom(R, keys, k, x)
            PROVE  \E r \in R : l.trip = k /\ l.item = r.item /\ l.person = r.person
        BY DEF LinesFrom
      <3>2. ASSUME NEW r \in R
            PROVE  \E l \in LinesFrom(R, keys, k, x) :
                      l.trip = k /\ l.item = r.item /\ l.person = r.person
        <4>1. PICK l : l = [id |-> keys[r], trip |-> k, item |-> r.item, person |-> r.person,
                            status |-> x]
          OBVIOUS
        <4>2. l \in LinesFrom(R, keys, k, x)
          BY <4>1 DEF LinesFrom
        <4> QED
          BY <4>1, <4>2
      <3> QED
        BY <3>1, <3>2
    <2>5. line' = line \cup LinesFrom(R, keys, k, x) /\ R = ToPack({y}, Going(k), Packed(k))
      BY <2>1, <2>3
    <2>6. \A l \in line' \ line : l.trip = k
      BY <2>4, <2>5
    <2>7. Packed(k)' = {<<l.item, l.person>> : l \in {m \in line' : m.trip = k}}
      BY DEF Packed
    <2>8. ASSUME NEW e \in Packed(k)' PROVE e \in Packed(k) \cup AskedFor(y, k)
      <3>1. PICK l \in line' : l.trip = k /\ e = <<l.item, l.person>>
        BY <2>7, <2>8
      <3>2. CASE l \in line
        BY <3>1, <3>2 DEF Packed
      <3>3. CASE l \notin line
        <4>1. PICK r \in R : l.item = r.item /\ l.person = r.person
          BY <2>4, <2>5, <3>3
        <4>2. r \in kitline /\ r.kit = y /\ r.person \in Going(k) \cup {None}
          BY <2>5, <4>1 DEF ToPack
        <4> QED
          BY <3>1, <4>1, <4>2 DEF AskedFor
      <3> QED
        BY <3>2, <3>3
    <2>9. ASSUME NEW e \in Packed(k) \cup AskedFor(y, k) PROVE e \in Packed(k)'
      <3>1. CASE e \in Packed(k)
        BY <2>5, <3>1 DEF Packed
      <3>2. CASE e \notin Packed(k)
        <4>1. PICK j \in kitline :
                j.kit = y /\ j.person \in Going(k) \cup {None} /\ e = <<j.item, j.person>>
          BY <2>9, <3>2 DEF AskedFor
        <4>2. PICK r \in R : r.item = j.item /\ r.person = j.person
          BY <1>1, <2>5, <3>2, <4>1, AskedIsPacked
        <4>3. PICK l \in line' : l.trip = k /\ l.item = r.item /\ l.person = r.person
          BY <2>4, <2>5
        <4> QED
          BY <2>7, <4>1, <4>2, <4>3
      <3> QED
        BY <3>1, <3>2
    <2>10. Packed(k)' = Packed(k) \cup AskedFor(y, k)
      BY <2>8, <2>9
    <2> QED
      BY <2>2, <2>3, <2>5, <2>6, <2>10
  <1>2. PInv /\ [Next]_vars => [\A w \in Worker : PackKit(w) =>
          /\ line \subseteq line'
          /\ \E t \in trip, b \in kit :
                /\ t.home = b.home /\ Packed(t.id)' = Packed(t.id) \cup AskedFor(b.id, t.id)
                /\ \A l \in line' \ line : l.trip = t.id]_vars
    BY <1>1
  <1> QED
    BY <1>2, HouseholdsStayApart, PTL DEF Spec, KitsArePackedWhole

\* Merging leaves the survivor where either item was, for whoever had it
\* (merge_trip_lines, item_types.py:17-25).
THEOREM MergingIsLossless == Spec => MergingKeepsWhatIsPacked
  <1> DEFINE Kept(w) ==
        \E survivor \in item' :
           WhereAndForWhom(line', survivor.id) =
               WhereAndForWhom(line, survivor.id) \cup WhereAndForWhom(line, req[w].row.id)
  <1>1. ASSUME PInv, NEW w \in Worker, MergeItem(w) PROVE Kept(w)
    <2> DEFINE i == req[w].row
    <2>1. PICK v \in item : v.id # i.id /\ line' = merge_trip_lines(i.id, v.id)
      BY <1>1 DEF MergeItem, matching_item_type, Scoped
    <2>2. v \in item' /\ v.id \in Nat
      BY <1>1, <2>1 DEF MergeItem, Without, PInv, TypeOK, ItemRow
    <2>3. PICK a, b : a = i.id /\ b = v.id
      OBVIOUS
    <2>4. \A l \in line : l \in LineRow
      BY <1>1 DEF PInv, TypeOK
    <2>5. PICK f : f = [l \in line |-> [l EXCEPT !.item = b]]
      OBVIOUS
    <2>6. \A l \in line : f[l].item = b /\ f[l].trip = l.trip /\ f[l].person = l.person
      <3>1. \A l \in line : f[l] = [l EXCEPT !.item = b]
        BY <2>5
      <3>2. b \in Nat
        BY <2>2, <2>3
      <3>3. \A l \in line : /\ [l EXCEPT !.item = b].item = b
                            /\ [l EXCEPT !.item = b].trip = l.trip
                            /\ [l EXCEPT !.item = b].person = l.person
        BY <2>4, <3>2, RetaggedLine
      <3> QED
        BY <3>1, <3>3
    <2>7. \A l : l \in line' <=>
            \/ l \in line /\ l.item # a
            \/ \E m \in line : /\ m.item = a /\ l = f[m]
                               /\ \A n \in line : n.item = b
                                     => <<n.trip, n.person>> # <<m.trip, m.person>>
      BY <2>1, <2>3, <2>5 DEF merge_trip_lines
    <2>8. ASSUME NEW x PROVE x \in WhereAndForWhom(line', b) <=>
                               x \in WhereAndForWhom(line, b) \cup WhereAndForWhom(line, a)
      BY <2>1, <2>3, <2>6, <2>7 DEF WhereAndForWhom
    <2>9. WhereAndForWhom(line', b) = WhereAndForWhom(line, b) \cup WhereAndForWhom(line, a)
      BY <2>8
    <2> QED
      BY <2>2, <2>3, <2>9
  <1>2. PInv /\ [Next]_vars => [\A w \in Worker : MergeItem(w) => Kept(w)]_vars
    BY <1>1
  <1> QED
    BY <1>2, HouseholdsStayApart, PTL DEF Spec, MergingKeepsWhatIsPacked

LEMMA CatalogStepsKeepPersons ==
    ASSUME NEW w, CatalogStep(w)
    PROVE  person' = person
  <1>1. LoadItem(w) \/ LookForDefault(w) \/ LoadStatus(w) => person' = person
    BY DEF LoadItem, LookForDefault, LoadStatus, Load, tables
  <1>2. AddItem(w) \/ RenameItem(w) \/ SaveItem(w) \/ MergeItem(w) \/ DeleteItem(w)
          => person' = person
    BY DEF AddItem, RenameItem, SaveItem, MergeItem, DeleteItem
  <1>3. AddKit(w) \/ DeleteKit(w) \/ AddKitLine(w) \/ EditKitLine(w) \/ DeleteKitLine(w)
          => person' = person
    BY DEF AddKit, DeleteKit, AddKitLine, EditKitLine, DeleteKitLine
  <1>4. AddStatus(w) \/ EditStatus(w) \/ DeleteStatus(w) => person' = person
    BY DEF AddStatus, EditStatus, DeleteStatus
  <1> QED
    BY <1>1, <1>2, <1>3, <1>4 DEF CatalogStep

LEMMA TripStepsKeepPersons ==
    ASSUME NEW w, TripStep(w), ~DeletePerson(w), ~DeleteHousehold(w)
    PROVE  person' = person
  <1>1. LoadTrip(w) \/ LoadLineStatus(w) \/ LoadLine(w) => person' = person
    BY DEF LoadTrip, LoadLineStatus, LoadLine, Load, tables
  <1>2. AddEmptyTrip(w) \/ AddTrip(w) \/ EditTrip(w) \/ DeleteTrip(w) \/ DuplicateTrip(w)
          => person' = person
    BY DEF AddEmptyTrip, AddTrip, EditTrip, DeleteTrip, DuplicateTrip
  <1>3. AddParticipant(w) \/ RemoveParticipant(w) => person' = person
    BY DEF AddParticipant, RemoveParticipant
  <1>4. AddLine(w) \/ EditLine(w) \/ DeleteLine(w) \/ PackKit(w) => person' = person
    BY DEF AddLine, EditLine, DeleteLine, PackKit
  <1> QED
    BY <1>1, <1>2, <1>3, <1>4 DEF TripStep

\* SET_NULL on the person of a line: whoever is deleted, nothing that is packed
\* goes with them (TripItem.person, models.py:73-80).
THEOREM LinesOutlivePersons == Spec => DeletingAPersonKeepsLines
  <1> DEFINE SameLines == {l.id : l \in line'} = {l.id : l \in line}
  <1>1. ASSUME PInv, [Next]_vars, person' # person, household' = household
        PROVE  SameLines
    <2>1. PICK w \in Worker : CatalogStep(w) \/ TripStep(w) \/ Abandon(w)
      BY <1>1 DEF Next, Serve, vars, tables
    <2>2. ~Abandon(w)
      BY <1>1 DEF Abandon, tables
    <2>3. DeletePerson(w) \/ DeleteHousehold(w)
      BY <1>1, <2>1, <2>2, CatalogStepsKeepPersons, TripStepsKeepPersons
    <2>4. ~DeleteHousehold(w)
      BY <1>1 DEF DeleteHousehold, Serving
    <2>5. PICK P : line' = MadeCommon(P)
      BY <2>3, <2>4 DEF DeletePerson
    <2>6. PICK f : f = [l \in line |-> IF l.person \in P THEN [l EXCEPT !.person = None] ELSE l]
      OBVIOUS
    <2>7. \A l \in line : f[l].id = l.id
      <3>1. ASSUME NEW l \in line PROVE [l EXCEPT !.person = None].id = l.id
        BY <1>1 DEF PInv, TypeOK, LineRow
      <3> QED
        BY <2>6, <3>1
    <2>8. line' = {f[l] : l \in line}
      BY <2>5, <2>6 DEF MadeCommon
    <2> QED
      BY <2>7, <2>8
  <1>2. PInv /\ [Next]_vars => [person' # person /\ household' = household => SameLines]_vars
    BY <1>1
  <1> QED
    BY <1>2, HouseholdsStayApart, PTL DEF Spec, DeletingAPersonKeepsLines

--------------------------------------------------------------------------------
(***************************************************************************)
(* One request at a time: statuses keep a default, deleting one keeps the  *)
(* progress of lines, and what is deleted stays deleted.                   *)
(***************************************************************************)
HasDefault(h) == \E d \in status : d.home = h /\ d.default
EveryStatusHasADefault == \A s \in status : HasDefault(s.home)

\* What a request read is still there.
RequestIsCurrent(w) ==
    /\ req[w].op = "add status" => HasDefault(req[w].row)
    /\ req[w].op = "delete status" => req[w].row \in status
    /\ req[w].op \in {"edit item", "save item"} => Present(item, req[w].row.id)
    /\ req[w].op \in {"edit trip", "duplicate trip"} => Present(trip, req[w].row.id)
    /\ req[w].op = "edit line" => Present(line, req[w].row.id)

SerialInv(w) == EveryStatusHasADefault /\ RequestIsCurrent(w) /\ Keyed(line, next["line"])

\* A row is new, or there was a row of its key.
NewOrPresent(T, T2, n) == \A r \in T2 : r.id >= n \/ Present(T, r.id)
LinesStayNumbered ==
    Keyed(line', next'["line"]) /\ NewOrPresent(line, line', next["line"])

LEMMA IdleIsCurrent ==
    ASSUME NEW w, req'[w] = Idle
    PROVE  RequestIsCurrent(w)'
  BY DEF RequestIsCurrent, Idle

\* Whatever neither reads a row nor renames an item ends the request.
LEMMA RequestsEnd ==
    ASSUME PInv, NEW w \in Worker, Serve(w), ~RenameItem(w),
           ~LoadItem(w), ~LookForDefault(w), ~LoadStatus(w), ~LoadTrip(w), ~LoadLineStatus(w),
           ~LoadLine(w)
    PROVE  req'[w] = Idle
  <1>1. Finish(w) => req'[w] = Idle
    BY DEF Finish, PInv, TypeOK
  <1>2. ASSUME NEW route, Called(w, route), UNCHANGED req PROVE req'[w] = Idle
    BY <1>2 DEF Called
  <1>3. CASE AddItem(w) \/ DeleteItem(w) \/ AddKit(w) \/ DeleteKit(w)
    BY <1>2, <1>3 DEF AddItem, DeleteItem, AddKit, DeleteKit
  <1>4. CASE AddKitLine(w) \/ EditKitLine(w) \/ DeleteKitLine(w) \/ EditStatus(w)
    BY <1>2, <1>4 DEF AddKitLine, EditKitLine, DeleteKitLine, EditStatus
  <1>5. CASE SaveItem(w) \/ MergeItem(w) \/ AddStatus(w) \/ DeleteStatus(w) \/ Abandon(w)
    BY <1>1, <1>5 DEF SaveItem, MergeItem, AddStatus, DeleteStatus, Abandon
  <1>6. CASE AddEmptyTrip(w) \/ AddTrip(w) \/ DeleteTrip(w) \/ PackKit(w) \/ DeleteLine(w)
    BY <1>2, <1>6 DEF AddEmptyTrip, AddTrip, DeleteTrip, PackKit, DeleteLine
  <1>7. CASE AddParticipant(w) \/ RemoveParticipant(w) \/ DeletePerson(w) \/ DeleteHousehold(w)
    BY <1>2, <1>7 DEF AddParticipant, RemoveParticipant, DeletePerson, DeleteHousehold
  <1>8. CASE EditTrip(w) \/ DuplicateTrip(w) \/ AddLine(w) \/ EditLine(w)
    BY <1>1, <1>8 DEF EditTrip, DuplicateTrip, AddLine, EditLine
  <1> QED
    BY <1>3, <1>4, <1>5, <1>6, <1>7, <1>8 DEF Serve, CatalogStep, TripStep

LEMMA Loaded ==
    ASSUME PInv, NEW w \in Worker, NEW op, NEW row, Load(w, op, row)
    PROVE  req'[w].op = op /\ req'[w].row = row /\ UNCHANGED tables
  BY DEF Load, PInv, TypeOK

LEMMA RequestsStayCurrent ==
    ASSUME PInv, NEW w \in Worker, Serve(w)
    PROVE  RequestIsCurrent(w)'
  <1>1. CASE LoadItem(w)
    <2>1. PICK i \in item : Load(w, "edit item", i)
      BY <1>1 DEF LoadItem, Scoped
    <2>2. req'[w].op = "edit item" /\ req'[w].row = i /\ item' = item
      BY <2>1, Loaded DEF tables
    <2> QED
      BY <2>1, <2>2 DEF RequestIsCurrent, Present
  <1>2. CASE LookForDefault(w)
    <2>1. PICK h : Load(w, IF default_status(h) = {} THEN "add first status" ELSE "add status", h)
      BY <1>2 DEF LookForDefault
    <2>2. CASE default_status(h) = {}
      <3>1. Load(w, "add first status", h)
        BY <2>1, <2>2
      <3>2. req'[w].op = "add first status"
        BY <3>1, Loaded
      <3> QED
        BY <3>2 DEF RequestIsCurrent
    <2>3. CASE default_status(h) # {}
      <3>1. Load(w, "add status", h)
        BY <2>1, <2>3
      <3>2. PICK d \in status : d.home = h /\ d.default
        BY <2>3 DEF default_status, Scoped
      <3>3. req'[w].op = "add status" /\ req'[w].row = h /\ status' = status
        BY <3>1, Loaded DEF tables
      <3>4. HasDefault(req[w].row)'
        BY <3>2, <3>3, Zenon DEF HasDefault
      <3> QED
        BY <3>3, <3>4 DEF RequestIsCurrent
    <2> QED
      BY <2>2, <2>3
  <1>3. CASE LoadStatus(w)
    <2>1. PICK s \in status : Load(w, "delete status", s)
      BY <1>3 DEF LoadStatus, Scoped
    <2>2. req'[w].op = "delete status" /\ req'[w].row = s /\ status' = status
      BY <2>1, Loaded DEF tables
    <2> QED
      BY <2>1, <2>2 DEF RequestIsCurrent
  <1>4. CASE LoadTrip(w)
    <2>1. PICK t \in trip, op \in {"edit trip", "duplicate trip"} : Load(w, op, t)
      BY <1>4 DEF LoadTrip, Scoped
    <2>2. req'[w].op = op /\ req'[w].row = t /\ trip' = trip
      BY <2>1, Loaded DEF tables
    <2> QED
      BY <2>1, <2>2 DEF RequestIsCurrent, Present
  <1>5. CASE LoadLineStatus(w)
    <2>1. PICK s \in status : Load(w, "add line", s)
      BY <1>5 DEF LoadLineStatus, Scoped
    <2>2. req'[w].op = "add line" /\ req'[w].row = s /\ status' = status
      BY <2>1, Loaded DEF tables
    <2> QED
      BY <2>1, <2>2 DEF RequestIsCurrent
  <1>6. CASE LoadLine(w)
    <2>1. PICK l, h :
            /\ l \in line
            /\ req' = [req EXCEPT ![w] = [op |-> "edit line", row |-> l, home |-> h]]
            /\ UNCHANGED tables
      BY <1>6 DEF LoadLine
    <2>2. req'[w].op = "edit line" /\ req'[w].row = l /\ line' = line
      BY <2>1 DEF PInv, TypeOK, tables
    <2> QED
      BY <2>1, <2>2 DEF RequestIsCurrent, Present
  <1>7. CASE RenameItem(w)
    <2>1. PICK r : /\ item' = Saved(item, r)
                   /\ req' = [req EXCEPT ![w] = [op |-> "save item", row |-> r]]
      BY <1>7 DEF RenameItem
    <2>2. req'[w].op = "save item" /\ req'[w].row = r
      BY <2>1 DEF PInv, TypeOK
    <2>3. Present(item', req'[w].row.id)
      BY <2>1, <2>2 DEF Present, Saved
    <2> QED
      BY <2>2, <2>3 DEF RequestIsCurrent
  <1> QED
    BY <1>1, <1>2, <1>3, <1>4, <1>5, <1>6, <1>7, RequestsEnd, IdleIsCurrent

--------------------------------------------------------------------------------
(***************************************************************************)
(* The default status.                                                     *)
(***************************************************************************)
LEMMA EditedDefault ==
    ASSUME NEW s \in StatusRow, NEW g \in Progress
    PROVE  [s EXCEPT !.progress = g].default = s.default
  BY Zenon DEF StatusRow

LEMMA MadeDefault ==
    ASSUME NEW s \in StatusRow
    PROVE  [s EXCEPT !.default = TRUE].default
  BY Zenon DEF StatusRow

LEMMA AddStatusKeepsDefault ==
    ASSUME PInv, NEW w \in Worker, SerialInv(w), AddStatus(w)
    PROVE  EveryStatusHasADefault'
  <1>1. PICK h : h = req[w].row
    OBVIOUS
  <1>2. PICK g \in Progress :
          status' = status \cup {[id |-> next["status"], home |-> h, progress |-> g,
                                  default |-> Holds(w, "add first status")]}
    BY <1>1, Zenon DEF AddStatus
  <1>3. PICK s : s = [id |-> next["status"], home |-> h, progress |-> g,
                      default |-> Holds(w, "add first status")]
    OBVIOUS
  <1>4. s.home = h /\ s.default = Holds(w, "add first status")
    BY <1>3, Zenon
  <1>5. status' = status \cup {s}
    BY <1>2, <1>3, Zenon
  <1>6. \E d \in status' : d.home = s.home /\ d.default
    <2>1. CASE Holds(w, "add first status")
      BY <1>4, <1>5, <2>1, Zenon
    <2>2. CASE req[w].op = "add status"
      <3>1. PICK d \in status : d.home = h /\ d.default
        BY <1>1, <2>2, Zenon DEF SerialInv, RequestIsCurrent, HasDefault
      <3> QED
        BY <1>4, <1>5, <3>1, Zenon
    <2> QED
      BY <2>1, <2>2 DEF AddStatus, Holds
  <1>7. ASSUME NEW x \in status PROVE \E d \in status' : d.home = x.home /\ d.default
    BY <1>5, <1>7, Zenon DEF SerialInv, EveryStatusHasADefault, HasDefault
  <1> QED
    BY <1>5, <1>6, <1>7, Zenon DEF EveryStatusHasADefault, HasDefault

LEMMA EditStatusKeepsDefault ==
    ASSUME PInv, EveryStatusHasADefault, NEW w \in Worker, EditStatus(w)
    PROVE  EveryStatusHasADefault'
  <1>1. PICK s \in status : status' \in StatusEdits(s)
    BY DEF EditStatus, Scoped
  <1>2. PICK g \in Progress : \/ status' = Saved(status, [s EXCEPT !.progress = g])
                              \/ status' = make_default([s EXCEPT !.progress = g])
    BY <1>1 DEF StatusEdits
  <1>3. PICK e : e = [s EXCEPT !.progress = g]
    OBVIOUS
  <1>4. status \subseteq StatusRow /\ \A x, y \in status : x.id = y.id => x = y
    BY DEF PInv, TypeOK, KeyedTables, Keyed
  <1>5. e \in StatusRow /\ e.id = s.id /\ e.home = s.home /\ e.default = s.default
    BY <1>1, <1>3, <1>4, EditedStatus, EditedDefault
  <1>6. CASE status' = Saved(status, e)
    <2>1. ASSUME NEW d \in status, d.default
          PROVE  \E x \in status' : x.home = d.home /\ x.default
      <3>1. CASE d.id = s.id
        <4>1. d = s
          BY <1>1, <1>4, <3>1
        <4>2. e \in status' /\ e.home = d.home /\ e.default
          BY <1>5, <1>6, <2>1, <4>1 DEF Saved
        <4> QED
          BY <4>2
      <3>2. CASE d.id # s.id
        <4>1. d \in status'
          BY <1>5, <1>6, <3>2 DEF Saved
        <4> QED
          BY <2>1, <4>1
      <3> QED
        BY <3>1, <3>2
    <2>2. ASSUME NEW x \in status' PROVE HasDefault(x.home)'
      <3>1. PICK y \in status : y.home = x.home
        BY <1>1, <1>5, <1>6 DEF Saved
      <3>2. PICK d \in status : d.home = x.home /\ d.default
        BY <3>1, Zenon DEF EveryStatusHasADefault, HasDefault
      <3> QED
        BY <2>1, <3>2, Zenon DEF HasDefault
    <2> QED
      BY <2>2, Zenon DEF EveryStatusHasADefault
  <1>7. CASE status' = make_default(e)
    <2>1. PICK f : f = [t \in status |->
                           IF t.home = e.home THEN [t EXCEPT !.default = FALSE] ELSE t]
      OBVIOUS
    <2>2. PICK d : d = [e EXCEPT !.default = TRUE]
      OBVIOUS
    <2>3. status' = Saved({f[t] : t \in status}, d)
      BY <1>7, <2>1, <2>2 DEF make_default
    <2>4. d.id = e.id /\ d.home = e.home
      BY <1>5, <2>2, DefaultedStatus
    <2>5. d.default
      BY <1>5, <2>2, MadeDefault
    <2>6. d \in status'
      BY <2>3 DEF Saved
    <2>7. ASSUME NEW t \in status PROVE f[t].home = t.home
      <3>1. CASE t.home = e.home
        <4>1. f[t] = [t EXCEPT !.default = FALSE]
          BY <2>1, <3>1
        <4> QED
          BY <1>4, <4>1, DefaultedStatus
      <3>2. CASE t.home # e.home
        BY <2>1, <3>2
      <3> QED
        BY <3>1, <3>2
    <2>8. ASSUME NEW x \in status' PROVE \E y \in status' : y.home = x.home /\ y.default
      <3>1. CASE x.home = e.home
        BY <2>4, <2>5, <2>6, <3>1, Zenon
      <3>2. CASE x.home # e.home
        <4>1. PICK t \in status : t.home = x.home
          BY <2>3, <2>4, <2>7, <3>2 DEF Saved
        <4>2. PICK y \in status : y.home = t.home /\ y.default
          BY Zenon DEF EveryStatusHasADefault, HasDefault
        <4>3. y.id # e.id
          BY <1>1, <1>4, <1>5, <3>2, <4>1, <4>2
        <4>4. f[y] = y
          BY <2>1, <3>2, <4>1, <4>2
        <4>5. y \in status'
          BY <2>3, <2>4, <4>3, <4>4 DEF Saved
        <4> QED
          BY <4>1, <4>2, <4>5, Zenon
      <3> QED
        BY <3>1, <3>2
    <2> QED
      BY <2>8, Zenon DEF EveryStatusHasADefault, HasDefault
  <1> QED
    BY <1>2, <1>3, <1>6, <1>7

LEMMA DeleteStatusKeepsDefault ==
    ASSUME PInv, NEW w \in Worker, SerialInv(w), DeleteStatus(w)
    PROVE  EveryStatusHasADefault'
  <1>1. PICK s : s = req[w].row
    OBVIOUS
  <1>2. s \in status /\ ~s.default /\ status' = Without(status, s)
    BY <1>1 DEF DeleteStatus, Holds, SerialInv, RequestIsCurrent
  <1>3. \A x, y \in status : x.id = y.id => x = y
    BY DEF PInv, KeyedTables, Keyed
  <1>4. ASSUME NEW x \in status' PROVE \E d \in status' : d.home = x.home /\ d.default
    <2>1. x \in status
      BY <1>2 DEF Without
    <2>2. PICK d \in status : d.home = x.home /\ d.default
      BY <2>1, Zenon DEF SerialInv, EveryStatusHasADefault, HasDefault
    <2>3. d.id # s.id
      BY <1>2, <1>3, <2>2
    <2>4. d \in status'
      BY <1>2, <2>3 DEF Without
    <2> QED
      BY <2>2, <2>4, Zenon
  <1> QED
    BY <1>4, Zenon DEF EveryStatusHasADefault, HasDefault

LEMMA DefaultsStay ==
    ASSUME PInv, NEW w \in Worker, SerialInv(w), Serve(w)
    PROVE  EveryStatusHasADefault'
  <1>1. CASE UNCHANGED status
    BY <1>1, Zenon DEF SerialInv, EveryStatusHasADefault, HasDefault
  <1>2. CASE DeleteHousehold(w)
    <2>1. PICK h : status' = status \ Scoped(status, h)
      BY <1>2 DEF DeleteHousehold
    <2>2. ASSUME NEW x \in status' PROVE \E d \in status' : d.home = x.home /\ d.default
      <3>1. x \in status /\ x.home # h
        BY <2>1 DEF Scoped
      <3>2. PICK d \in status : d.home = x.home /\ d.default
        BY <3>1, Zenon DEF SerialInv, EveryStatusHasADefault, HasDefault
      <3>3. d \in status'
        BY <2>1, <3>1, <3>2 DEF Scoped
      <3> QED
        BY <3>2, <3>3, Zenon
    <2> QED
      BY <2>2, Zenon DEF EveryStatusHasADefault, HasDefault
  <1>3. CASE AddStatus(w) \/ EditStatus(w) \/ DeleteStatus(w)
    BY <1>3, AddStatusKeepsDefault, EditStatusKeepsDefault, DeleteStatusKeepsDefault
       DEF SerialInv
  <1>4. LoadItem(w) \/ LookForDefault(w) \/ LoadStatus(w) \/ LoadTrip(w) \/ LoadLineStatus(w)
          \/ LoadLine(w) \/ Abandon(w) => UNCHANGED status
    BY DEF LoadItem, LookForDefault, LoadStatus, LoadTrip, LoadLineStatus, LoadLine, Abandon,
           Load, tables
  <1>5. AddItem(w) \/ RenameItem(w) \/ SaveItem(w) \/ MergeItem(w) \/ DeleteItem(w)
          \/ AddKit(w) \/ DeleteKit(w) \/ AddKitLine(w) \/ EditKitLine(w) \/ DeleteKitLine(w)
          => UNCHANGED status
    BY DEF AddItem, RenameItem, SaveItem, MergeItem, DeleteItem, AddKit, DeleteKit,
           AddKitLine, EditKitLine, DeleteKitLine
  <1>6. AddEmptyTrip(w) \/ AddTrip(w) \/ EditTrip(w) \/ DeleteTrip(w) \/ DuplicateTrip(w)
          \/ AddParticipant(w) \/ RemoveParticipant(w) => UNCHANGED status
    BY DEF AddEmptyTrip, AddTrip, EditTrip, DeleteTrip, DuplicateTrip, AddParticipant,
           RemoveParticipant
  <1>7. AddLine(w) \/ EditLine(w) \/ DeleteLine(w) \/ PackKit(w) \/ DeletePerson(w)
          => UNCHANGED status
    BY DEF AddLine, EditLine, DeleteLine, PackKit, DeletePerson
  <1> QED
    BY <1>1, <1>2, <1>3, <1>4, <1>5, <1>6, <1>7 DEF Serve, CatalogStep, TripStep

--------------------------------------------------------------------------------
(***************************************************************************)
(* The keys of lines.                                                      *)
(***************************************************************************)
LEMMA LinesMapped ==
    ASSUME Keyed(line, next["line"]), NEW f, \A l \in line : f[l].id = l.id,
           line' \subseteq {f[l] : l \in line}, next'["line"] = next["line"]
    PROVE  LinesStayNumbered
  <1>1. ASSUME NEW l \in line', NEW m \in line', l.id = m.id PROVE l = m
    BY <1>1 DEF Keyed
  <1>2. \A l \in line' : l.id < next["line"] /\ Present(line, l.id)
    BY DEF Keyed, Present
  <1> QED
    BY <1>1, <1>2 DEF LinesStayNumbered, NewOrPresent, Keyed

LEMMA LinesLeave ==
    ASSUME Keyed(line, next["line"]), line' \subseteq line, next'["line"] = next["line"]
    PROVE  LinesStayNumbered
  BY DEF LinesStayNumbered, NewOrPresent, Present, Keyed

LEMMA LinesAdded ==
    ASSUME PInv, Keyed(line, next["line"]), NEW R, NEW n \in Nat, NEW keys \in KeysFor(R, n),
           NEW t, NEW s, line' = line \cup LinesFrom(R, keys, t, s),
           next'["line"] = next["line"] + n
    PROVE  LinesStayNumbered
  <1>1. next["line"] \in Nat /\ \A l \in line : l.id \in Nat
    BY KnownIds DEF PInv, TypeOK, LineRow
  <1>2. /\ \A r \in R : keys[r] \in next["line"] .. next["line"] + n - 1
        /\ \A q, r \in R : keys[q] = keys[r] => q = r
    BY DEF KeysFor, Bijection, Injection, Surjection, IsInjective
  <1>3. \A l \in LinesFrom(R, keys, t, s) : \E r \in R :
            l.id = keys[r] /\ l = [id |-> keys[r], trip |-> t, item |-> r.item,
                                   person |-> r.person, status |-> s]
    BY DEF LinesFrom
  <1>4. \A l \in LinesFrom(R, keys, t, s) : l.id >= next["line"] /\ l.id < next["line"] + n
    BY <1>1, <1>2, <1>3
  <1>5. ASSUME NEW l \in LinesFrom(R, keys, t, s), NEW m \in LinesFrom(R, keys, t, s), l.id = m.id
        PROVE  l = m
    <2>1. PICK q \in R : l.id = keys[q] /\ l = [id |-> keys[q], trip |-> t, item |-> q.item,
                                                person |-> q.person, status |-> s]
      BY <1>3
    <2>2. PICK r \in R : m.id = keys[r] /\ m = [id |-> keys[r], trip |-> t, item |-> r.item,
                                                person |-> r.person, status |-> s]
      BY <1>3
    <2>3. q = r
      BY <1>2, <1>5, <2>1, <2>2
    <2> QED
      BY <2>1, <2>2, <2>3
  <1>6. \A l \in line : l.id < next["line"] /\ \A m \in line : l.id = m.id => l = m
    BY DEF Keyed
  <1>7. Keyed(line', next'["line"])
    <2>1. \A l \in line' : l.id < next'["line"]
      BY <1>1, <1>4, <1>6
    <2>2. ASSUME NEW l \in line', NEW m \in line', l.id = m.id PROVE l = m
      <3>1. CASE l \in line /\ m \in line
        BY <1>6, <2>2, <3>1
      <3>2. CASE l \notin line /\ m \notin line
        BY <1>5, <2>2, <3>2
      <3>3. CASE l \in line /\ m \notin line
        BY <1>1, <1>4, <1>6, <2>2, <3>3
      <3>4. CASE l \notin line /\ m \in line
        BY <1>1, <1>4, <1>6, <2>2, <3>4
      <3> QED
        BY <3>1, <3>2, <3>3, <3>4
    <2> QED
      BY <2>1, <2>2 DEF Keyed
  <1>8. NewOrPresent(line, line', next["line"])
    BY <1>4 DEF NewOrPresent, Present
  <1> QED
    BY <1>7, <1>8 DEF LinesStayNumbered

LEMMA CopiedLines ==
    ASSUME PInv, NEW w \in Worker, Keyed(line, next["line"]),
           AddTrip(w) \/ DuplicateTrip(w) \/ PackKit(w)
    PROVE  LinesStayNumbered
  <1>1. \A n \in Nat : UseTripKeys(n) \/ UseKeys("line", n) => next'["line"] = next["line"] + n
    BY DEF UseTripKeys, UseKeys, PInv, TypeOK, TableNames
  <1>2. CASE AddTrip(w)
    <2>1. PICK h \in Serving : \E c \in TripChoices(h), s \in default_status(h),
                                  n \in 0 .. MaxKey["line"] :
            LET rows == ToPack(c.kits, c.going, {})
            IN  /\ \E keys \in KeysFor(rows, n) :
                      line' = line \cup LinesFrom(rows, keys, next["trip"], s.id)
                /\ UseTripKeys(n)
      BY <1>2 DEF AddTrip
    <2>2. PICK c \in TripChoices(h), s \in default_status(h), n \in 0 .. MaxKey["line"] :
            /\ \E keys \in KeysFor(ToPack(c.kits, c.going, {}), n) :
                  line' = line \cup LinesFrom(ToPack(c.kits, c.going, {}), keys,
                                              next["trip"], s.id)
            /\ UseTripKeys(n)
      BY <2>1
    <2>3. PICK R, t : R = ToPack(c.kits, c.going, {}) /\ t = next["trip"]
      OBVIOUS
    <2>4. PICK keys \in KeysFor(R, n) : line' = line \cup LinesFrom(R, keys, t, s.id)
      BY <2>2, <2>3
    <2>5. n \in Nat /\ next'["line"] = next["line"] + n
      BY <1>1, <2>2
    <2> QED
      BY <2>4, <2>5, LinesAdded
  <1>3. CASE DuplicateTrip(w)
    <2> DEFINE source == req[w].row
    <2>1. PICK s \in default_status(source.home), n \in 0 .. MaxKey["line"] :
            /\ \E keys \in KeysFor({l \in line : l.trip = source.id}, n) :
                  line' = line \cup LinesFrom({l \in line : l.trip = source.id}, keys,
                                              next["trip"], s.id)
            /\ UseTripKeys(n)
      BY <1>3 DEF DuplicateTrip
    <2>2. PICK R, t : R = {l \in line : l.trip = source.id} /\ t = next["trip"]
      OBVIOUS
    <2>3. PICK keys \in KeysFor(R, n) : line' = line \cup LinesFrom(R, keys, t, s.id)
      BY <2>1, <2>2
    <2>4. n \in Nat /\ next'["line"] = next["line"] + n
      BY <1>1, <2>1
    <2> QED
      BY <2>3, <2>4, LinesAdded
  <1>4. CASE PackKit(w)
    <2>1. PICK h \in Serving : \E t \in Scoped(trip, h), b \in Scoped(kit, h),
                                  s \in default_status(h), n \in 0 .. MaxKey["line"] :
            LET rows == ToPack({b.id}, Going(t.id), Packed(t.id))
            IN  /\ \E keys \in KeysFor(rows, n) :
                      line' = line \cup LinesFrom(rows, keys, t.id, s.id)
                /\ UseKeys("line", n)
      BY <1>4 DEF PackKit
    <2>2. PICK t \in Scoped(trip, h), b \in Scoped(kit, h), s \in default_status(h),
               n \in 0 .. MaxKey["line"] :
            /\ \E keys \in KeysFor(ToPack({b.id}, Going(t.id), Packed(t.id)), n) :
                  line' = line \cup LinesFrom(ToPack({b.id}, Going(t.id), Packed(t.id)), keys,
                                              t.id, s.id)
            /\ UseKeys("line", n)
      BY <2>1
    <2>3. PICK R : R = ToPack({b.id}, Going(t.id), Packed(t.id))
      OBVIOUS
    <2>4. PICK keys \in KeysFor(R, n) : line' = line \cup LinesFrom(R, keys, t.id, s.id)
      BY <2>2, <2>3
    <2>5. n \in Nat /\ next'["line"] = next["line"] + n
      BY <1>1, <2>2
    <2> QED
      BY <2>4, <2>5, LinesAdded
  <1> QED
    BY <1>2, <1>3, <1>4

LEMMA MergedLines ==
    ASSUME PInv, NEW w \in Worker, Keyed(line, next["line"]), MergeItem(w)
    PROVE  LinesStayNumbered
  <1>1. PICK a : a = req[w].row.id
    OBVIOUS
  <1>2. PICK v \in item : line' = merge_trip_lines(a, v.id)
    BY <1>1 DEF MergeItem, matching_item_type, Scoped
  <1>3. PICK f : f = [l \in line |-> IF l.item = a THEN [l EXCEPT !.item = v.id] ELSE l]
    OBVIOUS
  <1>4. line' \subseteq {f[l] : l \in line}
    BY <1>2, <1>3 DEF merge_trip_lines
  <1>5. \A l \in line : [l EXCEPT !.item = v.id].id = l.id
    BY DEF PInv, TypeOK, LineRow
  <1>6. \A l \in line : f[l].id = l.id
    BY <1>3, <1>5
  <1> QED
    BY <1>4, <1>6, LinesMapped DEF MergeItem

LEMMA MovedLines ==
    ASSUME PInv, NEW w \in Worker, Keyed(line, next["line"]), DeleteStatus(w)
    PROVE  LinesStayNumbered
  <1>1. CASE UNCHANGED line
    BY <1>1, LinesLeave DEF DeleteStatus
  <1>2. CASE ~UNCHANGED line
    <2> DEFINE s == req[w].row
    <2>1. \/ (\A l \in line : l.status # s.id) /\ UNCHANGED line
          \/ \E r \in Replacements(s) :
                /\ r.id # s.id
                /\ line' = {IF l.status = s.id THEN [l EXCEPT !.status = r.id] ELSE l : l \in line}
      BY Zenon DEF DeleteStatus
    <2>2. PICK r : line' = {IF l.status = s.id THEN [l EXCEPT !.status = r.id] ELSE l : l \in line}
      BY <1>2, <2>1
    <2>3. PICK f : f = [l \in line |-> IF l.status = s.id THEN [l EXCEPT !.status = r.id] ELSE l]
      OBVIOUS
    <2>4. line' = {f[l] : l \in line}
      BY <2>2, <2>3
    <2>5. \A l \in line : [l EXCEPT !.status = r.id].id = l.id
      BY DEF PInv, TypeOK, LineRow
    <2>6. \A l \in line : f[l].id = l.id
      BY <2>3, <2>5
    <2> QED
      BY <2>4, <2>6, LinesMapped DEF DeleteStatus
  <1> QED
    BY <1>1, <1>2

LEMMA LeftLines ==
    ASSUME PInv, NEW w \in Worker, Keyed(line, next["line"]),
           DeletePerson(w) \/ DeleteHousehold(w)
    PROVE  LinesStayNumbered
  <1>1. PICK P : line' \subseteq MadeCommon(P)
    BY DEF DeletePerson, DeleteHousehold
  <1>2. PICK f : f = [l \in line |-> IF l.person \in P THEN [l EXCEPT !.person = None] ELSE l]
    OBVIOUS
  <1>3. line' \subseteq {f[l] : l \in line}
    BY <1>1, <1>2 DEF MadeCommon
  <1>4. \A l \in line : [l EXCEPT !.person = None].id = l.id
    BY DEF PInv, TypeOK, LineRow
  <1>5. \A l \in line : f[l].id = l.id
    BY <1>2, <1>4
  <1> QED
    BY <1>3, <1>5, LinesMapped DEF DeletePerson, DeleteHousehold

LEMMA WrittenLines ==
    ASSUME PInv, NEW w \in Worker, SerialInv(w), AddLine(w) \/ EditLine(w)
    PROVE  LinesStayNumbered
  <1>1. /\ Keyed(line, next["line"]) /\ next["line"] \in Nat
        /\ \A l \in line : l.id \in Nat
    BY KnownIds DEF SerialInv, PInv, TypeOK, LineRow
  <1>2. CASE AddLine(w)
    <2>1. PICK l : l.id = next["line"] /\ line' = line \cup {l}
      BY <1>2 DEF AddLine
    <2>2. next'["line"] = next["line"] + 1
      BY <1>2, KeysUsed DEF AddLine, PInv, TableNames
    <2>3. Keyed(line', next'["line"])
      BY <1>1, <2>1, <2>2, KeyedAdded
    <2>4. NewOrPresent(line, line', next["line"])
      BY <1>1, <2>1 DEF NewOrPresent, Present
    <2> QED
      BY <2>3, <2>4 DEF LinesStayNumbered
  <1>3. CASE EditLine(w)
    <2>1. PICK x \in LineRow : x = req[w].row
      BY <1>3, RequestRows DEF EditLine, Holds, PInv, TypeOK
    <2>2. PICK i, p, s : line' = Saved(line, [x EXCEPT !.item = i, !.person = p, !.status = s])
      BY <1>3, <2>1 DEF EditLine
    <2>3. PICK l : l = [x EXCEPT !.item = i, !.person = p, !.status = s]
      OBVIOUS
    <2>4. l.id = x.id
      BY <2>3 DEF LineRow
    <2>5. line' = Saved(line, l) /\ next' = next
      BY <1>3, <2>2, <2>3 DEF EditLine
    <2>6. PICK m \in line : m.id = l.id
      BY <1>3, <2>1, <2>4 DEF EditLine, Holds, SerialInv, RequestIsCurrent, Present
    <2>7. l.id < next["line"]
      BY <1>1, <2>6 DEF Keyed
    <2>8. Keyed(line', next'["line"])
      BY <1>1, <2>5, <2>7, KeyedSaved
    <2>9. NewOrPresent(line, line', next["line"])
      BY <2>5, <2>6 DEF NewOrPresent, Present, Saved
    <2> QED
      BY <2>8, <2>9 DEF LinesStayNumbered
  <1> QED
    BY <1>2, <1>3

LEMMA LinesNumbered ==
    ASSUME PInv, NEW w \in Worker, SerialInv(w), Serve(w)
    PROVE  LinesStayNumbered
  <1>1. Keyed(line, next["line"])
    BY DEF SerialInv
  <1>2. CASE line' \subseteq line /\ next'["line"] = next["line"]
    BY <1>1, <1>2, LinesLeave
  <1>3. \A t \in TableNames \ {"line"} : UseKeys(t, 1) => next'["line"] = next["line"]
    BY KeysUsed DEF PInv, TableNames
  <1>4. CASE AddItem(w) \/ AddKit(w) \/ AddKitLine(w) \/ AddStatus(w)
    BY <1>2, <1>3, <1>4 DEF AddItem, AddKit, AddKitLine, AddStatus, TableNames
  <1>5. CASE AddEmptyTrip(w)
    <2>1. next'["line"] = next["line"] + 0
      BY <1>5 DEF AddEmptyTrip, UseTripKeys, PInv, TypeOK, TableNames
    <2>2. next["line"] \in Nat /\ line' = line
      BY <1>5, KnownIds DEF AddEmptyTrip, PInv
    <2> QED
      BY <1>2, <2>1, <2>2
  <1>6. CASE LoadItem(w) \/ LookForDefault(w) \/ LoadStatus(w) \/ LoadTrip(w)
               \/ LoadLineStatus(w) \/ LoadLine(w) \/ Abandon(w)
    BY <1>2, <1>6 DEF LoadItem, LookForDefault, LoadStatus, LoadTrip, LoadLineStatus, LoadLine,
                      Abandon, Load, tables
  <1>7. CASE RenameItem(w) \/ SaveItem(w) \/ DeleteItem(w) \/ DeleteKit(w) \/ EditKitLine(w)
               \/ DeleteKitLine(w) \/ EditStatus(w)
    BY <1>2, <1>7 DEF RenameItem, SaveItem, DeleteItem, DeleteKit, EditKitLine, DeleteKitLine,
                      EditStatus
  <1>8. CASE EditTrip(w) \/ DeleteTrip(w) \/ AddParticipant(w) \/ RemoveParticipant(w)
               \/ DeleteLine(w)
    BY <1>2, <1>8 DEF EditTrip, DeleteTrip, AddParticipant, RemoveParticipant, DeleteLine
  <1> QED
    BY <1>1, <1>4, <1>5, <1>6, <1>7, <1>8, CopiedLines, MergedLines, MovedLines, LeftLines,
       WrittenLines DEF Serve, CatalogStep, TripStep

--------------------------------------------------------------------------------
(***************************************************************************)
(* Items and trips, and the invariant.                                     *)
(***************************************************************************)
LEMMA RowsLeave ==
    ASSUME NEW T, NEW T2, NEW n, T2 \subseteq T
    PROVE  NewOrPresent(T, T2, n)
  BY DEF NewOrPresent, Present

LEMMA RowsSaved ==
    ASSUME NEW T, NEW n, NEW r, Present(T, r.id)
    PROVE  NewOrPresent(T, Saved(T, r), n)
  BY DEF NewOrPresent, Present, Saved

LEMMA RowsAdded ==
    ASSUME NEW T, NEW n \in Nat, NEW r, r.id = n
    PROVE  NewOrPresent(T, T \cup {r}, n)
  BY DEF NewOrPresent, Present

LEMMA ItemsStay ==
    ASSUME PInv, NEW w \in Worker, SerialInv(w), Serve(w)
    PROVE  NewOrPresent(item, item', next["item"])
  <1>1. CASE AddItem(w)
    <2>1. PICK i : i.id = next["item"] /\ item' = item \cup {i}
      BY <1>1 DEF AddItem
    <2> QED
      BY <2>1, KnownIds, RowsAdded DEF PInv
  <1>2. CASE RenameItem(w)
    <2>1. PICK i \in ItemRow : i = req[w].row
      BY <1>2, RequestRows DEF RenameItem, Holds, PInv, TypeOK
    <2>2. PICK n \in Name : item' = Saved(item, [i EXCEPT !.name = n])
      BY <1>2, <2>1 DEF RenameItem
    <2>3. [i EXCEPT !.name = n].id = i.id
      BY DEF ItemRow
    <2>4. Present(item, i.id)
      BY <1>2, <2>1 DEF RenameItem, Holds, SerialInv, RequestIsCurrent
    <2> QED
      BY <2>2, <2>3, <2>4, RowsSaved
  <1>3. CASE SaveItem(w)
    <2>1. item' = Saved(item, req[w].row) /\ Present(item, req[w].row.id)
      BY <1>3 DEF SaveItem, SerialInv, RequestIsCurrent
    <2> QED
      BY <2>1, RowsSaved
  <1>4. CASE item' \subseteq item
    BY <1>4, RowsLeave
  <1>5. CASE MergeItem(w) \/ DeleteItem(w) \/ DeleteHousehold(w)
    BY <1>4, <1>5 DEF MergeItem, DeleteItem, DeleteHousehold, Without
  <1>6. CASE LoadItem(w) \/ LookForDefault(w) \/ LoadStatus(w) \/ LoadTrip(w)
               \/ LoadLineStatus(w) \/ LoadLine(w) \/ Abandon(w)
    BY <1>4, <1>6 DEF LoadItem, LookForDefault, LoadStatus, LoadTrip, LoadLineStatus, LoadLine,
                      Abandon, Load, tables
  <1>7. CASE AddKit(w) \/ DeleteKit(w) \/ AddKitLine(w) \/ EditKitLine(w) \/ DeleteKitLine(w)
               \/ AddStatus(w) \/ EditStatus(w) \/ DeleteStatus(w)
    BY <1>4, <1>7 DEF AddKit, DeleteKit, AddKitLine, EditKitLine, DeleteKitLine, AddStatus,
                      EditStatus, DeleteStatus
  <1>8. CASE AddEmptyTrip(w) \/ AddTrip(w) \/ EditTrip(w) \/ DeleteTrip(w) \/ DuplicateTrip(w)
               \/ AddParticipant(w) \/ RemoveParticipant(w)
    BY <1>4, <1>8 DEF AddEmptyTrip, AddTrip, EditTrip, DeleteTrip, DuplicateTrip,
                      AddParticipant, RemoveParticipant
  <1>9. CASE AddLine(w) \/ EditLine(w) \/ DeleteLine(w) \/ PackKit(w) \/ DeletePerson(w)
    BY <1>4, <1>9 DEF AddLine, EditLine, DeleteLine, PackKit, DeletePerson
  <1> QED
    BY <1>1, <1>2, <1>3, <1>5, <1>6, <1>7, <1>8, <1>9 DEF Serve, CatalogStep, TripStep

LEMMA TripsStay ==
    ASSUME PInv, NEW w \in Worker, SerialInv(w), Serve(w)
    PROVE  NewOrPresent(trip, trip', next["trip"])
  <1>1. CASE AddEmptyTrip(w) \/ AddTrip(w) \/ DuplicateTrip(w)
    <2>1. PICK h : trip' = trip \cup {NewTrip(h)}
      BY <1>1 DEF AddEmptyTrip, AddTrip, DuplicateTrip
    <2>2. NewTrip(h).id = next["trip"]
      BY DEF NewTrip
    <2> QED
      BY <2>1, <2>2, KnownIds, RowsAdded DEF PInv
  <1>2. CASE EditTrip(w)
    <2>1. PICK t \in TripRow : t = req[w].row
      BY <1>2, RequestRows DEF EditTrip, Holds, PInv, TypeOK
    <2>2. PICK a \in BOOLEAN : trip' = Saved(trip, [t EXCEPT !.archived = a])
      BY <1>2, <2>1 DEF EditTrip
    <2>3. PICK r : r = [t EXCEPT !.archived = a]
      OBVIOUS
    <2>4. r.id = t.id
      BY <2>3, EditedTrip
    <2>5. Present(trip, r.id)
      BY <1>2, <2>1, <2>4 DEF EditTrip, Holds, SerialInv, RequestIsCurrent
    <2>6. trip' = Saved(trip, r)
      BY <2>2, <2>3
    <2> QED
      BY <2>5, <2>6, RowsSaved
  <1>3. CASE trip' \subseteq trip
    BY <1>3, RowsLeave
  <1>4. CASE DeleteTrip(w) \/ DeleteHousehold(w)
    BY <1>3, <1>4 DEF DeleteTrip, DeleteHousehold
  <1>5. CASE LoadItem(w) \/ LookForDefault(w) \/ LoadStatus(w) \/ LoadTrip(w)
               \/ LoadLineStatus(w) \/ LoadLine(w) \/ Abandon(w)
    BY <1>3, <1>5 DEF LoadItem, LookForDefault, LoadStatus, LoadTrip, LoadLineStatus, LoadLine,
                      Abandon, Load, tables
  <1>6. CASE AddItem(w) \/ RenameItem(w) \/ SaveItem(w) \/ MergeItem(w) \/ DeleteItem(w)
    BY <1>3, <1>6 DEF AddItem, RenameItem, SaveItem, MergeItem, DeleteItem
  <1>7. CASE AddKit(w) \/ DeleteKit(w) \/ AddKitLine(w) \/ EditKitLine(w) \/ DeleteKitLine(w)
               \/ AddStatus(w) \/ EditStatus(w) \/ DeleteStatus(w)
    BY <1>3, <1>7 DEF AddKit, DeleteKit, AddKitLine, EditKitLine, DeleteKitLine, AddStatus,
                      EditStatus, DeleteStatus
  <1>8. CASE AddParticipant(w) \/ RemoveParticipant(w) \/ AddLine(w) \/ EditLine(w)
               \/ DeleteLine(w) \/ PackKit(w) \/ DeletePerson(w)
    BY <1>3, <1>8 DEF AddParticipant, RemoveParticipant, AddLine, EditLine, DeleteLine, PackKit,
                      DeletePerson
  <1> QED
    BY <1>1, <1>2, <1>4, <1>5, <1>6, <1>7, <1>8 DEF Serve, CatalogStep, TripStep

OneWorker(w) == Worker = {w}

LEMMA SerialInvStep ==
    ASSUME NEW w, OneWorker(w), PInv, SerialInv(w), [Next]_vars
    PROVE  SerialInv(w)'
  <1>1. CASE Serve(w)
    <2>1. w \in Worker
      BY DEF OneWorker
    <2>2. EveryStatusHasADefault' /\ RequestIsCurrent(w)' /\ LinesStayNumbered
      BY <1>1, <2>1, DefaultsStay, RequestsStayCurrent, LinesNumbered
    <2> QED
      BY <2>2 DEF SerialInv, LinesStayNumbered
  <1>2. CASE UNCHANGED vars
    <2>1. UNCHANGED <<status, item, trip, line, next, req>>
      BY <1>2 DEF vars, tables
    <2>2. EveryStatusHasADefault'
      BY <2>1, Zenon DEF SerialInv, EveryStatusHasADefault, HasDefault
    <2>3. HasDefault(req[w].row)' = HasDefault(req[w].row)
      BY <2>1, Zenon DEF HasDefault
    <2>4. RequestIsCurrent(w)'
      BY <2>1, <2>3 DEF SerialInv, RequestIsCurrent, Present
    <2>5. Keyed(line, next["line"])'
      BY <2>1 DEF SerialInv, Keyed
    <2> QED
      BY <2>2, <2>4, <2>5 DEF SerialInv
  <1> QED
    BY <1>1, <1>2 DEF Next, OneWorker

LEMMA SerialInvHolds ==
    ASSUME NEW w, OneWorker(w) PROVE Spec => []SerialInv(w)
  <1>1. Init => SerialInv(w)
    <2> SUFFICES ASSUME Init PROVE SerialInv(w)
      OBVIOUS
    <2>1. EveryStatusHasADefault
      BY StartAssumption, Zenon DEF Init, EveryStatusHasADefault, HasDefault
    <2>2. RequestIsCurrent(w)
      BY DEF Init, OneWorker, RequestIsCurrent, Idle
    <2>3. Keyed(line, next["line"])
      BY DEF Init, Keyed
    <2> QED
      BY <2>1, <2>2, <2>3 DEF SerialInv
  <1>2. PInv /\ SerialInv(w) /\ [Next]_vars => SerialInv(w)'
    BY SerialInvStep
  <1> QED
    BY <1>1, <1>2, HouseholdsStayApart, PTL DEF Spec

\* Served one request at a time, a household that has a status has a default
\* one: delete_status refuses the default, a status becomes the default in the
\* transaction that takes it from the other (statuses.py:14-37).
THEOREM DefaultsAlwaysStand ==
    ASSUME NEW w, OneWorker(w) PROVE Spec => []StatusesHaveADefault
  <1>1. SerialInv(w) => StatusesHaveADefault
    <2> SUFFICES ASSUME SerialInv(w), NEW h \in household, Scoped(status, h) # {},
                        default_status(h) = {}
                 PROVE  FALSE
      BY DEF StatusesHaveADefault, households_whose_statuses_have_no_default
    <2>1. PICK s \in status : s.home = h
      BY DEF Scoped
    <2>2. PICK d \in status : d.home = h /\ d.default
      BY <2>1, Zenon DEF SerialInv, EveryStatusHasADefault, HasDefault
    <2>3. d \in default_status(h)
      BY <2>2, Zenon DEF default_status, Scoped
    <2> QED
      BY <2>3
  <1> QED
    BY <1>1, SerialInvHolds, PTL

RowsStayDeleted ==
    /\ \A i \in item' : i.id >= next["item"] \/ Present(item, i.id)
    /\ \A t \in trip' : t.id >= next["trip"] \/ Present(trip, t.id)
    /\ \A l \in line' : l.id >= next["line"] \/ Present(line, l.id)

\* Served one request at a time, no save of an item, a trip or a line brings
\* back a row that was deleted (views.py:99).
THEOREM NothingComesBack ==
    ASSUME NEW w, OneWorker(w) PROVE Spec => DeletedRowsStayDeleted
  <1>1. ASSUME PInv, SerialInv(w), Serve(w) PROVE RowsStayDeleted
    <2>1. w \in Worker
      BY DEF OneWorker
    <2> QED
      BY <1>1, <2>1, ItemsStay, TripsStay, LinesNumbered
         DEF RowsStayDeleted, LinesStayNumbered, NewOrPresent
  <1>2. PInv /\ SerialInv(w) /\ [Next]_vars => [RowsStayDeleted]_vars
    BY <1>1 DEF Next, OneWorker
  <1> QED
    BY <1>2, HouseholdsStayApart, SerialInvHolds, PTL
       DEF Spec, DeletedRowsStayDeleted, RowsStayDeleted

--------------------------------------------------------------------------------
(***************************************************************************)
(* The progress of a line.                                                 *)
(***************************************************************************)
LEMMA OneProgress ==
    ASSUME NEW S, NEW r \in S, \A x, y \in S : x.id = y.id => x = y
    PROVE  {s.progress : s \in {t \in S : t.id = r.id}} = {r.progress}
  OBVIOUS

LEMMA ProgressKept ==
    ASSUME PInv, NEW w \in Worker, SerialInv(w), DeleteStatus(w),
           NEW l \in line, NEW m \in line', l.id = m.id
    PROVE  \/ ProgressOf(m)' = ProgressOf(l)
           \/ \A s \in status' : s.home = req[w].row.home => s.progress \notin ProgressOf(l)
  <1> DEFINE s == req[w].row
  <1>1. s \in status /\ status' = Without(status, s)
    BY DEF DeleteStatus, Holds, SerialInv, RequestIsCurrent
  <1>2. \A x, y \in status : x.id = y.id => x = y
    BY DEF PInv, KeyedTables, Keyed
  <1>3. \A x, y \in line : x.id = y.id => x = y
    BY DEF SerialInv, Keyed
  <1>4. \/ (\A k \in line : k.status # s.id) /\ UNCHANGED line
        \/ \E r \in Replacements(s) :
              /\ r.id # s.id
              /\ line' = {IF k.status = s.id THEN [k EXCEPT !.status = r.id] ELSE k : k \in line}
    BY Zenon DEF DeleteStatus
  <1>5. ASSUME m = l, l.status # s.id PROVE ProgressOf(m)' = ProgressOf(l)
    <2>1. {t \in status' : t.id = m.status} = {t \in status : t.id = l.status}
      BY <1>1, <1>5 DEF Without
    <2> QED
      BY <2>1 DEF ProgressOf
  <1>6. CASE (\A k \in line : k.status # s.id) /\ UNCHANGED line
    BY <1>3, <1>5, <1>6
  <1>7. CASE \E r \in Replacements(s) :
              /\ r.id # s.id
              /\ line' = {IF k.status = s.id THEN [k EXCEPT !.status = r.id] ELSE k : k \in line}
    <2>1. PICK r \in Replacements(s) :
              /\ r.id # s.id
              /\ line' = {IF k.status = s.id THEN [k EXCEPT !.status = r.id] ELSE k : k \in line}
      BY <1>7
    <2>2. PICK k \in line : m = IF k.status = s.id THEN [k EXCEPT !.status = r.id] ELSE k
      BY <2>1
    <2>3. r \in status /\ r \in status'
      BY <1>1, <2>1 DEF Replacements, default_status, Scoped, Without
    <2>4. [k EXCEPT !.status = r.id].id = k.id /\ [k EXCEPT !.status = r.id].status = r.id
      BY DEF PInv, TypeOK, LineRow
    <2>5. m.id = k.id
      BY <2>2, <2>4
    <2>6. k = l
      BY <1>3, <2>5
    <2>7. CASE l.status # s.id
      BY <1>5, <2>2, <2>6, <2>7
    <2>8. CASE l.status = s.id
      <3>1. m.status = r.id
        BY <2>2, <2>4, <2>6, <2>8
      <3>2. ProgressOf(l) = {s.progress}
        BY <1>1, <1>2, <2>8, OneProgress DEF ProgressOf
      <3>3. ProgressOf(m)' = {r.progress}
        <4>1. \A x, y \in status' : x.id = y.id => x = y
          BY <1>1, <1>2 DEF Without
        <4> QED
          BY <2>3, <3>1, <4>1, OneProgress DEF ProgressOf
      <3> DEFINE alike == {t \in Scoped(status, s.home) : t.id # s.id /\ t.progress = s.progress}
      <3>4. CASE alike # {}
        <4>1. r.progress = s.progress
          BY <2>1, <3>4 DEF Replacements
        <4> QED
          BY <3>2, <3>3, <4>1
      <3>5. CASE alike = {}
        <4>1. \A t \in status' : t.home = s.home => t.progress # s.progress
          BY <1>1, <3>5 DEF Without, Scoped
        <4> QED
          BY <3>2, <4>1
      <3> QED
        BY <3>4, <3>5
    <2> QED
      BY <2>7, <2>8
  <1> QED
    BY <1>4, <1>6, <1>7

DeletionsKeepProgress ==
    \A w \in Worker : DeleteStatus(w) =>
          \A l \in line, m \in line' : l.id = m.id =>
              \/ ProgressOf(m)' = ProgressOf(l)
              \/ \A s \in status' : s.home = req[w].row.home => s.progress \notin ProgressOf(l)

\* Served one request at a time, the lines of a deleted status keep their
\* progress as long as their household has a status for it (statuses.py:28-36).
THEOREM ProgressSurvives ==
    ASSUME NEW w, OneWorker(w) PROVE Spec => DeletingAStatusKeepsProgress
  <1>1. ASSUME PInv, SerialInv(w) PROVE DeletionsKeepProgress
    BY <1>1, ProgressKept DEF DeletionsKeepProgress, OneWorker
  <1>2. PInv /\ SerialInv(w) /\ [Next]_vars => [DeletionsKeepProgress]_vars
    BY <1>1
  <1> QED
    BY <1>2, HouseholdsStayApart, SerialInvHolds, PTL
       DEF Spec, DeletingAStatusKeepsProgress, DeletionsKeepProgress
================================================================================
