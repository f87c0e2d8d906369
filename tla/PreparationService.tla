--------------------------- MODULE PreparationService ---------------------------
(***************************************************************************)
(* The members of several households tidying their catalogs and preparing  *)
(* their trips at the same time, and what check_integrity would list.      *)
(***************************************************************************)
EXTENDS Catalog, Trips

Serve(w) == CatalogStep(w) \/ TripStep(w) \/ Abandon(w)
Next == \E w \in Worker : Serve(w)
Spec == Init /\ [][Next]_vars

TypeOK ==
    /\ household \subseteq Household /\ person \subseteq Person
    /\ item \subseteq ItemRow
    /\ kit \subseteq KitRow
    /\ kitline \subseteq KitLineRow
    /\ status \subseteq StatusRow
    /\ trip \subseteq TripRow
    /\ participant \subseteq Nat \X Person
    /\ line \subseteq LineRow
    /\ next \in [TableNames -> Nat]
    /\ req \in [Worker -> Request]

--------------------------------------------------------------------------------
(***************************************************************************)
(* check_integrity: the states the model forbids but the schema cannot     *)
(* prevent.                                                                *)
(***************************************************************************)
\* person__isnull=False and another household
ForeignPerson(p, h) == p # None /\ HomeOf[p] # h
\* A key of table T that leads out of household h
ForeignKey(T, k, h) == \E r \in T : r.id = k /\ r.home # h

kit_lines_reaching_outside_their_household ==
    {k \in kitline : \E b \in kit :
        b.id = k.kit /\ (ForeignKey(item, k.item, b.home) \/ ForeignPerson(k.person, b.home))}

households_whose_statuses_have_no_default ==
    {h \in household : Scoped(status, h) # {} /\ default_status(h) = {}}

trip_lines_reaching_outside_their_household ==
    {l \in line : \E t \in trip :
        /\ t.id = l.trip
        /\ \/ ForeignKey(item, l.item, t.home) \/ ForeignKey(status, l.status, t.home)
           \/ ForeignPerson(l.person, t.home)}

trip_participants_from_another_household ==
    {e \in participant : \E t \in trip : t.id = e[1] /\ HomeOf[e[2]] # t.home}

--------------------------------------------------------------------------------
(***************************************************************************)
(* Properties that hold whatever the interleaving.                         *)
(***************************************************************************)

\* A line of a trip shows an item, a status and a person that exist, and a kit
\* line too: deleting or merging one of them leaves no line behind, even when
\* a request writes back a line it read before, nor does deleting a household.
LinesReferToRows ==
    /\ \A r \in item \cup kit \cup status \cup trip : r.home \in household
    /\ \A l \in line : LineRefersToRows(l)
    /\ \A k \in kitline : Present(kit, k.kit) /\ Present(item, k.item) /\ Assignable(k.person)
    /\ \A e \in participant : Present(trip, e[1]) /\ e[2] \in person

\* What is in a household refers to that household only: whatever rows requests
\* hold and write back, check_integrity never lists a line or a participant.
\* The schema does not say it, the API is the only one to see to it
\* (HouseholdScopedRelation, households/serializers.py:14-15).
NothingReachesOutside ==
    /\ kit_lines_reaching_outside_their_household = {}
    /\ trip_lines_reaching_outside_their_household = {}
    /\ trip_participants_from_another_household = {}

\* Nothing is packed twice for the same person, nor twice in common: packing,
\* duplicating and merging insert and retag lines without looking again, though
\* a kit may repeat itself and lines change meanwhile (unique_trip_line_per_person
\* and unique_common_trip_line, models.py:104-112).
NothingIsPackedTwice == UniqueTripLine(line)

\* A kit is packed whole, and again without a double: what a trip packs becomes
\* what it packed and what the kit asks for those who go, a thing that is packed
\* for somebody else or in common notwithstanding (instantiate_kit,
\* preparation.py:21-43).
AskedFor(b, t) ==
    {<<k.item, k.person>> : k \in {j \in kitline : j.kit = b /\ j.person \in Going(t) \cup {None}}}
KitsArePackedWhole ==
    [][\A w \in Worker : PackKit(w) =>
          /\ line \subseteq line'
          /\ \E t \in trip, b \in kit :
                /\ t.home = b.home /\ Packed(t.id)' = Packed(t.id) \cup AskedFor(b.id, t.id)
                /\ \A l \in line' \ line : l.trip = t.id]_vars

\* Merging two items loses nothing that is packed: whoever had one of them on a
\* trip has the survivor there (merge_trip_lines, item_types.py:17-25).
WhereAndForWhom(L, i) == {<<l.trip, l.person>> : l \in {m \in L : m.item = i}}
MergingKeepsWhatIsPacked ==
    [][\A w \in Worker : MergeItem(w) =>
          LET i == req[w].row.id
          IN  \E survivor \in item' :
                 WhereAndForWhom(line', survivor.id) =
                     WhereAndForWhom(line, survivor.id) \cup WhereAndForWhom(line, i)]_vars

\* Somebody who is deleted leaves their lines to everybody: no line of a trip
\* goes with a person, unless their household goes (TripItem.person,
\* models.py:73-80).
DeletingAPersonKeepsLines ==
    [][person' # person /\ household' = household
          => {l.id : l \in line'} = {l.id : l \in line}]_vars

--------------------------------------------------------------------------------
(***************************************************************************)
(* Properties the documentation states, which hold when requests are       *)
(* served one at a time.                                                   *)
(***************************************************************************)

\* households_whose_statuses_have_no_default lists nothing
\* (check_integrity.py:53-61).
StatusesHaveADefault == households_whose_statuses_have_no_default = {}

\* Deleting a status does not set a line back when another status of the
\* household, of the same progress, can take it over (delete_status,
\* statuses.py:28-36).
ProgressOf(l) == {s.progress : s \in {t \in status : t.id = l.status}}
DeletingAStatusKeepsProgress ==
    [][\A w \in Worker : DeleteStatus(w) =>
          \A l \in line, m \in line' : l.id = m.id =>
              \/ ProgressOf(m)' = ProgressOf(l)
              \/ \A s \in status' : s.home = req[w].row.home => s.progress \notin ProgressOf(l)]_vars

\* An item that is merged away or deleted does not come back, nor a trip or a
\* line (the second save of ItemTypeDetailView.patch, views.py:99).
DeletedRowsStayDeleted ==
    [][/\ \A i \in item' : i.id >= next["item"] \/ Present(item, i.id)
       /\ \A t \in trip' : t.id >= next["trip"] \/ Present(trip, t.id)
       /\ \A l \in line' : l.id >= next["line"] \/ Present(line, l.id)]_vars

\* A person can be deleted: the lines they leave do not collide with one that
\* is common already.
PersonsCanBeDeleted == \A p \in person : UniqueTripLine(MadeCommon({p}))
================================================================================
