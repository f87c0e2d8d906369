-------------------------------- MODULE Catalog --------------------------------
(***************************************************************************)
(* Item types, statuses, kits and their lines: catalog/views.py,           *)
(* statuses.py and item_types.py.                                          *)
(***************************************************************************)
EXTENDS PreparationTables

--------------------------------------------------------------------------------
(***************************************************************************)
(* Item types.                                                             *)
(***************************************************************************)
matching_item_type(h, n) == {i \in Scoped(item, h) : i.name = n}

\* Adding a name that is taken, before or since it was looked up, answers the
\* item that has it.
AddItem(w) ==
    /\ Called(w, "add item")
    /\ \E h \in Serving, n \in Name :
          /\ matching_item_type(h, n) = {}
          /\ item' = item \cup {[id |-> next["item"], home |-> h, name |-> n]}
    /\ UseKeys("item", 1)
    /\ UNCHANGED <<household, person, kit, kitline, status, trip, participant, line, req>>

LoadItem(w) ==
    /\ Called(w, "edit item")
    /\ \E h \in Serving : \E i \in Scoped(item, h) : Load(w, "edit item", i)

\* rename_item_type when no other item has the name; the view saves the same
\* instance once more.
RenameItem(w) ==
    LET i == req[w].row
    IN  /\ Holds(w, "edit item") /\ i.home \in household
        /\ \E n \in Name :
              LET renamed == [i EXCEPT !.name = n]
              IN  /\ \A j \in matching_item_type(i.home, n) : j.id = i.id
                  /\ item' = Saved(item, renamed)
                  /\ req' = [req EXCEPT ![w] = [op |-> "save item", row |-> renamed]]
        /\ UNCHANGED <<household, person, kit, kitline, status, trip, participant, line, next>>

\* The description is saved, and with it every column as it was read.
SaveItem(w) ==
    /\ req[w].op \in {"edit item", "save item"} /\ req[w].row.home \in household
    /\ UniqueItemTypeName(Saved(item, req[w].row))
    /\ item' = Saved(item, req[w].row)
    /\ Finish(w)
    /\ UNCHANGED <<household, person, kit, kitline, status, trip, participant, line, next>>

\* A faulty merge_trip_lines: the lines of the absorbed item go with it.
drop_trip_lines(absorbed, survivor) == {l \in line : l.item # absorbed}

\* merge_trip_lines: the lines of the absorbed item go to the survivor, apart
\* from those it already has for the same trip and person.
merge_trip_lines(absorbed, survivor) ==
    LET taken == {<<l.trip, l.person>> : l \in {m \in line : m.item = survivor}}
    IN  {l \in line : l.item # absorbed} \cup
        {[l EXCEPT !.item = survivor] :
            l \in {m \in line : m.item = absorbed /\ <<m.trip, m.person>> \notin taken}}

Retagged(absorbed, survivor) ==
    {IF k.item = absorbed THEN [k EXCEPT !.item = survivor] ELSE k : k \in kitline}

\* A faulty MergeItem: the view saves the absorbed item too.
MergeThenSave(w) ==
    LET i == req[w].row
    IN  /\ Holds(w, "edit item")
        /\ \E survivor \in Scoped(item, i.home) :
              /\ survivor.id # i.id
              /\ kitline' = Retagged(i.id, survivor.id)
              /\ line' = merge_trip_lines(i.id, survivor.id)
        /\ item' = Without(item, i)
        /\ req' = [req EXCEPT ![w].op = "save item"]
        /\ UNCHANGED <<household, person, kit, status, trip, participant, next>>

\* rename_item_type towards the name of another item
MergeItem(w) ==
    LET i == req[w].row
    IN  /\ Holds(w, "edit item")
        /\ \E n \in Name : \E survivor \in matching_item_type(i.home, n) :
              /\ survivor.id # i.id
              /\ kitline' = Retagged(i.id, survivor.id)
              /\ line' = merge_trip_lines(i.id, survivor.id)
        /\ item' = Without(item, i)
        /\ Finish(w)
        /\ UNCHANGED <<household, person, kit, status, trip, participant, next>>

DeleteItem(w) ==
    /\ Called(w, "delete item")
    /\ \E h \in Serving : \E i \in Scoped(item, h) :
          /\ item' = item \ {i}
          /\ kitline' = {k \in kitline : k.item # i.id}
          /\ line' = {l \in line : l.item # i.id}
    /\ UNCHANGED <<household, person, kit, status, trip, participant, next, req>>

--------------------------------------------------------------------------------
(***************************************************************************)
(* Kits and their lines.                                                   *)
(***************************************************************************)
AddKit(w) ==
    /\ Called(w, "add kit")
    /\ \E h \in Serving : kit' = kit \cup {[id |-> next["kit"], home |-> h]}
    /\ UseKeys("kit", 1)
    /\ UNCHANGED <<household, person, item, kitline, status, trip, participant, line, req>>

\* The lines a kit brought to a trip stay there.
DeleteKit(w) ==
    /\ Called(w, "delete kit")
    /\ \E h \in Serving : \E b \in Scoped(kit, h) :
          kit' = kit \ {b} /\ kitline' = {k \in kitline : k.kit # b.id}
    /\ UNCHANGED <<household, person, item, status, trip, participant, line, next, req>>

\* KitItemCreateSerializer, KitItemUpdateSerializer
KitLineChoices(h) == [item : KeysOf(Scoped(item, h)), person : Someone(h)]

AddKitLine(w) ==
    /\ Called(w, "edit kit")
    /\ \E h \in Serving : \E b \in Scoped(kit, h), c \in KitLineChoices(h) :
          kitline' = kitline \cup
              {[id |-> next["kitline"], kit |-> b.id, item |-> c.item, person |-> c.person]}
    /\ UseKeys("kitline", 1)
    /\ UNCHANGED <<household, person, item, kit, status, trip, participant, line, req>>

\* KitItemDetailView.patch reads and writes in one transaction.
EditKitLine(w) ==
    /\ Called(w, "edit kit")
    /\ \E h \in Serving : \E b \in Scoped(kit, h), c \in KitLineChoices(h) :
          \E k \in {l \in kitline : l.kit = b.id} :
              kitline' = Saved(kitline, [k EXCEPT !.item = c.item, !.person = c.person])
    /\ UNCHANGED <<household, person, item, kit, status, trip, participant, line, next, req>>

DeleteKitLine(w) ==
    /\ Called(w, "edit kit")
    /\ \E h \in Serving : \E b \in Scoped(kit, h) : \E k \in {l \in kitline : l.kit = b.id} :
          kitline' = kitline \ {k}
    /\ UNCHANGED <<household, person, item, kit, status, trip, participant, line, next, req>>

--------------------------------------------------------------------------------
(***************************************************************************)
(* Statuses.                                                               *)
(***************************************************************************)
\* ItemStatus.save asks whether the household has a default before it inserts.
LookForDefault(w) ==
    /\ Called(w, "add status")
    /\ \E h \in Serving :
          Load(w, IF default_status(h) = {} THEN "add first status" ELSE "add status", h)

\* A faulty AddStatus: the first status is like any other.
AddPlainStatus(w) ==
    LET h == req[w].row
    IN  /\ req[w].op \in {"add status", "add first status"} /\ h \in household
        /\ \E g \in Progress :
              status' = status \cup
                  {[id |-> next["status"], home |-> h, progress |-> g, default |-> FALSE]}
        /\ UseKeys("status", 1)
        /\ Finish(w)
        /\ UNCHANGED <<household, person, item, kit, kitline, trip, participant, line>>

AddStatus(w) ==
    LET h == req[w].row
    IN  /\ req[w].op \in {"add status", "add first status"} /\ h \in household
        /\ \E g \in Progress :
              status' = status \cup {[id |-> next["status"], home |-> h, progress |-> g,
                                      default |-> Holds(w, "add first status")]}
        /\ UniqueDefaultItemStatus(status')
        /\ UseKeys("status", 1)
        /\ Finish(w)
        /\ UNCHANGED <<household, person, item, kit, kitline, trip, participant, line>>

\* A faulty make_default: the column of the others is emptied.
make_only_default(s) ==
    Saved({IF t.home = s.home THEN [t EXCEPT !.default = None] ELSE t : t \in status},
          [s EXCEPT !.default = TRUE])

\* make_default, in the transaction of ItemStatusDetailView.patch
make_default(s) ==
    Saved({IF t.home = s.home THEN [t EXCEPT !.default = FALSE] ELSE t : t \in status},
          [s EXCEPT !.default = TRUE])

\* ItemStatusUpdateSerializer: a status may become the default, not cease to be.
StatusEdits(s) ==
    LET edited == {[s EXCEPT !.progress = g] : g \in Progress}
    IN  {Saved(status, e) : e \in edited} \cup {make_default(e) : e \in edited}

EditStatus(w) ==
    /\ Called(w, "edit status")
    /\ \E h \in Serving : \E s \in Scoped(status, h) : status' \in StatusEdits(s)
    /\ UNCHANGED <<household, person, item, kit, kitline, trip, participant, line, next, req>>

LoadStatus(w) ==
    /\ Called(w, "delete status")
    /\ \E h \in Serving : \E s \in Scoped(status, h) : Load(w, "delete status", s)

\* A faulty Replacements: the default status, whatever the progress.
DefaultReplacement(s) == default_status(s.home)

\* The siblings the lines of a deleted status may go to: the first of the same
\* progress, any of them here, or else the default one.
Replacements(s) ==
    LET alike == {t \in Scoped(status, s.home) : t.id # s.id /\ t.progress = s.progress}
    IN  IF alike # {} THEN alike ELSE default_status(s.home)

\* delete_status decides on the row that get_object read.  Deleting a status
\* that lines still carry is refused (RESTRICT).
DeleteStatus(w) ==
    LET s == req[w].row
    IN  /\ Holds(w, "delete status")
        /\ ~s.default
        /\ \/ /\ \A l \in line : l.status # s.id
              /\ UNCHANGED line
           \/ \E r \in Replacements(s) :
                 /\ r.id # s.id
                 /\ line' = {IF l.status = s.id THEN [l EXCEPT !.status = r.id] ELSE l : l \in line}
        /\ status' = Without(status, s)
        /\ Finish(w)
        /\ UNCHANGED <<household, person, item, kit, kitline, trip, participant, next>>

CatalogStep(w) ==
    \/ AddItem(w) \/ LoadItem(w) \/ RenameItem(w) \/ SaveItem(w) \/ MergeItem(w) \/ DeleteItem(w)
    \/ AddKit(w) \/ DeleteKit(w) \/ AddKitLine(w) \/ EditKitLine(w) \/ DeleteKitLine(w)
    \/ LookForDefault(w) \/ AddStatus(w) \/ EditStatus(w) \/ LoadStatus(w) \/ DeleteStatus(w)
================================================================================
