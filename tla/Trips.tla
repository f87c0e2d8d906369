--------------------------------- MODULE Trips ---------------------------------
(***************************************************************************)
(* Trips, who goes, and their lines: trips/views.py and                    *)
(* trips/preparation.py.                                                   *)
(***************************************************************************)
EXTENDS PreparationTables

\* A faulty ToPack: it skips what the trip packs, not what the kits repeat.
ToPackTwice(kits, going, packed) ==
    {k \in kitline :
        k.kit \in kits /\ k.person \in going \cup {None} /\ <<k.item, k.person>> \notin packed}

\* instantiate_kit: of each line of the kits that is common or for someone
\* who goes, the first of its item and person, unless the trip packs it.
ToPack(kits, going, packed) ==
    {k \in kitline :
        /\ k.kit \in kits
        /\ k.person \in going \cup {None}
        /\ <<k.item, k.person>> \notin packed
        /\ \A j \in kitline :
              j.kit \in kits /\ j.item = k.item /\ j.person = k.person => k.id <= j.id}

\* packed_lines
Packed(t) == {<<l.item, l.person>> : l \in {m \in line : m.trip = t}}
Going(t)  == {p \in Person : <<t, p>> \in participant}

\* A faulty LinesFrom: the lines forget whom they are for.
LinesForAll(R, keys, t, s) ==
    {[id |-> keys[r], trip |-> t, item |-> r.item, person |-> None, status |-> s] : r \in R}

\* New lines of trip t with status s, after rows that have an item and a person
LinesFrom(R, keys, t, s) ==
    {[id |-> keys[r], trip |-> t, item |-> r.item, person |-> r.person, status |-> s] : r \in R}

--------------------------------------------------------------------------------
(***************************************************************************)
(* Trips.                                                                  *)
(***************************************************************************)
NewTrip(h) == [id |-> next["trip"], home |-> h, archived |-> FALSE]

\* A faulty UseTripKeys: the key of the trip is not used up.
ReuseTripKey(n) == UseKeys("line", n)

\* The keys of a new trip and of n lines of it
UseTripKeys(n) ==
    /\ next["trip"] <= MaxKey["trip"] /\ next["line"] + n <= MaxKey["line"] + 1
    /\ next' = [next EXCEPT !["trip"] = @ + 1, !["line"] = @ + n]

\* TripCreateSerializer: nobody and no kit twice
TripChoices(h) == [going : SUBSET Residents(h), kits : SUBSET KeysOf(Scoped(kit, h))]

\* build_trip without a kit needs no status.
AddEmptyTrip(w) ==
    /\ Called(w, "add trip")
    /\ \E h \in Serving : \E c \in TripChoices(h) :
          /\ c.kits = {}
          /\ trip' = trip \cup {NewTrip(h)}
          /\ participant' = participant \cup {<<next["trip"], p>> : p \in c.going}
    /\ UseTripKeys(0)
    /\ UNCHANGED <<household, person, item, kit, kitline, status, line, req>>

\* build_trip, one transaction: the participants before the kits.
AddTrip(w) ==
    /\ Called(w, "add trip")
    /\ \E h \in Serving :
          \E c \in TripChoices(h), s \in default_status(h), n \in 0 .. MaxKey["line"] :
              LET rows == ToPack(c.kits, c.going, {})
              IN  /\ c.kits # {}
                  /\ trip' = trip \cup {NewTrip(h)}
                  /\ participant' = participant \cup {<<next["trip"], p>> : p \in c.going}
                  /\ \E keys \in KeysFor(rows, n) :
                        line' = line \cup LinesFrom(rows, keys, next["trip"], s.id)
                  /\ UseTripKeys(n)
    /\ UNCHANGED <<household, person, item, kit, kitline, status, req>>

\* A copy is not asked for once the bound on keys leaves none for it.
LoadTrip(w) ==
    \E h \in Serving : \E t \in Scoped(trip, h), route \in {"edit trip", "duplicate trip"} :
        /\ route = "duplicate trip" => next["trip"] <= MaxKey["trip"]
        /\ Called(w, route) /\ Load(w, route, t)

\* TripUpdateSerializer.update
EditTrip(w) ==
    /\ Holds(w, "edit trip") /\ req[w].row.home \in household
    /\ \E archived \in BOOLEAN : trip' = Saved(trip, [req[w].row EXCEPT !.archived = archived])
    /\ Finish(w)
    /\ UNCHANGED <<household, person, item, kit, kitline, status, participant, line, next>>

DeleteTrip(w) ==
    /\ Called(w, "delete trip")
    /\ \E h \in Serving : \E t \in Scoped(trip, h) :
          /\ trip' = trip \ {t}
          /\ participant' = {e \in participant : e[1] # t.id}
          /\ line' = {l \in line : l.trip # t.id}
    /\ UNCHANGED <<household, person, item, kit, kitline, status, next, req>>

\* duplicate_trip: participants and lines of the source as they are by then,
\* every line back to the default status.
DuplicateTrip(w) ==
    LET source == req[w].row
        rows == {l \in line : l.trip = source.id}
    IN  /\ Holds(w, "duplicate trip") /\ source.home \in household
        /\ \E s \in default_status(source.home), n \in 0 .. MaxKey["line"] :
              /\ \E keys \in KeysFor(rows, n) :
                    line' = line \cup LinesFrom(rows, keys, next["trip"], s.id)
              /\ UseTripKeys(n)
        /\ participant' = participant \cup {<<next["trip"], p>> : p \in Going(source.id)}
        /\ trip' = trip \cup {NewTrip(source.home)}
        /\ Finish(w)
        /\ UNCHANGED <<household, person, item, kit, kitline, status>>

AddParticipant(w) ==
    /\ Called(w, "edit participants")
    /\ \E h \in Serving : \E t \in Scoped(trip, h), p \in Residents(h) :
          <<t.id, p>> \notin participant /\ participant' = participant \cup {<<t.id, p>>}
    /\ UNCHANGED <<household, person, item, kit, kitline, status, trip, line, next, req>>

\* The lines for somebody who no longer goes stay.
RemoveParticipant(w) ==
    /\ Called(w, "edit participants")
    /\ \E h \in Serving : \E t \in Scoped(trip, h) : \E p \in Going(t.id) :
          participant' = participant \ {<<t.id, p>>}
    /\ UNCHANGED <<household, person, item, kit, kitline, status, trip, line, next, req>>

--------------------------------------------------------------------------------
(***************************************************************************)
(* Lines.                                                                  *)
(***************************************************************************)
\* TripItemCreateSerializer
LineChoices(h) ==
    [item : KeysOf(Scoped(item, h)), person : Someone(h), status : KeysOf(Scoped(status, h))]

\* The status of a new line, given or the default one, is read before the
\* transaction that inserts it.
LoadLineStatus(w) ==
    /\ Called(w, "add line")
    /\ \E h \in Serving : \E s \in Scoped(status, h) : Load(w, "add line", s)

AddLine(w) ==
    LET h == req[w].row.home
    IN  /\ Holds(w, "add line")
        /\ \E t \in Scoped(trip, h), c \in LineChoices(h) :
              LET l == [id |-> next["line"], trip |-> t.id, item |-> c.item,
                        person |-> c.person, status |-> c.status]
              IN  /\ c.status = req[w].row.id
                  /\ UniqueTripLine(line \cup {l})
                  /\ line' = line \cup {l}
        /\ UseKeys("line", 1)
        /\ Finish(w)
        /\ UNCHANGED <<household, person, item, kit, kitline, status, trip, participant>>

\* The view looks the line up through its trip, and keeps the household.
LoadLine(w) ==
    /\ Called(w, "edit line")
    /\ \E h \in Serving : \E t \in Scoped(trip, h) : \E l \in {m \in line : m.trip = t.id} :
          req' = [req EXCEPT ![w] = [op |-> "edit line", row |-> l, home |-> h]]
    /\ UNCHANGED tables

\* TripItemUpdateSerializer: what the body names is of the household, what it
\* leaves out is written back as it was read.
LineColumns(w) ==
    [item : KeysOf(Scoped(item, req[w].home)) \cup {req[w].row.item},
     person : Someone(req[w].home) \cup {req[w].row.person},
     status : KeysOf(Scoped(status, req[w].home)) \cup {req[w].row.status}]

\* A tick, another person, another item: the write meets the foreign keys and
\* the unique constraints, nothing else.
EditLine(w) ==
    /\ Holds(w, "edit line")
    /\ \E c \in LineColumns(w) :
          LET l == [req[w].row EXCEPT !.item = c.item, !.person = c.person,
                                      !.status = c.status]
          IN  /\ LineRefersToRows(l)
              /\ UniqueTripLine(Saved(line, l))
              /\ line' = Saved(line, l)
    /\ Finish(w)
    /\ UNCHANGED <<household, person, item, kit, kitline, status, trip, participant, next>>

DeleteLine(w) ==
    /\ Called(w, "delete line")
    /\ \E h \in Serving : \E t \in Scoped(trip, h) : \E l \in {m \in line : m.trip = t.id} :
          line' = line \ {l}
    /\ UNCHANGED <<household, person, item, kit, kitline, status, trip, participant, next, req>>

\* TripKitView: instantiate_kit in one transaction
PackKit(w) ==
    /\ Called(w, "pack kit")
    /\ \E h \in Serving :
          \E t \in Scoped(trip, h), b \in Scoped(kit, h), s \in default_status(h),
             n \in 0 .. MaxKey["line"] :
              LET rows == ToPack({b.id}, Going(t.id), Packed(t.id))
              IN  /\ \E keys \in KeysFor(rows, n) :
                        line' = line \cup LinesFrom(rows, keys, t.id, s.id)
                  /\ UseKeys("line", n)
    /\ UNCHANGED <<household, person, item, kit, kitline, status, trip, participant, req>>

--------------------------------------------------------------------------------
(***************************************************************************)
(* Rows of households/models.py that these tables refer to.                *)
(***************************************************************************)
\* Two faulty MadeCommon: keys left dangling, and a cascade.
LeftDangling(P) == line
Cascaded(P) == {l \in line : l.person \notin P}

\* SET_NULL: the lines for the persons of P become common.
MadeCommon(P) == {IF l.person \in P THEN [l EXCEPT !.person = None] ELSE l : l \in line}

\* A person is deleted: kit lines and participations go with them.
DeletePerson(w) ==
    /\ Called(w, "delete person")
    /\ \E h \in Serving : \E p \in Residents(h) :
          /\ UniqueTripLine(MadeCommon({p}))
          /\ person' = person \ {p}
          /\ kitline' = {k \in kitline : k.person # p}
          /\ participant' = {e \in participant : e[2] # p}
          /\ line' = MadeCommon({p})
    /\ UNCHANGED <<household, item, kit, status, trip, next, req>>

\* A household is deleted, or the account of a personal one: everything in it
\* goes.  The keys of its persons are emptied first, in the lines that are
\* about to go too.
DeleteHousehold(w) ==
    /\ Called(w, "delete household")
    /\ \E h \in Serving :
          /\ UniqueTripLine(MadeCommon(Residents(h)))
          /\ household' = household \ {h}
          /\ person' = person \ Residents(h)
          /\ item' = item \ Scoped(item, h) /\ kit' = kit \ Scoped(kit, h)
          /\ status' = status \ Scoped(status, h) /\ trip' = trip \ Scoped(trip, h)
          /\ kitline' = {k \in kitline : k.person \notin Residents(h)
                            /\ Present(kit', k.kit) /\ Present(item', k.item)}
          /\ participant' = {e \in participant : Present(trip', e[1]) /\ e[2] \notin Residents(h)}
          /\ line' = {l \in MadeCommon(Residents(h)) :
                            Present(trip', l.trip) /\ Present(item', l.item)}
          /\ \A l \in line' : Present(status', l.status)
    /\ UNCHANGED <<next, req>>

TripStep(w) ==
    \/ AddEmptyTrip(w) \/ AddTrip(w) \/ LoadTrip(w) \/ EditTrip(w) \/ DeleteTrip(w)
    \/ DuplicateTrip(w) \/ AddParticipant(w) \/ RemoveParticipant(w)
    \/ LoadLineStatus(w) \/ AddLine(w) \/ LoadLine(w) \/ EditLine(w) \/ DeleteLine(w)
    \/ PackKit(w) \/ DeletePerson(w) \/ DeleteHousehold(w)
================================================================================
