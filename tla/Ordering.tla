-------------------------------- MODULE Ordering --------------------------------
(***************************************************************************)
(* The order of one group: the statuses or the kits of a household, the    *)
(* lines of a kit or those of a trip.  The handlers that write `position`: *)
(* catalog/views.py, catalog/ordering.py, catalog/item_types.py,           *)
(* trips/views.py and trips/preparation.py.                                *)
(*                                                                         *)
(* As in PreparationTables, a step is one statement in autocommit or one   *)
(* transaction.atomic block.  What else an entry holds is left out, but    *)
(* for the item and the person a line is about.                            *)
(***************************************************************************)
EXTENDS OrderedModel

CONSTANTS
    Worker,    \* request threads of all gunicorn workers
    Kinds,     \* the collections a behaviour may be about
    Item,      \* item types
    Person,    \* persons
    None,      \* the person of a common line
    Routes,    \* routes that clients call, and "crash"
    MaxKey     \* bound on the keys of entries, for each kind

AllKinds == {"status", "kit", "kit line", "trip line"}
AllRoutes == {"add", "pack kit", "duplicate trip", "edit", "delete", "merge items",
              "delete item", "delete person", "crash"}

ASSUME ConstantsAssumption ==
    /\ Kinds \subseteq AllKinds
    /\ Routes \subseteq AllRoutes
    /\ MaxKey \in [AllKinds -> Nat]
    /\ Item # {} /\ None \notin Person

VARIABLES
    kind,   \* the collection this group belongs to
    rank,   \* position, by key
    about,  \* what a line is about, by key
    next,   \* next primary key
    req     \* what each worker is doing

vars == <<kind, rank, about, next, req>>

Lines == {"kit line", "trip line"}
About == [item : Item, person : Person \cup {None}]
\* Statuses and kits are not about anything: any value will do for them.
Abouts == IF kind \in Lines THEN About ELSE {CHOOSE a \in About : TRUE}

Idle == [op |-> "none", id |-> 0, rank |-> 0, target |-> 0]
Request ==
    [op : {"none", "append", "edit", "delete", "shifted"},
     id : Nat, rank : Nat, target : Nat]

Init ==
    /\ kind \in Kinds
    /\ rank = <<>> /\ about = <<>>
    /\ next = 1
    /\ req = [w \in Worker |-> Idle]

Called(w, route) == route \in Routes /\ req[w] = Idle
Holds(w, op) == req[w].op = op
Finish(w) == req' = [req EXCEPT ![w] = Idle]
UseKeys(n) == next + n <= MaxKey[kind] + 1 /\ next' = next + n

\* unique_trip_line_per_person and unique_common_trip_line
UniqueTripLine(a) ==
    kind = "trip line" => \A j, k \in DOMAIN a : a[j] = a[k] => j = k

\* A faulty Targets: one past the last rank is let in.
TargetsAndEnd(r) == 0 .. Cardinality(DOMAIN r)

\* validate_position: from 0 to the number of entries less one
Targets(r) == 0 .. Cardinality(DOMAIN r) - 1

--------------------------------------------------------------------------------
(***************************************************************************)
(* New entries.                                                            *)
(***************************************************************************)
\* save() asks for the last rank before it inserts.
ReadEnd(w) ==
    /\ kind \in {"status", "kit"} /\ Called(w, "add")
    /\ req' = [req EXCEPT ![w] = [Idle EXCEPT !.op = "append", !.target = NextRank(rank)]]
    /\ UNCHANGED <<kind, rank, about, next>>

AddAtEnd(w) ==
    /\ Holds(w, "append")
    /\ rank' = Put(rank, next, req[w].target)
    /\ \E a \in Abouts : about' = Put(about, next, a)
    /\ UseKeys(1) /\ Finish(w)
    /\ UNCHANGED kind

\* A faulty HeadOf: the head of the whole group.
HeadOfAll(r, a, k) == Min(Range(r))

\* A faulty HeadOf: the line stays where it was inserted.
WhereItIs(r, a, k) == r[k]

\* Where move_to_top_of_its_object takes line k: before the first line of its
\* item, or else to the top.
HeadOf(r, a, k) ==
    LET alike == {x \in DOMAIN r \ {k} : a[x].item = a[k].item}
    IN  Min(Range(IF alike = {} THEN r ELSE Restrict(r, alike)))

\* A line is inserted at the end and moved in the same transaction.
AddLine(w) ==
    /\ kind \in Lines /\ Called(w, "add")
    /\ \E a \in About :
          LET end == NextRank(rank)
              ranked == Put(rank, next, end)
          IN  /\ about' = Put(about, next, a)
              /\ rank' = MoveTo(ranked, next, end, HeadOf(ranked, about', next))
    /\ UniqueTripLine(about')
    /\ UseKeys(1)
    /\ UNCHANGED <<kind, req>>

\* instantiate_kit inserts the lines the trip lacks one after the other, at
\* the end.
PackKit(w) ==
    /\ kind = "trip line" /\ Called(w, "pack kit")
    /\ \E n \in 1 .. MaxKey[kind] :
          LET new == next .. next + n - 1
          IN  /\ \E a \in [new -> About] :
                    about' = [k \in DOMAIN about \cup new |->
                                 IF k \in new THEN a[k] ELSE about[k]]
              /\ rank' = [k \in DOMAIN rank \cup new |->
                             IF k \in new THEN NextRank(rank) + (k - next) ELSE rank[k]]
              /\ UseKeys(n)
    /\ UniqueTripLine(about')
    /\ UNCHANGED <<kind, req>>

\* duplicate_trip inserts a line for each line of the trip, in their order and
\* at the same position.  The group of the behaviour is then that of the copy,
\* which no request knows yet.
DuplicateTrip(w) ==
    /\ kind = "trip line" /\ Called(w, "duplicate trip")
    /\ \E ks \in Turns(DOMAIN rank, rank) :
          LET copied == [k \in next .. next + Len(ks) - 1 |-> ks[k - next + 1]]
          IN  /\ rank' = [k \in DOMAIN copied |-> rank[copied[k]]]
              /\ about' = [k \in DOMAIN copied |-> about[copied[k]]]
              /\ UseKeys(Len(ks))
    /\ req' = [v \in Worker |-> Idle]
    /\ UNCHANGED kind

--------------------------------------------------------------------------------
(***************************************************************************)
(* Edits.                                                                  *)
(***************************************************************************)
\* OrderedModelSerializer.update on an entry read as key k at rank p: the row
\* is saved whole, inserted again if it is gone, then moved to t.
Update(k, p, t, a) ==
    /\ rank' = MoveTo(Put(rank, k, p), k, p, t)
    /\ about' = Put(about, k, a)
    /\ UniqueTripLine(about')

\* The patch of a status, a kit or a kit line, in one transaction.  Without a
\* position the entry stays at its rank.
EditEntry(w) ==
    /\ kind # "trip line" /\ Called(w, "edit")
    /\ \E k \in DOMAIN rank, a \in Abouts : \E t \in Targets(rank) \cup {rank[k]} :
          Update(k, rank[k], t, a)
    /\ UNCHANGED <<kind, next, req>>

\* TripItemDetailView.patch reads the line and checks the position before the
\* transaction that saves.
LoadLine(w) ==
    /\ kind = "trip line" /\ Called(w, "edit")
    /\ \E k \in DOMAIN rank : \E t \in Targets(rank) \cup {rank[k]} :
          req' = [req EXCEPT ![w] = [op |-> "edit", id |-> k, rank |-> rank[k], target |-> t]]
    /\ UNCHANGED <<kind, rank, about, next>>

EditLine(w) ==
    /\ Holds(w, "edit")
    /\ \E a \in About : Update(req[w].id, req[w].rank, req[w].target, a)
    /\ Finish(w)
    /\ UNCHANGED <<kind, next>>

--------------------------------------------------------------------------------
(***************************************************************************)
(* Deletions.                                                              *)
(***************************************************************************)
LoadEntry(w) ==
    /\ Called(w, "delete")
    /\ \E k \in DOMAIN rank :
          req' = [req EXCEPT ![w] = [Idle EXCEPT !.op = "delete", !.id = k, !.rank = rank[k]]]
    /\ UNCHANGED <<kind, rank, about, next>>

\* delete() of a kit or a line closes up behind it, and commits.
CloseUpBehind(w) ==
    /\ kind # "status" /\ Holds(w, "delete")
    /\ rank' = CloseUp(rank, req[w].rank)
    /\ req' = [req EXCEPT ![w].op = "shifted"]
    /\ UNCHANGED <<kind, about, next>>

\* Then the row goes.
RemoveEntry(w) ==
    /\ Holds(w, "shifted")
    /\ rank' = Less(rank, {req[w].id}) /\ about' = Less(about, {req[w].id})
    /\ Finish(w)
    /\ UNCHANGED <<kind, next>>

\* delete_status does both in one transaction.
DeleteStatus(w) ==
    /\ kind = "status" /\ Holds(w, "delete")
    /\ rank' = Less(CloseUp(rank, req[w].rank), {req[w].id})
    /\ about' = Less(about, {req[w].id})
    /\ Finish(w)
    /\ UNCHANGED <<kind, next>>

--------------------------------------------------------------------------------
(***************************************************************************)
(* Items and persons that lines are about.                                 *)
(***************************************************************************)
LinesOf(i) == {k \in DOMAIN about : about[k].item = i}
Retagged(i, j) == [k \in DOMAIN about |-> IF about[k].item = i THEN [about[k] EXCEPT !.item = j]
                                                               ELSE about[k]]

\* rename_item_type towards another item: kit lines all go to the survivor;
\* merge_trip_lines deletes, by rank, the lines of a person who has the
\* survivor already.
MergeItems(w) ==
    /\ Called(w, "merge items")
    /\ \E absorbed \in Item : \E survivor \in Item \ {absorbed} :
          \/ /\ kind = "kit line"
             /\ about' = Retagged(absorbed, survivor)
             /\ UNCHANGED rank
          \/ LET twice == {k \in LinesOf(absorbed) :
                             \E j \in LinesOf(survivor) : about[j].person = about[k].person}
             IN  /\ kind = "trip line"
                 /\ about' = Less(Retagged(absorbed, survivor), twice)
                 /\ \E ks \in Turns(twice, rank) :
                       rank' = LeaveInTurn(rank, ks)
    /\ UNCHANGED <<kind, next, req>>

\* A deletion that does not go through delete(): one statement takes the lines
\* K, then the post_delete receiver closes up behind each of them, from the last
\* key down.
Cascade(K) ==
    /\ \E ks \in SetToSeqs(K) :
          /\ \A i, j \in DOMAIN ks : i < j => ks[i] > ks[j]
          /\ rank' = LeaveInTurn(rank, ks)
    /\ about' = Less(about, K)

\* The item is deleted: its lines go with it.
DeleteItem(w) ==
    /\ kind \in Lines /\ Called(w, "delete item")
    /\ \E i \in Item : Cascade(LinesOf(i))
    /\ UNCHANGED <<kind, next, req>>

\* A person is deleted: their kit lines go with them (trip lines keep their
\* ranks and become common).
DeletePerson(w) ==
    /\ kind = "kit line" /\ Called(w, "delete person")
    /\ \E p \in Person : Cascade({k \in DOMAIN about : about[k].person = p})
    /\ UNCHANGED <<kind, next, req>>

--------------------------------------------------------------------------------
\* The request ends before its first write: refused, or its worker killed.
Abandon(w) ==
    /\ req[w] # Idle /\ ~Holds(w, "shifted")
    /\ Finish(w)
    /\ UNCHANGED <<kind, rank, about, next>>

\* The worker is killed between the two statements of delete().
Crash(w) ==
    /\ "crash" \in Routes /\ Holds(w, "shifted")
    /\ Finish(w)
    /\ UNCHANGED <<kind, rank, about, next>>

Next ==
    \E w \in Worker :
        \/ ReadEnd(w) \/ AddAtEnd(w) \/ AddLine(w)
        \/ PackKit(w) \/ DuplicateTrip(w)
        \/ EditEntry(w) \/ LoadLine(w) \/ EditLine(w)
        \/ LoadEntry(w) \/ CloseUpBehind(w) \/ RemoveEntry(w) \/ DeleteStatus(w)
        \/ MergeItems(w) \/ DeleteItem(w) \/ DeletePerson(w)
        \/ Abandon(w) \/ Crash(w)

Spec == Init /\ [][Next]_vars

TypeOK ==
    /\ kind \in Kinds
    /\ DOMAIN rank \subseteq 1 .. next - 1 /\ rank \in [DOMAIN rank -> Nat]
    /\ about \in [DOMAIN rank -> About]
    /\ next \in Nat
    /\ req \in [Worker -> Request]

--------------------------------------------------------------------------------
(***************************************************************************)
(* Properties, when requests are served one at a time.                     *)
(***************************************************************************)
\* The entries of the group, but for one that is being deleted
Kept == DOMAIN rank \ {req[w].id : w \in {v \in Worker : Holds(v, "shifted")}}

\* The positions of a group go from 0 to its last rank: no two entries share
\* one, and there is no hole (docs/model/catalog.md, "L'ordre").
RanksAreContiguous ==
    /\ \A j, k \in Kept : rank[j] = rank[k] => j = k
    /\ \A k \in Kept : \A p \in 0 .. rank[k] : \E j \in Kept : rank[j] = p

\* Only lines that leave with an item or a person, and a worker killed half-way
\* through a deletion, may leave the ranks of a group in disorder: adding,
\* moving, editing and deleting entries keep them contiguous.
OrderlyStep ==
    RanksAreContiguous =>
        \/ RanksAreContiguous'
        \/ \E w \in Worker : MergeItems(w) \/ DeleteItem(w) \/ DeletePerson(w) \/ Crash(w)
OrderlySteps == [][OrderlyStep]_vars

\* A line that is added ends up before the lines of its item and what is behind
\* them, or before all when it is the first of its item, and the others keep
\* their order (docs/api/README.md, "L'ordre"), whatever ranks merges and crashes
\* have left: the insertion and the move are two updates of the column.
Leads(k) ==
    LET alike == {j \in DOMAIN about : about[j].item = about'[k].item}
    IN  /\ \A i, j \in DOMAIN rank : rank'[i] < rank'[j] <=> rank[i] < rank[j]
        /\ \A j \in DOMAIN rank :
              rank'[k] < rank'[j] <=> alike = {} \/ \E h \in alike : rank[h] <= rank[j]
AddedLinesLead == [][\A w \in Worker : AddLine(w) => Leads(next)]_vars

(***************************************************************************)
(* The abstract list: the entries by rank, for as long as ranks tell them  *)
(* apart.                                                                  *)
(***************************************************************************)
Listing(r, a, K) ==
    [i \in 1 .. Cardinality(K) |->
        LET k == CHOOSE x \in K : r[x] = i - 1 IN [id |-> k, item |-> a[k].item]]

ByRank == Listing(rank, about, Kept)

Listed == INSTANCE OrderedList WITH
    list <- IF RanksAreContiguous THEN ByRank ELSE <<>>,
    orderly <- RanksAreContiguous,
    members <- Kept,
    used <- 1 .. next - 1,
    leads <- kind \in Lines

\* Whatever the handlers do to the columns, the members see a list: entries
\* join it where the documentation says and keep their order otherwise.
ImplementsList == Listed!Spec
================================================================================
