# Verification of the tout-pris API

tout-pris is a Django REST service with which a household prepares what to pack:
its members and persons, its catalog of things and statuses, its kits, its trips
and the lines to tick. These TLA+ modules model what the service does to its
tables when several gunicorn workers serve requests at the same time; TLC checks
small instances, and TLAPS proves the most important properties for any number
of workers, accounts, households, rows and writes.

## The system

### Components

| Component | State | Operations | Module |
| --- | --- | --- | --- |
| households, members, persons (`households/`) | the tables `household`, `member`, `person`; accounts | sign up, create, rename, delete a household; add, rename, delete, claim a person; change a role, remove a member; delete an account (admin) | `HouseholdTables`, `Memberships`, `HouseholdService` |
| invitations (`households/invitations.py`) | `invitation`; how old each is | invite (again), cancel, accept, expire | `Invitations`, `HouseholdService` |
| catalog (`catalog/`) | `item`, `status`, `kit`, `kitline` | add, rename, merge, delete an item type; add, edit, delete a status, hand the default over; add, edit, delete a kit and its lines | `Catalog`, `PreparationService` |
| trips (`trips/`) | `trip`, `participant`, `line` | create, edit, duplicate, delete a trip; participants; add, edit, delete a line; pack a kit; delete a person or the household | `Trips`, `PreparationService` |
| polling (`TripItemListCreateView.list`) | what a client holds: an ETag and the lines it came with | poll, receive, lose an answer | `TripPolling` |
| integrity command (`check_integrity`) | none | lists what breaks a rule that the schema does not hold | its lists are operators of `HouseholdService` and `PreparationService`; properties say that they are empty |
| ordered rows (`catalog/ordering.py`, django-ordered-model) | the `position` columns of statuses, kits, kit lines and trip lines | append, insert before the lines of an item, move, close up behind a deletion, a merge or a cascade | `OrderedModel`, `Ordering` |
| base catalog and seed (`base_catalog.py`, `seed`) | none | create the item types, statuses and kits of a household | `BaseCatalog`: the contents the races start from |
| mail, assistant, admin pages | none | send, read | not modelled |

### How they interact

Components share one SQLite database and call each other in the process of a
request. `Household` rows own everything else by foreign keys; deleting a person
(households) takes their kit lines and participations and empties the `person` of
their trip lines (catalog, trips); deleting a household takes everything; merging or
deleting an item type (catalog) moves or takes trip lines; deleting a status sends its lines to another one;
`accept` (invitations) creates a membership; `user_signed_up` (allauth) makes
`households.signals` create the personal household.

### What is hard in it

`settings.py` sets no `ATOMIC_REQUESTS` and opens transactions as `IMMEDIATE`:

* inside `transaction.atomic` a block runs as one step, writers being serialised;
* outside, each statement commits on its own, and other requests run in between.

Most handlers load a row, decide, then write. `Model.save()` writes *every*
column as it was read, and inserts the row again when it is gone. So what a
request read lives on in memory (`req[w]` in the models) and a stale row can undo,
resurrect or contradict what was committed since. That is the theme of the
hazards of `PROJECT.json`, with partial failures, the unique constraints that
refuse a bulk write, and a poll made of two statements.

### What makes each component correct

* **Households**: a shared household always has an owner, and an owner is someone
  in it (`SharedHouseholdsHaveAnOwner`, `OwnersAreSomeone`); the person of an account
  belongs to a household the account is a member of (`MembershipsAreSound`), is
  not deleted under it (`MembersKeepTheirPerson`) and is not taken from it
  (`ClaimsTakeOnlyFreePersons`); a personal household is its account's alone and lasts
  as long (`PersonalHouseholdsStayPrivate`, `PersonalHouseholdsGoWithTheirAccount`).
* **Invitations**: a token admits one account, in the step that spends it
  (`TokensAreSpentOnce`, `AcceptingAdmits`); one is open per address
  (`OneOpenInvitationPerAddress`); a cancelled one is gone (`DeletedRowsStayDeleted`).
* **Catalog and trips, between households**: the schema has no constraint that keeps
  a line, its item, its status and its person in one household; the serializers do
  (`HouseholdScopedRelation`), when the request is read. Whatever commits later,
  nothing ever refers to the rows of the household next door (`NothingReachesOutside`).
* **Catalog**: statuses include a default (`StatusesHaveADefault`); deleting one does
  not set lines back (`DeletingAStatusKeepsProgress`); merging items loses nothing
  packed (`MergingKeepsWhatIsPacked`).
* **Trips**: lines show things that exist (`LinesReferToRows`); no trip holds two lines
  for the same thing and person, or two common ones, whoever wrote them
  (`NothingIsPackedTwice`), and packing a kit leaves nothing of it out
  (`KitsArePackedWhole`); deleting a person is possible and keeps the lines
  (`PersonsCanBeDeleted`, `DeletingAPersonKeepsLines`).
* **Ordered rows**: served one request at a time, only merges, cascades and a killed
  worker may disorder a group (`OrderlySteps`), and while it is in order it is the list
  the documentation describes (`ImplementsList`); in order or not, an added line comes
  right before the lines of its item (`AddedLinesLead`).
* **Polling**: `NothingIsMissed`, `TheEtagMoves`, `ClientCatchesUp`.

## The modules

| Module | What it is |
| --- | --- |
| `Rows` | a table is a set of records keyed by `id`; `Saved` and `Without` are `Model.save()` and `Model.delete()` on a row read earlier |
| `HouseholdTables` | tables, constraints, the request record, permissions (`Enter`), the contents a behaviour may start from |
| `Memberships` | signup, households, persons, members; one action for each committed statement or atomic block |
| `Invitations` | inviting, cancelling, accepting, expiry |
| `HouseholdService` | composes them: `Next`, `Spec`, the properties |
| `HouseholdRules` | the abstract specification: each documented rule applied at the instant of the write, over `<<house, user, role>>` triples |
| `HouseholdInvariant` | the inductive invariant `IInv` |
| `HouseholdProofs`, `HouseholdPrivacyProofs`, `MembershipProofs` | theorems and proofs: types and invitations; personal households and claims; the rules of members and the refinement |
| `PreparationTables`, `Catalog`, `Trips`, `PreparationService` | the same layout for the catalogs and the trips of several households |
| `PreparationInvariant`, `PreparationProofs` | the inductive invariant `PInv`, and what is proved from it |
| `BaseCatalog` | what a new household and the seed's kits hold |
| `OrderedModel` | django-ordered-model: each update of a `position` column as a function on ranks |
| `Ordering` | the handlers that write positions, for one group of any of the four kinds |
| `OrderedList` | the abstract specification: a list that entries join, move in and leave, and what each of these must leave alone |
| `BoundedNaturals`, `OrderingProofs` | facts on finite sets of numbers, and what is proved of the ranks |
| `OrderedListProofs` | the refinement of `OrderedList` |
| `TripPolling`, `TripPollingProofs` | a polling client, and what is proved of it |
| `MCHouseholds`, `MCPreparation`, `MCOrdering` | the instances TLC checks (`TripPolling` needs none) |

### Correspondence with the code

A request is a record `req[w]`: the route, how far it went, the row it read. In
`Memberships` the steps are *permitted* (permissions and household read), *loaded*
(`get_object()`), *checked* (a business rule such as "not the last owner") and the
write. `CheckRole`/`SetRole` are the two halves of `MemberDetailView.patch`;
`CheckLeaving`/`RemoveMember` of `perform_destroy`; `LoadPendingInvitation`/`Accept`
of `InvitationAcceptView.post`; `LoadStatus`/`DeleteStatus` of the deletion of a
status; `LoadLine`/`EditLine` of a tick; `ComputeEtag`/`AnswerLines` of a poll. In
`Ordering`, `CloseUpBehind`/`RemoveEntry` are the two statements by which
`OrderedModel.delete()` closes up and then removes, outside a transaction for kits
and lines, and `DeleteStatus` is both in one. `DuplicateTrip` gives the copy the ranks
of the original, ties and holes included, and the behaviour goes on with the copy's group.

A PATCH writes the columns of its body and, as they were read, all the others. The
first are looked up in the household when the body is validated, the others meet only
the foreign keys: `EditLine` takes each column from one or the other
(`LineColumns`), and that the others did not leave the household meanwhile is proved, not
required. The lookup of `EditLine` is in the step of its write, which the foreign
keys would refuse if a row went in between. `CheckRole` lets a body without a role
through, as the view does, to a save of the membership as it was read.

Handlers under one `transaction.atomic` (`EditStatus`, `EditKitLine`, `PackKit`,
`AddTrip`, `DuplicateTrip`, `InviteMember`) are one action. `Abandon` ends a
request at any point: a refusal, a constraint that fails, a killed worker.
`PROJECT.json` gives the lines of every definition.

Operators named "A faulty ..." are mistakes one could make in that code. No
specification uses them; they are there to see that the properties notice.

### Abstractions

* Names, descriptions, colours, quantities, dates and messages are left out; the
  name of an item type is kept because uniqueness and merging depend on it, in the
  form the constraint compares (lower case, trimmed).
* Positions are apart: `Catalog` and `Trips` leave them out, and where the code takes
  the first by position (`delete_status`, `matching_item_type`) they take any that
  qualifies; `Ordering` has the positions of one group and leaves out what else an
  entry holds, but for the item and the person a line is about.
* An e-mail address is the account that has it or would have it by signing up.
* `Enter` reads the household and the permissions in one step, and `CheckLeaving`
  makes its two counts in one. The reads all come before the write that matters,
  so this only drops interleavings between reads.
* `HouseholdDetailView.delete` and the deletion of a person run Django's collector
  and its statements as one step: the collector deletes in one transaction. It
  empties the `SET_NULL` keys first, before any row goes, so the unique constraint
  on common lines is met by the lines as they are then, and what
  `person_cannot_be_deleted` shows of a person holds of their household too; this order
  is Django's, external to the repository, and `DeletePerson` and `DeleteHousehold` keep it.
* In the preparation modules a request is let in to a household that exists, and
  what it names must be in that household when it is read: that is what
  `HouseholdScopedRelation` and the querysets of the views do. Members and roles are
  not repeated there. A person belongs to one household for good (`HomeOf`), and goes
  once.
* In `Ordering` all routes of a group are served by one worker. The documentation
  accepts that two moves at once give an order nobody asked for
  (docs/api/README.md:193), so no property of two is at stake.
* A row restored by a stale PATCH is, for the fingerprint, a line added: the
  polling module has `AddLine` for both.
* `TripPolling` counts stamps with a clock: `updated_at` is set inside an
  immediate transaction, hence under the write lock, and a later write has a later
  stamp. A machine clock that goes back is not modelled. Reordering, which stamps
  the moved line, is a `TickLine` as far as the ETag goes.

## The runs

Passing runs.

| Run | Instance | What it shows |
| --- | --- | --- |
| `serial` | 3 accounts, 1 worker, every route of households | served one request at a time, households obey every documented rule: an owner at all times, no shared household is left without a member, no person keeps an account that is not a member, owners are someone, a token admits once, nothing deleted comes back; and the service **implements** `HouseholdRules` |
| `member_races` | 2 accounts, 2 workers, the routes around persons and members, an account that may be deleted | whatever interleaves, nobody gets into a personal household, and a claim takes only a free person |
| `invitation_races` | 2 accounts, 2 workers, the routes around invitations, 3 invitations, expiry | one open invitation per address; accepting marks and admits in one step |
| `serial_catalog` | 1 worker, from an empty catalog, 2 names, 1 kit, 3 statuses, 1 trip, 1 line | one request at a time: always a default status, no progress lost with a status while the household has another of that progress, nothing deleted comes back |
| `trip_races` | 2 workers in one of 2 households that have the base catalog, a kit that asks twice for the same thing, 3 trips, 2 lines; trips are not edited or deleted, which would be too many states | merging, ticking, packing, duplicating, deleting a status, a person or the whole household at once leave no dangling reference, no double, nothing of a kit left out, no lost line and nothing that leads into the other household |
| `ordered_rows` | 1 worker, each of the 4 collections, 3 or 4 entries, every route, a worker that may be killed | positions disorder only by merges, cascades and crashes; in order, the service **implements** `OrderedList`; an added line leads its item from any ranks, those a merge left included |
| `polling` | 3 stamped writes, any number of removals and polls | a 304 never hides a line or a tick; the ETag moves; a fair client catches up |

Runs that show a disagreement between the code and what is said of it. TLC gives
the interleaving; the finding of `PROJECT.json` quotes the sentence.

| Run | What happens |
| --- | --- |
| `owners_leave_together` | both owners count two, both leave or step down: no owner is left |
| `cancelled_token_accepted` | an acceptance that read an invitation before its cancellation inserts it again and admits |
| `person_cannot_be_deleted` | no race at all: emptying `TripItem.person` collides with a common line of the same thing, and the deletion fails |
| `merge_shares_rank` | no race either: merging two items that a trip packs both in common and for the same person deletes two lines one after the other, the second with the position it had before the first one left; two lines share a position |
| `not_modified_lies` | a line added between the ETag and the body and then removed stays on the client, with 304 for answer |

The same two mechanisms, a check outside the transaction that writes and a stale
row saved whole, reach further violations that have no run of their own: the last
two members leaving at once (`views.py:241`), a claim between the check and the
delete of a person (`:149`), a rename that undoes a claim (`:144`) or links again an
account that left, a role change that readmits (`:238`), a rename that restores a
deleted household (`:93`), one token spent twice (`invitations.py:65`), a status
deleted although it was made the default since the deletion read it. The rules
they break are checked where they do hold, in `serial` and `serial_catalog`.
As for positions, deleting an item whose lines are in one group twice or more
disorders it as a merge does: the cascade deletes all rows, then closes up behind
each with the position it was collected with.

A race takes two workers, so no property of `serial`, `serial_catalog` or `ordered_rows`
speaks of one. What the first two show is that the rules hold when the code's own
checks are given the time to work; that is also the premise of the theorems on them.
The hazards of `PROJECT.json` say of each race whether a run with two workers shows it.
Several have no property, as none is claimed of two workers: a token read twice before it is
spent, a role change that readmits, two statuses that are each the first, the lines of a
status sent to one that is no longer the default. For the deletion of a trip under a stale line, the theorem
`LinesAlwaysReferToRows` stands alone.

### Bounds

Keys are never reused, so a table is bounded by how many rows it may ever have.
A request that would give keys past the bound is not served, and the duplication of a trip not
even begun.
The bounds leave room for what each run is about: in `serial` a fourth household
next to a personal one each and a shared one; in `member_races` every row of the
family may be deleted and a stale copy of it saved; in `invitation_races` a first
invitation, the one that replaces it and another; in the catalog, a default, one
of the same progress and one of the other, which is what `Replacements` tells
apart; in `trip_races`, a second household whose item, status, kit and trip could be
reached by mistake, two lines that may collide in a merge and a trip to copy
them to (a packing that adds nothing where it should is a step that changes nothing, and no
action property sees it when the kit asks for one thing only; the theorem is about kits of any
length). In `ordered_rows` four lines are every combination of two items and two
beneficiaries, so that a merge meets two doubles, and three kit lines let a cascade
take two and leave one. Two workers suffice for the races found: each needs one stale
request and one that commits meanwhile. Workers are interchangeable, so the runs with two of
them use symmetry; no property under symmetry is a liveness property.
Three stamps let a poll be computed, overtaken by a tick or another line, answered
and repeated; the theorems remove the bound.

Deadlock is checked everywhere but in `invitation_races` and `trip_races`, whose
routes serve what may be deleted: once the household they serve is gone, nothing is
left to do there. In `polling` the clock never blocks a client, which can always poll.

### Fairness

Only `TripPolling` states fairness. `WF(ComputeEtag)`: the client polls for ever,
which is what the ETag is for (docs/api/README.md, "Requêtes conditionnelles").
`SF(AnswerLines)`: an answer that may be lost is not lost every time. No fairness
is asked of the members: `ClientCatchesUp` says that the client is right for good
once they stop, and the bound on the clock makes them stop.

## What is proved

Every theorem is checked by TLAPS for any constants that satisfy the assumptions
of the module that declares them: the tables start with well-formed rows, keys
below the next key, unique constraints and foreign keys satisfied, personal
households as their signup left them, and every row of a catalog or a trip in one
household.

* `TypeCorrect`: `TypeOK` of the household service.
* `PersonalPrivacy`: a personal household keeps its account as only member, owner
  and someone, and no invitation. The property is not inductive: a stale person,
  member or invitation held by a request could be written over it. `IInv` therefore
  speaks of the *known* rows, those in the tables and those requests hold. A key
  stands for one household for ever; a membership never changes household; two
  copies of a person of a personal household agree on the account; and no request
  holds a household, member or invitation route on a personal household. Each action is
  then a short case (`RequestsStayHarmless`): what it writes is a known row, so it agrees
  with what it overwrites. One lemma per action, one step per conjunct.
* `PersonalHouseholdsLast`: the action property that personal households go with
  their account only, from the same invariant.
* `ClaimsAreConditional`: an account takes another's person only when a rename writes
  back a stale row. It needs, beyond `IInv`, that a key is one row of the table: a
  person after a step is the person of the same key before it, so the two may be
  compared; the conditional update of `PersonClaimView` then finds no account.
* The rules of a household, for one worker and no account deleted (`OneAtATime`), from
  tables that obey them (`SoundStart`): `OwnersRemain`, `OwnersStaySomeone`,
  `MembershipsStaySound`, `PersonsOfMembersStay`. The rules alone are not inductive: a
  write relies on what was read and checked several steps before. `SerialInv` adds that what
  the request read is still in the table, and that what it checked still holds: a role about to
  be lowered is not the last owner's, one about to be raised is of someone, a person about to
  go is no member's. With a second worker that part is what fails. Any number of accounts,
  households and rows.
* `TokensAdmitOnce`, for one worker: `TokenInv` says that an acceptance under way
  holds the invitation as the table has it, not yet accepted.
* `WhatIsDeletedStaysDeleted`, for one worker: every save is an update. It follows from
  `SerialInv` and `TokenInv`, by table: the household, person, membership or invitation that a
  request writes back is still there, and what is new takes a key that was not given out.
* `ServiceImplementsTheRules`: the refinement of `HouseholdRules`, under the same
  premises and room for the households that the keys may name (`RoomAtStart`). The
  refinement mapping is `Roster` (who belongs where, and as what), `Somebody` (who is
  someone where) and `Personal`. Reads, checks, invitations, a person who is
  nobody and a role set to what it was are stutters; every other write is one
  action of the rules (`StepsObeyRules`), by a lemma that says which triples it adds
  and removes.
* `OneDoorPerAddress`, `AcceptingIsAtomic`: one open invitation per address, and an
  invitation marked accepted in a step admits in that step. These are invariants
  of the invitation table by themselves: what `Accept` writes back is accepted, so
  even a stale one opens no second door.
* `HouseholdsStayApart`: `PInv`, for any number of households, workers and rows, and
  from it `PreparationTyped`, `LinesAlwaysReferToRows` and
  `NothingEverReachesOutside`. That every reference stays in its household is not
  inductive, because of the rows requests hold: a tick saves the whole line it read,
  with the trip, item and status of that moment, all of which may be gone, and another
  row may not stand in their place. `EverybodyAgrees` is the strengthening: of the
  item types, the statuses and the trips, all copies of a row with the same key, in the
  table or in a request, have the same household. Keys are never given twice, so a stale row
  written back means the household it meant when it was read, and the foreign keys, checked at the
  write, put what it refers to in that household. A line held by an edit is a reference
  like those of the tables, though its rows may be gone: its item, status and trip are
  of the household it was loaded in (`HeldItems`, `HeldStatuses`, `HeldTrips`), and so is its
  person (`HeldPersonsAgree`). The proof has one lemma per action
  for the tables and one for what the requests hold.
* `NothingIsEverPackedTwice`: trip, item and person make a line unique after every
  write: `instantiate_kit` filters what the trip holds before it inserts, in one
  transaction, also when the kit repeats itself or the packing is tried again; a trip
  made of several kits and the merge of two items filter likewise; a stale line and the
  lines of a person who goes meet the constraints at the write.
* `KitsAreAlwaysPackedWhole`: a step that packs a kit leaves a line for every thing that
  the kit asks for those who go, every line that was there as it was, and nothing else.
* `MergingIsLossless` and `LinesOutlivePersons`: a merge leaves the survivor packed for
  whoever had either item, and no line goes with a person unless the household does.
* `TypesAreKept`: positions stay natural numbers of keys that were given out, for any
  number of workers. It takes `TypeInv`, which adds to the types that a request about to
  edit holds a key given out before: it may put back a line that is gone. That
  no rank falls below 0 is the point: every update lowers a rank only when it is above
  another (`CloseUpIsMonotone`), also when it acts on stale ranks.
* `StepsAreOrderly`, `RanksStayContiguous`: for one worker, no step but a merge, a cascade or
  a crash takes a group out of order, and without those every group stays numbered
  from 0 with no tie and no hole. `AloneInv` holds in order or not: what the request
  read is what the table still has, its target is a rank that is taken, or the next
  one for what it appends. `InOrder` says that ranks are a bijection onto an initial segment,
  but for an entry half-way through its deletion; one lemma per update of the column
  (`InsertKeepsOrder`, `MoveKeepsOrder`, `CloseUpKeepsOrder`, `PackKeepsOrder`) says that it
  is kept.
* `AddedLinesAlwaysLead`: for any number of workers and from any ranks, the line just added
  has before it only lines that were before every line of its item, or none when it is the
  first of it, and the others keep
  their order among themselves. It is not a matter of `InOrder`: the least rank of an item is
  defined on disordered ranks too, and making room there moves whole blocks.
* `RanksImplementTheList`: the refinement of `OrderedList`, for one worker and every
  route. The mapping is `Listing`, which finds the entry of each rank; `Lists` says what it
  is without CHOOSE, and the lemmas on lists are stated of any `l` that
  `Lists(l, ...)`. Adding a line is `Lead`: taking it out of the new list gives the old one
  (`ListWithoutEntry`), and its place is the least rank of its item (`HeadIsLeast`). An
  edit takes the entry out of both lists and finds the same rest. For merges and cascades,
  the rows that leave close up one after the other (`LeavingTogether`, by the least turn that
  would fail): whatever their ranks and their order, none of those that stay overtakes
  another, so while the order is not lost they stay as they were; and one row that
  leaves is a deletion (`LeavingAlone`), so the order is lost only when two leave. A
  duplicated trip is `Copy`: each copied line has the rank of one original, so the list of
  the copy is the same list under new keys (`DuplicateTripCopies`). Reads and
  the second statement of a deletion are stutters.
* `DefaultsAlwaysStand`, `NothingComesBack` and `ProgressSurvives`, for one worker and any
  number of households: the properties of `serial_catalog`. The `SerialInv` of this module says
  that every status has a default one beside it, that a request still finds what it read (the
  default status, if it saw one, the status to delete, the item, trip or line it will write
  back) and that a key is one line. `delete_status` then refuses the real default, and each save
  is an update. That lines are matched by key before and after a deletion is why their
  keys are in the invariant: copies take the next keys, one each, and nothing else changes them.
* `PollingIsInvariant`, `PollsMissNothing`, `EtagAlwaysMoves`: the polling module.
  `PollingInv` says that lines stamped up to the client's ETag are shown by its
  body, and that no ETag is ahead of the clock. A write stamps past the ETag; an
  answer copies every line; so when the ETag is the current one, every line is
  stamped up to it and is shown. The latest stamp of a finite set exists by
  well-foundedness of the naturals (`LatestExists`).

Only model-checked: liveness (`ClientCatchesUp`) and anything about ENABLED, which
this prover does not do. The rules that hold of one worker
only are proved of one worker only: "The runs" lists how two break them.

## What is not modelled, and why

* Mail: messages are sent after the commit and keep no state. A message that fails
  leaves an invitation whose token nobody received; inviting again replaces it.
* Sessions, e-mail confirmation, passwords: allauth's.
* The accounts that the seed creates, and the list of accounts without a personal
  household in `check_integrity`: they concern signups that did not finish, which
  the documentation does not promise anything about.
* The assistant: two read-only tools.
* Settings, entry points, admin pages, migrations: configuration. What they decide
  (autocommit, immediate transactions, constraints, `on_delete`) is in the steps of
  the models.
* What a request answers, apart from polls: so the answer of an item type whose
  twin disappears between two look-ups, and the wording of a refused line.
* Two workers on the positions of one group (see Abstractions).

## What is left to do

Positions and contents in one module, to have `delete_status` choose by rank.
