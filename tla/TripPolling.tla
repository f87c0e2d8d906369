------------------------------ MODULE TripPolling ------------------------------
(***************************************************************************)
(* A client polling the lines of a trip while members tick, add and remove *)
(* them: TripItemListCreateView.list and its ETag.                         *)
(*                                                                         *)
(* The ETag is the latest updated_at of the lines and their number.  It is *)
(* read by one statement and the body by another, both in autocommit, so a *)
(* write may come in between.  updated_at is set under the write lock, so  *)
(* later writes have later stamps; the clock counts them.                  *)
(***************************************************************************)
EXTENDS Naturals, FiniteSets

CONSTANTS
    MaxClock,     \* bound on the writes that stamp a line
    NoEtag        \* If-None-Match is absent, or no poll is being served

VARIABLES
    line,         \* lines of the trip
    clock,        \* stamp of the last write that set one
    etag,         \* what the client holds: the ETag of its last full answer...
    body,         \* ...and the lines of that answer
    polled        \* the ETag of the poll being served, once computed

vars == <<line, clock, etag, body, polled>>

Line == [id : Nat, ticked : BOOLEAN, common : BOOLEAN, updated_at : Nat]

\* A faulty Fingerprint: without the number of lines.
LatestStamp ==
    [last  |-> IF line = {} THEN 0
               ELSE CHOOSE t \in {l.updated_at : l \in line} : \A l \in line : l.updated_at <= t,
     lines |-> 0]

Fingerprint ==
    [last  |-> IF line = {} THEN 0
               ELSE CHOOSE t \in {l.updated_at : l \in line} : \A l \in line : l.updated_at <= t,
     lines |-> Cardinality(line)]

TypeOK ==
    /\ line \subseteq Line
    /\ clock \in Nat
    /\ etag \in [last : Nat, lines : Nat] \cup {NoEtag}
    /\ body \subseteq Line
    /\ polled \in [last : Nat, lines : Nat] \cup {NoEtag}

ASSUME ClockAssumption == MaxClock \in Nat
ASSUME EtagAssumption == NoEtag \notin [last : Nat, lines : Nat]

Init ==
    /\ line = {}
    /\ clock = 0
    /\ etag = NoEtag /\ body = {}
    /\ polled = NoEtag

--------------------------------------------------------------------------------
(***************************************************************************)
(* Members write.                                                          *)
(***************************************************************************)
\* A line is added, with a status that may already be a done one, under the key
\* of its stamp, which no other line has.  A PATCH that writes back a line
\* removed since it was read is one of these too.
AddLine ==
    /\ clock < MaxClock
    /\ clock' = clock + 1
    /\ \E ticked, common \in BOOLEAN :
          line' = line \cup {[id |-> clock', ticked |-> ticked, common |-> common,
                              updated_at |-> clock']}
    /\ UNCHANGED <<etag, body, polled>>

\* A faulty TickLine: a mass update, which auto_now does not see.
TickUnstamped ==
    /\ clock < MaxClock
    /\ clock' = clock + 1
    /\ \E l \in line, ticked \in BOOLEAN :
          line' = (line \ {l}) \cup {[l EXCEPT !.ticked = ticked]}
    /\ UNCHANGED <<etag, body, polled>>

TickLine ==
    /\ clock < MaxClock
    /\ clock' = clock + 1
    /\ \E l \in line, ticked \in BOOLEAN :
          line' = (line \ {l}) \cup {[l EXCEPT !.ticked = ticked, !.updated_at = clock']}
    /\ UNCHANGED <<etag, body, polled>>

RemoveLine ==
    /\ \E l \in line : line' = line \ {l}
    /\ UNCHANGED <<clock, etag, body, polled>>

\* SET_NULL by the collector, when a person is deleted: auto_now has no say.
MakeCommon ==
    /\ \E l \in line : ~l.common /\ line' = (line \ {l}) \cup {[l EXCEPT !.common = TRUE]}
    /\ UNCHANGED <<clock, etag, body, polled>>

--------------------------------------------------------------------------------
(***************************************************************************)
(* The client polls with the ETag it holds.                                *)
(***************************************************************************)
\* The aggregate, then either a 304 that leaves the client as it is, or...
ComputeEtag ==
    /\ polled = NoEtag
    /\ polled' = IF etag = Fingerprint THEN NoEtag ELSE Fingerprint
    /\ UNCHANGED <<line, clock, etag, body>>

\* A faulty AnswerLines: the ETag without the lines.
AnswerNothing ==
    /\ polled # NoEtag
    /\ etag' = polled
    /\ polled' = NoEtag
    /\ UNCHANGED <<line, clock, body>>

\* ...the body, which the client caches under that ETag.
AnswerLines ==
    /\ polled # NoEtag
    /\ etag' = polled /\ body' = line
    /\ polled' = NoEtag
    /\ UNCHANGED <<line, clock>>

LoseAnswer ==
    /\ polled # NoEtag
    /\ polled' = NoEtag
    /\ UNCHANGED <<line, clock, etag, body>>

Write == AddLine \/ TickLine \/ RemoveLine \/ MakeCommon
Next == Write \/ ComputeEtag \/ AnswerLines \/ LoseAnswer
Spec == Init /\ [][Next]_vars

\* A client that keeps polling, over a network that does not lose every answer.
FairSpec == Spec /\ WF_vars(ComputeEtag) /\ SF_vars(AnswerLines)

--------------------------------------------------------------------------------
Shows(S, l) == \E m \in S : m.id = l.id /\ m.ticked = l.ticked

\* Every tick reaches the clients that poll: a 304 never hides a line nor a
\* tick from the client, whatever was written between the two statements.
NothingIsMissed ==
    etag = Fingerprint => \A l \in line : Shows(body, l)

\* Why: the lines stamped up to the ETag the client holds are the ones it
\* shows, and every later write has a later stamp.  The proofs use it.
PollingInv ==
    /\ TypeOK
    /\ IsFiniteSet(line)
    /\ \A l \in line : l.updated_at \in 1 .. clock
    /\ etag # NoEtag =>
          /\ etag.last <= clock
          /\ \A l \in line : l.updated_at <= etag.last => Shows(body, l)
    /\ polled # NoEtag => polled.last <= clock

\* The ETag moves whenever a column of a line moves (docs/api/README.md:243),
\* deleting a person excepted (:247).
TheEtagMoves == [][line' # line /\ ~MakeCommon => Fingerprint' # Fingerprint]_vars

\* Once the members have stopped, the client ends up with every line and tick.
ClientCatchesUp == <>[](\A l \in line : Shows(body, l))

\* A 304 means that no line was added or removed since the answer the client
\* holds (UNCHANGED, trips/views.py:64-66).
NotModifiedMeansUnchanged ==
    etag = Fingerprint => {l.id : l \in body} = {l.id : l \in line}
================================================================================
