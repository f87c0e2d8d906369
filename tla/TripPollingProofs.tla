--------------------------- MODULE TripPollingProofs ---------------------------
(***************************************************************************)
(* What a polling client is promised, for any number of writes and polls.  *)
(* Steps: the fingerprint bounds the stamps of the lines (TheFingerprint),  *)
(* PollingInv is inductive, and it gives NothingIsMissed; TheEtagMoves     *)
(* follows from the stamps and the count.                                  *)
(***************************************************************************)
EXTENDS TripPolling, BoundedNaturals, FiniteSetTheorems

\* The stamp in the ETag (trips/views.py:237-238) is the latest of the lines, or
\* 0 when there is none, and the ETag is a value a client can hold.
FingerprintIsLatest ==
    /\ Fingerprint \in [last : Nat, lines : Nat]
    /\ Fingerprint.last <= clock
    /\ \A l \in line : l.updated_at <= Fingerprint.last
    /\ Fingerprint.lines = Cardinality(line)

LEMMA TheFingerprint == PollingInv => FingerprintIsLatest
<1> SUFFICES ASSUME PollingInv PROVE FingerprintIsLatest
  OBVIOUS
<1>0. /\ clock \in Nat /\ line \subseteq Line /\ IsFiniteSet(line)
      /\ \A l \in line : l.updated_at \in 1 .. clock
  BY DEF PollingInv, TypeOK
<1> DEFINE T == {l.updated_at : l \in line}
           Latest == CHOOSE t \in T : \A l \in line : l.updated_at <= t
<1>1. Cardinality(line) \in Nat
  BY <1>0, FS_CardinalityType
<1>2. CASE line = {}
  <2>1. Fingerprint = [last |-> 0, lines |-> Cardinality(line)]
    BY <1>2 DEF Fingerprint
  <2> QED
    BY <1>0, <1>1, <1>2, <2>1 DEF FingerprintIsLatest
<1>3. CASE line # {}
  <2>1. T \in SUBSET (0 .. clock) /\ T # {}
    BY <1>0, <1>3
  <2>2. PICK t \in T : \A u \in T : u <= t
    BY <1>0, <2>1, LatestExists
  <2>3. \E s \in T : \A l \in line : l.updated_at <= s
    BY <2>2
  <2>4. Latest \in T /\ \A l \in line : l.updated_at <= Latest
    BY <2>3
  <2>5. Fingerprint = [last |-> Latest, lines |-> Cardinality(line)]
    BY <1>3 DEF Fingerprint
  <2> HIDE DEF Latest, T
  <2>6. Latest \in Nat /\ Latest <= clock
    BY <1>0, <2>1, <2>4
  <2> QED
    BY <1>1, <2>4, <2>5, <2>6 DEF FingerprintIsLatest
<1> QED
  BY <1>2, <1>3

\* A stamped line is the line with its new stamp (TripItem.save, auto_now).
LEMMA Stamped ==
    ASSUME NEW m \in Line, NEW ticked \in BOOLEAN, NEW t \in Nat
    PROVE  /\ [m EXCEPT !.ticked = ticked, !.updated_at = t] \in Line
           /\ [m EXCEPT !.ticked = ticked, !.updated_at = t].updated_at = t
BY Zenon DEF Line

\* A line made common keeps everything else.
LEMMA SharedOut ==
    ASSUME NEW m \in Line, NEW k, k = [m EXCEPT !.common = TRUE]
    PROVE  k \in Line /\ k.id = m.id /\ k.ticked = m.ticked /\ k.updated_at = m.updated_at
BY Zenon DEF Line

--------------------------------------------------------------------------------
LEMMA InitPolling == Init => PollingInv
<1> SUFFICES ASSUME Init PROVE PollingInv
  OBVIOUS
<1>1. IsFiniteSet({})
  BY FS_EmptySet
<1> QED
  BY <1>1 DEF Init, PollingInv, TypeOK

LEMMA StepPolling == PollingInv /\ [Next]_vars => PollingInv'
<1> SUFFICES ASSUME PollingInv, [Next]_vars PROVE PollingInv'
  OBVIOUS
<1> USE DEF PollingInv
<1>1. /\ Fingerprint \in [last : Nat, lines : Nat]
      /\ Fingerprint.last <= clock
  BY TheFingerprint DEF FingerprintIsLatest
<1>2. CASE AddLine
  <2>1. clock' = clock + 1 /\ clock \in Nat /\ etag' = etag /\ body' = body /\ polled' = polled
    BY <1>2 DEF AddLine, TypeOK
  <2>2. PICK ticked, common \in BOOLEAN :
          line' = line \cup {[id |-> clock', ticked |-> ticked, common |-> common,
                              updated_at |-> clock']}
    BY <1>2 DEF AddLine
  <2>3. IsFiniteSet(line')
    BY <2>2, FS_AddElement
  <2>4. TypeOK'
    <3>1. [id |-> clock', ticked |-> ticked, common |-> common, updated_at |-> clock'] \in Line
      BY <2>1 DEF Line
    <3>2. line' \subseteq Line
      BY <2>2, <3>1 DEF TypeOK
    <3> QED
      BY <2>1, <3>2, <3>1 DEF TypeOK
  <2>5. \A l \in line' : l \in line \/ l.updated_at = clock'
    BY <2>2
  <2>6. \A l \in line' : l.updated_at \in 1 .. clock'
    BY <2>1, <2>5
  <2>7. etag' # NoEtag =>
          etag'.last <= clock' /\ \A l \in line' : l.updated_at <= etag'.last => Shows(body', l)
    BY <2>1, <2>5 DEF TypeOK, Shows
  <2>8. polled' # NoEtag => polled'.last <= clock'
    BY <2>1 DEF TypeOK
  <2> QED
    BY <2>3, <2>4, <2>6, <2>7, <2>8
<1>3. CASE TickLine
  <2>1. clock' = clock + 1 /\ clock \in Nat /\ etag' = etag /\ body' = body /\ polled' = polled
    BY <1>3 DEF TickLine, TypeOK
  <2>0. clock' \in Nat
    BY <2>1
  <2>2. PICK m \in line, ticked \in BOOLEAN :
          line' = (line \ {m}) \cup {[m EXCEPT !.ticked = ticked, !.updated_at = clock']}
    BY <1>3 DEF TickLine
  <2>3. IsFiniteSet(line')
    BY <2>2, FS_AddElement, FS_RemoveElement
  <2>4. m \in Line /\ line \subseteq Line
    BY <2>2 DEF TypeOK
  <2>5. /\ [m EXCEPT !.ticked = ticked, !.updated_at = clock'] \in Line
        /\ [m EXCEPT !.ticked = ticked, !.updated_at = clock'].updated_at = clock'
    BY <2>1, <2>4, <2>0, Stamped, Zenon
  <2>6. \A l \in line' : l \in line \/ (l.updated_at = clock' /\ l \in Line)
    BY <2>2, <2>5
  <2>7. TypeOK'
    BY <2>1, <2>4, <2>6 DEF TypeOK
  <2>8. \A l \in line' : l.updated_at \in 1 .. clock'
    BY <2>1, <2>6
  <2>9. etag' # NoEtag =>
          etag'.last <= clock' /\ \A l \in line' : l.updated_at <= etag'.last => Shows(body', l)
    BY <2>1, <2>6 DEF TypeOK, Shows
  <2>10. polled' # NoEtag => polled'.last <= clock'
    BY <2>1 DEF TypeOK
  <2> QED
    BY <2>3, <2>7, <2>8, <2>9, <2>10
<1>4. CASE RemoveLine
  <2>1. UNCHANGED <<clock, etag, body, polled>>
    BY <1>4 DEF RemoveLine
  <2>2. PICK m \in line : line' = line \ {m}
    BY <1>4 DEF RemoveLine
  <2>3. IsFiniteSet(line')
    BY <2>2, FS_RemoveElement
  <2> QED
    BY <2>1, <2>2, <2>3 DEF TypeOK, Shows
<1>5. CASE MakeCommon
  <2>1. UNCHANGED <<clock, etag, body, polled>>
    BY <1>5 DEF MakeCommon
  <2>2. PICK m \in line : line' = (line \ {m}) \cup {[m EXCEPT !.common = TRUE]}
    BY <1>5 DEF MakeCommon
  <2>3. IsFiniteSet(line')
    BY <2>2, FS_AddElement, FS_RemoveElement
  <2>4. m \in Line /\ line \subseteq Line
    BY <2>2 DEF TypeOK
  <2> DEFINE k == [m EXCEPT !.common = TRUE]
  <2>5. /\ k \in Line
        /\ k.id = m.id /\ k.ticked = m.ticked /\ k.updated_at = m.updated_at
    BY <2>4, SharedOut
  <2> HIDE DEF k
  <2>6. line' = (line \ {m}) \cup {k}
    BY <2>2 DEF k
  <2>7. TypeOK'
    BY <2>1, <2>4, <2>5, <2>6 DEF TypeOK
  <2>8. \A l \in line' : l.updated_at \in 1 .. clock'
    BY <2>1, <2>2, <2>5, <2>6
  <2>9. Shows(body, m) => Shows(body, k)
    BY <2>5 DEF Shows
  <2>10. etag' # NoEtag =>
          etag'.last <= clock' /\ \A l \in line' : l.updated_at <= etag'.last => Shows(body', l)
    BY <2>1, <2>2, <2>5, <2>6, <2>9 DEF Shows
  <2> QED
    BY <2>1, <2>3, <2>7, <2>8, <2>10
<1>6. CASE ComputeEtag
  BY <1>1, <1>6 DEF ComputeEtag, TypeOK, Shows
<1>7. CASE AnswerLines
  <2>1. etag' = polled /\ body' = line /\ polled # NoEtag /\ polled' = NoEtag
        /\ UNCHANGED <<line, clock>>
    BY <1>7 DEF AnswerLines
  <2>2. \A l \in line' : Shows(body', l)
    BY <2>1 DEF Shows
  <2> QED
    BY <2>1, <2>2 DEF TypeOK
<1>8. CASE LoseAnswer
  BY <1>8 DEF LoseAnswer, TypeOK, Shows
<1>9. CASE UNCHANGED vars
  BY <1>9 DEF vars, TypeOK, Shows
<1> QED
  BY <1>2, <1>3, <1>4, <1>5, <1>6, <1>7, <1>8, <1>9 DEF Next, Write

\* PollingInv holds for any number of writes and of polls.
THEOREM PollingIsInvariant == Spec => []PollingInv
<1> QED
  BY InitPolling, StepPolling, PTL DEF Spec

--------------------------------------------------------------------------------
LEMMA InvariantMissesNothing == PollingInv => NothingIsMissed
<1> SUFFICES ASSUME PollingInv, etag = Fingerprint, NEW l \in line
             PROVE  Shows(body, l)
  BY DEF NothingIsMissed
<1>1. /\ Fingerprint \in [last : Nat, lines : Nat]
      /\ l.updated_at <= Fingerprint.last
  BY TheFingerprint DEF FingerprintIsLatest
<1>2. etag # NoEtag
  BY <1>1, EtagAssumption
<1> QED
  BY <1>1, <1>2 DEF PollingInv

\* A 304 never hides a line or a tick (TripItemListCreateView.list,
\* trips/views.py:236-244): a client that holds the current ETag shows every line
\* as it stands, though ETag and lines are read by two statements.
THEOREM PollsMissNothing == Spec => []NothingIsMissed
<1> QED
  BY PollingIsInvariant, InvariantMissesNothing, PTL

--------------------------------------------------------------------------------
LEMMA StepMovesTheEtag ==
    ASSUME PollingInv, PollingInv', Next, line' # line, ~MakeCommon
    PROVE  Fingerprint' # Fingerprint
<1>1. /\ Fingerprint \in [last : Nat, lines : Nat]
      /\ Fingerprint.last <= clock
      /\ Fingerprint.lines = Cardinality(line)
  BY TheFingerprint DEF FingerprintIsLatest
<1>2. /\ Fingerprint' \in [last : Nat, lines : Nat]
      /\ \A l \in line' : l.updated_at <= (Fingerprint').last
      /\ (Fingerprint').lines = Cardinality(line')
  <2>1. PollingInv' => FingerprintIsLatest'
    BY TheFingerprint, PTL
  <2> QED
    BY <2>1 DEF FingerprintIsLatest
<1>3. clock \in Nat
  BY DEF PollingInv, TypeOK
<1>4. ASSUME clock' = clock + 1, \E l \in line' : l.updated_at = clock'
      PROVE  Fingerprint' # Fingerprint
  <2>1. clock' <= (Fingerprint').last
    BY <1>2, <1>4
  <2> QED
    BY <1>1, <1>3, <1>4, <2>1
<1>5. CASE AddLine
  BY <1>4, <1>5 DEF AddLine
<1>6. CASE TickLine
  <2>1. clock' = clock + 1
    BY <1>6 DEF TickLine
  <2>0. clock' \in Nat
    BY <1>3, <2>1
  <2>2. PICK m \in line, ticked \in BOOLEAN :
          line' = (line \ {m}) \cup {[m EXCEPT !.ticked = ticked, !.updated_at = clock']}
    BY <1>6 DEF TickLine
  <2>3. m \in Line
    BY <2>2 DEF PollingInv, TypeOK
  <2>4. [m EXCEPT !.ticked = ticked, !.updated_at = clock'].updated_at = clock'
    BY <2>0, <2>3, Stamped, Zenon
  <2> QED
    BY <1>4, <2>1, <2>2, <2>4
<1>7. CASE RemoveLine
  <2>1. PICK m \in line : line' = line \ {m}
    BY <1>7 DEF RemoveLine
  <2>2. IsFiniteSet(line) /\ Cardinality(line) \in Nat
    BY FS_CardinalityType DEF PollingInv
  <2>3. Cardinality(line') = Cardinality(line) - 1
    BY <2>1, <2>2, FS_RemoveElement
  <2> QED
    BY <1>1, <1>2, <2>2, <2>3
<1> QED
  BY <1>5, <1>6, <1>7 DEF Next, Write, ComputeEtag, AnswerLines, LoseAnswer

\* The ETag moves with every line that is added, ticked or removed, by its stamp
\* or by its count (docs/api/README.md:243); only the collector moves a line
\* without it (trips/models.py:73-80).
THEOREM EtagAlwaysMoves == Spec => TheEtagMoves
<1>1. PollingInv /\ PollingInv' /\ [Next]_vars
        => [line' # line /\ ~MakeCommon => Fingerprint' # Fingerprint]_vars
  BY StepMovesTheEtag DEF vars
<1> QED
  BY <1>1, PollingIsInvariant, PTL DEF Spec, TheEtagMoves
================================================================================
