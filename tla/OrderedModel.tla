------------------------------ MODULE OrderedModel ------------------------------
(***************************************************************************)
(* The updates of a `position` column by which django-ordered-model keeps  *)
(* the rows of a group in order, on functions from the keys of the group   *)
(* to their ranks.  An instance is a key k with the rank p it was read     *)
(* with, which the table may no longer hold.                               *)
(***************************************************************************)
EXTENDS Naturals, FiniteSets, Functions, FiniteSetsExt, SequencesExt

Put(r, k, p) == [x \in DOMAIN r \cup {k} |-> IF x = k THEN p ELSE r[x]]
Less(r, K) == Restrict(r, DOMAIN r \ K)

\* get_next_order
NextRank(r) == IF DOMAIN r = {} THEN 0 ELSE Max(Range(r)) + 1

\* A faulty CloseUp: the row that leaves comes down too.
CloseUpFrom(r, p) == [x \in DOMAIN r |-> IF r[x] >= p THEN r[x] - 1 ELSE r[x]]

\* above_instance(...).decrease_order(): those after rank p come down by one.
CloseUp(r, p) == [x \in DOMAIN r |-> IF r[x] > p THEN r[x] - 1 ELSE r[x]]

\* A faulty MoveTo: those in between stay where they are.
MoveOnly(r, k, p, t) == Put(r, k, t)

\* instance.to(t): those in between make room, then the instance is saved.
MoveTo(r, k, p, t) ==
    [x \in DOMAIN r |->
        IF x = k THEN t
        ELSE IF t <= r[x] /\ r[x] < p THEN r[x] + 1
        ELSE IF p < r[x] /\ r[x] <= t THEN r[x] - 1
        ELSE r[x]]

\* The rows ks leave one after the other, each closing up behind it at the rank
\* it was read with before the first of them left.
LeaveInTurn(r, ks) ==
    LET left[n \in 0 .. Len(ks)] ==
            IF n = 0 THEN Less(r, ToSet(ks)) ELSE CloseUp(left[n - 1], r[ks[n]])
    IN  left[Len(ks)]

\* The orders in which a loop over the keys K, read in the order of r, may take them.
Turns(K, r) ==
    {ks \in SetToSeqs(K) : \A i, j \in DOMAIN ks : i < j => r[ks[i]] <= r[ks[j]]}
================================================================================
