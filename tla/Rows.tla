---------------------------------- MODULE Rows ----------------------------------
(***************************************************************************)
(* Tables as sets of records with a primary key id, and what the ORM does  *)
(* to them.  Keys are never reused (AUTOINCREMENT).                        *)
(***************************************************************************)
EXTENDS Naturals

\* Model.save() on an instance read earlier: UPDATE of every column, or
\* INSERT under the same key when the row is gone.
Saved(T, row) == {r \in T : r.id # row.id} \cup {row}

\* Model.delete(): by key, silently nothing when the row is gone.
Without(T, row) == {r \in T : r.id # row.id}

\* Every key is below the next one, and stands for one row.
Keyed(T, n) == \A r \in T : r.id < n /\ \A s \in T : r.id = s.id => r = s

OnlyOne(S) == \E x \in S : S = {x}                  \* count() == 1
================================================================================
