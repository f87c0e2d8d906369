------------------------------ MODULE OrderedList ------------------------------
(***************************************************************************)
(* What an ordered group promises its members (docs/api/README.md,         *)
(* "L'ordre"): a list in which entries are added, moved and deleted one at *)
(* a time.  Nothing is promised once several entries have left at once, or *)
(* one has come back that was leaving.                                     *)
(***************************************************************************)
EXTENDS Naturals, FiniteSets, SequencesExt

VARIABLES
    list,     \* the entries in order, with the item each is about
    orderly,  \* FALSE once the order is lost
    members,  \* the keys in the list
    used,     \* the keys of all entries there ever were
    leads     \* whether an entry leads those of its item

vars == <<list, orderly, members, used, leads>>

Keys(l) == [i \in DOMAIN l |-> l[i].id]

Init == orderly = TRUE /\ members = {} /\ list = <<>>

\* An entry comes first among those of its item, or of all when it is the
\* first of its item.
Lead ==
    /\ leads
    /\ \E i \in DOMAIN list' :
          LET alike == {j \in DOMAIN list : list[j].item = list'[i].item}
          IN  /\ list = RemoveAt(list', i)
              /\ i = IF alike = {} THEN 1 ELSE Min(alike)

\* Entries join the end: one of those that lead nothing, or the lines of a kit.
JoinTheEnd ==
    /\ IsStrictPrefix(list, list')
    /\ leads \/ Len(list') = Len(list) + 1

\* The list of a duplicated trip: the same items in the same order.
Copy ==
    /\ members' \cap used = {}
    /\ leads
    /\ Len(list') = Len(list)
    /\ \A i \in DOMAIN list : list'[i].item = list[i].item

\* An entry is edited, and moved to another place or not.
Edit ==
    \E i \in DOMAIN list, j \in DOMAIN list' :
        /\ list'[j].id = list[i].id
        /\ RemoveAt(list', j) = RemoveAt(list, i)

\* Those who stay keep their order; those of an item stay together.
Stay ==
    \A i, j \in DOMAIN list', m, n \in DOMAIN list :
        list'[i].id = list[m].id /\ list'[j].id = list[n].id =>
            /\ i < j <=> m < n
            /\ list[m].item = list[n].item => list'[i].item = list'[j].item

\* Entries leave, or their items are merged, or both; the order is lost only
\* when several leave.
Leave ==
    /\ members' \subseteq members
    /\ IF orderly' THEN Stay ELSE Cardinality(members \ members') > 1

\* An entry that was leaving comes back: unless it was the last, in disorder.
ComeBack ==
    /\ members' \ members # {}
    /\ orderly' => IsPrefix(list, list')

\* Each entry is listed, and once.
Complete == members = ToSet(Keys(list)) /\ IsInjective(Keys(list))

Next ==
    /\ leads' = leads
    /\ IF used' # used
       THEN \/ (Lead \/ JoinTheEnd) /\ members = members' \cap used
            \/ Copy
       ELSE Edit \/ Leave \/ ComeBack
    /\ orderly' => Complete'

Spec == Init /\ [][orderly => Next]_vars
================================================================================
