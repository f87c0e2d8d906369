----------------------------- MODULE HouseholdRules -----------------------------
(***************************************************************************)
(* What households promise, with every rule applied at the instant of the  *)
(* write: docs/model/household.md and the roles of docs/api/README.md.     *)
(***************************************************************************)
CONSTANTS User, House      \* accounts, and the names households may have

VARIABLES
    roster,      \* who belongs where, and as what: <<house, user, role>>
    someone,     \* who has said which person they are: <<house, user>>
    private      \* the households that are one account's own

vars == <<roster, someone, private>>

Members(h) == {u \in User : \E r \in {"owner", "member"} : <<h, u, r>> \in roster}
Owners(h)  == {u \in User : <<h, u, "owner">> \in roster}
Without(h, u) == {e \in roster : ~(e[1] = h /\ e[2] = u)}

Init ==
    /\ roster \in SUBSET (House \X User \X {"owner", "member"})
    /\ someone \in SUBSET (House \X User)
    /\ private \in SUBSET House
    /\ \A h \in House : Members(h) # {} => Owners(h) # {}
    /\ \A e \in someone : e[2] \in Members(e[1])
    /\ \A h \in House : \A u \in Owners(h) : <<h, u>> \in someone

Found(h, u) ==
    /\ Members(h) = {}
    /\ roster' = roster \cup {<<h, u, "owner">>}
    /\ someone' = someone \cup {<<h, u>>}
    /\ private' \in {private, private \cup {h}}

Dissolve(h) ==
    /\ h \notin private
    /\ Members(h) # {}
    /\ roster' = {e \in roster : e[1] # h}
    /\ someone' = {e \in someone : e[1] # h}
    /\ UNCHANGED private

Join(h, u) ==
    /\ h \notin private
    /\ Members(h) # {} /\ u \notin Members(h)
    /\ roster' = roster \cup {<<h, u, "member">>}
    /\ UNCHANGED <<someone, private>>

BecomeSomeone(h, u) ==
    /\ u \in Members(h)
    /\ someone' = someone \cup {<<h, u>>}
    /\ UNCHANGED <<roster, private>>

Promote(h, u) ==
    /\ h \notin private
    /\ u \in Members(h) /\ <<h, u>> \in someone
    /\ roster' = Without(h, u) \cup {<<h, u, "owner">>}
    /\ UNCHANGED <<someone, private>>

Demote(h, u) ==
    /\ h \notin private
    /\ Owners(h) \ {u} # {} /\ u \in Owners(h)
    /\ roster' = Without(h, u) \cup {<<h, u, "member">>}
    /\ UNCHANGED <<someone, private>>

Leave(h, u) ==
    /\ h \notin private
    /\ u \in Members(h) /\ Owners(h) \ {u} # {}
    /\ roster' = Without(h, u)
    /\ someone' = someone \ {<<h, u>>}
    /\ UNCHANGED private

Next ==
    \E h \in House :
        \/ Dissolve(h)
        \/ \E u \in User : \/ Found(h, u) \/ Join(h, u) \/ BecomeSomeone(h, u)
                           \/ Promote(h, u) \/ Demote(h, u) \/ Leave(h, u)

Spec == Init /\ [][Next]_vars
================================================================================
