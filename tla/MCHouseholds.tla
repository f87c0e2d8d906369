------------------------------ MODULE MCHouseholds ------------------------------
(***************************************************************************)
(* Instances of HouseholdService for TLC.                                  *)
(***************************************************************************)
EXTENDS HouseholdInvariant, TLC

CONSTANTS ann, bob, cat

Signed(U) == [u \in User |-> IF u \in U THEN "open" ELSE "absent"]

\* An empty deployment.
Empty ==
    [account |-> Signed({}), household |-> {}, member |-> {}, person |-> {},
     next |-> [household |-> 1, member |-> 1, person |-> 1, invitation |-> 1]]

\* ann and bob share a household that ann owns; each has a personal one.
Family ==
    [account |-> Signed({ann, bob}),
     household |-> {[id |-> 1, personal |-> ann], [id |-> 2, personal |-> bob],
                    [id |-> 3, personal |-> None]},
     member |-> {[id |-> 1, hh |-> 1, user |-> ann, role |-> "owner"],
                 [id |-> 2, hh |-> 2, user |-> bob, role |-> "owner"],
                 [id |-> 3, hh |-> 3, user |-> ann, role |-> "owner"],
                 [id |-> 4, hh |-> 3, user |-> bob, role |-> "member"]},
     person |-> {[id |-> 1, hh |-> 1, user |-> ann], [id |-> 2, hh |-> 2, user |-> bob],
                 [id |-> 3, hh |-> 3, user |-> ann], [id |-> 4, hh |-> 3, user |-> None]},
     next |-> [household |-> 4, member |-> 5, person |-> 5, invitation |-> 1]]

\* The same household with both of them owners who are someone.
Couple ==
    [Family EXCEPT
       !.member = {IF m.id = 4 THEN [m EXCEPT !.role = "owner"] ELSE m : m \in Family.member},
       !.person = {IF p.id = 4 THEN [p EXCEPT !.user = bob] ELSE p : p \in Family.person}]

\* The same household before bob joined it.
Host ==
    [Family EXCEPT
       !.member = {m \in Family.member : m.id # 4},
       !.next = [household |-> 4, member |-> 4, person |-> 5, invitation |-> 1]]

\* Workers are interchangeable; no property here is a liveness property.
WorkerSymmetry == Permutations(Worker)

\* Routes around persons and members.
MemberRaces == {"rename household", "delete household", "set role", "remove member",
                "rename person", "delete person", "claim", "add person"}
\* Routes around invitations and the memberships they open.
InvitationRaces == {"invite", "cancel", "accept", "delete household", "rename household",
                    "remove member"}
================================================================================
