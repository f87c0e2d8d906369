------------------------------ MODULE Invitations ------------------------------
(***************************************************************************)
(* Inviting an address into a shared household, cancelling, and accepting: *)
(* households/invitations.py and its views.  Whoever holds the token may   *)
(* accept, so any account may present any invitation; the e-mail that      *)
(* carries the token changes no row and is left out.                       *)
(***************************************************************************)
EXTENDS HouseholdTables

\* A faulty OpenInvitations: nothing is deleted before inviting again.
NoOpenInvitations(h, email) == {}
\* What inviting an address deletes first.
OpenInvitations(h, email) ==
    {i \in invitation : i.hh = h /\ i.email = email /\ ~i.accepted}

\* invite, one transaction: nothing is created for a sitting member.
InviteMember(w) ==
    /\ At(w, "invite", "permitted")
    /\ \E email \in User :
          /\ IsMember(req[w].hh.id, email)
          /\ invitation' = invitation \ OpenInvitations(req[w].hh.id, email)
    /\ Finish(w)
    /\ UNCHANGED <<account, household, member, person, expired, next>>

InviteNewcomer(w) ==
    LET h == req[w].hh.id
    IN  /\ At(w, "invite", "permitted")
        /\ HouseholdExists(h) /\ AccountExists(req[w].user)
        /\ next["invitation"] <= MaxInvitations
        /\ \E email \in User :
              /\ ~IsMember(h, email)
              /\ invitation' = (invitation \ OpenInvitations(h, email)) \cup
                    {[id |-> next["invitation"], hh |-> h, email |-> email,
                      accepted |-> FALSE, by |-> None]}
        /\ UseKeys({"invitation"})
        /\ Finish(w)
        /\ UNCHANGED <<account, household, member, person, expired>>

LoadInvitation(w) ==
    /\ At(w, "cancel", "permitted")
    /\ \E i \in invitation :
          i.hh = req[w].hh.id /\ ~i.accepted /\ Advance(w, "loaded", i)

CancelInvitation(w) ==
    /\ At(w, "cancel", "loaded")
    /\ invitation' = Without(invitation, req[w].row)
    /\ Finish(w)
    /\ UNCHANGED <<account, household, member, person, expired, next>>

\* A faulty LoadPendingInvitation: a spent token is still good.
LoadAnyInvitation(w) ==
    /\ "accept" \in Routes
    /\ req[w] = Idle
    /\ \E u \in User, i \in invitation :
          /\ account[u] = "open"
          /\ i.id \notin expired
          /\ Call(w, "accept", "loaded", u, NoRow, i)
    /\ UNCHANGED tables

\* pending_invitation, read before the transaction of accept
LoadPendingInvitation(w) ==
    /\ "accept" \in Routes
    /\ req[w] = Idle
    /\ \E u \in User, i \in invitation :
          /\ account[u] = "open"
          /\ ~i.accepted /\ i.id \notin expired
          /\ Call(w, "accept", "loaded", u, NoRow, i)
    /\ UNCHANGED tables

\* accepted_at and accepted_by
Accepted(i, u) ==
    [id |-> i.id, hh |-> i.hh, email |-> i.email, accepted |-> TRUE, by |-> u]

\* A faulty Accept: the token is spent and nobody joins.
SpendToken(w) ==
    /\ At(w, "accept", "loaded")
    /\ HouseholdExists(req[w].row.hh) /\ AccountExists(req[w].user)
    /\ invitation' = Saved(invitation, Accepted(req[w].row, req[w].user))
    /\ Finish(w)
    /\ UNCHANGED <<account, household, member, person, expired, next>>

\* accept spends the token, then adds the membership unless it is there.
Accept(w) ==
    LET i == req[w].row
        u == req[w].user
        joins == ~IsMember(i.hh, u)
    IN  /\ At(w, "accept", "loaded")
        /\ HouseholdExists(i.hh) /\ AccountExists(u)
        /\ joins => next["member"] <= MaxMembers
        /\ invitation' = Saved(invitation, Accepted(i, u))
        /\ member' = IF joins
                     THEN member \cup {[id |-> next["member"], hh |-> i.hh,
                                        user |-> u, role |-> "member"]}
                     ELSE member
        /\ UseKeys(IF joins THEN {"member"} ELSE {})
        /\ Finish(w)
        /\ UNCHANGED <<account, household, person, expired>>

\* A week has passed since the invitation was sent.
Expire ==
    /\ \E i \in invitation :
          ~i.accepted /\ i.id \notin expired /\ expired' = expired \cup {i.id}
    /\ UNCHANGED <<account, household, member, person, invitation, next, req>>

InvitationStep(w) ==
    \/ InviteMember(w) \/ InviteNewcomer(w)
    \/ LoadInvitation(w) \/ CancelInvitation(w)
    \/ LoadPendingInvitation(w) \/ Accept(w)
================================================================================
