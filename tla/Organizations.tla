--------------------------- MODULE Organizations ---------------------------
(***************************************************************************)
(* An organization: its members, their roles and its invitations.          *)
(*   src/src/application/use-cases/organization/*.use-case.ts              *)
(*   src/src/infrastructure/database/repositories/prisma-organization*,    *)
(*   prisma-org-invitation*                                                *)
(*                                                                         *)
(* One slug, so one organization, which several users may try to create.   *)
(* A request checks with one query and writes with a later one: its first  *)
(* read is where its action starts, each further await is a step.          *)
(***************************************************************************)
EXTENDS FiniteSets, Naturals

CONSTANTS Users, Roles, Owner, Admin,
          Invitations,  \* identities of invitation rows; an invitation's token is its identity
          Requests, None

InvitationRow == [user : Users, role : Roles \ {Owner}, accepted : BOOLEAN, expired : BOOLEAN]

ASSUME RoleAssumption ==
    /\ Owner \in Roles /\ Admin \in Roles /\ Owner # Admin
    /\ None \notin Roles \cup Users \cup Invitations
    /\ \A row \in InvitationRow : None # row

VARIABLES
    member,      \* [Users -> None or the role in the membership row]
    invitation,  \* [Invitations -> None or an invitation row]
    request,     \* [Requests -> a request's local variables]
    founder      \* history: who created the organization, None before

vars == <<member, invitation, request, founder>>

\* Mutant: the role asked for is not compared with OWNER.
AnyRole == Roles

\* The roles one may invite with or change to: ownership is never given.
Grantable == Roles \ {Owner}

Phases == {"idle", "create.write", "invite.write", "accept.write",
           "change.target", "change.write", "remove.target", "remove.write"}

Local == [phase : Phases, by : Users \cup {None}, target : Users \cup {None},
          role : (Roles \ {Owner}) \cup {None}, token : Invitations \cup {None}]

Idle == [phase |-> "idle", by |-> None, target |-> None, role |-> None, token |-> None]

-----------------------------------------------------------------------------
Init ==
    /\ member = [u \in Users |-> None]
    /\ invitation = [i \in Invitations |-> None]
    /\ request = [r \in Requests |-> Idle]
    /\ founder = None

Created == founder # None

At(r, phase) == request[r].phase = phase

Begin(r, local) == At(r, "idle") /\ request' = [request EXCEPT ![r] = local]

Goto(r, phase) == request' = [request EXCEPT ![r].phase = phase]

Finish(r) == request' = [request EXCEPT ![r] = Idle]

-----------------------------------------------------------------------------
(* POST /organizations: the slug is looked up, then the organization and    *)
(* its owner are created in one transaction, which the unique slug fails.   *)
Create(r, u) ==
    /\ ~Created
    /\ Begin(r, [Idle EXCEPT !.phase = "create.write", !.by = u])
    /\ UNCHANGED <<member, invitation, founder>>

CreateWithOwner(r) ==
    /\ At(r, "create.write")
    /\ IF Created
       THEN UNCHANGED <<member, founder>>
       ELSE /\ member' = [member EXCEPT ![request[r].by] = Owner]
            /\ founder' = request[r].by
    /\ Finish(r)
    /\ UNCHANGED invitation

(* POST /organizations/:id/invitations, by the owner or an admin.           *)
Invite(r, u, target, role) ==
    /\ member[u] \in {Owner, Admin}
    /\ Begin(r, [Idle EXCEPT !.phase = "invite.write", !.by = u, !.target = target, !.role = role])
    /\ UNCHANGED <<member, invitation, founder>>

CreateInvitation(r) ==
    /\ At(r, "invite.write")
    /\ \E i \in Invitations :
          /\ invitation[i] = None
          /\ invitation' = [invitation EXCEPT ![i] =
                 [user |-> request[r].target, role |-> request[r].role,
                  accepted |-> FALSE, expired |-> FALSE]]
    /\ Finish(r)
    /\ UNCHANGED <<member, founder>>

Open(row) == ~row.accepted /\ ~row.expired

(* POST /organizations/invitations/accept, by the user with the address the *)
(* invitation was sent to.                                                  *)
Accept(r, u, i) ==
    /\ invitation[i] # None
    /\ Open(invitation[i])
    /\ invitation[i].user = u
    /\ Begin(r, [Idle EXCEPT !.phase = "accept.write", !.by = u, !.token = i,
                             !.role = invitation[i].role])
    /\ UNCHANGED <<member, invitation, founder>>

\* Mutant: the invitation is marked accepted without looking at it again.
AcceptAgain(row) == ~row.expired

\* The condition of the update that consumes the invitation.
Consumable(row) == Open(row)

\* Mutant: the role of a member is overwritten with the invitation's.
UpsertOverwrites(u, role) == member' = [member EXCEPT ![u] = role]

\* The membership is created, or left alone where there is one.
UpsertMember(u, role) == member' = [member EXCEPT ![u] = IF @ = None THEN role ELSE @]

\* One transaction: the invitation is consumed and the member added.
AcceptAndAddMember(r) ==
    /\ At(r, "accept.write")
    /\ IF Consumable(invitation[request[r].token])
       THEN /\ invitation' = [invitation EXCEPT ![request[r].token].accepted = TRUE]
            /\ UpsertMember(request[r].by, request[r].role)
       ELSE UNCHANGED <<invitation, member>>
    /\ Finish(r)
    /\ UNCHANGED founder

\* Mutant: admins may change roles too.
OwnerOrAdminChanges(u) == member[u] \in {Owner, Admin}

\* Who may change the role of a member.
MayChange(u) == member[u] = Owner

(* PUT /organizations/:id/members/:userId/role, by the owner.               *)
ChangeRole(r, u, target, role) ==
    /\ MayChange(u)
    /\ Begin(r, [Idle EXCEPT !.phase = "change.target", !.by = u, !.target = target, !.role = role])
    /\ UNCHANGED <<member, invitation, founder>>

\* Who may be changed or removed: a member who is not the owner.
Changeable(u) == member[u] \notin {None, Owner}

ReadChangeTarget(r) ==
    /\ At(r, "change.target")
    /\ IF Changeable(request[r].target) THEN Goto(r, "change.write") ELSE Finish(r)
    /\ UNCHANGED <<member, invitation, founder>>

\* UPDATE of one row, which fails where the row has gone.
UpdateRole(u, role) == member' = [member EXCEPT ![u] = IF @ = None THEN None ELSE role]

UpdateMemberRole(r) ==
    /\ At(r, "change.write")
    /\ UpdateRole(request[r].target, request[r].role)
    /\ Finish(r)
    /\ UNCHANGED <<invitation, founder>>

(* DELETE /organizations/:id/members/:userId, by the owner or an admin.     *)
Remove(r, u, target) ==
    /\ member[u] \in {Owner, Admin}
    /\ Begin(r, [Idle EXCEPT !.phase = "remove.target", !.by = u, !.target = target])
    /\ UNCHANGED <<member, invitation, founder>>

ReadRemoveTarget(r) ==
    /\ At(r, "remove.target")
    /\ IF Changeable(request[r].target) THEN Goto(r, "remove.write") ELSE Finish(r)
    /\ UNCHANGED <<member, invitation, founder>>

RemoveMember(r) ==
    /\ At(r, "remove.write")
    /\ member' = [member EXCEPT ![request[r].target] = None]
    /\ Finish(r)
    /\ UNCHANGED <<invitation, founder>>

InvitationExpires(i) ==
    /\ invitation[i] # None
    /\ ~invitation[i].expired
    /\ invitation' = [invitation EXCEPT ![i].expired = TRUE]
    /\ UNCHANGED <<member, request, founder>>

\* A database error or a crash ends the request where it is.
Fail(r) ==
    /\ ~At(r, "idle")
    /\ Finish(r)
    /\ UNCHANGED <<member, invitation, founder>>

Next ==
    \/ \E r \in Requests :
          \/ \E u \in Users :
                \/ Create(r, u)
                \/ \E i \in Invitations : Accept(r, u, i)
                \/ \E target \in Users :
                      \/ Remove(r, u, target)
                      \/ \E role \in Grantable : Invite(r, u, target, role) \/ ChangeRole(r, u, target, role)
          \/ CreateWithOwner(r) \/ CreateInvitation(r) \/ AcceptAndAddMember(r)
          \/ ReadChangeTarget(r) \/ UpdateMemberRole(r)
          \/ ReadRemoveTarget(r) \/ RemoveMember(r)
          \/ Fail(r)
    \/ \E i \in Invitations : InvitationExpires(i)

Spec == Init /\ [][Next]_vars

-----------------------------------------------------------------------------
\* Rows and requests are well formed, and none of them gives ownership away
\* (invite-member 30, change-member-role 24).
TypeOK ==
    /\ member \in [Users -> Roles \cup {None}]
    /\ invitation \in [Invitations -> {None} \cup InvitationRow]
    /\ request \in [Requests -> Local]
    /\ founder \in Users \cup {None}

\* The organization has exactly one owner from its creation on, and it is its
\* creator, whatever role changes, removals and invitations to the owner
\* overlap (change-member-role 45 "would leave org without owner").
OwnerStays == {u \in Users : member[u] = Owner} = {founder} \ {None}

\* How one becomes a member: by creating the organization, or through an open
\* invitation of one's own, which the same step uses up.
Joins(u) ==
    \/ ~Created /\ founder' = u
    \/ \E i \in Invitations :
          /\ invitation[i] # None /\ invitation[i].user = u
          /\ Open(invitation[i]) /\ invitation'[i].accepted
          /\ member'[u] = invitation[i].role

\* A user becomes a member through an invitation no one has used, also when a
\* removal lies between the checks and the write of a request: the removed
\* stay out until a further invitation (prisma-org-invitation 65-88,
\* prisma-organization 121-128).
JoinsByInvitation ==
    [][\A u \in Users : member[u] = None /\ member'[u] # None => Joins(u)]_vars

\* A role changes only while the user who asked for it is the owner, though
\* that was checked two queries earlier (change-member-role 31-54).
RoleChangedByOwner ==
    [][\A u \in Users : member[u] # None /\ member'[u] \notin {member[u], None}
          => \E r \in Requests : At(r, "change.write") /\ member[request[r].by] = Owner]_vars

\* An invitation is used up only by a step that leaves its user a member.
UsedInvitationJoins ==
    [][\A i \in Invitations :
          invitation[i] # None /\ ~invitation[i].accepted /\ invitation'[i].accepted
             => member'[invitation[i].user] # None]_vars

-----------------------------------------------------------------------------
(* The inductive invariant.                                                 *)

\* Nothing happens to an organization before it is created.
Founded ==
    Created \/ /\ \A u \in Users : member[u] = None
               /\ \A i \in Invitations : invitation[i] = None
               /\ \A r \in Requests : request[r].phase \in {"idle", "create.write"}

\* An acceptance still holds what the invitation says.
AcceptKnows(x) ==
    /\ x.token \in Invitations
    /\ invitation[x.token] # None
    /\ invitation[x.token].user = x.by
    /\ invitation[x.token].role = x.role

\* What the phase of a request says of its locals: a change of role was asked
\* for by the founder, and neither it nor a removal has the founder as target.
RequestOK(x) ==
    /\ x.phase = "create.write" => x.by \in Users
    /\ x.phase = "invite.write" => x.target \in Users /\ x.role # None
    /\ x.phase = "accept.write" => AcceptKnows(x)
    /\ x.phase \in {"change.target", "change.write"} => x.by = founder /\ x.role # None
    /\ x.phase \in {"change.target", "change.write", "remove.target", "remove.write"} => x.target \in Users
    /\ x.phase \in {"change.write", "remove.write"} => x.target # founder

IndInv == TypeOK /\ OwnerStays /\ Founded /\ \A r \in Requests : RequestOK(request[r])
=============================================================================
