-------------------------- MODULE CustomRolesProofs --------------------------
(***************************************************************************)
(* The organization and the custom roles beside it, for any number of      *)
(* users, roles, permissions, invitations and requests.  First what module *)
(* Organizations promises, of the organization alone; then that it holds   *)
(* of the two together, and the promises about roles.                      *)
(***************************************************************************)
EXTENDS CustomRoles, TLAPS

\* The founder, and nobody else, is read as the owner.
LEMMA OwnerIsFounder ==
    ASSUME IndInv, NEW u \in Users
    PROVE  member[u] = Owner <=> u = founder
BY RoleAssumption DEF IndInv, TypeOK, OwnerStays

-----------------------------------------------------------------------------
LEMMA InitIndInv == Init => IndInv
BY RoleAssumption DEF Init, IndInv, TypeOK, OwnerStays, Founded, Created, RequestOK, Local, Idle, Phases

\* A request moves and the rows stay: the invariant asks about the request only.
LEMMA RequestMoves ==
    ASSUME IndInv, UNCHANGED <<member, invitation, founder>>,
           NEW r \in Requests, NEW x \in Local,
           request' = [request EXCEPT ![r] = x],
           RequestOK(x),
           Created \/ x.phase \in {"idle", "create.write"}
    PROVE  IndInv'
<1> USE DEF IndInv
<1>1. TypeOK'
  BY DEF TypeOK
<1>2. OwnerStays'
  BY DEF OwnerStays
<1>3. Founded'
  BY DEF Founded, Created, TypeOK
<1>4. ASSUME NEW q \in Requests PROVE RequestOK(request[q])'
  <2>1. request'[q] = IF q = r THEN x ELSE request[q]
    BY DEF TypeOK
  <2>2. RequestOK(request[q])
    OBVIOUS
  <2> QED
    BY <2>1, <2>2 DEF RequestOK, AcceptKnows
<1> QED
  BY <1>1, <1>2, <1>3, <1>4

\* A request that ends, however it ended up there, leaves nothing to ask about.
LEMMA FinishKeeps ==
    ASSUME IndInv, NEW r \in Requests, Finish(r), UNCHANGED <<member, invitation, founder>>
    PROVE  IndInv'
<1>1. Idle \in Local /\ RequestOK(Idle) /\ Idle.phase = "idle"
  BY DEF Idle, Local, Phases, RequestOK
<1> QED
  BY <1>1, RequestMoves DEF Finish

\* The first step of a request: what it was asked for fits its phase.
LEMMA BeginKeeps ==
    ASSUME IndInv, NEW r \in Requests, NEW u \in Users,
           \/ Create(r, u)
           \/ \E i \in Invitations : Accept(r, u, i)
           \/ \E target \in Users :
                 \/ Remove(r, u, target)
                 \/ \E granted \in Grantable : Invite(r, u, target, granted) \/ ChangeRole(r, u, target, granted)
    PROVE  IndInv'
<1> USE DEF Begin
<1>1. CASE Create(r, u)
  <2> DEFINE x == [Idle EXCEPT !.phase = "create.write", !.by = u]
  <2>1. x \in Local /\ RequestOK(x) /\ x.phase = "create.write"
    BY DEF Idle, Local, Phases, RequestOK
  <2>2. request' = [request EXCEPT ![r] = x] /\ UNCHANGED <<member, invitation, founder>>
    BY <1>1 DEF Create
  <2> QED
    BY <2>1, <2>2, RequestMoves
<1>2. ASSUME NEW i \in Invitations, Accept(r, u, i) PROVE IndInv'
  <2> DEFINE x == [Idle EXCEPT !.phase = "accept.write", !.by = u, !.token = i,
                               !.role = invitation[i].role]
  <2>1. invitation[i] # None /\ invitation[i] \in InvitationRow /\ invitation[i].user = u
    BY <1>2 DEF Accept, IndInv, TypeOK
  <2>2. x \in Local /\ RequestOK(x)
    BY <2>1 DEF Idle, Local, Phases, RequestOK, AcceptKnows, InvitationRow
  <2>3. Created
    BY <2>1 DEF IndInv, Founded
  <2>4. request' = [request EXCEPT ![r] = x] /\ UNCHANGED <<member, invitation, founder>>
    BY <1>2 DEF Accept
  <2> QED
    BY <2>2, <2>3, <2>4, RequestMoves
<1>3. ASSUME NEW target \in Users, Remove(r, u, target) PROVE IndInv'
  <2> DEFINE x == [Idle EXCEPT !.phase = "remove.target", !.by = u, !.target = target]
  <2>1. x \in Local /\ RequestOK(x)
    BY DEF Idle, Local, Phases, RequestOK
  <2>2. Created
    BY <1>3, RoleAssumption DEF Remove, IndInv, Founded
  <2>3. request' = [request EXCEPT ![r] = x] /\ UNCHANGED <<member, invitation, founder>>
    BY <1>3 DEF Remove
  <2> QED
    BY <2>1, <2>2, <2>3, RequestMoves
<1>4. ASSUME NEW target \in Users, NEW granted \in Grantable, Invite(r, u, target, granted) PROVE IndInv'
  <2> DEFINE x == [Idle EXCEPT !.phase = "invite.write", !.by = u, !.target = target, !.role = granted]
  <2>1. x \in Local /\ RequestOK(x)
    BY RoleAssumption DEF Grantable, Idle, Local, Phases, RequestOK
  <2>2. Created
    BY <1>4, RoleAssumption DEF Invite, IndInv, Founded
  <2>3. request' = [request EXCEPT ![r] = x] /\ UNCHANGED <<member, invitation, founder>>
    BY <1>4 DEF Invite
  <2> QED
    BY <2>1, <2>2, <2>3, RequestMoves
<1>5. ASSUME NEW target \in Users, NEW granted \in Grantable, ChangeRole(r, u, target, granted) PROVE IndInv'
  <2> DEFINE x == [Idle EXCEPT !.phase = "change.target", !.by = u, !.target = target, !.role = granted]
  <2>1. u = founder /\ Created
    BY <1>5, OwnerIsFounder, RoleAssumption DEF ChangeRole, MayChange, Created
  <2>2. x \in Local /\ RequestOK(x)
    BY <2>1, RoleAssumption DEF Grantable, Idle, Local, Phases, RequestOK
  <2>3. request' = [request EXCEPT ![r] = x] /\ UNCHANGED <<member, invitation, founder>>
    BY <1>5 DEF ChangeRole
  <2> QED
    BY <2>1, <2>2, <2>3, RequestMoves
<1> QED
  BY <1>1, <1>2, <1>3, <1>4, <1>5

\* A member who is no owner is not the founder, so that the target of the
\* write is not.
LEMMA TargetReadKeeps ==
    ASSUME IndInv, NEW r \in Requests, ReadChangeTarget(r) \/ ReadRemoveTarget(r)
    PROVE  IndInv'
<1> DEFINE next == IF At(r, "change.target") THEN "change.write" ELSE "remove.write"
           x == [request[r] EXCEPT !.phase = next]
<1>1. UNCHANGED <<member, invitation, founder>>
  BY DEF ReadChangeTarget, ReadRemoveTarget
<1>2. request[r] \in Local /\ request[r].target \in Users /\ RequestOK(request[r])
  BY DEF IndInv, TypeOK, RequestOK, ReadChangeTarget, ReadRemoveTarget, At
<1>3. CASE Changeable(request[r].target)
  <2>1. request' = [request EXCEPT ![r] = x]
    BY <1>2, <1>3 DEF ReadChangeTarget, ReadRemoveTarget, Goto, At, Local, IndInv, TypeOK
  <2>2. request[r].target # founder
    BY <1>2, <1>3, OwnerIsFounder DEF Changeable
  <2>3. x \in Local /\ RequestOK(x)
    BY <1>2, <2>2 DEF Local, Phases, RequestOK, ReadChangeTarget, ReadRemoveTarget, At
  <2>4. Created
    BY <1>3, <1>2 DEF IndInv, Founded, Changeable
  <2> QED
    BY <1>1, <2>1, <2>3, <2>4, RequestMoves
<1>4. CASE ~Changeable(request[r].target)
  BY <1>1, <1>4, FinishKeeps DEF ReadChangeTarget, ReadRemoveTarget
<1> QED
  BY <1>3, <1>4

\* The winner of the unique slug becomes the owner of an organization that had
\* no member, invitation or other request.
LEMMA CreateWithOwnerKeeps ==
    ASSUME IndInv, NEW r \in Requests, CreateWithOwner(r)
    PROVE  IndInv'
<1>1. CASE Created
  BY <1>1, FinishKeeps DEF CreateWithOwner
<1>2. CASE ~Created
  <2> DEFINE u == request[r].by
  <2>1. /\ u \in Users
        /\ member' = [member EXCEPT ![u] = Owner]
        /\ founder' = u
        /\ invitation' = invitation
        /\ request' = [request EXCEPT ![r] = Idle]
    BY <1>2 DEF CreateWithOwner, At, Finish, IndInv, RequestOK
  <2>2. u # None /\ member \in [Users -> Roles \cup {None}] /\ \A v \in Users : member[v] = None
    BY <1>2, <2>1, RoleAssumption DEF IndInv, TypeOK, Founded
  <2> HIDE DEF u
  <2>3. Idle \in Local /\ Idle.phase = "idle"
    BY DEF Idle, Local, Phases
  <2>4. TypeOK'
    BY <2>1, <2>2, <2>3, RoleAssumption DEF IndInv, TypeOK
  <2>5. OwnerStays'
    BY <2>1, <2>2, RoleAssumption DEF OwnerStays
  <2>6. Founded'
    BY <2>1, <2>2 DEF Founded, Created
  <2>7. ASSUME NEW q \in Requests PROVE RequestOK(request[q])'
    <3>1. request'[q] = IF q = r THEN Idle ELSE request[q]
      BY <2>1 DEF IndInv, TypeOK
    <3>2. request[q].phase \in {"idle", "create.write"} /\ RequestOK(request[q])
      BY <1>2 DEF IndInv, Founded
    <3> QED
      BY <2>3, <3>1, <3>2 DEF RequestOK
  <2> QED
    BY <2>4, <2>5, <2>6, <2>7 DEF IndInv
<1> QED
  BY <1>1, <1>2

\* A step that writes rows and ends request r: members change without making
\* or unmaking an owner, invitations keep their user and role.
LEMMA WriteKeeps ==
    ASSUME IndInv, NEW r \in Requests, Created,
           member' \in [Users -> Roles \cup {None}],
           \A u \in Users : member'[u] = Owner <=> member[u] = Owner,
           invitation' \in [Invitations -> {None} \cup InvitationRow],
           \A i \in Invitations : invitation[i] # None =>
              /\ invitation'[i] # None
              /\ invitation'[i].user = invitation[i].user
              /\ invitation'[i].role = invitation[i].role,
           Finish(r) \/ UNCHANGED request,
           UNCHANGED founder
    PROVE  IndInv'
<1>1. Idle \in Local /\ Idle.phase = "idle"
  BY DEF Idle, Local, Phases
<1>2. request' \in [Requests -> Local]
  BY <1>1 DEF IndInv, TypeOK, Finish
<1>3. TypeOK'
  BY <1>2 DEF IndInv, TypeOK
<1>4. OwnerStays'
  BY DEF IndInv, OwnerStays
<1>5. Founded'
  BY DEF Founded, Created
<1>6. ASSUME NEW q \in Requests PROVE RequestOK(request[q])'
  <2>1. request'[q] = Idle \/ request'[q] = request[q]
    BY DEF IndInv, TypeOK, Finish
  <2>2. CASE request'[q] = Idle
    BY <1>1, <2>2 DEF RequestOK
  <2>3. CASE request'[q] = request[q]
    <3>1. RequestOK(request[q])
      BY DEF IndInv
    <3> QED
      BY <2>3, <3>1 DEF RequestOK, AcceptKnows
  <2> QED
    BY <2>1, <2>2, <2>3
<1> QED
  BY <1>3, <1>4, <1>5, <1>6 DEF IndInv

LEMMA CreateInvitationKeeps ==
    ASSUME IndInv, NEW r \in Requests, CreateInvitation(r)
    PROVE  IndInv'
<1>1. Created
  BY DEF CreateInvitation, At, IndInv, Founded
<1>2. request[r].target \in Users /\ request[r].role \in Roles \ {Owner}
  BY DEF CreateInvitation, At, IndInv, RequestOK, TypeOK, Local
<1>3. PICK i \in Invitations :
          /\ invitation[i] = None
          /\ invitation' = [invitation EXCEPT ![i] =
                 [user |-> request[r].target, role |-> request[r].role,
                  accepted |-> FALSE, expired |-> FALSE]]
  BY DEF CreateInvitation
<1>4. invitation' \in [Invitations -> {None} \cup InvitationRow]
  BY <1>2, <1>3 DEF IndInv, TypeOK, InvitationRow
<1>5. \A j \in Invitations : invitation[j] # None => invitation'[j] = invitation[j]
  BY <1>3 DEF IndInv, TypeOK
<1>6. UNCHANGED <<member, founder>> /\ Finish(r) /\ member \in [Users -> Roles \cup {None}]
  BY DEF CreateInvitation, IndInv, TypeOK
<1> QED
  BY <1>1, <1>4, <1>5, <1>6, WriteKeeps

\* What an acceptance writes: its invitation is marked, its user gets the
\* invitation's role unless there is a membership.
LEMMA AcceptWrites ==
    ASSUME IndInv, NEW r \in Requests, AcceptAndAddMember(r), Consumable(invitation[request[r].token])
    PROVE  LET i == request[r].token
               u == request[r].by
           IN  /\ Created
               /\ i \in Invitations /\ invitation[i] \in InvitationRow /\ invitation[i] # None
               /\ u \in Users /\ invitation[i].user = u
               /\ request[r].role = invitation[i].role
               /\ invitation' = [invitation EXCEPT ![i].accepted = TRUE]
               /\ member' = [member EXCEPT ![u] = IF @ = None THEN invitation[i].role ELSE @]
<1>1. AcceptKnows(request[r])
  BY DEF AcceptAndAddMember, At, IndInv, RequestOK
<1>2. invitation[request[r].token] \in InvitationRow
  BY <1>1 DEF AcceptKnows, IndInv, TypeOK
<1> QED
  BY <1>1, <1>2 DEF AcceptKnows, InvitationRow, AcceptAndAddMember, UpsertMember, At, IndInv, Founded

LEMMA AcceptKeeps ==
    ASSUME IndInv, NEW r \in Requests, AcceptAndAddMember(r)
    PROVE  IndInv'
<1>1. CASE ~Consumable(invitation[request[r].token])
  BY <1>1, FinishKeeps DEF AcceptAndAddMember
<1>2. CASE Consumable(invitation[request[r].token])
  <2> DEFINE i == request[r].token
             u == request[r].by
  <2>1. /\ Created
        /\ i \in Invitations /\ invitation[i] \in InvitationRow /\ invitation[i] # None
        /\ u \in Users
        /\ invitation' = [invitation EXCEPT ![i].accepted = TRUE]
        /\ member' = [member EXCEPT ![u] = IF @ = None THEN invitation[i].role ELSE @]
    BY <1>2, AcceptWrites
  <2> HIDE DEF i, u
  <2>2. /\ member \in [Users -> Roles \cup {None}]
        /\ invitation \in [Invitations -> {None} \cup InvitationRow]
        /\ \A row \in InvitationRow : None # row
    BY RoleAssumption DEF IndInv, TypeOK
  <2>3. invitation[i].role \in Roles \ {Owner} /\ None # Owner
    BY <2>1, RoleAssumption DEF InvitationRow
  <2>4. /\ member' \in [Users -> Roles \cup {None}]
        /\ \A v \in Users : member'[v] = Owner <=> member[v] = Owner
    BY <2>1, <2>2, <2>3
  <2> DEFINE row == [invitation[i] EXCEPT !.accepted = TRUE]
  <2>5. row \in InvitationRow /\ row.user = invitation[i].user /\ row.role = invitation[i].role
    BY <2>1 DEF InvitationRow
  <2>6. invitation' = [invitation EXCEPT ![i] = row]
    BY <2>1
  <2> HIDE DEF row
  <2>7. invitation' \in [Invitations -> {None} \cup InvitationRow]
    BY <2>1, <2>2, <2>5, <2>6
  <2>8. \A j \in Invitations : invitation[j] # None =>
              /\ invitation'[j] # None
              /\ invitation'[j].user = invitation[j].user
              /\ invitation'[j].role = invitation[j].role
    BY <2>1, <2>2, <2>5, <2>6
  <2>9. Finish(r) /\ UNCHANGED founder
    BY DEF AcceptAndAddMember
  <2> QED
    BY <2>1, <2>4, <2>7, <2>8, <2>9, WriteKeeps
<1> QED
  BY <1>1, <1>2

\* The two writes on a target, which is not the founder, so neither before nor
\* after them an owner.
LEMMA TargetWriteKeeps ==
    ASSUME IndInv, NEW r \in Requests, UpdateMemberRole(r) \/ RemoveMember(r)
    PROVE  IndInv'
<1> DEFINE target == request[r].target
<1>1. /\ target \in Users /\ target # founder /\ Created
      /\ request[r].role \in (Roles \ {Owner}) \cup {None}
  BY DEF UpdateMemberRole, RemoveMember, At, IndInv, RequestOK, Founded, TypeOK, Local
<1>2. /\ member \in [Users -> Roles \cup {None}] /\ invitation \in [Invitations -> {None} \cup InvitationRow]
      /\ member[target] # Owner /\ None # Owner
  BY <1>1, OwnerIsFounder, RoleAssumption DEF IndInv, TypeOK
<1>3. \E granted \in (Roles \ {Owner}) \cup {None} : member' = [member EXCEPT ![target] = granted]
  BY <1>1 DEF UpdateMemberRole, UpdateRole, RemoveMember
<1>4. Finish(r) /\ UNCHANGED <<invitation, founder>>
  BY DEF UpdateMemberRole, RemoveMember
<1> HIDE DEF target
<1>5. /\ member' \in [Users -> Roles \cup {None}]
      /\ \A u \in Users : member'[u] = Owner <=> member[u] = Owner
  BY <1>1, <1>2, <1>3
<1> QED
  BY <1>1, <1>2, <1>4, <1>5, WriteKeeps

LEMMA ExpiryKeeps ==
    ASSUME IndInv, NEW i \in Invitations, InvitationExpires(i)
    PROVE  IndInv'
<1>1. /\ invitation \in [Invitations -> {None} \cup InvitationRow]
      /\ invitation[i] # None /\ invitation[i] \in InvitationRow /\ Created
      /\ member \in [Users -> Roles \cup {None}]
  BY DEF InvitationExpires, IndInv, TypeOK, Founded
<1> DEFINE row == [invitation[i] EXCEPT !.expired = TRUE]
<1>2. row \in InvitationRow /\ row.user = invitation[i].user /\ row.role = invitation[i].role
  BY <1>1 DEF InvitationRow
<1>3. invitation' = [invitation EXCEPT ![i] = row] /\ UNCHANGED <<member, request, founder>>
  BY DEF InvitationExpires
<1>4. None # row
  BY <1>2, RoleAssumption
<1> HIDE DEF row
<1>5. /\ invitation' \in [Invitations -> {None} \cup InvitationRow]
      /\ \A j \in Invitations : invitation[j] # None =>
              /\ invitation'[j] # None
              /\ invitation'[j].user = invitation[j].user
              /\ invitation'[j].role = invitation[j].role
  BY <1>1, <1>2, <1>3, <1>4
<1>6. Requests = {} \/ \E r \in Requests : TRUE
  OBVIOUS
<1>7. CASE \E r \in Requests : TRUE
  BY <1>1, <1>3, <1>5, <1>7, WriteKeeps
<1>8. CASE Requests = {}
  BY <1>1, <1>3, <1>5, <1>8 DEF IndInv, TypeOK, OwnerStays, Founded, Created
<1> QED
  BY <1>6, <1>7, <1>8

LEMMA StepKeeps == IndInv /\ [Next]_vars => IndInv'
<1> SUFFICES ASSUME IndInv, [Next]_vars PROVE IndInv'
  OBVIOUS
<1>1. CASE UNCHANGED vars
  BY <1>1 DEF vars, IndInv, TypeOK, OwnerStays, Founded, Created, RequestOK, AcceptKnows
<1>2. ASSUME NEW i \in Invitations, InvitationExpires(i) PROVE IndInv'
  BY <1>2, ExpiryKeeps
<1>3. ASSUME NEW r \in Requests, NEW u \in Users,
             \/ Create(r, u)
             \/ \E i \in Invitations : Accept(r, u, i)
             \/ \E target \in Users :
                   \/ Remove(r, u, target)
                   \/ \E granted \in Grantable : Invite(r, u, target, granted) \/ ChangeRole(r, u, target, granted)
      PROVE IndInv'
  BY <1>3, BeginKeeps
<1>4. ASSUME NEW r \in Requests, CreateWithOwner(r) PROVE IndInv'
  BY <1>4, CreateWithOwnerKeeps
<1>5. ASSUME NEW r \in Requests, CreateInvitation(r) PROVE IndInv'
  BY <1>5, CreateInvitationKeeps
<1>6. ASSUME NEW r \in Requests, AcceptAndAddMember(r) PROVE IndInv'
  BY <1>6, AcceptKeeps
<1>7. ASSUME NEW r \in Requests, ReadChangeTarget(r) \/ ReadRemoveTarget(r) PROVE IndInv'
  BY <1>7, TargetReadKeeps
<1>8. ASSUME NEW r \in Requests, UpdateMemberRole(r) \/ RemoveMember(r) PROVE IndInv'
  BY <1>8, TargetWriteKeeps
<1>9. ASSUME NEW r \in Requests, Fail(r) PROVE IndInv'
  BY <1>9, FinishKeeps DEF Fail
<1> QED
  BY <1>1, <1>2, <1>3, <1>4, <1>5, <1>6, <1>7, <1>8, <1>9 DEF Next

\* The inductive invariant holds of every state (all of module Organizations).
THEOREM Invariant == Spec => []IndInv
<1>1. Init => IndInv
  BY InitIndInv
<1>2. IndInv /\ [Next]_vars => IndInv'
  BY StepKeeps
<1> QED
  BY <1>1, <1>2, PTL DEF Spec

\* Rows and requests keep their types.
THEOREM TypeCorrect == Spec => []TypeOK
<1>1. IndInv => TypeOK
  BY DEF IndInv
<1> QED
  BY <1>1, Invariant, PTL

\* However requests overlap, the creator is and stays the only owner
\* (change-member-role 45, remove-member 42, invite-member 30).
THEOREM OneOwner == Spec => []OwnerStays
<1>1. IndInv => OwnerStays
  BY DEF IndInv
<1> QED
  BY <1>1, Invariant, PTL
-----------------------------------------------------------------------------
(* The action properties.                                                   *)

\* What a step does to the memberships and to the use of invitations: mostly
\* nothing, else one of the four writes.
LEMMA StepWrites ==
    ASSUME IndInv, [Next]_vars
    PROVE  \/ /\ UNCHANGED member
              /\ \A i \in Invitations : invitation[i] # None => invitation'[i].accepted = invitation[i].accepted
           \/ \E r \in Requests :
                 \/ CreateWithOwner(r) /\ ~Created
                 \/ AcceptAndAddMember(r) /\ Consumable(invitation[request[r].token])
                 \/ UpdateMemberRole(r)
                 \/ RemoveMember(r)
<1> DEFINE Still ==
      /\ UNCHANGED member
      /\ \A i \in Invitations : invitation[i] # None => invitation'[i].accepted = invitation[i].accepted
<1>1. ASSUME UNCHANGED <<member, invitation>> PROVE Still
  BY <1>1
<1>2. ASSUME UNCHANGED vars PROVE Still
  BY <1>1, <1>2 DEF vars
<1>3. ASSUME NEW i \in Invitations, InvitationExpires(i) PROVE Still
  <2>1. invitation \in [Invitations -> {None} \cup InvitationRow]
    BY DEF IndInv, TypeOK
  <2> QED
    BY <1>3, <2>1 DEF InvitationExpires, InvitationRow
<1>4. ASSUME NEW r \in Requests, NEW u \in Users,
             \/ Create(r, u)
             \/ \E i \in Invitations : Accept(r, u, i)
             \/ \E target \in Users :
                   \/ Remove(r, u, target)
                   \/ \E granted \in Grantable : Invite(r, u, target, granted) \/ ChangeRole(r, u, target, granted)
      PROVE Still
  BY <1>1, <1>4 DEF Create, Accept, Remove, Invite, ChangeRole
<1>5. ASSUME NEW r \in Requests, CreateWithOwner(r), Created PROVE Still
  BY <1>1, <1>5 DEF CreateWithOwner
<1>6. ASSUME NEW r \in Requests, CreateInvitation(r) PROVE Still
  BY <1>6 DEF CreateInvitation, IndInv, TypeOK
<1>7. ASSUME NEW r \in Requests, AcceptAndAddMember(r), ~Consumable(invitation[request[r].token]) PROVE Still
  BY <1>1, <1>7 DEF AcceptAndAddMember
<1>8. ASSUME NEW r \in Requests, ReadChangeTarget(r) \/ ReadRemoveTarget(r) \/ Fail(r) PROVE Still
  BY <1>1, <1>8 DEF ReadChangeTarget, ReadRemoveTarget, Fail
<1> DEFINE Writes(r) == \/ CreateWithOwner(r) /\ ~Created
                        \/ AcceptAndAddMember(r) /\ Consumable(invitation[request[r].token])
                        \/ UpdateMemberRole(r)
                        \/ RemoveMember(r)
<1>9. ASSUME NEW r \in Requests,
             \/ CreateWithOwner(r) \/ CreateInvitation(r) \/ AcceptAndAddMember(r)
             \/ ReadChangeTarget(r) \/ UpdateMemberRole(r)
             \/ ReadRemoveTarget(r) \/ RemoveMember(r)
             \/ Fail(r)
      PROVE  Still \/ Writes(r)
  <2> HIDE DEF Still
  <2> QED
    BY <1>5, <1>6, <1>7, <1>8, <1>9
<1> HIDE DEF Still, Writes
<1>10. Still \/ \E r \in Requests : Writes(r)
  BY <1>2, <1>3, <1>4, <1>9 DEF Next
<1> QED
  BY <1>10 DEF Still, Writes

\* One becomes a member by creating the organization or through an open
\* invitation of one's own, whatever was checked before (prisma-org-invitation
\* 65-88, prisma-organization 121-128).
THEOREM NoMemberUninvited == Spec => JoinsByInvitation
<1>1. ASSUME IndInv, [Next]_vars, NEW u \in Users, member[u] = None, member'[u] # None
      PROVE  Joins(u)
  <2>1. /\ member \in [Users -> Roles \cup {None}]
        /\ \A r \in Requests : request[r] \in Local
    BY <1>1 DEF IndInv, TypeOK
  <2>2. ASSUME NEW r \in Requests, CreateWithOwner(r), ~Created PROVE Joins(u)
    BY <1>1, <2>1, <2>2 DEF CreateWithOwner, Joins
  <2>3. ASSUME NEW r \in Requests, AcceptAndAddMember(r), Consumable(invitation[request[r].token])
        PROVE  Joins(u)
    <3> DEFINE i == request[r].token
    <3>1. /\ i \in Invitations /\ invitation[i] \in InvitationRow /\ invitation[i] # None
          /\ request[r].by \in Users /\ invitation[i].user = request[r].by
          /\ invitation' = [invitation EXCEPT ![i].accepted = TRUE]
          /\ member' = [member EXCEPT ![request[r].by] = IF @ = None THEN invitation[i].role ELSE @]
      BY <1>1, <2>3, AcceptWrites
    <3>2. invitation \in [Invitations -> {None} \cup InvitationRow] /\ Open(invitation[i])
      BY <1>1, <2>3 DEF IndInv, TypeOK, Consumable
    <3> HIDE DEF i
    <3>3. u = request[r].by /\ member'[u] = invitation[i].role
      BY <1>1, <2>1, <3>1
    <3>4. invitation'[i].accepted
      BY <3>1, <3>2 DEF InvitationRow
    <3> QED
      BY <3>1, <3>2, <3>3, <3>4 DEF Joins
  <2>4. ASSUME NEW r \in Requests, UpdateMemberRole(r) \/ RemoveMember(r) PROVE FALSE
    BY <1>1, <2>1, <2>4 DEF UpdateMemberRole, UpdateRole, RemoveMember
  <2> QED
    BY <1>1, <2>2, <2>3, <2>4, StepWrites
<1>2. IndInv /\ [Next]_vars => [\A u \in Users : member[u] = None /\ member'[u] # None => Joins(u)]_vars
  BY <1>1
<1> QED
  BY <1>2, Invariant, PTL DEF Spec, JoinsByInvitation

\* Only a request of the owner changes a role, though it was asked two queries
\* before the write whether its sender is the owner (change-member-role 31-54).
THEOREM OwnerChangesRoles == Spec => RoleChangedByOwner
<1> DEFINE Changed(u) == member[u] # None /\ member'[u] \notin {member[u], None}
           ByOwner == \E r \in Requests : At(r, "change.write") /\ member[request[r].by] = Owner
<1>1. ASSUME IndInv, [Next]_vars, NEW u \in Users, Changed(u)
      PROVE  ByOwner
  <2>1. member \in [Users -> Roles \cup {None}] /\ founder \in Users \cup {None}
    BY <1>1 DEF IndInv, TypeOK
  <2>2. ASSUME NEW r \in Requests, CreateWithOwner(r), ~Created PROVE FALSE
    BY <1>1, <2>2 DEF IndInv, Founded
  <2>3. ASSUME NEW r \in Requests, AcceptAndAddMember(r), Consumable(invitation[request[r].token])
        PROVE  FALSE
    BY <1>1, <2>1, <2>3 DEF AcceptAndAddMember, UpsertMember
  <2>4. ASSUME NEW r \in Requests, UpdateMemberRole(r) PROVE ByOwner
    <3>1. At(r, "change.write") /\ request[r].by = founder /\ Created
      BY <1>1, <2>4 DEF UpdateMemberRole, At, IndInv, RequestOK, Founded
    <3>2. member[founder] = Owner
      BY <1>1, <2>1, <3>1, OwnerIsFounder DEF Created
    <3> QED
      BY <3>1, <3>2
  <2>5. ASSUME NEW r \in Requests, RemoveMember(r) PROVE FALSE
    BY <1>1, <2>1, <2>5 DEF RemoveMember
  <2> QED
    BY <1>1, <2>2, <2>3, <2>4, <2>5, StepWrites
<1>2. IndInv /\ [Next]_vars => [\A u \in Users : Changed(u) => ByOwner]_vars
  BY <1>1
<1> QED
  BY <1>2, Invariant, PTL DEF Spec, RoleChangedByOwner

\* An invitation is used up only together with the membership it is for
\* (prisma-org-invitation 58-91).
THEOREM NoInvitationWasted == Spec => UsedInvitationJoins
<1> DEFINE Used(i) == invitation[i] # None /\ ~invitation[i].accepted /\ invitation'[i].accepted
<1>1. ASSUME IndInv, [Next]_vars, NEW i \in Invitations, Used(i)
      PROVE  member'[invitation[i].user] # None
  <2>1. /\ member \in [Users -> Roles \cup {None}]
        /\ invitation \in [Invitations -> {None} \cup InvitationRow]
    BY <1>1 DEF IndInv, TypeOK
  <2>2. ASSUME NEW r \in Requests, CreateWithOwner(r) \/ UpdateMemberRole(r) \/ RemoveMember(r)
        PROVE  FALSE
    BY <1>1, <2>2 DEF CreateWithOwner, UpdateMemberRole, RemoveMember
  <2>3. ASSUME NEW r \in Requests, AcceptAndAddMember(r), Consumable(invitation[request[r].token])
        PROVE  member'[invitation[i].user] # None
    <3> DEFINE k == request[r].token
    <3>1. /\ k \in Invitations /\ invitation[k] \in InvitationRow
          /\ request[r].by \in Users /\ invitation[k].user = request[r].by
          /\ invitation' = [invitation EXCEPT ![k].accepted = TRUE]
          /\ member' = [member EXCEPT ![request[r].by] = IF @ = None THEN invitation[k].role ELSE @]
      BY <1>1, <2>3, AcceptWrites
    <3> HIDE DEF k
    <3>2. i = k
      BY <1>1, <2>1, <3>1
    <3>3. invitation[k].role \in Roles /\ None \notin Roles
      BY <3>1, RoleAssumption DEF InvitationRow
    <3> QED
      BY <2>1, <3>1, <3>2, <3>3
  <2> QED
    BY <1>1, <2>2, <2>3, StepWrites
<1>2. IndInv /\ [Next]_vars => [\A i \in Invitations : Used(i) => member'[invitation[i].user] # None]_vars
  BY <1>1
<1> QED
  BY <1>2, Invariant, PTL DEF Spec, UsedInvitationJoins

-----------------------------------------------------------------------------
(* The roles.                                                              *)

\* What an admin's request holds: a role that was there, for an assignment
\* one that fits the scope and a user who was a member, and for an update no
\* one overlapped what the role still has.
AdminOK(x) ==
    /\ x.phase # "idle" => x.role \in Custom /\ role[x.role] # None
    /\ x.phase = "assign.write" =>
          /\ x.user \in Users /\ x.scope \in Scope
          /\ Exists(x.role) /\ role[x.role].scope = "org" => x.scope = "org"
          /\ x.scope = "org" => x.user \in belonged
    /\ x.phase \in {"update.delete", "update.write"} /\ x.role \notin overlapped /\ Exists(x.role) =>
          /\ x.replaces \/ x.permissions = role[x.role].permissions
          /\ x.phase = "update.write" => x.seen = role[x.role].permissions

RolesTyped ==
    /\ role \in [Custom -> {None, Deleted} \cup CustomRole]
    /\ assigned \in [Users -> [Custom -> Scope \cup {None}]]
    /\ admin \in [Requests -> AdminLocal]
    /\ meant \in [Custom -> SUBSET Permissions]
    /\ overlapped \subseteq Custom
    /\ belonged \subseteq Users

RolesInv ==
    /\ RolesTyped
    /\ \A u \in Users : member[u] # None => u \in belonged
    /\ \A r \in Requests : AdminOK(admin[r])
    /\ AssignmentsLegal
    /\ PermissionsMeant

-----------------------------------------------------------------------------
\* Every step is one of the organization or leaves it alone, so what holds of
\* the organization alone holds beside the roles.
THEOREM StillOrganization == RolesSpec => Spec
<1>1. RolesInit => Init
  BY DEF RolesInit
<1>2. [RolesNext]_allVars => [Next]_vars
  <2> SUFFICES ASSUME [RolesNext]_allVars PROVE [Next]_vars
    OBVIOUS
  <2>1. CASE UNCHANGED allVars
    BY <2>1 DEF allVars
  <2>2. CASE RolesNext
    <3>1. Next \/ OrgUnchanged
      BY <2>2 DEF RolesNext, Next, CreateCustomRole, RemoveRoleFromUser, RenameCustomRole,
         DeleteCustomRole, UpdateCustomRole, AssignRoleToUser, DeletePermissions, WriteRole,
         RemoveCustomRole, AssignToUser, AdminFails
    <3> QED
      BY <3>1 DEF OrgUnchanged
  <2> QED
    BY <2>1, <2>2
<1> QED
  BY <1>1, <1>2, PTL DEF RolesSpec, Spec

-----------------------------------------------------------------------------
LEMMA RolesInitInv == RolesInit => RolesInv
<1> SUFFICES ASSUME RolesInit PROVE RolesInv
  OBVIOUS
<1>1. RolesTyped
  <2> DEFINE seeded == [scope |-> "global", system |-> TRUE, permissions |-> Permissions]
  <2>1. seeded \in CustomRole /\ seeded.permissions = Permissions
    BY DEF CustomRole, Scope
  <2>2. role \in [Custom -> {None, seeded}]
    BY DEF RolesInit
  <2> HIDE DEF seeded
  <2>3. role \in [Custom -> {None, Deleted} \cup CustomRole]
    BY <2>1, <2>2
  <2>4. meant \in [Custom -> SUBSET Permissions]
    BY <2>1, <2>2 DEF RolesInit
  <2>5. AdminIdle \in AdminLocal
    BY DEF AdminIdle, AdminLocal
  <2> QED
    BY <2>3, <2>4, <2>5 DEF RolesInit, RolesTyped
<1>2. \A u \in Users : member[u] = None
  BY DEF RolesInit, Init
<1>3. \A r \in Requests : AdminOK(admin[r])
  BY DEF RolesInit, AdminIdle, AdminOK
<1>4. AssignmentsLegal
  BY DEF RolesInit, AssignmentsLegal
<1>5. PermissionsMeant
  BY DEF RolesInit, PermissionsMeant, Exists
<1> QED
  BY <1>1, <1>2, <1>3, <1>4, <1>5 DEF RolesInv

\* A step of the organization only adds to who has been a member.
LEMMA OrganizationKeeps ==
    ASSUME RolesInv, UNCHANGED roleVars,
           \/ belonged' = belonged \cup {u \in Users : member'[u] # None}
           \/ UNCHANGED <<member, belonged>>
    PROVE  RolesInv'
<1> USE DEF RolesInv, roleVars
<1>1. RolesTyped'
  BY DEF RolesTyped
<1>2. \A u \in Users : member'[u] # None => u \in belonged'
  OBVIOUS
<1>3. belonged \subseteq belonged'
  OBVIOUS
<1>4. ASSUME NEW r \in Requests PROVE AdminOK(admin[r])'
  <2>1. AdminOK(admin[r])
    OBVIOUS
  <2> QED
    BY <1>3, <2>1 DEF AdminOK, Exists
<1>5. AssignmentsLegal'
  BY <1>3 DEF AssignmentsLegal, Exists
<1>6. PermissionsMeant'
  BY DEF PermissionsMeant, Exists
<1> QED
  BY <1>1, <1>2, <1>4, <1>5, <1>6

\* An admin's request moves and the rows stay.
LEMMA AdminMoves ==
    ASSUME RolesInv, OrgUnchanged, UNCHANGED <<role, assigned, meant, overlapped>>,
           NEW r \in Requests, NEW x \in AdminLocal,
           admin' = [admin EXCEPT ![r] = x], AdminOK(x)
    PROVE  RolesInv'
<1> USE DEF RolesInv, OrgUnchanged, vars
<1>1. RolesTyped'
  BY DEF RolesTyped
<1>2. ASSUME NEW q \in Requests PROVE AdminOK(admin[q])'
  <2>1. admin'[q] = IF q = r THEN x ELSE admin[q]
    BY DEF RolesTyped
  <2>2. AdminOK(admin[q])
    OBVIOUS
  <2> QED
    BY <2>1, <2>2 DEF AdminOK, Exists
<1>3. AssignmentsLegal'
  BY DEF AssignmentsLegal, Exists
<1>4. PermissionsMeant'
  BY DEF PermissionsMeant, Exists
<1> QED
  BY <1>1, <1>2, <1>3, <1>4

LEMMA IdleOK == AdminIdle \in AdminLocal /\ AdminOK(AdminIdle)
BY DEF AdminIdle, AdminLocal, AdminOK, Scope

LEMMA FailsKeeps ==
    ASSUME RolesInv, NEW r \in Requests, AdminFails(r)
    PROVE  RolesInv'
BY IdleOK, AdminMoves DEF AdminFails, AdminFinishes

\* The first step of an admin's request: what was read is what the rows say.
LEMMA ReadKeeps ==
    ASSUME RolesInv, NEW r \in Requests, NEW c \in Custom,
           \/ RenameCustomRole(r, c) \/ DeleteCustomRole(r, c)
           \/ \E permissions \in SUBSET Permissions : UpdateCustomRole(r, c, permissions)
           \/ \E u \in Users, scope \in Scope : AssignRoleToUser(r, u, c, scope)
    PROVE  RolesInv'
<1> USE DEF AdminBegins
<1>0. Exists(c) /\ role[c] # None /\ role[c] \in CustomRole
  BY DEF RenameCustomRole, DeleteCustomRole, UpdateCustomRole, AssignRoleToUser, Exists,
     RolesInv, RolesTyped
<1>1. CASE RenameCustomRole(r, c)
  <2> DEFINE x == [AdminIdle EXCEPT !.phase = "update.delete", !.role = c,
                       !.permissions = role[c].permissions]
  <2>1. x \in AdminLocal /\ AdminOK(x)
    BY <1>0 DEF AdminIdle, AdminLocal, AdminOK, CustomRole
  <2>2. admin' = [admin EXCEPT ![r] = x] /\ OrgUnchanged /\ UNCHANGED <<role, assigned, meant, overlapped>>
    BY <1>1 DEF RenameCustomRole
  <2> QED
    BY <2>1, <2>2, AdminMoves
<1>2. CASE DeleteCustomRole(r, c)
  <2> DEFINE x == [AdminIdle EXCEPT !.phase = "delete.write", !.role = c]
  <2>1. x \in AdminLocal /\ AdminOK(x)
    BY <1>0 DEF AdminIdle, AdminLocal, AdminOK
  <2>2. admin' = [admin EXCEPT ![r] = x] /\ OrgUnchanged /\ UNCHANGED <<role, assigned, meant, overlapped>>
    BY <1>2 DEF DeleteCustomRole
  <2> QED
    BY <2>1, <2>2, AdminMoves
<1>3. ASSUME NEW permissions \in SUBSET Permissions, UpdateCustomRole(r, c, permissions) PROVE RolesInv'
  <2> DEFINE x == [AdminIdle EXCEPT !.phase = "update.delete", !.role = c,
                       !.permissions = permissions, !.replaces = TRUE]
  <2>1. x \in AdminLocal /\ AdminOK(x)
    BY <1>0 DEF AdminIdle, AdminLocal, AdminOK
  <2>2. admin' = [admin EXCEPT ![r] = x] /\ OrgUnchanged /\ UNCHANGED <<role, assigned, meant, overlapped>>
    BY <1>3 DEF UpdateCustomRole
  <2> QED
    BY <2>1, <2>2, AdminMoves
<1>4. ASSUME NEW u \in Users, NEW scope \in Scope, AssignRoleToUser(r, u, c, scope) PROVE RolesInv'
  <2> DEFINE x == [AdminIdle EXCEPT !.phase = "assign.write", !.role = c, !.user = u, !.scope = scope]
  <2>1. (role[c].scope = "org" => scope = "org") /\ (scope = "org" => u \in belonged)
    BY <1>4 DEF AssignRoleToUser, Assignable, RolesInv
  <2>2. x \in AdminLocal /\ AdminOK(x)
    BY <1>0, <2>1 DEF AdminIdle, AdminLocal, AdminOK
  <2>3. admin' = [admin EXCEPT ![r] = x] /\ OrgUnchanged /\ UNCHANGED <<role, assigned, meant, overlapped>>
    BY <1>4 DEF AssignRoleToUser
  <2> QED
    BY <2>2, <2>3, AdminMoves
<1> QED
  BY <1>1, <1>2, <1>3, <1>4

LEMMA SeenKeeps ==
    ASSUME RolesInv, NEW r \in Requests, DeletePermissions(r)
    PROVE  RolesInv'
<1> DEFINE c == admin[r].role
           x == [admin[r] EXCEPT !.phase = "update.write", !.seen = Rows(c)]
<1>1. admin[r] \in AdminLocal /\ AdminOK(admin[r]) /\ admin[r].phase = "update.delete"
  BY DEF RolesInv, RolesTyped, DeletePermissions, AdminAt
<1>2. c \in Custom /\ role[c] # None
  BY <1>1 DEF AdminOK
<1>3. Exists(c) => role[c] \in CustomRole
  BY <1>2 DEF Exists, RolesInv, RolesTyped
<1>4. Rows(c) \in SUBSET Permissions
  BY <1>3 DEF Rows, CustomRole
<1>5. x \in AdminLocal
  BY <1>1, <1>4 DEF AdminLocal
<1>6. AdminOK(x)
  BY <1>1, <1>2, <1>5 DEF AdminOK, AdminLocal, Rows
<1>7. admin' = [admin EXCEPT ![r] = x] /\ OrgUnchanged /\ UNCHANGED <<role, assigned, meant, overlapped>>
  BY <1>1 DEF DeletePermissions, RolesInv, RolesTyped
<1> QED
  BY <1>5, <1>6, <1>7, AdminMoves

\* A new role is in no request's hands and assigned to nobody.
LEMMA CreateKeeps ==
    ASSUME RolesInv, NEW c \in Custom, NEW scope \in Scope, NEW permissions \in SUBSET Permissions,
           CreateCustomRole(c, scope, permissions)
    PROVE  RolesInv'
<1> DEFINE row == [scope |-> scope, system |-> FALSE, permissions |-> permissions]
<1> USE DEF RolesInv, OrgUnchanged, vars
<1>1. /\ role[c] = None /\ role' = [role EXCEPT ![c] = row]
      /\ meant' = [meant EXCEPT ![c] = permissions]
      /\ UNCHANGED <<assigned, admin, overlapped, belonged, member>>
  BY DEF CreateCustomRole
<1>2. row \in CustomRole /\ row.permissions = permissions
  BY DEF CustomRole
<1> HIDE DEF row
<1>3. RolesTyped'
  BY <1>1, <1>2 DEF RolesTyped
<1>4. \A k \in Custom : role'[k] = IF k = c THEN row ELSE role[k]
  BY <1>1 DEF RolesTyped
<1>5. ASSUME NEW r \in Requests PROVE AdminOK(admin[r])'
  <2>1. AdminOK(admin[r])
    OBVIOUS
  <2> QED
    BY <1>1, <1>4, <2>1, CustomRoleAssumption, <1>2 DEF AdminOK, Exists, RolesTyped, AdminLocal
<1>6. AssignmentsLegal'
  BY <1>1, <1>4, <1>2 DEF AssignmentsLegal, Exists
<1>7. PermissionsMeant'
  BY <1>1, <1>2, <1>4 DEF PermissionsMeant, Exists, RolesTyped
<1> QED
  BY <1>1, <1>3, <1>5, <1>6, <1>7

\* A role that is deleted is nobody's any more.
LEMMA RemoveKeeps ==
    ASSUME RolesInv, NEW r \in Requests, RemoveCustomRole(r)
    PROVE  RolesInv'
<1> DEFINE c == admin[r].role
<1> USE DEF RolesInv, OrgUnchanged, vars
<1>1. /\ AdminOK(admin[r]) /\ admin[r].phase = "delete.write"
      /\ role' = [role EXCEPT ![c] = Deleted]
      /\ assigned' = [u \in Users |-> [assigned[u] EXCEPT ![c] = None]]
      /\ meant' = [meant EXCEPT ![c] = {}]
      /\ admin' = [admin EXCEPT ![r] = AdminIdle]
      /\ UNCHANGED <<overlapped, belonged, member>>
  BY DEF RemoveCustomRole, AdminAt, AdminFinishes
<1>2. c \in Custom /\ role[c] # None
  BY <1>1 DEF AdminOK
<1>3. RolesTyped'
  BY <1>1, <1>2, IdleOK DEF RolesTyped
<1> HIDE DEF c
<1>4. /\ \A k \in Custom : role'[k] = IF k = c THEN Deleted ELSE role[k]
      /\ \A u \in Users, k \in Custom : assigned'[u][k] = IF k = c THEN None ELSE assigned[u][k]
      /\ \A k \in Custom : meant'[k] = IF k = c THEN {} ELSE meant[k]
      /\ \A q \in Requests : admin'[q] = IF q = r THEN AdminIdle ELSE admin[q]
  BY <1>1, <1>2 DEF RolesTyped
<1>5. ASSUME NEW q \in Requests PROVE AdminOK(admin[q])'
  <2>1. CASE q = r
    BY <1>4, <2>1 DEF AdminOK, AdminIdle
  <2>2. CASE q # r
    <3>1. AdminOK(admin[q])
      OBVIOUS
    <3> QED
      BY <1>1, <1>4, <2>2, <3>1, CustomRoleAssumption DEF AdminOK, Exists
  <2> QED
    BY <2>1, <2>2
<1>6. AssignmentsLegal'
  BY <1>1, <1>4 DEF AssignmentsLegal, Exists
<1>7. PermissionsMeant'
  BY <1>1, <1>4 DEF PermissionsMeant, Exists
<1> QED
  BY <1>1, <1>3, <1>5, <1>6, <1>7

\* Assignments change, and nothing else but the request that changed them.
LEMMA AssignedKeeps ==
    ASSUME RolesInv, UNCHANGED <<role, meant, overlapped, belonged, member>>,
           assigned' \in [Users -> [Custom -> Scope \cup {None}]],
           admin' \in [Requests -> AdminLocal],
           \A q \in Requests : admin'[q] \in {admin[q], AdminIdle},
           AssignmentsLegal'
    PROVE  RolesInv'
<1> USE DEF RolesInv
<1>1. RolesTyped'
  BY DEF RolesTyped
<1>2. ASSUME NEW q \in Requests PROVE AdminOK(admin[q])'
  <2>1. AdminOK(admin[q]) /\ AdminOK(AdminIdle)
    BY IdleOK
  <2>2. AdminOK(admin'[q])
    BY <2>1
  <2> QED
    BY <2>2 DEF AdminOK, Exists
<1>3. PermissionsMeant'
  BY DEF PermissionsMeant, Exists
<1> QED
  BY <1>1, <1>2, <1>3

LEMMA AssignKeeps ==
    ASSUME RolesInv, NEW r \in Requests, AssignToUser(r)
    PROVE  RolesInv'
<1> DEFINE c == admin[r].role
           u == admin[r].user
           scope == admin[r].scope
<1> USE DEF RolesInv
<1>1. /\ AdminOK(admin[r]) /\ admin[r].phase = "assign.write"
      /\ assigned' = IF Exists(c) THEN [assigned EXCEPT ![u][c] = scope] ELSE assigned
      /\ admin' = [admin EXCEPT ![r] = AdminIdle]
      /\ UNCHANGED <<role, meant, overlapped, belonged, member>>
  BY DEF AssignToUser, AdminAt, AdminFinishes, OrgUnchanged, vars
<1>2. /\ c \in Custom /\ u \in Users /\ scope \in Scope
      /\ Exists(c) /\ role[c].scope = "org" => scope = "org"
      /\ scope = "org" => u \in belonged
  BY <1>1 DEF AdminOK
<1>3. /\ admin' \in [Requests -> AdminLocal]
      /\ \A q \in Requests : admin'[q] \in {admin[q], AdminIdle}
  BY <1>1, IdleOK DEF RolesTyped
<1> HIDE DEF c, u, scope
<1>4. assigned' \in [Users -> [Custom -> Scope \cup {None}]]
  BY <1>1, <1>2 DEF RolesTyped
<1>5. \A v \in Users, k \in Custom :
          assigned'[v][k] = IF Exists(c) /\ v = u /\ k = c THEN scope ELSE assigned[v][k]
  BY <1>1, <1>2 DEF RolesTyped
<1>6. AssignmentsLegal'
  BY <1>1, <1>2, <1>5 DEF AssignmentsLegal, Exists
<1> QED
  BY <1>1, <1>3, <1>4, <1>6, AssignedKeeps

LEMMA UnassignKeeps ==
    ASSUME RolesInv, NEW u \in Users, NEW c \in Custom, RemoveRoleFromUser(u, c)
    PROVE  RolesInv'
<1> USE DEF RolesInv
<1>1. /\ assigned' = [assigned EXCEPT ![u][c] = None]
      /\ UNCHANGED <<role, admin, meant, overlapped, belonged, member>>
  BY DEF RemoveRoleFromUser, OrgUnchanged, vars
<1>2. assigned' \in [Users -> [Custom -> Scope \cup {None}]]
  BY <1>1 DEF RolesTyped
<1>3. \A v \in Users, k \in Custom : assigned'[v][k] = IF v = u /\ k = c THEN None ELSE assigned[v][k]
  BY <1>1 DEF RolesTyped
<1>4. AssignmentsLegal'
  BY <1>1, <1>3 DEF AssignmentsLegal, Exists
<1> QED
  BY <1>1, <1>2, <1>4, AssignedKeeps DEF RolesTyped

\* The commit of an update.  A request that holds the role too makes it an
\* overlapped one, of which nothing is promised; where there is none, the
\* rows deleted were all there were.
LEMMA CommitKeeps ==
    ASSUME RolesInv, NEW r \in Requests, WriteRole(r)
    PROVE  RolesInv'
<1> DEFINE c == admin[r].role
           asked == admin[r].permissions
           kept == Rows(c) \ admin[r].seen
           written == [role[c] EXCEPT !.permissions = kept \cup asked]
           racing == \E q \in Requests \ {r} : Updates(q, c)
<1> USE DEF RolesInv
<1>1. /\ AdminOK(admin[r]) /\ admin[r] \in AdminLocal /\ admin[r].phase = "update.write"
      /\ OrgUnchanged /\ UNCHANGED <<belonged, member, assigned>>
  BY DEF WriteRole, AdminAt, OrgUnchanged, vars, RolesTyped
<1>2. c \in Custom /\ role[c] # None /\ asked \in SUBSET Permissions
  BY <1>1 DEF AdminOK, AdminLocal
<1>3. CASE ~(Exists(c) /\ asked \cap kept = {})
  <2>1. UNCHANGED <<role, meant, overlapped>> /\ admin' = [admin EXCEPT ![r] = AdminIdle]
    BY <1>3 DEF WriteRole, AdminFinishes
  <2> QED
    BY <1>1, <2>1, IdleOK, AdminMoves
<1>4. CASE Exists(c) /\ asked \cap kept = {}
  <2>1. /\ role' = [role EXCEPT ![c].permissions = kept \cup asked]
        /\ overlapped' = overlapped \cup {k \in {c} : \E q \in Requests \ {r} : Updates(q, k)}
        /\ meant' = [meant EXCEPT ![c] = IF c \in overlapped' THEN {}
                                        ELSE IF admin[r].replaces THEN admin[r].permissions
                                        ELSE @]
        /\ admin' = [q \in Requests |-> IF q = r THEN AdminIdle ELSE Unseen(q, c, asked)]
    BY <1>4 DEF WriteRole
  <2>2. role[c] \in CustomRole
    BY <1>2, <1>4 DEF Exists, RolesTyped
  <2>3. kept \in SUBSET Permissions
    BY <1>4, <2>2 DEF Rows, CustomRole
  <2>4. /\ written \in CustomRole /\ written.permissions = kept \cup asked
        /\ written.scope = role[c].scope
    BY <1>2, <2>2, <2>3 DEF CustomRole
  <2>5. role' = [role EXCEPT ![c] = written]
    BY <1>2, <2>1, <2>2 DEF CustomRole, RolesTyped
  <2>6. overlapped' = overlapped \cup (IF racing THEN {c} ELSE {})
    BY <2>1
  <2>7. /\ meant' \in [Custom -> SUBSET Permissions]
        /\ \A k \in Custom \ {c} : meant'[k] = meant[k]
        /\ c \notin overlapped' => meant'[c] = IF admin[r].replaces THEN asked ELSE meant[c]
    BY <1>2, <2>1 DEF RolesTyped
  <2> HIDE DEF kept, written, c, asked
  <2>8. ASSUME NEW q \in Requests \ {r}
        PROVE  /\ admin'[q] \in AdminLocal
               /\ ~Updates(q, c) => admin'[q] = admin[q]
               /\ admin'[q].phase = admin[q].phase /\ admin'[q].role = admin[q].role
               /\ admin'[q].user = admin[q].user /\ admin'[q].scope = admin[q].scope
    <3>1. admin'[q] = Unseen(q, c, asked) /\ admin[q] \in AdminLocal
      BY <2>1 DEF RolesTyped
    <3> QED
      BY <3>1 DEF Unseen, AdminLocal
  <2>9. RolesTyped'
    <3>1. admin' \in [Requests -> AdminLocal]
      BY <2>1, <2>8, IdleOK
    <3> QED
      BY <1>1, <1>2, <2>4, <2>5, <2>6, <2>7, <3>1 DEF RolesTyped
  <2>10. /\ \A k \in Custom : role'[k] = IF k = c THEN written ELSE role[k]
        /\ admin'[r] = AdminIdle
    BY <1>1, <1>2, <2>1, <2>5 DEF RolesTyped
  <2>11. \A k \in Custom : Exists(k)' <=> Exists(k)
    BY <1>4, <2>4, <2>10, CustomRoleAssumption, <1>2 DEF Exists
  <2>12. ASSUME NEW q \in Requests PROVE AdminOK(admin[q])'
    <3>1. CASE q = r
      BY <2>10, <3>1 DEF AdminOK, AdminIdle
    <3>2. CASE q # r /\ admin[q].role = c
      <4>1. AdminOK(admin[q])
        OBVIOUS
      <4>2. admin[q].phase \in {"update.delete", "update.write"} => c \in overlapped'
        BY <2>6, <3>2 DEF Updates
      <4>3. role'[c].scope = role[c].scope /\ role'[c] # None
        BY <1>2, <2>4, <2>10, CustomRoleAssumption
      <4> QED
        BY <1>1, <1>2, <1>4, <2>8, <3>2, <4>1, <4>2, <4>3 DEF AdminOK
    <3>3. CASE q # r /\ admin[q].role # c
      <4>1. AdminOK(admin[q]) /\ admin'[q] = admin[q]
        BY <2>8, <3>3 DEF Updates
      <4>2. admin[q].role \in Custom => /\ role'[admin[q].role] = role[admin[q].role]
                                        /\ Exists(admin[q].role)' <=> Exists(admin[q].role)
                                        /\ admin[q].role \in overlapped' <=> admin[q].role \in overlapped
        BY <2>6, <2>10, <2>11, <3>3, <4>1
      <4>3. admin[q].phase # "idle" => admin[q].role \in Custom
        BY <4>1 DEF AdminOK
      <4> QED
        BY <1>1, <4>1, <4>2, <4>3 DEF AdminOK
    <3> QED
      BY <3>1, <3>2, <3>3
  <2>13. AssignmentsLegal'
    BY <1>1, <2>4, <2>10, <2>11 DEF AssignmentsLegal
  <2>14. ASSUME c \notin overlapped' PROVE role'[c].permissions = meant'[c]
    <3>1. c \notin overlapped
      BY <2>6, <2>14
    <3>2. /\ admin[r].seen = role[c].permissions
          /\ admin[r].replaces \/ asked = role[c].permissions
      BY <1>1, <1>4, <3>1 DEF AdminOK, c, asked
    <3>3. kept = {}
      BY <3>2 DEF kept, Rows
    <3>4. meant[c] = role[c].permissions
      BY <1>2, <1>4, <3>1 DEF PermissionsMeant
    <3> QED
      BY <1>2, <2>4, <2>7, <2>10, <2>14, <3>2, <3>3, <3>4
  <2>15. PermissionsMeant'
    BY <2>6, <2>7, <2>10, <2>11, <2>14 DEF PermissionsMeant
  <2> QED
    BY <1>1, <2>9, <2>12, <2>13, <2>15
<1> QED
  BY <1>3, <1>4

-----------------------------------------------------------------------------
\* The inductive invariant, one lemma per kind of step.
THEOREM RolesInvariant == RolesSpec => []RolesInv
<1>1. RolesInv /\ [RolesNext]_allVars => RolesInv'
  <2> SUFFICES ASSUME RolesInv, [RolesNext]_allVars PROVE RolesInv'
    OBVIOUS
  <2>1. CASE UNCHANGED allVars
    BY <2>1, OrganizationKeeps DEF allVars, vars
  <2>2. ASSUME NEW r \in Requests, Beside(r) PROVE RolesInv'
    BY <2>2, OrganizationKeeps DEF Beside
  <2>3. ASSUME NEW i \in Invitations, InvitationExpires(i), UNCHANGED <<roleVars, belonged>>
        PROVE  RolesInv'
    BY <2>3, OrganizationKeeps DEF InvitationExpires
  <2>4. CASE RolesNext
    BY <2>2, <2>3, <2>4, CreateKeeps, UnassignKeeps, ReadKeeps, SeenKeeps, CommitKeeps, RemoveKeeps,
       AssignKeeps, FailsKeeps DEF RolesNext
  <2> QED
    BY <2>1, <2>4
<1> QED
  BY <1>1, RolesInitInv, PTL DEF RolesSpec

\* Whoever holds a role holds one that exists, in its scope, and as someone
\* who has been a member, for any number of them.
THEOREM NoIllegalAssignment == RolesSpec => []AssignmentsLegal
<1>1. RolesInv => AssignmentsLegal
  BY DEF RolesInv
<1> QED
  BY <1>1, RolesInvariant, PTL

\* Where updates do not overlap, a role has the permissions last asked for.
THEOREM PermissionsAsAsked == RolesSpec => []PermissionsMeant
<1>1. RolesInv => PermissionsMeant
  BY DEF RolesInv
<1> QED
  BY <1>1, RolesInvariant, PTL

\* The organization keeps its one owner beside the roles, and its members come
\* and its roles change as they do without them.
THEOREM OrganizationKept ==
    RolesSpec => []OwnerStays /\ JoinsByInvitation /\ RoleChangedByOwner
<1> QED
  BY StillOrganization, OneOwner, NoMemberUninvited, OwnerChangesRoles, PTL

-----------------------------------------------------------------------------
(* A slot of Requests serves one request at a time.                        *)

OneInSlot == \A r \in Requests : At(r, "idle") \/ AdminAt(r, "idle")

\* A step of the organization moves one request, and nobody waits in its slot.
LEMMA BesideKeepsSlot ==
    ASSUME TypeOK, RolesTyped, OneInSlot, NEW r \in Requests, AdminAt(r, "idle"),
           UNCHANGED admin, \E x : request' = [request EXCEPT ![r] = x]
    PROVE  OneInSlot'
<1>1. \A q \in Requests \ {r} : request'[q] = request[q]
  BY DEF TypeOK
<1> QED
  BY <1>1 DEF OneInSlot, At, AdminAt

\* Nor does a request of the organization where an admin's moves.
LEMMA AdminKeepsSlot ==
    ASSUME RolesTyped, OneInSlot, NEW r \in Requests,
           At(r, "idle") \/ ~AdminAt(r, "idle"),
           UNCHANGED request, \E x : admin' = [admin EXCEPT ![r] = x]
    PROVE  OneInSlot'
<1>1. \A q \in Requests \ {r} : admin'[q] = admin[q]
  BY DEF RolesTyped
<1> QED
  BY <1>1 DEF OneInSlot, At, AdminAt

LEMMA SlotKept ==
    ASSUME TypeOK, RolesTyped, OneInSlot, [RolesNext]_allVars
    PROVE  OneInSlot'
<1> DEFINE ByMember(r) == AdminAt(r, "idle") /\ UNCHANGED admin
                          /\ \E x : request' = [request EXCEPT ![r] = x]
           ByAdmin(r) == (At(r, "idle") \/ ~AdminAt(r, "idle")) /\ UNCHANGED request
                         /\ \E x : admin' = [admin EXCEPT ![r] = x]
<1>1. ASSUME UNCHANGED <<request, admin>> PROVE OneInSlot'
  BY <1>1 DEF OneInSlot, At, AdminAt
<1>2. ASSUME NEW r \in Requests, ByMember(r) \/ ByAdmin(r) PROVE OneInSlot'
  BY <1>2, BesideKeepsSlot, AdminKeepsSlot
<1>3. ASSUME NEW r \in Requests, Beside(r),
             \/ \E u \in Users :
                   \/ Create(r, u)
                   \/ \E i \in Invitations : Accept(r, u, i)
                   \/ \E target \in Users :
                         \/ Remove(r, u, target)
                         \/ \E as \in Grantable : Invite(r, u, target, as) \/ ChangeRole(r, u, target, as)
             \/ CreateWithOwner(r) \/ CreateInvitation(r) \/ AcceptAndAddMember(r)
             \/ ReadChangeTarget(r) \/ UpdateMemberRole(r) \/ ReadRemoveTarget(r)
             \/ RemoveMember(r) \/ Fail(r)
      PROVE  OneInSlot'
  <2>1. AdminAt(r, "idle") /\ UNCHANGED admin
    BY <1>3 DEF Beside, roleVars
  <2>2. request \in [Requests -> Local]
    BY DEF TypeOK
  <2>3. \E x : request' = [request EXCEPT ![r] = x]
    <3>1. ASSUME NEW ph, Goto(r, ph) PROVE \E x : request' = [request EXCEPT ![r] = x]
      <4>1. request' = [request EXCEPT ![r] = [request[r] EXCEPT !.phase = ph]]
        BY <2>2, <3>1 DEF Goto
      <4> QED
        BY <4>1
    <3>2. ASSUME \/ \E u \in Users :
                       \/ Create(r, u)
                       \/ \E i \in Invitations : Accept(r, u, i)
                       \/ \E target \in Users :
                             \/ Remove(r, u, target)
                             \/ \E as \in Grantable :
                                   Invite(r, u, target, as) \/ ChangeRole(r, u, target, as)
          PROVE  \E x : request' = [request EXCEPT ![r] = x]
      BY <3>2 DEF Create, Accept, Remove, Invite, ChangeRole, Begin
    <3>3. ASSUME CreateWithOwner(r) \/ CreateInvitation(r) \/ AcceptAndAddMember(r)
                 \/ UpdateMemberRole(r) \/ RemoveMember(r) \/ Fail(r)
          PROVE  \E x : request' = [request EXCEPT ![r] = x]
      BY <3>3 DEF CreateWithOwner, CreateInvitation, AcceptAndAddMember, UpdateMemberRole,
                  RemoveMember, Fail, Finish
    <3>4. ASSUME ReadChangeTarget(r) \/ ReadRemoveTarget(r)
          PROVE  \E x : request' = [request EXCEPT ![r] = x]
      BY <3>1, <3>4 DEF ReadChangeTarget, ReadRemoveTarget, Finish
    <3> QED
      BY <1>3, <3>2, <3>3, <3>4
  <2> QED
    BY <1>2, <2>1, <2>3
<1>4. ASSUME NEW r \in Requests,
             \/ DeletePermissions(r) \/ WriteRole(r) \/ RemoveCustomRole(r)
             \/ AssignToUser(r) \/ AdminFails(r)
      PROVE  OneInSlot'
  <2>1. admin \in [Requests -> AdminLocal]
    BY DEF RolesTyped
  <2>2. ASSUME DeletePermissions(r) PROVE ByAdmin(r)
    <3>1. admin' = [admin EXCEPT ![r] =
             [admin[r] EXCEPT !.phase = "update.write", !.seen = Rows(admin[r].role)]]
      BY <2>1, <2>2 DEF DeletePermissions
    <3> QED
      BY <2>2, <3>1 DEF DeletePermissions, AdminAt, OrgUnchanged, vars
  <2>4. CASE WriteRole(r)
    <3>1. /\ UNCHANGED request /\ admin'[r] = AdminIdle
          /\ \A q \in Requests \ {r} : admin'[q].phase = admin[q].phase
      BY <2>1, <2>4 DEF WriteRole, AdminFinishes, Unseen, AdminLocal, OrgUnchanged, vars
    <3> QED
      BY <3>1 DEF OneInSlot, At, AdminAt, AdminIdle
  <2>3. ASSUME RemoveCustomRole(r) \/ AssignToUser(r) \/ AdminFails(r)
        PROVE  ByAdmin(r)
    BY <2>3 DEF RemoveCustomRole, AssignToUser, AdminFails, AdminFinishes, AdminAt,
                OrgUnchanged, vars
  <2> QED
    BY <1>2, <1>4, <2>2, <2>3, <2>4
<1>5. ASSUME NEW r \in Requests, NEW c \in Custom,
             \/ RenameCustomRole(r, c) \/ DeleteCustomRole(r, c)
             \/ \E permissions \in SUBSET Permissions : UpdateCustomRole(r, c, permissions)
             \/ \E u \in Users, scope \in Scope : AssignRoleToUser(r, u, c, scope)
      PROVE  OneInSlot'
  <2>1. ByAdmin(r)
    BY <1>5 DEF RenameCustomRole, DeleteCustomRole, UpdateCustomRole, AssignRoleToUser,
                AdminBegins, OrgUnchanged, vars
  <2> QED
    BY <1>2, <2>1
<1> HIDE DEF ByMember, ByAdmin
<1>6. ASSUME UNCHANGED allVars PROVE OneInSlot'
  BY <1>1, <1>6 DEF allVars, vars, roleVars
<1>7. ASSUME NEW c \in Custom, NEW scope \in Scope, NEW permissions \in SUBSET Permissions,
             CreateCustomRole(c, scope, permissions)
      PROVE  OneInSlot'
  BY <1>1, <1>7 DEF CreateCustomRole, OrgUnchanged, vars
<1>8. ASSUME NEW u \in Users, NEW c \in Custom, RemoveRoleFromUser(u, c) PROVE OneInSlot'
  BY <1>1, <1>8 DEF RemoveRoleFromUser, OrgUnchanged, vars
<1>9. ASSUME NEW i \in Invitations, InvitationExpires(i), UNCHANGED <<roleVars, belonged>>
      PROVE  OneInSlot'
  BY <1>1, <1>9 DEF InvitationExpires, roleVars
<1>10. CASE RolesNext
  BY <1>3, <1>4, <1>5, <1>7, <1>8, <1>9, <1>10 DEF RolesNext
<1> QED
  BY <1>6, <1>10

\* Rows and requests of roles and organization are well formed together, and one
\* slot never serves a member and an admin at once.
THEOREM RolesTypeCorrect == RolesSpec => []RolesTypeOK
<1>1. RolesInit => OneInSlot
  BY DEF RolesInit, Init, OneInSlot, At, Idle
<1>2. TypeOK /\ RolesInv /\ OneInSlot /\ [RolesNext]_allVars => OneInSlot'
  BY SlotKept DEF RolesInv
<1>3. TypeOK /\ RolesInv /\ OneInSlot => RolesTypeOK
  BY DEF RolesInv, RolesTyped, RolesTypeOK, OneInSlot
<1> QED
  BY <1>1, <1>2, <1>3, StillOrganization, TypeCorrect, RolesInvariant, PTL DEF RolesSpec
=============================================================================
