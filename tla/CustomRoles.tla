---------------------------- MODULE CustomRoles ----------------------------
(***************************************************************************)
(* Custom roles, their permissions and their assignment to users, beside   *)
(* the organization the roles and the assignments may belong to.           *)
(*   src/src/application/use-cases/rbac/*.use-case.ts                      *)
(*   src/src/infrastructure/database/repositories/prisma-custom-role*      *)
(*                                                                         *)
(* All of it is done by global admins, who need not be members of the      *)
(* organization.  A request of module Organizations and one of this module *)
(* share a slot of Requests, one at a time.  Names and descriptions are    *)
(* left out, so the unique name is a reason to fail; permissions are       *)
(* seeded and never go.                                                    *)
(***************************************************************************)
EXTENDS Organizations

CONSTANTS Custom,       \* identities of roles; random, so none is given out again
          Permissions,
          Deleted       \* what is left of a deleted role

\* An organization or none, for roles and for assignments alike.
Scope == {"global", "org"}

CustomRole == [scope : Scope, system : BOOLEAN, permissions : SUBSET Permissions]

ASSUME CustomRoleAssumption ==
    /\ Deleted # None
    /\ None \notin Scope
    /\ \A row \in CustomRole : row \notin {None, Deleted}

VARIABLES
    role,        \* [Custom -> None, a role with its role_permissions, or Deleted]
    assigned,    \* [Users -> [Custom -> None or the scope in the user_roles row]]
    admin,       \* [Requests -> a global admin's request's local variables]
    meant,       \* history: [Custom -> the permissions last asked for], {} for
                 \* overlapped roles
    overlapped,  \* history: roles written while another update had read them
    belonged     \* history: who has been a member

roleVars == <<role, assigned, admin, meant, overlapped>>
allVars == <<vars, roleVars, belonged>>

AdminLocal == [phase : {"idle", "update.delete", "update.write", "delete.write", "assign.write"},
               role : Custom \cup {None}, user : Users \cup {None},
               scope : Scope \cup {None}, permissions : SUBSET Permissions,
               seen : SUBSET Permissions, replaces : BOOLEAN]

AdminIdle == [phase |-> "idle", role |-> None, user |-> None, scope |-> None,
              permissions |-> {}, seen |-> {}, replaces |-> FALSE]

\* A role may be the seeded one.
RolesInit ==
    /\ Init
    /\ role \in [Custom -> {None, [scope |-> "global", system |-> TRUE, permissions |-> Permissions]}]
    /\ assigned = [u \in Users |-> [c \in Custom |-> None]]
    /\ admin = [r \in Requests |-> AdminIdle]
    /\ meant = [c \in Custom |-> IF role[c] = None THEN {} ELSE role[c].permissions]
    /\ overlapped = {}
    /\ belonged = {}

-----------------------------------------------------------------------------
Exists(c) == role[c] \notin {None, Deleted}

AdminAt(r, phase) == admin[r].phase = phase

AdminBegins(r, local) ==
    /\ At(r, "idle") /\ AdminAt(r, "idle")
    /\ admin' = [admin EXCEPT ![r] = local]

AdminFinishes(r) == admin' = [admin EXCEPT ![r] = AdminIdle]

\* Nobody but the requests of Organizations writes memberships.
OrgUnchanged == UNCHANGED <<vars, belonged>>

\* POST /rbac/roles.  What it reads before the insert never goes.
CreateCustomRole(c, scope, permissions) ==
    /\ role[c] = None
    /\ scope = "org" => Created
    /\ role' = [role EXCEPT ![c] = [scope |-> scope, system |-> FALSE, permissions |-> permissions]]
    /\ meant' = [meant EXCEPT ![c] = permissions]
    /\ OrgUnchanged /\ UNCHANGED <<assigned, admin, overlapped>>

(* PUT /rbac/roles/:id: the role is read, with permissions or without them  *)
(* in the request, and written back in a transaction: its permissions are   *)
(* deleted, and then those of the role in hand inserted.                    *)
UpdateCustomRole(r, c, permissions) ==
    /\ Exists(c)
    /\ ~role[c].system
    /\ AdminBegins(r, [AdminIdle EXCEPT !.phase = "update.delete", !.role = c,
                           !.permissions = permissions, !.replaces = TRUE])
    /\ OrgUnchanged /\ UNCHANGED <<role, assigned, meant, overlapped>>

RenameCustomRole(r, c) ==
    /\ Exists(c)
    /\ ~role[c].system
    /\ AdminBegins(r, [AdminIdle EXCEPT !.phase = "update.delete", !.role = c,
                           !.permissions = role[c].permissions])
    /\ OrgUnchanged /\ UNCHANGED <<role, assigned, meant, overlapped>>

Rows(c) == IF Exists(c) THEN role[c].permissions ELSE {}

\* Mutant: the permissions in the request are added to those of the role.
DeleteNone(r) ==
    /\ AdminAt(r, "update.delete")
    /\ admin' = [admin EXCEPT ![r].phase = "update.write"]
    /\ OrgUnchanged /\ UNCHANGED <<role, assigned, meant, overlapped>>

\* deleteMany deletes the rows that were committed when it began.
DeletePermissions(r) ==
    /\ AdminAt(r, "update.delete")
    /\ admin' = [admin EXCEPT ![r].phase = "update.write", ![r].seen = Rows(admin[r].role)]
    /\ OrgUnchanged /\ UNCHANGED <<role, assigned, meant, overlapped>>

Updates(r, c) == admin[r].phase \in {"update.delete", "update.write"} /\ admin[r].role = c

\* Who has chosen the rows of c to delete does not see those inserted since, not
\* even one for the same permission.
Unseen(q, c, inserted) ==
    IF Updates(q, c) THEN [admin[q] EXCEPT !.seen = @ \ inserted] ELSE admin[q]

\* The inserts and the commit.  Where the role has gone, or a row to be
\* inserted is there already, nothing of the transaction stays.
WriteRole(r) ==
    /\ AdminAt(r, "update.write")
    /\ LET c == admin[r].role
           kept == Rows(c) \ admin[r].seen
       IN IF Exists(c) /\ admin[r].permissions \cap kept = {}
          THEN /\ role' = [role EXCEPT ![c].permissions = kept \cup admin[r].permissions]
               /\ overlapped' = overlapped \cup {k \in {c} : \E q \in Requests \ {r} : Updates(q, k)}
               /\ meant' = [meant EXCEPT ![c] = IF c \in overlapped' THEN {}
                                               ELSE IF admin[r].replaces THEN admin[r].permissions
                                               ELSE @]
               /\ admin' = [q \in Requests |-> IF q = r THEN AdminIdle
                                               ELSE Unseen(q, c, admin[r].permissions)]
          ELSE AdminFinishes(r) /\ UNCHANGED <<role, meant, overlapped>>
    /\ OrgUnchanged /\ UNCHANGED assigned

(* DELETE /rbac/roles/:id.                                                  *)
DeleteCustomRole(r, c) ==
    /\ Exists(c)
    /\ ~role[c].system
    /\ AdminBegins(r, [AdminIdle EXCEPT !.phase = "delete.write", !.role = c])
    /\ OrgUnchanged /\ UNCHANGED <<role, assigned, meant, overlapped>>

\* Its permissions and assignments go with it (ON DELETE CASCADE).
RemoveCustomRole(r) ==
    /\ AdminAt(r, "delete.write")
    /\ role' = [role EXCEPT ![admin[r].role] = Deleted]
    /\ assigned' = [u \in Users |-> [assigned[u] EXCEPT ![admin[r].role] = None]]
    /\ AdminFinishes(r)
    /\ meant' = [meant EXCEPT ![admin[r].role] = {}]
    /\ OrgUnchanged /\ UNCHANGED overlapped

-----------------------------------------------------------------------------
\* Mutant: the user's membership is not asked for.
AnyoneInScope(u, c, scope) == role[c].scope = "org" => scope = "org"

\* A role of the organization is given within it alone, and within it only to
\* members.
Assignable(u, c, scope) ==
    /\ role[c].scope = "org" => scope = "org"
    /\ scope = "org" => Created /\ member[u] # None

(* POST and DELETE /rbac/users/:id/roles.                                   *)
AssignRoleToUser(r, u, c, scope) ==
    /\ Exists(c)
    /\ Assignable(u, c, scope)
    /\ AdminBegins(r, [AdminIdle EXCEPT !.phase = "assign.write", !.role = c,
                           !.user = u, !.scope = scope])
    /\ OrgUnchanged /\ UNCHANGED <<role, assigned, meant, overlapped>>

\* Inserts the row or overwrites its scope; there must be the role.
AssignToUser(r) ==
    /\ AdminAt(r, "assign.write")
    /\ assigned' = IF Exists(admin[r].role)
                   THEN [assigned EXCEPT ![admin[r].user][admin[r].role] = admin[r].scope]
                   ELSE assigned
    /\ AdminFinishes(r)
    /\ OrgUnchanged /\ UNCHANGED <<role, meant, overlapped>>

RemoveRoleFromUser(u, c) ==
    /\ assigned[u][c] # None
    /\ assigned' = [assigned EXCEPT ![u][c] = None]
    /\ OrgUnchanged /\ UNCHANGED <<role, admin, meant, overlapped>>

AdminFails(r) ==
    /\ ~AdminAt(r, "idle")
    /\ AdminFinishes(r)
    /\ OrgUnchanged /\ UNCHANGED <<role, assigned, meant, overlapped>>

\* What a step of Organizations leaves alone here; it may be taken in a slot
\* no admin uses.
Beside(r) ==
    /\ AdminAt(r, "idle")
    /\ belonged' = belonged \cup {u \in Users : member'[u] # None}
    /\ UNCHANGED roleVars

RolesNext ==
    \/ \E c \in Custom, scope \in Scope, permissions \in SUBSET Permissions :
          CreateCustomRole(c, scope, permissions)
    \/ \E u \in Users, c \in Custom : RemoveRoleFromUser(u, c)
    \/ \E r \in Requests :
          \/ \E c \in Custom :
                \/ RenameCustomRole(r, c) \/ DeleteCustomRole(r, c)
                \/ \E permissions \in SUBSET Permissions : UpdateCustomRole(r, c, permissions)
                \/ \E u \in Users, scope \in Scope : AssignRoleToUser(r, u, c, scope)
          \/ DeletePermissions(r) \/ WriteRole(r) \/ RemoveCustomRole(r)
          \/ AssignToUser(r) \/ AdminFails(r)
    \/ \E r \in Requests, u \in Users : Create(r, u) /\ Beside(r)
    \/ \E r \in Requests, u, target \in Users, as \in Grantable : Invite(r, u, target, as) /\ Beside(r)
    \/ \E r \in Requests, u \in Users, i \in Invitations : Accept(r, u, i) /\ Beside(r)
    \/ \E r \in Requests, u, target \in Users, as \in Grantable : ChangeRole(r, u, target, as) /\ Beside(r)
    \/ \E r \in Requests, u, target \in Users : Remove(r, u, target) /\ Beside(r)
    \/ \E r \in Requests : CreateWithOwner(r) /\ Beside(r)
    \/ \E r \in Requests : CreateInvitation(r) /\ Beside(r)
    \/ \E r \in Requests : AcceptAndAddMember(r) /\ Beside(r)
    \/ \E r \in Requests : ReadChangeTarget(r) /\ Beside(r)
    \/ \E r \in Requests : UpdateMemberRole(r) /\ Beside(r)
    \/ \E r \in Requests : ReadRemoveTarget(r) /\ Beside(r)
    \/ \E r \in Requests : RemoveMember(r) /\ Beside(r)
    \/ \E r \in Requests : Fail(r) /\ Beside(r)
    \/ \E i \in Invitations : InvitationExpires(i) /\ UNCHANGED <<roleVars, belonged>>

RolesSpec == RolesInit /\ [][RolesNext]_allVars

-----------------------------------------------------------------------------
\* Roles, assignments and the admins' requests are well formed.
RolesTypeOK ==
    /\ TypeOK
    /\ role \in [Custom -> {None, Deleted} \cup CustomRole]
    /\ assigned \in [Users -> [Custom -> Scope \cup {None}]]
    /\ admin \in [Requests -> AdminLocal]
    /\ meant \in [Custom -> SUBSET Permissions]
    /\ overlapped \subseteq Custom
    /\ belonged \subseteq Users
    /\ \A r \in Requests : At(r, "idle") \/ AdminAt(r, "idle")

\* Whoever holds a role holds one that exists, though it may be deleted while
\* it is being assigned; a role of the organization is held within it; and
\* what is held within the organization is held by someone who has been a
\* member, if only before a removal that overlapped the assignment
\* (assign-role-to-user 29-53, prisma-custom-role 111-120).
AssignmentsLegal ==
    \A u \in Users, c \in Custom : assigned[u][c] # None =>
        /\ Exists(c)
        /\ role[c].scope = "org" => assigned[u][c] = "org"
        /\ assigned[u][c] = "org" => u \in belonged

\* A role has the permissions the last update that named any asked for: none
\* of the earlier are left, a new name leaves them as they are, and an update
\* that fails half-way changes nothing, unless updates of the role overlapped
\* (update-custom-role 24-46, prisma-custom-role 68-89).
PermissionsMeant ==
    \A c \in Custom \ overlapped : Exists(c) => role[c].permissions = meant[c]
=============================================================================
