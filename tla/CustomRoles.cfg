SPECIFICATION RolesSpec
CONSTANTS
    Owner = Owner
    Admin = Admin
    Member = Member
    Users = {u1, u2}
    Roles <- MCRoles
    Invitations = {i1}
    Requests = {r1, r2}
    Custom = {c1}
    Permissions = {q1, q2}
    Deleted = Deleted
    None = None
SYMMETRY MCSymmetry
INVARIANTS
    RolesTypeOK
    OwnerStays
    AssignmentsLegal
    PermissionsMeant
PROPERTIES
    JoinsByInvitation
    RoleChangedByOwner
CHECK_DEADLOCK FALSE
