\* Two overlapping requests on an account with two passwords and three
\* avatars.
SPECIFICATION Spec
CONSTANTS
    Keys = {k1, k2, k3}
    Passwords = {p1, p2}
    Requests = {r1, r2}
    None = None
SYMMETRY MCSymmetry
INVARIANTS
    TypeOK
    AvatarStored
    ChangesKept
CHECK_DEADLOCK FALSE
