\* An update that overlaps a deactivation.
SPECIFICATION Spec
CONSTANTS
    Keys = {k1, k2}
    Passwords = {p1, p2}
    Requests = {r1, r2}
    None = None
SYMMETRY MCSymmetry
INVARIANT
    DeactivatedStays
CHECK_DEADLOCK FALSE
