SPECIFICATION Spec
CONSTANTS
    User = {u1}
    Password = {p1, p2}
    Family = {f1}
    Token = {t1, t2}
    Request = {r1, r2}
    Operation = {"login", "social", "refresh", "changePassword", "resetPassword", "enableMfa", "disableMfa", "deactivate", "expire", "abort"}
    RepositoryMapsMfa = TRUE
    None = None
SYMMETRY Interchangeable
INVARIANTS
    RevokedSessionRefused
    OneLateToken
    NoSessionBeforeSecondFactor
