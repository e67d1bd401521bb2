SPECIFICATION Spec
CONSTANTS
    User = {u1}
    Password = {p1}
    Family = {f1}
    Token = {t1}
    Request = {r1, r2}
    Operation = {"login", "social", "enableMfa", "disableMfa"}
    RepositoryMapsMfa = FALSE
    None = None
SYMMETRY Interchangeable
INVARIANT
    NoSessionBeforeSecondFactor
