SPECIFICATION Spec
CONSTANTS
    Secret = {s1, s2}
    Mail = {m1}
    Recovery = {x1, x2}
    RecoveryCount = 1
    Window <- OneCode
    Challenge = {c1}
    MaxAttempts = 2
    Request = {r1, r2}
    Operation = {"setup", "verifySetup", "login", "completeLogin", "sendCode", "expire", "disable", "regenerate", "abort"}
    RepositoryMapsMfa = TRUE
    None = None
SYMMETRY Interchangeable
CHECK_DEADLOCK FALSE
INVARIANTS
    TypeOK
    GuessesBounded
    VerifiedSecretWasProven
PROPERTIES
    ImplementsOneTime
