SPECIFICATION FairSpec
CONSTANTS
    User = {u1}
    Password = {p1}
    Family = {f1}
    Token = {t1, t2, t3}
    Request = {r1, r2}
    Operation = {"login", "refresh", "validate", "logout", "revokeSession"}
    RepositoryMapsMfa = TRUE
    None = None
INVARIANTS
    IndInv
    SingleLiveToken
    RevokedSessionRefused
PROPERTIES
    ReuseLeadsToRevocation
    ImplementsTokenFamily
