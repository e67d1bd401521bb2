\* Two addresses, a password tried for one; two identities; two requests.
SPECIFICATION Spec
CONSTANTS
    Address = {a1, a2}
    PasswordAddress = {a1}
    Password = {p1, p2}
    Identity = {s1, s2}
    ProviderOf <- MCProviderOf
    MaxAttempts = 2
    Request = {r1, r2}
    None = None
SYMMETRY MCSymmetry
INVARIANTS
    TypeOK
    GuessesBounded
    SessionMatchesCredential
PROPERTIES
    AuthMethodKept
CHECK_DEADLOCK FALSE
