\* Two overlapping requests, two codes, two clients.
SPECIFICATION Spec
CONSTANTS
    c1 = c1
    c2 = c2
    openid = openid
    email = email
    Clients <- MCClients
    Scopes <- MCScopes
    ClientScopes <- MCClientScopes
    OpenId = openid
    Codes = {k1, k2}
    Requests = {r1, r2}
    None = None
SYMMETRY MCSymmetry
INVARIANTS
    TypeOK
    DisclosedOnlyAgreed
    GrantKept
PROPERTIES
    ImplementsOneTime
CHECK_DEADLOCK FALSE
