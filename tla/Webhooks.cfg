\* Two deliveries to two endpoints; two workers whose runs may overlap and
\* take one row each, one of which is interrupted; a delivery is given up
\* after the second retry.
SPECIFICATION Spec
CONSTANTS
    Endpoints = {e1, e2}
    Deliveries = {d1, d2}
    Workers = {w1, w2}
    MaxRetries = 3
    BatchSize = 1
    MaxFailures = 1
    None = None
INVARIANTS
    TypeOK
    PostsBounded
    GivenUpInFull
PROPERTIES
    OutcomeStands
CHECK_DEADLOCK FALSE
