SPECIFICATION ReplaySpec
CONSTANTS
    ReplayTtl = 90
    Latency = 2
    Counter <- TwoPeriods
    Slot = {r1, r2}
    MaxTime = 160
SYMMETRY Interchangeable
CHECK_DEADLOCK FALSE
INVARIANTS
    CodeAcceptedOnce
