SPECIFICATION Spec
CONSTANTS
    u1 = u1
    u2 = u2
    c1 = c1
    c2 = c2
    Nobody = Nobody
    StartRows <- NewRowOnly
    Updaters = {u1}
    Cancellers = {c1}
    MaxAttempts = 3
    GateCalled = FALSE
    MaxCalls = 5
    MaxOthers = 1
INVARIANTS
    PayoutIsCleared
CHECK_DEADLOCK FALSE
