SPECIFICATION Spec
CONSTANTS
    u1 = u1
    u2 = u2
    c1 = c1
    c2 = c2
    Nobody = Nobody
    StartRows <- MCStartRows
    Updaters = {u1, u2}
    Cancellers = {c1, c2}
    MaxAttempts = 3
    GateCalled = TRUE
    MaxCalls = 4
    MaxOthers = 1
SYMMETRY CallerSymmetry
INVARIANTS
    TypeOK
    CancelAnswerHolds
    CancelledOnce
    RefundShownOnlyIfPaid
    PayoutIsCleared
PROPERTIES
    ConflictNeedsChanges
    KeepsLifecycle
\* A final row rests when the calls are used up.
CHECK_DEADLOCK FALSE
