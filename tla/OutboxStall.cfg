SPECIFICATION Spec
CONSTANTS
    p1 = p1
    k1 = k1
    s1 = s1
    w1 = w1
    w2 = w2
    NoJob = NoJob
    Channel <- MCChannel
    Priority <- MCPriority
    Jobs = {p1, k1}
    Published = {p1}
    Reachable = {p1}
    EventRows = {k1}
    Workers = {w1, w2}
    BatchLimit = 1
    PushMaxRetries = 1
    DefaultMaxRetries = 1
    MaxClaims = 5
    MaxFaults = 2
    FaultKinds = {"hang", "crash", "db", "vendor", "stall", "lostack"}
SYMMETRY WorkerSymmetry
INVARIANTS
    DuplicatesNeedFaults
PROPERTIES
    LateRecordIsFenced
\* A drained outbox rests.
CHECK_DEADLOCK FALSE
