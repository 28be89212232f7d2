SPECIFICATION Spec
CONSTANTS
    p1 = p1
    k1 = k1
    s1 = s1
    w1 = w1
    w2 = w2
    NoJob = NoJob
    Channel <- MCChannel
    Priority <- MCPriority
    Jobs = {p1, s1, k1}
    Published = {p1, s1}
    Reachable = {p1}
    EventRows = {k1}
    Workers = {w1, w2}
    BatchLimit = 1
    PushMaxRetries = 1
    DefaultMaxRetries = 1
    MaxClaims = 4
    MaxFaults = 1
    FaultKinds = {"hang", "crash", "db", "vendor"}
SYMMETRY WorkerSymmetry
INVARIANTS
    TypeOK
    WorkingTaskHoldsClaim
    RetryBudget
    AttemptsNeedFaults
    BatchBound
    MessagesInBudget
PROPERTIES
    KeepsContract
\* A drained outbox rests.
CHECK_DEADLOCK FALSE
