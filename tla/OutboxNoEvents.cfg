SPECIFICATION Spec
CONSTANTS
    p1 = p1
    k1 = k1
    s1 = s1
    w1 = w1
    w2 = w2
    NoJob = NoJob
    Channel <- MCChannel
    Priority <- MCPriority
    Jobs = {s1}
    Published = {s1}
    Reachable = {}
    EventRows = {}
    Workers = {w1}
    BatchLimit = 10
    PushMaxRetries = 1
    DefaultMaxRetries = 3
    MaxClaims = 5
    MaxFaults = 0
    FaultKinds = {}
INVARIANTS
    DuplicatesNeedFaults
\* A drained outbox rests.
CHECK_DEADLOCK FALSE
