SPECIFICATION Spec
CONSTANTS
    p1 = p1
    k1 = k1
    s1 = s1
    w1 = w1
    w2 = w2
    NoJob = NoJob
    Channel <- MCChannel
    Priority <- MCPriority
    Jobs = {p1, k1}
    Published = {p1}
    Reachable = {p1}
    EventRows = {}
    Workers = {w1}
    BatchLimit = 10
    PushMaxRetries = 1
    DefaultMaxRetries = 3
    MaxClaims = 5
    MaxFaults = 1
    FaultKinds = {"crash"}
INVARIANTS
    FallbackNotLost
\* A drained outbox rests.
CHECK_DEADLOCK FALSE
