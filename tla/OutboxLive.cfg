SPECIFICATION FairSpec
CONSTANTS
    p1 = p1
    k1 = k1
    s1 = s1
    w1 = w1
    w2 = w2
    NoJob = NoJob
    Channel <- MCChannel
    Priority <- MCPriority
    Jobs = {p1, s1}
    Published = {p1, s1}
    Reachable = {}
    EventRows = {}
    Workers = {w1}
    BatchLimit = 2
    PushMaxRetries = 1
    DefaultMaxRetries = 1
    MaxClaims = 3
    MaxFaults = 1
    FaultKinds = {"hang", "crash", "db"}
PROPERTIES
    EveryRowCloses
    WorkerNeverFreezes
\* A drained outbox rests.
CHECK_DEADLOCK FALSE
