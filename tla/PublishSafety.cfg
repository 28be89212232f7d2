SPECIFICATION Spec
CONSTANTS
    u1 = u1
    u2 = u2
    stranger = stranger
    t1 = t1
    a = a
    b = b
    c1 = c1
    c2 = c2
    Nobody = Nobody
    NoKey = NoKey
    Users <- MCUsers
    Profiles <- MCProfiles
    Start <- MCStart
    Dtos <- MCDtos
    Keys <- MCKeys
    Calls = {c1, c2}
    MaxFaults = 1
    MaxChanges = 1
SYMMETRY CallSymmetry
INVARIANTS
    TypeOK
    KeyedOnce
    SwallowedRetryHasCause
    RowsHaveBell
    ConsentRespected
    TransactionalReachesPhone
    TransactionIsAtomic
    OnlyOwnerTouches
\* The calls are used up in the end.
CHECK_DEADLOCK FALSE
