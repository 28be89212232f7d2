SPECIFICATION Spec
CONSTANTS
    Ids = {1, 2, 3}
    Statuses = {"CREATED", "COMPLETED"}
    Limits = {1, 2}
    Quotes <- MCQuotes
    LimitUsd = 1
    MaxTime = 2
INVARIANTS
    TypeOK
    ListDescends
    NothingSkipped
    LimitToHalfACent
\* A listing that has ended rests when the rows do.
CHECK_DEADLOCK FALSE
