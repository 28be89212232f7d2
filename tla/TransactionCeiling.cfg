SPECIFICATION Spec
CONSTANTS
    Ids = {1}
    Statuses = {"CREATED"}
    Limits = {1}
    Quotes <- MCDollarQuotes
    LimitUsd = 5000
    MaxTime = 0
INVARIANTS
    CeilingHolds
\* A listing that has ended rests when the rows do.
CHECK_DEADLOCK FALSE
