SPECIFICATION Spec
CONSTANTS
    Replicas = {r1, r2}
    Loads = {l1, l2, l3}
    None = None
    Ttl = 2
    MaxLoad = 1
    MaxTime = 3
    MaxEdits = 2
    MaxFailures = 1
    MaxRestarts = 1
SYMMETRY Symmetry
INVARIANTS
    TypeOK
    EditShownAtOnce
    StaleOnlyForTtl
    LoadsBounded
PROPERTIES
    EditsSurvive
\* The clock and the edits are used up in the end.
CHECK_DEADLOCK FALSE
