SPECIFICATION Spec
CONSTANTS
    Admins = {a1, a2, a3}
    Faqs = {f1}
    Fields = {answer, isActive}
    Values = {0, 1}
    Categories = {g1, g2}
    Names = {"Account"}
    None = None
    MaxCalls = 4
    MaxFaults = 1
SYMMETRY Symmetry
INVARIANTS
    TypeOK
    AnsweredEditHolds
    AuditTellsTruth
    AuditIsComplete
    UniqueNames
\* The requests are used up in the end.
CHECK_DEADLOCK FALSE
