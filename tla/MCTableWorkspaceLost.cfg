SPECIFICATION Spec
CONSTANTS
    Tab = {t1, t2}
    View = {p1, p2}
    Row = {r1}
    Value = {v1, v2}
    MaxRequests = 4
    None = none
SYMMETRY WorkspaceSymmetry
PROPERTIES
    StagedIsKept
CHECK_DEADLOCK FALSE
