SPECIFICATION Spec
CONSTANTS
    Tab = {t1, t2}
    View = {p1, p2}
    Row = {r1, r2}
    Value = {v1}
    MaxRequests = 3
    None = none
SYMMETRY WorkspaceSymmetry
INVARIANTS
    LoadingIsUnderWay
PROPERTIES
    ShownStaysAsked
    CommittedIsWritten
    ClosedTabIsNotWritten
CHECK_DEADLOCK FALSE
