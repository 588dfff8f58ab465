SPECIFICATION Spec
CONSTANTS
    Connection = {c1}
    Stream = {s1, s2}
    Caller = {t1, t2}
    MaxStreams = 1
    None = none
SYMMETRY StreamsSymmetry
INVARIANTS
    TasksBounded
    DisconnectStopsAll
    DeletedIsSilent
    ExitStopsAll
PROPERTY StopsAreNamed
