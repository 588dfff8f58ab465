SPECIFICATION FairSpec
CONSTANTS
    Task = {t1, t2}
    Reaper = reaper
    NoTask = noTask
    Config = {sql, d1}
    ReplayConfig = {sql}
    NoRow = noRow
    MaxDrivers = 2
INVARIANTS
    TypeOK
    ClosedOnce
    DeletedStaysGone
    DisconnectClears
    ReaperSparesInUse
    RunsBounded
PROPERTIES
    EnsureKeepsPooled
    CallsReturn
    LeftAloneDrains
    ImplementsSlot
