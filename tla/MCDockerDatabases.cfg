SPECIFICATION Spec
CONSTANTS
    Connection = {u1, u2}
    Container = {d1, d2}
    Port = {p1, p2}
    Caller = {t1, t2}
    Service = service
    None = none
SYMMETRY DockerSymmetry
INVARIANTS
    SavedDataIsKept
    NothingLeftBehind
    LinkIsItsOwn
    OpenedAtItsPort
PROPERTY ForeignIsLeftAlone
