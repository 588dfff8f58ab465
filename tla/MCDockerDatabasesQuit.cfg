SPECIFICATION Spec
CONSTANTS
    Connection = {u1}
    Container = {d1, d2}
    Port = {p1, p2}
    Caller = {t1, t2}
    Service = service
    None = none
PROPERTY QuitStopsCreated
