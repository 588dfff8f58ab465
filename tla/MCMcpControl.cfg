SPECIFICATION FairSpec
CONSTANTS
    Caller = {t1, t2}
    Server = {s1, s2}
    Token = {k1, k2, k3}
    None = none
INVARIANTS
    OneServer
    RevokedTokenRefused
PROPERTIES
    CallsReturn
    ImplementsServer
