SPECIFICATION Spec
CONSTANTS
    users = users
    orders = orders
    system = system
    Collection <- MCOne
    System <- MCSystem
    MaxRequests = 3
    None = none
INVARIANTS
    ReplacesAreComplete
    LoadingIsUnderWay
PROPERTIES
    ResultStaysOfNamespace
    RestoredIsLeftAlone
CHECK_DEADLOCK FALSE
