SPECIFICATION Spec
CONSTANTS
    select = select
    update = update
    Tab = {t1}
    Statement <- MCStatement
    Wrappable <- MCWrappable
    Script <- MCScript
    Filter = {f1}
    Sort = {s1}
    HistoryLimit = 1
    MaxRequests = 3
    None = none
INVARIANTS
    ResultIsWhatWasAsked
    ExecutingIsUnderWay
    HistoryKeepsNewest
PROPERTY SupersededRunStops
CHECK_DEADLOCK FALSE
