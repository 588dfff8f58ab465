SPECIFICATION ViewerFairSpec
CONSTANTS
    Connection = {c1}
    Stream = {s1}
    Caller = {t1, t2}
    MaxStreams = 1
    MaxGenerations = 1
    None = none
INVARIANTS
    StreamingIsNotOver
PROPERTIES
    LeftStreamsEnd
    StoppedStreamsEnd
    CallsReturn
