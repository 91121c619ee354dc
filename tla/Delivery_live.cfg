SPECIFICATION FairSpec
CONSTANTS
    Producers = {p1, p2}
    Sinks = {s1}
    Capacity = 1
    MaxPush = 3
    MaxCopies = 1
    SinksMayFail = TRUE
    SinkMayStop = TRUE
    DtorWaits = TRUE
PROPERTIES
    StopReturns
    ImplementsStream
