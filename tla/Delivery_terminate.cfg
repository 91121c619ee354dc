SPECIFICATION Spec
CONSTANTS
    Producers = {p1}
    Sinks = {s1}
    Capacity = 1
    MaxPush = 1
    MaxCopies = 1
    SinksMayFail = FALSE
    SinkMayStop = TRUE
    DtorWaits = FALSE
INVARIANT NeverTerminates
