SPECIFICATION Spec
CONSTANTS
    Producers = {p1, p2}
    Sinks = {s1, s2}
    Capacity = 2
    MaxPush = 3
    MaxCopies = 1
    SinksMayFail = TRUE
    SinkMayStop = TRUE
    DtorWaits = TRUE
SYMMETRY ProducerAndSinkSymmetry
INVARIANTS
    TypeOK
    Fifo
    SinkOrder
    NoneMissed
    OnceMoreAfterRemove
    FlushAfterLast
    JoinedMeansDelivered
    DropsCounted
    NeverTerminates
PROPERTY ImplementsStreamSafety
