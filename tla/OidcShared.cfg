SPECIFICATION Spec
CONSTANTS
    t1 = t1
    t2 = t2
    Threads = {t1, t2}
    Transports = {x1, x2}
    Bundles = {b1}
    MaxDepth <- Depth
    Consumers = {c1, c2}
    Keys = {k1}
    Lives <- SomeLives
    Answers <- AllAnswers
    Margins = {0, 2}
    AYear = 4
    MaxLatency = 1
    Start = 5
    MaxTime = 9
    MaxDrops = 2
SYMMETRY Symmetric
INVARIANTS
    InnermostScopeCarries
    AliveWhileNeeded
    ServedWithMargin
    OnlyLateAnswersPassDrop
