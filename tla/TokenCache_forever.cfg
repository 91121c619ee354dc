SPECIFICATION CacheSpec
CONSTANTS
    Consumers = {c1}
    Keys = {k1}
    Lives <- ShortLives
    Answers <- AllAnswers
    Margins = {0, 2}
    AYear = 4
    MaxLatency = 1
    Start = 5
    MaxTime = 9
    MaxDrops = 1
INVARIANT ServedAlive
