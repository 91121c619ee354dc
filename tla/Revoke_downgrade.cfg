SPECIFICATION Spec
CONSTANTS
    MaxRequests = 3
    Calls <- SomeCalls
    Urls <- SomeUrls
    PostTimes = {1, 3}
    RawIntervals <- SomeIntervals
    RawLifetimes <- SomeLifetimes
    OwnIntervals <- OwnChoices
    Delays = {0, 5}
    DefaultInterval = 2
    IntervalCap = 4
    DefaultLifetime = 6
    LifetimeCap = 12
    SlowDown = 2
    PollCap = 5
INVARIANT NeverWeakerThanDiscovery
