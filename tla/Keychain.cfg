SPECIFICATION FairSpec
CONSTANTS
    Callers = {c1, c2}
    Requests <- SomeRequests
    NoOne = NoOne
    NoEntry = NoEntry
    Timeout = 2
    MaxBlob = 2
    MaxUser = 3
    Lower <- Cases
    MaxCalls = 3
INVARIANTS EntryPerName ReportIsTrue WatchdogOutlived
           TwoDeadlinesAtMost
PROPERTY CallEnds
