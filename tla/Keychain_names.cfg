SPECIFICATION Spec
CONSTANTS
    Callers = {c1, c2}
    Requests <- OneForThePlatform
    NoOne = NoOne
    NoEntry = NoEntry
    Timeout = 2
    MaxBlob = 2
    MaxUser = 3
    Lower <- Cases
    MaxCalls = 3
INVARIANT EntryPerName
