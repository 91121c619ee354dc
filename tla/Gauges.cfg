SPECIFICATION FairSpec
CONSTANTS
    Owners = {o1, o2}
    Names = {n1, n2}
    Scrapers = {c1, c2}
    MaxEntries = 3
    MaxSnapshots = 2
INVARIANTS
    NoDanglingReader
    SnapshotOfOneMoment
    OneRowPerGauge
PROPERTY SnapshotEnds
