SPECIFICATION Spec
CONSTANTS
    acl = acl
    e1 = e1
    e2 = e2
    Extensions = {acl, e1, e2}
    Acl = acl
    Versions = {1, 2}
    HooksVersions = {1, 2}
    Sessions = {s1, s2}
    Chars <- Characters
    LongestText = 9
    Decimal <- OneDigit
    Tuples <- CounterTuples
    MaxAdds = 2
    Providers = {acl, e1, e2}
    MaxProviders = 3
    MaxAsks = 2
SYMMETRY Symmetric
INVARIANTS
    OneObjectOneLayout
    ReachIsStable
    ActsForItsSession
    CountPerTuple
    FirstAnswerWins
