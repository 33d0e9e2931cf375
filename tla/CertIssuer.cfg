SPECIFICATION FairSpec
CONSTANTS
    c1 = c1
    c2 = c2
    d1 = d1
    d2 = d2
    r1 = r1
    r2 = r2
    Caller = {c1, c2}
    Domain = {d1, d2}
    Revision = {r1}
    SignConcurrency = 1
    CacheMaxEntries = 1
    MaxRotations = 2
    MaxFlights = 2
    Again = FALSE
CHECK_DEADLOCK FALSE
INVARIANTS LiveCallersAreServed CacheIsCurrent
PROPERTY CallsReturn
