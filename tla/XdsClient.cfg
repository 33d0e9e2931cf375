SPECIFICATION Spec
CONSTANTS
    r1 = r1
    r2 = r2
    instance = instance
    address = address
    Resource = {r1, r2}
    Alias = {instance, address}
    AliasSets <- MCAliasSets
    MaxPublications = 2
    MaxDown = 1
    MaxUp = 1
    Caller = {c1, c2}
    Demands <- MCDemands
    c1 = c1
    c2 = c2
    Initially <- MCInitially
    MaxEntries = 1
    IdleTTL = TRUE
    Malformed = {r2}
INVARIANTS RetentionIsExact WaitersAreWoken WaitersAreCarried GraceIsBounded RestingCacheAgrees
CHECK_DEADLOCK FALSE
