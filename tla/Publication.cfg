CONSTANTS
    k1 = k1
    k2 = k2
    Key = {k1, k2}
    Content = {1, 2}
    Invalid = {2}
    MayRefer <- Pair
    Absent = Absent
    Debounce = TRUE
    MaxChanges = 2
SPECIFICATION FairSpec
CHECK_DEADLOCK FALSE
INVARIANT DeltasAddUp
PROPERTY EventuallyPublished
