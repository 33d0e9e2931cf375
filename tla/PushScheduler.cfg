SPECIFICATION FairSpec
CONSTANTS
    Conn = {c1, c2}
    Key = {k1}
    Concurrency = 1
    None = None
INVARIANTS SlotAccounting MergeIsCurrent
PROPERTIES ImplementsPushQueue EveryUpdateIsPushed
CHECK_DEADLOCK FALSE
