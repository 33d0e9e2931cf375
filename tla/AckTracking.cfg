SPECIFICATION Spec
CONSTANTS
    Name = {n1, n2}
    Nonce = {1, 2, 3, 4}
INVARIANTS RecoveryHasNames UnacknowledgedIsRecent
PROPERTY ImplementsAckLedger
CHECK_DEADLOCK FALSE
