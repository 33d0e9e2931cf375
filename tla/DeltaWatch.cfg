SPECIFICATION Spec
CONSTANTS
    Name = {n1, n2}
    Nonce = {1, 2, 3}
    MaxVersion = 1
    MaxUp <- Requests
SYMMETRY Symmetry
INVARIANTS DifferencesAreRemembered RepliesSettleDeliveries
PROPERTY RecoveryResends
CHECK_DEADLOCK FALSE
