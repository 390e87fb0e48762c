CONSTANTS
    Unset = Unset
    Malformed = Malformed
    DefaultInterval = 2
    DefaultOffline = 6
    w1 = w1
    w2 = w2
    Workers = {w1, w2}
    MaxDelay = 1
    Environments <- MCEnvironments
SPECIFICATION Spec
INVARIANTS
    TypeOK
    OfflineHasReason
    ListingComplete
