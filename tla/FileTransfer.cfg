SPECIFICATION FairSpec
CONSTANTS
    Tids = {f}
    Chunks = 3
    Batch = 2
    RateBurst = 3
    MaxPendingTransfers = 1
    Ttl = 0
    Sweep = 1
INVARIANTS AckedAreSettled SavedOnce
PROPERTY Acknowledged
