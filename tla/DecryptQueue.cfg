SPECIFICATION FairSpec
CONSTANTS
    Salts = {a, b}
    Fast = Fast
    MaxPending = 3
    MaxCached = 1
    MaxArrivals = 5
PROPERTIES ServedInOrder Answered
CHECK_DEADLOCK FALSE
