\* A table at its maximum size whose slots have all been used once.
SPECIFICATION Spec
CONSTANTS
    NULL = NULL
    DELETED = DELETED
    Keys = {0, 1, 2, 3, 4}
    Proxies = {p1, p2, p3}
    hash_func <- LowBitsHash
    BUCKETS_INITIAL = 4
    BUCKETS_MAX = 4
    AllocMayFail = FALSE
    MaxUse = 1
INVARIANT TombstonesReused
