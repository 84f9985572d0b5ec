\* Colliding keys in a table that grows from 4 to 8 buckets; memory may run out.
\* The table keeps its own invariants and implements the map of proxies.
SPECIFICATION Spec
CONSTANTS
    NULL = NULL
    DELETED = DELETED
    Keys = {1, 4, 8, 20}
    Proxies = {p1, p2, p3, p4}
    hash_func <- LowBitsHash
    BUCKETS_INITIAL = 4
    BUCKETS_MAX = 8
    AllocMayFail = TRUE
    MaxUse = 2
INVARIANTS
    TypeOK
    Findable
    NoDuplicateKey
    CountExact
    EntriesReferenced
    RehashPlaces
PROPERTIES
    MapSpec
    CallProgress
SYMMETRY ProxySymmetry
