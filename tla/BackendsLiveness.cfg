\* Both routes on Linux: 4 bytes by the futex, 8 through the hash table.
SPECIFICATION AllFairSpec
CONSTANTS
    NULL = NULL
    Threads = {t1, t2, t3}
    Objects = {o1}
    Values = {0, 1}
    Expects = {0}
    Stores = {0, 1}
    Proxies = {p1}
    INT_MAX = 3
    Deadlines = {"none", "ahead"}
    StoreWakes = {7}
    BareWakes = {}
    CasWakes = {}
    AllocMayFail = FALSE
    WaitMayFail = FALSE
    WakeMayFail = FALSE
    MaxWaits = 2
    MaxNotifies = 2
    GenModulus = 4
    Backends = {"linux"}
    Widths = {4, 8}
    LongModulus = 2
PROPERTIES
    AllWaitsEnd
    TimedWaitEnds
    AllNotifiesEnd
