\* Timeouts, tokens and every failure.
SPECIFICATION Spec
CONSTANTS
    NULL = NULL
    Threads = {t1, t2, t3}
    Objects = {o1}
    Proxies = {p1}
    Values = {0, 1}
    Expects = {0, 1}
    Stores = {0, 1}
    INT_MAX = 3
    LONG_MAX = 15
    Deadlines = {"none", "ahead", "past"}
    StoreWakes = {7}
    BareWakes = {1}
    CasWakes = {0, 2}
    AllocMayFail = TRUE
    WaitMayFail = TRUE
    WakeMayFail = TRUE
    MaxWaits = 2
    MaxNotifies = 2
INVARIANTS
    TypeOK
    ProxyAccounting
    NoDanglingProxy
    WaitContract
    WaitingExact
SYMMETRY Symmetry
