\* long as wide as int, a limit above LONG_MAX.
SPECIFICATION Spec
CONSTANTS
    NULL = NULL
    Threads = {t1, t2, t3}
    Objects = {o1}
    Proxies = {p1}
    Values = {0, 1}
    Expects = {0}
    Stores = {1}
    INT_MAX = 3
    LONG_MAX = 3
    Deadlines = {"none"}
    StoreWakes = {}
    BareWakes = {}
    CasWakes = {6}
    AllocMayFail = FALSE
    WaitMayFail = FALSE
    WakeMayFail = FALSE
    MaxWaits = 2
    MaxNotifies = 2
INVARIANT NoLostWake
