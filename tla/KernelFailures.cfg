\* Two objects, wake-one and wake-all, every primitive may fail.
SPECIFICATION Spec
CONSTANTS
    NULL = NULL
    Threads = {t1, t2, t3}
    Objects = {o1, o2}
    Values = {0, 1}
    Expects = {0}
    Stores = {1}
    Proxies = {p1, p2}
    INT_MAX = 3
    Deadlines = {"none"}
    StoreWakes = {7}
    BareWakes = {1}
    AllocMayFail = TRUE
    WaitMayFail = TRUE
    WakeMayFail = TRUE
    MaxWaits = 3
    MaxNotifies = 2
    GenModulus = 2
INVARIANTS
    TypeOK
    ProxyAccounting
    NoDanglingProxy
    WaitContract
    NotifierKeepsProxy
SYMMETRY Symmetry
