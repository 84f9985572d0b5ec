\* Any values: a waiter on the new value takes the token.
SPECIFICATION Spec
CONSTANTS
    NULL = NULL
    Threads = {t1, t2}
    Objects = {o1}
    Proxies = {p1}
    Values = {0, 1}
    Expects = {0, 1}
    Stores = {0, 1}
    INT_MAX = 3
    LONG_MAX = 15
    Deadlines = {"none"}
    StoreWakes = {7}
    BareWakes = {}
    CasWakes = {}
    AllocMayFail = FALSE
    WaitMayFail = FALSE
    WakeMayFail = FALSE
    MaxWaits = 2
    MaxNotifies = 2
INVARIANT NoLostWake
