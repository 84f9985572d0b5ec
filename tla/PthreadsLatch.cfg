\* One-way flag: waits on 0, timed and untimed, and stores of 1, the second of
\* which changes nothing, each with a notify-all; fair.
SPECIFICATION FairSpec
CONSTANTS
    NULL = NULL
    Threads = {t1, t2, t3}
    Objects = {o1}
    Proxies = {p1}
    Values = {0, 1}
    Expects = {0}
    Stores = {1}
    INT_MAX = 3
    LONG_MAX = 15
    Deadlines = {"none", "ahead"}
    StoreWakes = {7}
    BareWakes = {}
    CasWakes = {}
    AllocMayFail = FALSE
    WaitMayFail = FALSE
    WakeMayFail = FALSE
    MaxWaits = 3
    MaxNotifies = 2
INVARIANT NoLostWake
PROPERTIES
    KeepsPromise
    WaitEnds
    TimedWaitEnds
