\* Every store is followed by a notify-all; no failures.
SPECIFICATION Spec
CONSTANTS
    NULL = NULL
    Threads = {t1, t2, t3}
    Objects = {o1}
    Values = {0, 1}
    Expects = {0, 1}
    Stores = {0, 1}
    Proxies = {p1}
    INT_MAX = 3
    Deadlines = {"none"}
    StoreWakes = {7}
    BareWakes = {1}
    AllocMayFail = FALSE
    WaitMayFail = FALSE
    WakeMayFail = FALSE
    MaxWaits = 3
    MaxNotifies = 3
    GenModulus = 4
INVARIANTS
    NoLostWake
PROPERTIES
    GenerationNeverReturns
    KeepsPromise
SYMMETRY ThreadSymmetry
