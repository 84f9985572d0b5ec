\* Every backend, on both routes, with calls of every kind; a store is followed by
\* a notify of one or of all.  Allocation, park and wake may fail on the table's
\* route and, in half of the behaviours, the primitives of the native one.
SPECIFICATION AllSpec
CONSTANTS
    NULL = NULL
    Threads = {t1, t2, t3}
    Objects = {o1}
    Values = {0, 1}
    Expects = {0}
    Stores = {1}
    Proxies = {p1}
    INT_MAX = 3
    Deadlines = {"none", "ahead"}
    StoreWakes = {1, 7}
    BareWakes = {1}
    CasWakes = {0, 2}
    AllocMayFail = TRUE
    WaitMayFail = TRUE
    WakeMayFail = TRUE
    MaxWaits = 2
    MaxNotifies = 2
    GenModulus = 4
    Backends = {"linux", "macos", "freebsd", "freebsd32", "win64", "win32"}
    Widths = {4, 8}
    LongModulus = 2
INVARIANTS
    WaitContract
    VoidWaitSeesChange
    NotifyContract
PROPERTY KeepsPromise
SYMMETRY ThreadSymmetry
