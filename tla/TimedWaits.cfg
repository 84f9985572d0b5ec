\* Every backend's deadline arithmetic; calls start at several points of a second.
\* Each behaviour is one call, after which nothing happens.
SPECIFICATION Spec
CONSTANTS
    NULL = NULL
    FOREVER = FOREVER
    Backends = {"linux", "freebsd", "macos", "windows", "pthreads", "pthreads_realtime"}
    Durations <- SampleDurations
    StartTimes = {8, 11, 14, 15}
    Skews <- ClockSteps
    NS = 8
    UnitNs <- UnitsOf8
    Freq = 3
    TIME_MAX = 9
    UINT32_MAX = 7
    U64 = 4096
    MaxLag = 2
INVARIANTS
    TypeOK
    NoEarlyTimeout
    NoOversleep
    NoSpin
    NeverRefused
PROPERTY TimedCallEnds
CHECK_DEADLOCK FALSE
