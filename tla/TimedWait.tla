------------------------------- MODULE TimedWait -------------------------------
(***************************************************************************)
(* The time of a timed wait: how atomic_wait_generic and the native loop   *)
(* of atomic_wait_expected_32 turn a duration into a deadline, check it on *)
(* every turn of the loop, and hand what remains to the backend, which     *)
(* converts it to what its kernel takes.  One waiter and a clock that      *)
(* ticks between any two of its steps; who wakes it and how is the subject *)
(* of the other modules.                                                   *)
(***************************************************************************)
EXTENDS Integers

CONSTANTS
    Backends,
    Durations,      \* durations callers pass, or NULL
    NULL,
    FOREVER,        \* a kernel wait without a timeout
    StartTimes,     \* clock at the call, in nanoseconds
    Skews,          \* steps of the realtime clock
    NS,             \* nanoseconds in a second
    UnitNs,         \* nanoseconds in the unit of the macOS and Windows kernels
    Freq,           \* ticks per second of the Windows performance counter
    TIME_MAX,       \* largest time_t
    UINT32_MAX,
    U64,            \* modulus of uint64_t
    MaxLag          \* bound: ticks between two steps of the waiter

ASSUME TimedWaitAssumption ==
    /\ NS \in Nat \ {0}
    /\ Freq \in Nat \ {0}
    /\ UnitNs \in [{"macos", "windows"} -> 1..NS]
    /\ \A b \in DOMAIN UnitNs : NS % UnitNs[b] = 0
    /\ UINT32_MAX \in Nat \ {0, 1}
    /\ U64 \in Nat \ {0}
    /\ TIME_MAX \in Nat
    /\ MaxLag \in Nat
    /\ Skews \subseteq Int \ {0}
    /\ StartTimes \subseteq Nat
    /\ \A t \in StartTimes, s \in Skews : t + s >= 0
    /\ Durations \subseteq [tv_sec : -(TIME_MAX + 1)..TIME_MAX, tv_nsec : Nat]
                              \cup {NULL}
    /\ FOREVER \notin Int

VARIABLES
    backend,
    now,            \* true time, in nanoseconds
    skew,           \* what the realtime clock is ahead of it
    duration,
    start,          \* when the call was made
    pc,             \* "call", "load", "check", "park", "asleep" or "done"
    end,            \* the deadline
    ts_remaining,
    wakeAt,         \* when the kernel gives up, on the clock it goes by
    clamped,        \* its timeout was cut to what its counter holds
    changed,        \* the object no longer equals expected
    result,
    lag             \* ticks since the deadline was last checked

vars == <<backend, now, skew, duration, start, pc, end, ts_remaining, wakeAt,
          clamped, changed, result, lag>>

-------------------------------------------------------------------------------
(* timespec arithmetic *)

Ns(ts) == ts.tv_sec * NS + ts.tv_nsec
Timespec(ns) == [tv_sec |-> ns \div NS, tv_nsec |-> ns % NS]
Zero == Timespec(0)

\* A sum of seconds in a signed time_t, which wraps as built.
Wrap(n) == ((n + TIME_MAX + 1) % (2 * (TIME_MAX + 1))) - (TIME_MAX + 1)

\* Mutant: no carry.
AddNoCarry(a, b) ==
    [tv_sec  |-> Wrap(a.tv_sec + b.tv_sec), tv_nsec |-> a.tv_nsec + b.tv_nsec]

Add(a, b) ==
    LET ns == a.tv_nsec + b.tv_nsec
        carry == IF ns >= NS THEN 1 ELSE 0
    IN  [tv_sec  |-> Wrap(a.tv_sec + b.tv_sec + carry),
         tv_nsec |-> ns - carry * NS]

\* Mutant: the nanoseconds are not looked at.
ExpiredInSecond(t, e) == t.tv_sec >= e.tv_sec

Expired(t, e) ==
    \/ t.tv_sec > e.tv_sec
    \/ t.tv_sec = e.tv_sec /\ t.tv_nsec >= e.tv_nsec

\* Mutant: no borrow.
RemainingNoBorrow(e, t) ==
    [tv_sec |-> e.tv_sec - t.tv_sec, tv_nsec |-> e.tv_nsec - t.tv_nsec]

Remaining(e, t) ==
    LET borrow == IF e.tv_nsec >= t.tv_nsec THEN 0 ELSE 1
    IN  [tv_sec  |-> e.tv_sec - t.tv_sec - borrow,
         tv_nsec |-> e.tv_nsec - t.tv_nsec + borrow * NS]

\* Windows reads a counter of Freq ticks per second, the others the clock.
monotonic_now ==
    IF backend = "windows"
    THEN LET counter == (now * Freq) \div NS
         IN  [tv_sec  |-> counter \div Freq,
              tv_nsec |-> ((counter % Freq) * NS) \div Freq]
    ELSE Timespec(now)

\* The clock the kernel wait goes by: CLOCK_REALTIME where a condition variable
\* cannot be given CLOCK_MONOTONIC.
KernelClock == IF backend = "pthreads_realtime" THEN now + skew ELSE now

-------------------------------------------------------------------------------
(* What the backends make of the remaining time *)

\* A timeout is given by when the kernel gives up and whether it was cut short.
At(t) == [at |-> t, clamped |-> FALSE]

\* Mutant: rounded down.
UnitsRoundedDown(ts, unit) ==
    (ts.tv_sec * (NS \div unit) + (ts.tv_nsec \div unit)) % U64

\* Rounded up to units, in uint64_t.
Units(ts, unit) ==
    (ts.tv_sec * (NS \div unit) + ((ts.tv_nsec + unit - 1) \div unit)) % U64

\* Linux and pthreads add it to a fresh reading of the clock they wait by.
AbsoluteTimeout(ts) == At(Ns(Add(Timespec(KernelClock), ts)))

\* FreeBSD leaves the sum to the kernel.
RelativeTimeout(ts) == At(KernelClock + Ns(ts))

\* For the macOS kernel 0 is for ever.
MacTimeout(ts) ==
    LET us == Units(ts, UnitNs["macos"])
        cut == IF us > UINT32_MAX THEN UINT32_MAX ELSE us
        timeout_us == IF cut = 0 THEN 1 ELSE cut
    IN  [at      |-> KernelClock + timeout_us * UnitNs["macos"],
         clamped |-> us > UINT32_MAX]

\* Mutant: long durations are cut to the width, like any other cast.
WindowsTimeoutCast(ts) ==
    LET timeout_ms == Units(ts, UnitNs["windows"]) % (UINT32_MAX + 1)
    IN  At(IF timeout_ms = UINT32_MAX
           THEN FOREVER
           ELSE KernelClock + timeout_ms * UnitNs["windows"])

\* For Windows UINT32_MAX is for ever, so the longest is one less.
WindowsTimeout(ts) ==
    LET ms == Units(ts, UnitNs["windows"])
        cut == ms >= UINT32_MAX - 1
        timeout_ms == IF cut THEN UINT32_MAX - 1 ELSE ms
    IN  [at      |-> KernelClock + timeout_ms * UnitNs["windows"],
         clamped |-> cut]

Timeout(ts) ==
    CASE backend = "macos"   -> MacTimeout(ts)
      [] backend = "windows" -> WindowsTimeout(ts)
      [] backend = "freebsd" -> RelativeTimeout(ts)
      [] OTHER               -> AbsoluteTimeout(ts)

\* The timespec the kernel is handed; it refuses one that is not normalised.
Handed ==
    IF backend = "freebsd" THEN ts_remaining
    ELSE Add(Timespec(KernelClock), ts_remaining)

Refused ==
    /\ duration # NULL
    /\ backend \notin DOMAIN UnitNs
    /\ Handed.tv_sec < 0 \/ Handed.tv_nsec \notin 0..(NS - 1)

-------------------------------------------------------------------------------
(* The wait *)

Init ==
    /\ backend \in Backends
    /\ now \in StartTimes
    /\ skew = 0
    /\ duration \in Durations
    /\ start = now
    /\ pc = "call"
    /\ end = Zero
    /\ ts_remaining = Zero
    /\ wakeAt = FOREVER
    /\ clamped = FALSE
    /\ changed = FALSE
    /\ result = "none"
    /\ lag = 0

Call ==
    /\ pc = "call"
    /\ end' = IF duration = NULL THEN Zero ELSE Add(monotonic_now, duration)
    /\ pc' = "load"
    /\ UNCHANGED <<backend, now, skew, duration, start, ts_remaining, wakeAt,
                   clamped, changed, result, lag>>

Done(r) == pc' = "done" /\ result' = r

\* The load at the top of the loop; the generic path also registers here.
Load ==
    /\ pc = "load"
    /\ \/ changed /\ Done("changed")
       \/ ~changed /\ pc' = "check" /\ UNCHANGED result
    /\ UNCHANGED <<backend, now, skew, duration, start, end, ts_remaining,
                   wakeAt, clamped, changed, lag>>

Check ==
    /\ pc = "check"
    /\ lag' = 0
    /\ \/ /\ duration # NULL
          /\ Expired(monotonic_now, end)
          /\ Done("timedout")
          /\ UNCHANGED ts_remaining
       \/ /\ duration # NULL
          /\ ~Expired(monotonic_now, end)
          /\ ts_remaining' = Remaining(end, monotonic_now)
          /\ pc' = "park"
          /\ UNCHANGED result
       \/ /\ duration = NULL
          /\ pc' = "park"
          /\ UNCHANGED <<ts_remaining, result>>
    /\ UNCHANGED <<backend, now, skew, duration, start, end, wakeAt, clamped,
                   changed>>

\* The kernel compares the object with expected before it sleeps.
Park ==
    /\ pc = "park"
    /\ ~changed
    /\ ~Refused
    /\ LET timeout == IF duration = NULL THEN At(FOREVER)
                      ELSE Timeout(ts_remaining)
       IN  wakeAt' = timeout.at /\ clamped' = timeout.clamped
    /\ pc' = "asleep"
    /\ UNCHANGED <<backend, now, skew, duration, start, end, ts_remaining,
                   changed, result, lag>>

\* Back to the top of the loop; ts_remaining goes out of scope.
Resume ==
    /\ pc' = "load"
    /\ ts_remaining' = Zero
    /\ wakeAt' = FOREVER
    /\ clamped' = FALSE

\* It finds another value, and returns EAGAIN or 0.
ParkDeclined ==
    /\ pc = "park"
    /\ changed
    /\ ~Refused
    /\ Resume
    /\ UNCHANGED <<backend, now, skew, duration, start, end, changed, result, lag>>

\* EINVAL is a hard error.
ParkRefused ==
    /\ pc = "park"
    /\ Refused
    /\ Done("failed")
    /\ UNCHANGED <<backend, now, skew, duration, start, end, ts_remaining,
                   wakeAt, clamped, changed, lag>>

\* The kernel's timeout: ETIMEDOUT sends the waiter round the loop.
KernelTimeout ==
    /\ pc = "asleep"
    /\ wakeAt # FOREVER
    /\ KernelClock >= wakeAt
    /\ Resume
    /\ UNCHANGED <<backend, now, skew, duration, start, end, changed, result, lag>>

\* A wake for nothing, EINTR or a token left over.
Stir ==
    /\ pc = "asleep"
    /\ Resume
    /\ UNCHANGED <<backend, now, skew, duration, start, end, changed, result, lag>>

\* Another thread stores and notifies.
Notify ==
    /\ pc # "done"
    /\ ~changed
    /\ changed' = TRUE
    /\ \/ pc = "asleep" /\ Resume
       \/ pc # "asleep" /\ UNCHANGED <<pc, ts_remaining, wakeAt, clamped>>
    /\ UNCHANGED <<backend, now, skew, duration, start, end, result, lag>>

Sleeping == pc = "asleep" /\ wakeAt # FOREVER /\ KernelClock < wakeAt

\* Time is of no consequence to an untimed wait.
Tick ==
    /\ pc # "done"
    /\ duration # NULL
    /\ Sleeping \/ lag < MaxLag
    /\ now' = now + 1
    /\ lag' = IF Sleeping THEN lag ELSE lag + 1
    /\ UNCHANGED <<backend, skew, duration, start, pc, end, ts_remaining,
                   wakeAt, clamped, changed, result>>

\* The realtime clock is set, once.
StepRealtime ==
    /\ backend = "pthreads_realtime"
    /\ pc # "done"
    /\ skew = 0
    /\ skew' \in Skews
    /\ UNCHANGED <<backend, now, duration, start, pc, end, ts_remaining, wakeAt,
                   clamped, changed, result, lag>>

Waiter ==
    \/ Call \/ Load \/ Check
    \/ Park \/ ParkDeclined \/ ParkRefused \/ KernelTimeout

Next == Waiter \/ Stir \/ Notify \/ Tick \/ StepRealtime

\* The waiter is scheduled, the kernel's timer fires and time passes.
Spec == Init /\ [][Next]_vars /\ WF_vars(Waiter) /\ WF_vars(Tick)

-------------------------------------------------------------------------------
(* Properties *)

Timed == duration # NULL

\* What callers must pass; the code does not check it.
WellFormed == Timed => duration.tv_nsec < NS

\* The shape of the state; a well-formed duration has a normalised deadline.
TypeOK ==
    /\ backend \in Backends
    /\ now \in Nat /\ start \in Nat
    /\ skew \in Skews \cup {0}
    /\ duration \in Durations
    /\ pc \in {"call", "load", "check", "park", "asleep", "done"}
    /\ end \in [tv_sec : -(TIME_MAX + 1)..TIME_MAX, tv_nsec : Nat]
    /\ ts_remaining \in [tv_sec : Nat, tv_nsec : Nat]
    /\ WellFormed => end.tv_nsec < NS /\ ts_remaining.tv_nsec < NS
    /\ wakeAt \in Int \cup {FOREVER}
    /\ clamped \in BOOLEAN /\ changed \in BOOLEAN
    /\ result \in {"none", "changed", "timedout", "failed"}
    /\ lag \in 0..MaxLag

\* The sum of a clock and the duration has seconds that a time_t can hold.
SumFits(clock) == clock + Ns(duration) < (TIME_MAX + 1) * NS

\* The deadline does, at the latest that the clock is read for it; so does what
\* the kernel is to wait for, at the latest that the waiter parks.
DeadlineFits == SumFits(start + MaxLag)
ParkFits == SumFits(start + skew + 2 * MaxLag)

\* How far a reading may be behind.  Windows rounds down twice: to ticks of the
\* counter, and then to nanoseconds, for Freq need not divide NS.
Resolution ==
    IF backend = "windows" THEN (NS + Freq - 2) \div Freq + 1 ELSE 1

Unit == IF backend \in DOMAIN UnitNs THEN UnitNs[backend] ELSE 1

\* The duration in the units of the kernel is a uint64_t.
UnitsFit ==
    backend \in DOMAIN UnitNs =>
        Ns(duration) + MaxLag + Resolution + Unit <= U64 * Unit

\* A wait that times out has lasted its duration, to the resolution of the clock
\* it reads, whatever the kernel's timeout was cut to, however often the waiter
\* was stirred, and however the realtime clock was set.
NoEarlyTimeout ==
    result = "timedout" /\ DeadlineFits /\ WellFormed =>
        now - start > Ns(duration) - Resolution

\* A kernel wait is over, at the latest, one unit of the kernel's and one
\* reading of the clock after the deadline, plus the time it took to get there.
NoOversleep ==
    pc = "asleep" /\ Timed /\ skew = 0 =>
        /\ wakeAt # FOREVER
        /\ wakeAt <= Ns(end) + lag + (Unit - 1) + (Resolution - 1)

\* Nor is it over before the deadline, so the loop does not spin: a timeout that
\* fires and was not cut short finds the deadline passed.
NoSpin ==
    pc = "asleep" /\ Timed /\ skew = 0 /\ wakeAt # FOREVER /\ ~clamped =>
        wakeAt >= Ns(end) \/ ~ParkFits \/ ~UnitsFit

\* No kernel refuses the timespec made of a well-formed duration, which would end
\* the wait with EINVAL.
NeverRefused ==
    result = "failed" => ~WellFormed \/ ~DeadlineFits \/ ~ParkFits

\* A timed wait returns although nobody notifies it.
TimedCallEnds == (pc = "call" /\ Timed) ~> (pc = "done")
===============================================================================
