------------------------------ MODULE MCTimedWait ------------------------------
(* TimedWait with seconds of 8 nanoseconds and counters of 3 bits. *)
EXTENDS TimedWait

UnitsOf8 == [macos |-> 2, windows |-> 4]

\* The realtime clock is set back or forward.
ClockSteps == {-5, 5}

\* Expired, zero, below a unit, across a carry, beyond the counters, one whose
\* deadline just fits a time_t, one whose does not, and one with too many
\* nanoseconds.
SampleDurations ==
    {NULL}
    \cup {[tv_sec |-> -1, tv_nsec |-> 3], [tv_sec |-> 0, tv_nsec |-> 0],
          [tv_sec |-> 0, tv_nsec |-> 1], [tv_sec |-> 0, tv_nsec |-> 7],
          [tv_sec |-> 1, tv_nsec |-> 5], [tv_sec |-> 4, tv_nsec |-> 2],
          [tv_sec |-> TIME_MAX - 2, tv_nsec |-> NS - 1],
          [tv_sec |-> TIME_MAX, tv_nsec |-> 0],
          [tv_sec |-> 0, tv_nsec |-> 2 * NS + 1]}
===============================================================================
