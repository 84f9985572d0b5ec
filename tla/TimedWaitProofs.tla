---------------------------- MODULE TimedWaitProofs ----------------------------
(***************************************************************************)
(* Proofs about TimedWait, for every duration and start time, every length *)
(* of a second, unit and resolution, every width of time_t and of the      *)
(* kernels' counters: no wait times out early, none oversleeps by more     *)
(* than a unit and a reading of the clock, none spins before its deadline  *)
(* and no kernel refuses what it is handed.                                *)
(***************************************************************************)
EXTENDS TimedWait, TLAPS

-------------------------------------------------------------------------------
(* Arithmetic *)

\* What \div and % compute.
LEMMA Division ==
    ASSUME NEW a \in Int, NEW b \in Nat \ {0}
    PROVE  /\ a = b * (a \div b) + (a % b)
           /\ (a % b) \in 0..(b - 1)
           /\ a \div b \in Int
           /\ a \in Nat => a \div b \in Nat
    OBVIOUS

\* The same, for a natural number and with names.
LEMMA QuotientRemainder ==
    ASSUME NEW a \in Nat, NEW b \in Nat \ {0}
    PROVE  \E q \in Nat, r \in 0..(b - 1) :
               q = a \div b /\ r = a % b /\ a = b * q + r
<1>1. /\ a = b * (a \div b) + (a % b)
      /\ (a % b) \in 0..(b - 1)
      /\ a \div b \in Nat
    OBVIOUS
<1> QED
    BY <1>1, Zenon

\* A quotient is the only one that leaves a remainder below the divisor.
LEMMA QuotientBound ==
    ASSUME NEW a \in Int, NEW b \in Nat \ {0}, NEW q \in Int
    PROVE  /\ b * q <= a => q <= a \div b
           /\ a < b * q => a \div b < q
<1>1. PICK d \in Int, r \in 0..(b - 1) : d = a \div b /\ a = b * d + r
    BY Division
<1>2. ASSUME b * q <= a PROVE q <= d
    <2> SUFFICES ASSUME q >= d + 1 PROVE FALSE
        BY <1>1
    <2>1. b * q >= b * (d + 1)
        OBVIOUS
    <2> QED
        BY <1>1, <1>2, <2>1
<1>3. ASSUME a < b * q PROVE d < q
    <2> SUFFICES ASSUME q <= d PROVE FALSE
        BY <1>1
    <2>1. b * q <= b * d
        OBVIOUS
    <2> QED
        BY <1>1, <1>3, <2>1
<1> QED
    BY <1>1, <1>2, <1>3

\* A sum is a remainder modulo the width of time_t, exact if it fits.
LEMMA WrapRange ==
    ASSUME NEW n \in Int
    PROVE  /\ Wrap(n) \in -(TIME_MAX + 1)..TIME_MAX
           /\ n \in -(TIME_MAX + 1)..TIME_MAX => Wrap(n) = n
           /\ n >= 0 => Wrap(n) <= n
<1>1. PICK w \in Nat \ {0} : w = TIME_MAX + 1
    BY TimedWaitAssumption
<1>2. PICK k \in Int, m \in Nat \ {0} : k = n + w /\ m = 2 * w
    OBVIOUS
<1>3. PICK d \in Int, r \in 0..(m - 1) : r = k % m /\ k = m * d + r
    BY Division
<1>4. Wrap(n) = r - w
    <2>1. n + TIME_MAX + 1 = k /\ 2 * (TIME_MAX + 1) = m
        BY <1>1, <1>2, TimedWaitAssumption
    <2> QED
        BY <1>1, <1>3, <2>1 DEF Wrap
<1>5. ASSUME k \in 0..(m - 1) PROVE r = k
    <2>1. d <= 0
        <3> SUFFICES ASSUME d >= 1 PROVE FALSE
            OBVIOUS
        <3>1. m * d >= m
            OBVIOUS
        <3> QED
            BY <1>3, <1>5, <3>1
    <2>2. d >= 0
        <3> SUFFICES ASSUME d <= -1 PROVE FALSE
            OBVIOUS
        <3>1. m * d <= -m
            OBVIOUS
        <3> QED
            BY <1>3, <1>5, <3>1
    <2> QED
        BY <1>3, <2>1, <2>2
<1>6. ASSUME k >= 0 PROVE r <= k
    <2>1. d >= 0
        <3> SUFFICES ASSUME d <= -1 PROVE FALSE
            OBVIOUS
        <3>1. m * d <= -m
            OBVIOUS
        <3> QED
            BY <1>3, <1>6, <3>1
    <2>2. m * d >= 0
        BY <2>1
    <2> QED
        BY <1>3, <2>2
<1>7. TIME_MAX = w - 1
    BY <1>1, TimedWaitAssumption
<1> QED
    BY <1>2, <1>4, <1>5, <1>6, <1>7

-------------------------------------------------------------------------------
(* timespecs *)

Stamp == [tv_sec : Int, tv_nsec : Nat]

\* A reading of a clock is normalised.
Normal == [tv_sec : Nat, tv_nsec : 0..(NS - 1)]

LEMMA NsInt ==
    ASSUME NEW a \in Stamp
    PROVE  Ns(a) \in Int
    BY TimedWaitAssumption DEF Stamp, Ns

\* A time and its timespec are the same.
LEMMA TimespecExact ==
    ASSUME NEW n \in Nat
    PROVE  /\ Timespec(n) \in Normal
           /\ Ns(Timespec(n)) = n
<1>1. PICK q \in Nat, r \in 0..(NS - 1) :
          q = n \div NS /\ r = n % NS /\ n = NS * q + r
    <2>1. NS \in Nat \ {0}
        BY TimedWaitAssumption
    <2> QED
        BY <2>1, QuotientRemainder, Zenon
<1>2. Timespec(n) = [tv_sec |-> q, tv_nsec |-> r]
    BY <1>1 DEF Timespec
<1>3. Ns(Timespec(n)) = q * NS + r
    BY <1>2 DEF Ns
<1>4. NS * q = q * NS
    BY TimedWaitAssumption
<1> QED
    BY <1>1, <1>2, <1>3, <1>4 DEF Normal

\* Add is exact as long as the seconds fit, and never too large from zero up; it
\* normalises what was normal.
LEMMA AddExact ==
    ASSUME NEW a \in Normal, NEW b \in Stamp
    PROVE  /\ Add(a, b) \in [tv_sec : -(TIME_MAX + 1)..TIME_MAX, tv_nsec : Nat]
           /\ b.tv_nsec < NS => Add(a, b).tv_nsec < NS
           /\ b.tv_sec >= 0 => Ns(Add(a, b)) <= Ns(a) + Ns(b)
           /\ /\ b.tv_sec >= -(TIME_MAX + 1)
              /\ Ns(a) + Ns(b) < (TIME_MAX + 1) * NS
              => Ns(Add(a, b)) = Ns(a) + Ns(b) /\ Add(a, b).tv_sec >= b.tv_sec
<1>1. PICK ns \in Nat : ns = a.tv_nsec + b.tv_nsec
    BY TimedWaitAssumption DEF Normal, Stamp
<1>2. PICK carry \in {0, 1} : carry = IF ns >= NS THEN 1 ELSE 0
    OBVIOUS
<1>3. PICK n \in Int : n = a.tv_sec + b.tv_sec + carry
    BY <1>2 DEF Normal, Stamp
<1>4. PICK w \in -(TIME_MAX + 1)..TIME_MAX : w = Wrap(n)
    BY <1>3, WrapRange
<1>5. Add(a, b) = [tv_sec |-> w, tv_nsec |-> ns - carry * NS]
    BY <1>1, <1>2, <1>3, <1>4 DEF Add
<1>6. ns - carry * NS \in Nat /\ (b.tv_nsec < NS => ns - carry * NS < NS)
    BY <1>1, <1>2, TimedWaitAssumption DEF Normal, Stamp
<1>7. Ns(a) + Ns(b) = n * NS + (ns - carry * NS)
    <2>1. n * NS = a.tv_sec * NS + b.tv_sec * NS + carry * NS
        BY <1>2, <1>3, TimedWaitAssumption DEF Normal, Stamp
    <2>2. a.tv_sec * NS \in Int /\ b.tv_sec * NS \in Int /\ carry * NS \in Int
        BY <1>2, TimedWaitAssumption DEF Normal, Stamp
    <2> QED
        BY <1>1, <2>1, <2>2 DEF Ns, Normal, Stamp
<1>8. Ns(Add(a, b)) = w * NS + (ns - carry * NS)
    BY <1>5 DEF Ns
<1>9. ASSUME b.tv_sec >= 0 PROVE w * NS <= n * NS
    <2>1. w <= n
        BY <1>2, <1>3, <1>4, <1>9, WrapRange DEF Normal, Stamp
    <2> QED
        BY <2>1, TimedWaitAssumption
<1>10. ASSUME b.tv_sec >= -(TIME_MAX + 1), Ns(a) + Ns(b) < (TIME_MAX + 1) * NS
       PROVE  w = n /\ n >= b.tv_sec
    <2>1. n <= TIME_MAX
        <3> SUFFICES ASSUME n >= TIME_MAX + 1 PROVE FALSE
            BY TimedWaitAssumption
        <3>1. n * NS >= (TIME_MAX + 1) * NS
            BY TimedWaitAssumption
        <3>2. n * NS \in Int /\ (TIME_MAX + 1) * NS \in Int
            BY TimedWaitAssumption
        <3> QED
            BY <1>6, <1>7, <1>10, <3>1, <3>2
    <2>2. n >= b.tv_sec /\ n \in -(TIME_MAX + 1)..TIME_MAX
        BY <1>2, <1>3, <1>10, <2>1, TimedWaitAssumption DEF Normal, Stamp
    <2> QED
        BY <1>4, <2>2, WrapRange
<1>11. w * NS \in Int /\ n * NS \in Int
    BY TimedWaitAssumption
<1> QED
    <2>1. Add(a, b) \in [tv_sec : -(TIME_MAX + 1)..TIME_MAX, tv_nsec : Nat]
        BY <1>5, <1>6
    <2>2. b.tv_nsec < NS => Add(a, b).tv_nsec < NS
        BY <1>5, <1>6
    <2>3. b.tv_sec >= 0 => Ns(Add(a, b)) <= Ns(a) + Ns(b)
        BY <1>6, <1>7, <1>8, <1>9, <1>11
    <2>4. Add(a, b).tv_sec = w
        BY <1>5
    <2>5. /\ b.tv_sec >= -(TIME_MAX + 1)
          /\ Ns(a) + Ns(b) < (TIME_MAX + 1) * NS
          => Ns(Add(a, b)) = Ns(a) + Ns(b) /\ Add(a, b).tv_sec >= b.tv_sec
        BY <1>7, <1>8, <1>10, <2>4
    <2> QED
        BY <2>1, <2>2, <2>3, <2>5

\* Two times compare as their timespecs do, if the reading is normal.
LEMMA ExpiredExact ==
    ASSUME NEW t \in Normal, NEW e \in Stamp
    PROVE  /\ ~Expired(t, e) => Ns(t) < Ns(e)
           /\ Expired(t, e) /\ e.tv_nsec < NS => Ns(t) >= Ns(e)
<1>1. PICK s \in Nat, n \in 0..(NS - 1) : s = t.tv_sec /\ n = t.tv_nsec
    BY DEF Normal
<1>2. PICK x \in Int, y \in Nat : x = e.tv_sec /\ y = e.tv_nsec
    BY DEF Stamp
<1>3. s * NS \in Int /\ x * NS \in Int /\ NS \in Nat \ {0}
    BY TimedWaitAssumption
<1>4. Ns(t) = s * NS + n /\ Ns(e) = x * NS + y
    BY <1>1, <1>2 DEF Ns
<1>5. ASSUME s < x PROVE s * NS + NS <= x * NS
    <2>1. (s + 1) * NS <= x * NS
        BY <1>3, <1>5
    <2> QED
        BY <1>3, <2>1
<1>6. ASSUME s > x PROVE x * NS + NS <= s * NS
    <2>1. (x + 1) * NS <= s * NS
        BY <1>3, <1>6
    <2> QED
        BY <1>3, <2>1
<1>7. ~Expired(t, e) => Ns(t) < Ns(e)
    BY <1>1, <1>2, <1>3, <1>4, <1>5 DEF Expired
<1>8. Expired(t, e) /\ e.tv_nsec < NS => Ns(t) >= Ns(e)
    BY <1>1, <1>2, <1>3, <1>4, <1>6 DEF Expired
<1> QED
    BY <1>7, <1>8

\* What remains before a deadline is the difference, and a timespec again.
LEMMA RemainingExact ==
    ASSUME NEW t \in Normal, NEW e \in Stamp, ~Expired(t, e)
    PROVE  /\ Remaining(e, t) \in [tv_sec : Nat, tv_nsec : Nat]
           /\ Ns(Remaining(e, t)) = Ns(e) - Ns(t)
           /\ e.tv_nsec < NS => Remaining(e, t).tv_nsec < NS
<1>1. PICK s \in Nat, n \in 0..(NS - 1) : s = t.tv_sec /\ n = t.tv_nsec
    BY DEF Normal
<1>2. PICK x \in Int, y \in Nat : x = e.tv_sec /\ y = e.tv_nsec
    BY DEF Stamp
<1>3. PICK borrow \in {0, 1} : borrow = IF y >= n THEN 0 ELSE 1
    OBVIOUS
<1>4. Remaining(e, t) = [tv_sec |-> x - s - borrow, tv_nsec |-> y - n + borrow * NS]
    BY <1>1, <1>2, <1>3 DEF Remaining
<1>5. x - s - borrow \in Nat
    BY <1>1, <1>2, <1>3 DEF Expired
<1>6. y - n + borrow * NS \in Nat /\ (y < NS => y - n + borrow * NS < NS)
    BY <1>3, TimedWaitAssumption
<1>7. (x - s - borrow) * NS + (y - n + borrow * NS) = (x * NS + y) - (s * NS + n)
    BY <1>3, TimedWaitAssumption
<1> QED
    BY <1>1, <1>2, <1>3, <1>4, <1>5, <1>6, <1>7 DEF Ns

-------------------------------------------------------------------------------
(* Clocks and units *)

\* A divisor, and what it divides.
LEMMA Divisor ==
    ASSUME NEW n \in Nat \ {0}, NEW d \in 1..n, n % d = 0
    PROVE  /\ n \div d \in Nat \ {0}
           /\ d * (n \div d) = n
<1>1. PICK q \in Nat : q = n \div d /\ n = d * q
    BY Division
<1> QED
    BY <1>1

\* The resolution of the clock is a natural number.
LEMMA ResolutionType == Resolution \in Nat \ {0}
<1>1. NS + Freq - 2 \in Nat /\ Freq \in Nat \ {0}
    BY TimedWaitAssumption
<1>2. (NS + Freq - 2) \div Freq \in Nat
    BY <1>1, Division
<1> QED
    BY <1>2 DEF Resolution

\* A reading of the clock is normal, never ahead of the time and behind by less
\* than the resolution of the clock.
LEMMA ClockReading ==
    ASSUME now \in Nat
    PROVE  /\ monotonic_now \in Normal
           /\ Ns(monotonic_now) <= now
           /\ now - Ns(monotonic_now) < Resolution
<1>1. CASE backend # "windows"
    BY <1>1, TimespecExact DEF monotonic_now, Resolution
<1>2. CASE backend = "windows"
    <2>1. Freq \in Nat \ {0} /\ NS \in Nat \ {0}
        BY TimedWaitAssumption
    <2>2. PICK c \in Nat, r \in 0..(NS - 1) :
              /\ c = (now * Freq) \div NS /\ r = (now * Freq) % NS
              /\ now * Freq = NS * c + r
        <3>1. now * Freq \in Nat
            BY <2>1
        <3> QED
            BY <2>1, <3>1, QuotientRemainder, Zenon
    <2>3. PICK s \in Nat, f \in 0..(Freq - 1) :
              s = c \div Freq /\ f = c % Freq /\ c = Freq * s + f
        BY <2>1, QuotientRemainder, Zenon
    <2>4. PICK g \in Nat, q \in 0..(Freq - 1) :
              /\ g = (f * NS) \div Freq /\ q = (f * NS) % Freq
              /\ f * NS = Freq * g + q
        <3>1. f * NS \in Nat
            BY <2>1
        <3> QED
            BY <2>1, <3>1, QuotientRemainder, Zenon
    <2>5. monotonic_now = [tv_sec |-> s, tv_nsec |-> g]
        BY <1>2, <2>2, <2>3, <2>4 DEF monotonic_now
    <2>6. g <= NS - 1
        <3> SUFFICES ASSUME g >= NS PROVE FALSE
            BY <2>1
        <3>1. Freq * g >= Freq * NS
            BY <2>1
        <3>2. f * NS <= (Freq - 1) * NS /\ (Freq - 1) * NS = Freq * NS - NS
            BY <2>1
        <3>3. f * NS \in Int /\ Freq * NS \in Int /\ Freq * g \in Int
            BY <2>1
        <3> QED
            BY <2>1, <2>4, <3>1, <3>2, <3>3
    \* What the two divisions cut off.
    <2>7. PICK l \in Int : l = now - (s * NS + g)
        BY <2>1
    <2>8. Freq * l = r + q
        <3>1. NS * c = Freq * (s * NS) + f * NS
            BY <2>1, <2>3
        <3>2. Freq * l = Freq * now - Freq * (s * NS) - Freq * g
            BY <2>1, <2>7
        <3>3. /\ Freq * now = now * Freq /\ Freq * now \in Int
              /\ Freq * (s * NS) \in Int /\ Freq * g \in Int
              /\ f * NS \in Int /\ NS * c \in Int
            BY <2>1
        <3> QED
            BY <2>2, <2>4, <3>1, <3>2, <3>3
    <2>9. l >= 0
        <3> SUFFICES ASSUME l <= -1 PROVE FALSE
            OBVIOUS
        <3>1. Freq * l <= -Freq
            BY <2>1
        <3> QED
            BY <2>1, <2>8, <3>1
    <2>10. l <= (NS + Freq - 2) \div Freq
        <3>1. Freq * l <= NS + Freq - 2
            BY <2>1, <2>8
        <3> QED
            BY <2>1, <3>1, QuotientBound
    <2>11. (NS + Freq - 2) \div Freq \in Int
        BY <2>1, Division
    <2>12. Resolution = (NS + Freq - 2) \div Freq + 1
        BY <1>2 DEF Resolution
    <2>13. Ns(monotonic_now) = s * NS + g /\ s * NS \in Int
        BY <2>1, <2>5 DEF Ns
    <2> QED
        BY <2>1, <2>5, <2>6, <2>7, <2>9, <2>10, <2>11, <2>12, <2>13 DEF Normal
<1> QED
    BY <1>1, <1>2

\* Rounding up to units adds less than a unit, and nothing is lost as long as the
\* number of units fits.
LEMMA UnitsExact ==
    ASSUME NEW ts \in [tv_sec : Nat, tv_nsec : Nat], NEW u \in 1..NS, NS % u = 0
    PROVE  /\ Units(ts, u) \in Nat
           /\ Units(ts, u) * u <= Ns(ts) + u - 1
           /\ Ns(ts) + u <= U64 * u => Units(ts, u) * u >= Ns(ts)
<1>1. PICK k \in Nat \ {0} : k = NS \div u /\ u * k = NS
    BY TimedWaitAssumption, Divisor
<1>2. PICK s \in Nat, n \in Nat : s = ts.tv_sec /\ n = ts.tv_nsec
    OBVIOUS
<1>3. PICK c \in Nat, r \in 0..(u - 1) :
          /\ c = (n + u - 1) \div u /\ r = (n + u - 1) % u
          /\ n + u - 1 = u * c + r
    <2>1. n + u - 1 \in Nat /\ u \in Nat \ {0}
        OBVIOUS
    <2> QED
        BY <2>1, QuotientRemainder, Zenon
<1>4. PICK x \in Nat : x = s * k + c
    <2>1. s * k + c \in Nat
        OBVIOUS
    <2> QED
        BY <2>1
<1>5. Units(ts, u) = x % U64
    BY <1>1, <1>2, <1>3, <1>4 DEF Units
<1>6. x * u = s * NS + u * c
    <2>1. (s * k) * u = s * NS
        BY <1>1
    <2> QED
        BY <1>4, <2>1
<1>7. Ns(ts) = s * NS + n
    BY <1>2 DEF Ns
<1>8. x * u <= Ns(ts) + u - 1 /\ x * u >= Ns(ts) /\ Ns(ts) \in Nat /\ x * u \in Nat
    <2>1. s * NS \in Nat /\ u * c \in Nat
        BY TimedWaitAssumption
    <2> QED
        BY <1>3, <1>6, <1>7, <2>1
<1>9. PICK d \in Nat, y \in 0..(U64 - 1) : d = x \div U64 /\ y = x % U64 /\ x = U64 * d + y
    <2>1. U64 \in Nat \ {0}
        BY TimedWaitAssumption
    <2> QED
        BY <2>1, QuotientRemainder, Zenon
<1>10. y * u <= x * u
    <2>1. U64 * d \in Nat
        BY TimedWaitAssumption
    <2>2. y <= x
        BY <1>9, <2>1
    <2> QED
        BY <2>2
<1>11. ASSUME Ns(ts) + u <= U64 * u PROVE y = x
    <2>1. x < U64
        <3> SUFFICES ASSUME x >= U64 PROVE FALSE
            BY TimedWaitAssumption
        <3>1. x * u >= U64 * u
            BY TimedWaitAssumption
        <3>2. U64 * u \in Nat
            BY TimedWaitAssumption
        <3> QED
            BY <1>8, <1>11, <3>1, <3>2
    <2>2. d = 0
        <3> SUFFICES ASSUME d >= 1 PROVE FALSE
            OBVIOUS
        <3>1. U64 * d >= U64
            BY TimedWaitAssumption
        <3> QED
            BY <1>9, <2>1, <3>1, TimedWaitAssumption
    <2> QED
        BY <1>9, <2>2, TimedWaitAssumption
<1>12. y * u \in Nat
    OBVIOUS
<1> QED
    BY <1>5, <1>8, <1>9, <1>10, <1>11, <1>12

-------------------------------------------------------------------------------
(* The invariant *)

\* lag counts part of the time since the call, and all of it before the deadline
\* is set; only one backend waits by a clock that can be set.
ClockOK ==
    /\ start \in StartTimes
    /\ skew # 0 => backend = "pthreads_realtime"
    /\ start + lag <= now
    /\ pc = "call" => now = start + lag

\* The deadline is the duration from the call, up to the resolution of the clock
\* and the time the call took to read it.
DeadlineOK ==
    Timed /\ pc # "call" /\ DeadlineFits =>
        /\ Ns(end) >= start + Ns(duration) - (Resolution - 1)
        /\ Ns(end) <= start + MaxLag + Ns(duration)

\* What is handed to the backend is what remained when the clock was read, lag
\* ago.
RemainingOK ==
    Timed /\ pc = "park" =>
        /\ Ns(ts_remaining) >= 1
        /\ Ns(ts_remaining) >= Ns(end) - (now - lag)
        /\ Ns(ts_remaining) <= Ns(end) - (now - lag) + (Resolution - 1)

\* A call that is over stays as it is, and one that timed out saw its deadline.
ResultOK ==
    /\ result # "none" => pc = "done"
    /\ result = "timedout" => Timed /\ (WellFormed => Ns(end) <= now)

TimeInv ==
    /\ TypeOK
    /\ ClockOK
    /\ DeadlineOK
    /\ RemainingOK
    /\ ResultOK
    /\ NoOversleep
    /\ NoSpin
    /\ NeverRefused

\* The numbers the invariant speaks of.
LEMMA Numbers ==
    ASSUME TypeOK
    PROVE  /\ NS \in Nat \ {0} /\ MaxLag \in Nat /\ TIME_MAX \in Nat /\ U64 \in Nat \ {0}
           /\ Resolution \in Nat \ {0} /\ Unit \in Nat \ {0}
           /\ now \in Nat /\ start \in Nat /\ lag \in 0..MaxLag
           /\ end \in Stamp /\ Ns(end) \in Int
           /\ ts_remaining \in Stamp
           /\ Ns(ts_remaining) \in Nat
           /\ Timed => /\ duration \in Stamp
                       /\ duration.tv_sec \in -(TIME_MAX + 1)..TIME_MAX
                       /\ Ns(duration) \in Int
<1>1. NS \in Nat \ {0} /\ MaxLag \in Nat /\ TIME_MAX \in Nat /\ U64 \in Nat \ {0}
    BY TimedWaitAssumption
<1>2. end \in Stamp /\ ts_remaining \in [tv_sec : Nat, tv_nsec : Nat]
    BY <1>1 DEF TypeOK, Stamp
<1>3. Ns(end) \in Int
    BY <1>1, <1>2 DEF Stamp, Ns
<1>4. Ns(ts_remaining) \in Nat
    <2>1. ts_remaining.tv_sec * NS \in Nat /\ ts_remaining.tv_nsec \in Nat
        BY <1>1, <1>2
    <2> QED
        BY <2>1 DEF Ns
<1>5. Unit \in Nat \ {0}
    BY <1>1, TimedWaitAssumption DEF Unit
<1>6. ASSUME Timed
      PROVE  /\ duration \in Stamp
             /\ duration.tv_sec \in -(TIME_MAX + 1)..TIME_MAX
             /\ Ns(duration) \in Int
    <2>1. duration \in [tv_sec : -(TIME_MAX + 1)..TIME_MAX, tv_nsec : Nat]
        BY <1>6, TimedWaitAssumption DEF TypeOK, Timed
    <2>2. duration \in Stamp /\ duration.tv_sec \in -(TIME_MAX + 1)..TIME_MAX
        BY <1>1, <2>1 DEF Stamp
    <2> QED
        BY <1>1, <2>2 DEF Stamp, Ns
<1> QED
    BY <1>1, <1>2, <1>3, <1>4, <1>5, <1>6, ResolutionType DEF TypeOK, Stamp

\* What depends on the call and its deadline stays.
LEMMA SameCall ==
    ASSUME UNCHANGED <<backend, duration, start>>
    PROVE  /\ Timed' <=> Timed
           /\ WellFormed' <=> WellFormed
           /\ DeadlineFits' <=> DeadlineFits
           /\ UnitsFit' <=> UnitsFit
           /\ Resolution' = Resolution /\ Unit' = Unit
           /\ Ns(duration)' = Ns(duration)
           /\ end' = end => Ns(end)' = Ns(end)
           /\ ts_remaining' = ts_remaining => Ns(ts_remaining)' = Ns(ts_remaining)
           /\ skew' = skew => (ParkFits' <=> ParkFits)
    BY DEF Timed, WellFormed, DeadlineFits, ParkFits, SumFits, UnitsFit,
           Resolution, Unit, Ns

\* The deadline a call sets.
LEMMA DeadlineSet ==
    ASSUME TypeOK, ClockOK, pc = "call", Timed,
           NEW e, e = Add(monotonic_now, duration)
    PROVE  /\ e \in [tv_sec : -(TIME_MAX + 1)..TIME_MAX, tv_nsec : Nat]
           /\ WellFormed => e.tv_nsec < NS
           /\ DeadlineFits =>
                 /\ Ns(e) >= start + Ns(duration) - (Resolution - 1)
                 /\ Ns(e) <= start + MaxLag + Ns(duration)
<1>1. PICK a \in Normal :
          a = monotonic_now /\ Ns(a) <= now /\ now - Ns(a) < Resolution
    BY ClockReading DEF TypeOK
<1>2. duration \in Stamp /\ duration.tv_sec \in -(TIME_MAX + 1)..TIME_MAX
    BY Numbers
<1>3. Ns(a) \in Int /\ Ns(duration) \in Int
    BY <1>2, NsInt DEF Normal, Stamp
<1>4. /\ e \in [tv_sec : -(TIME_MAX + 1)..TIME_MAX, tv_nsec : Nat]
      /\ duration.tv_nsec < NS => e.tv_nsec < NS
      /\ Ns(a) + Ns(duration) < (TIME_MAX + 1) * NS =>
            Ns(e) = Ns(a) + Ns(duration)
    <2>1. duration.tv_sec >= -(TIME_MAX + 1)
        BY <1>2, TimedWaitAssumption
    <2> QED
        BY <1>1, <1>2, <2>1, AddExact
<1>5. start <= now /\ now <= start + MaxLag
    BY Numbers DEF ClockOK
<1>6. ASSUME DeadlineFits PROVE Ns(a) + Ns(duration) < (TIME_MAX + 1) * NS
    <2>1. (TIME_MAX + 1) * NS \in Int
        BY TimedWaitAssumption
    <2>2. start + MaxLag + Ns(duration) < (TIME_MAX + 1) * NS
        BY <1>6 DEF DeadlineFits, SumFits
    <2> QED
        BY <1>1, <1>3, <1>5, <2>1, <2>2, Numbers
<1> QED
    BY <1>1, <1>3, <1>4, <1>5, <1>6, Numbers DEF WellFormed

\* What remains before the deadline.
LEMMA RemainingSet ==
    ASSUME TypeOK, ~Expired(monotonic_now, end),
           NEW r, r = Remaining(end, monotonic_now)
    PROVE  /\ r \in [tv_sec : Nat, tv_nsec : Nat]
           /\ end.tv_nsec < NS => r.tv_nsec < NS
           /\ Ns(r) >= 1
           /\ Ns(r) >= Ns(end) - now
           /\ Ns(r) <= Ns(end) - now + (Resolution - 1)
<1>1. PICK a \in Normal :
          a = monotonic_now /\ Ns(a) <= now /\ now - Ns(a) < Resolution
    BY ClockReading DEF TypeOK
<1>2. end \in Stamp /\ Ns(end) \in Int
    BY Numbers
<1>3. /\ r \in [tv_sec : Nat, tv_nsec : Nat]
      /\ Ns(r) = Ns(end) - Ns(a)
      /\ end.tv_nsec < NS => r.tv_nsec < NS
    BY <1>1, <1>2, RemainingExact
<1>4. Ns(a) < Ns(end)
    BY <1>1, <1>2, ExpiredExact
<1>5. Ns(a) \in Int
    BY NsInt DEF Normal, Stamp
<1> QED
    BY <1>1, <1>2, <1>3, <1>4, <1>5, Numbers

\* The sum of the kernel's clock and the remaining time is a time_t.
LEMMA KernelSumFits ==
    ASSUME TypeOK, ClockOK, DeadlineOK, RemainingOK, pc = "park", Timed,
           DeadlineFits, ParkFits, backend # "windows",
           NEW k \in Nat, k = now + skew
    PROVE  k + Ns(ts_remaining) < (TIME_MAX + 1) * NS
<1>1. skew \in Int /\ (TIME_MAX + 1) * NS \in Int
    BY TimedWaitAssumption DEF TypeOK
<1>2. Resolution = 1
    BY DEF Resolution
<1>3. Ns(ts_remaining) <= Ns(end) - (now - lag)
    BY <1>2, Numbers DEF RemainingOK
<1>4. Ns(end) <= start + MaxLag + Ns(duration)
    BY DEF DeadlineOK
<1>5. start + skew + 2 * MaxLag + Ns(duration) < (TIME_MAX + 1) * NS
    BY DEF ParkFits, SumFits
<1> QED
    BY <1>1, <1>3, <1>4, <1>5, Numbers

\* What the kernel's clock reads.
LEMMA KernelReading ==
    ASSUME TypeOK, ClockOK
    PROVE  KernelClock \in Nat /\ KernelClock = now + skew
<1>1. skew \in Int /\ now + skew >= 0
    BY Numbers, TimedWaitAssumption DEF TypeOK, ClockOK
<1> QED
    BY <1>1, Numbers DEF KernelClock, ClockOK

\* When the kernel gives up: at most a unit after the time that remains and,
\* unless it was cut short, not before.
LEMMA KernelGivesUp ==
    ASSUME TypeOK, ClockOK, DeadlineOK, RemainingOK, pc = "park", Timed,
           NEW T, T = Timeout(ts_remaining)
    PROVE  /\ T.at \in Int /\ T.clamped \in BOOLEAN
           /\ skew = 0 =>
                 /\ T.at <= now + Ns(ts_remaining) + (Unit - 1)
                 /\ DeadlineFits /\ ParkFits /\ UnitsFit /\ ~T.clamped =>
                       T.at >= now + Ns(ts_remaining)
<1>1. PICK k \in Nat : k = KernelClock /\ (skew = 0 => k = now)
    BY KernelReading, Numbers
<1>2. PICK N \in Nat : N = Ns(ts_remaining)
    BY Numbers
<1>3. N >= 1
    BY <1>2 DEF RemainingOK
<1>4. ts_remaining \in [tv_sec : Nat, tv_nsec : Nat]
    BY DEF TypeOK
<1>5. CASE backend = "macos"
    <2>1. PICK u \in 1..NS : u = UnitNs["macos"] /\ u = Unit /\ NS % u = 0
        BY <1>5, TimedWaitAssumption DEF Unit
    <2>2. PICK us \in Nat :
              /\ us = Units(ts_remaining, u) /\ us * u <= N + u - 1
              /\ N + u <= U64 * u => us * u >= N
        BY <1>2, <1>4, <2>1, UnitsExact
    <2>3. PICK c \in Nat : c = IF us > UINT32_MAX THEN UINT32_MAX ELSE us
        BY TimedWaitAssumption
    <2>4. PICK m \in Nat \ {0} : m = IF c = 0 THEN 1 ELSE c
        OBVIOUS
    <2>5. T = [at |-> k + m * u, clamped |-> us > UINT32_MAX]
        BY <1>1, <1>5, <2>1, <2>2, <2>3, <2>4 DEF Timeout, MacTimeout
    <2>6. m * u \in Nat /\ us * u \in Nat /\ u \in Nat \ {0}
        OBVIOUS
    <2>7. m * u <= N + u - 1
        <3>1. CASE m <= us
            <4>1. m * u <= us * u
                BY <3>1
            <4> QED
                BY <2>2, <2>6, <4>1
        <3>2. CASE m = 1
            BY <1>3, <2>6, <3>2
        <3> QED
            BY <2>3, <2>4, <3>1, <3>2, TimedWaitAssumption
    <2>8. ASSUME UnitsFit, DeadlineFits, us <= UINT32_MAX PROVE m * u >= N
        <3>1. N + u <= U64 * u
            <4>1. Ns(duration) + MaxLag + Resolution + u <= U64 * u
                BY <1>5, <2>1, <2>8, TimedWaitAssumption DEF UnitsFit
            <4>2. N <= Ns(duration) + MaxLag + Resolution
                BY <1>2, <2>8, Numbers DEF RemainingOK, DeadlineOK, ClockOK
            <4>3. U64 * u \in Int
                BY TimedWaitAssumption
            <4> QED
                BY <2>6, <4>1, <4>2, <4>3, Numbers
        <3>2. us <= m
            BY <2>3, <2>4, <2>8
        <3>3. us * u <= m * u
            BY <2>6, <3>2
        <3> QED
            BY <2>2, <2>6, <3>1, <3>3
    <2>9. T.at = k + m * u /\ T.clamped = (us > UINT32_MAX)
        BY <2>5
    <2>10. T.at \in Int /\ T.clamped \in BOOLEAN
        BY <2>6, <2>9
    <2>11. T.at <= k + N + (u - 1)
        BY <2>6, <2>7, <2>9
    <2>12. DeadlineFits /\ UnitsFit /\ ~T.clamped => T.at >= k + N
        <3> SUFFICES ASSUME DeadlineFits, UnitsFit, ~T.clamped PROVE T.at >= k + N
            OBVIOUS
        <3>1. ~(us > UINT32_MAX)
            BY <2>9
        <3>2. m * u >= N
            BY <2>8, <3>1, TimedWaitAssumption
        <3> QED
            BY <2>6, <2>9, <3>2
    <2> QED
        BY <1>1, <1>2, <2>1, <2>10, <2>11, <2>12
<1>6. CASE backend = "windows"
    <2>1. PICK u \in 1..NS : u = UnitNs["windows"] /\ u = Unit /\ NS % u = 0
        BY <1>6, TimedWaitAssumption DEF Unit
    <2>2. PICK ms \in Nat :
              /\ ms = Units(ts_remaining, u) /\ ms * u <= N + u - 1
              /\ N + u <= U64 * u => ms * u >= N
        BY <1>2, <1>4, <2>1, UnitsExact
    <2>3. PICK m \in Nat :
              /\ m = IF ms >= UINT32_MAX - 1 THEN UINT32_MAX - 1 ELSE ms
              /\ m <= ms
        BY TimedWaitAssumption
    <2>4. T = [at |-> k + m * u, clamped |-> ms >= UINT32_MAX - 1]
        BY <1>1, <1>6, <2>1, <2>2, <2>3 DEF Timeout, WindowsTimeout
    <2>5. m * u \in Nat /\ ms * u \in Nat /\ u \in Nat \ {0}
        OBVIOUS
    <2>6. m * u <= N + u - 1
        <3>1. m * u <= ms * u
            BY <2>3
        <3> QED
            BY <2>2, <2>5, <3>1
    <2>7. ASSUME UnitsFit, DeadlineFits, ~(ms >= UINT32_MAX - 1) PROVE m * u >= N
        <3>1. N + u <= U64 * u
            <4>1. Ns(duration) + MaxLag + Resolution + u <= U64 * u
                BY <1>6, <2>1, <2>7, TimedWaitAssumption DEF UnitsFit
            <4>2. N <= Ns(duration) + MaxLag + Resolution
                BY <1>2, <2>7, Numbers DEF RemainingOK, DeadlineOK, ClockOK
            <4>3. U64 * u \in Int
                BY TimedWaitAssumption
            <4> QED
                BY <2>5, <4>1, <4>2, <4>3, Numbers
        <3>2. m = ms
            BY <2>3, <2>7
        <3> QED
            BY <2>2, <3>1, <3>2
    <2>8. T.at = k + m * u /\ T.clamped = (ms >= UINT32_MAX - 1)
        BY <2>4
    <2>9. T.at \in Int /\ T.clamped \in BOOLEAN
        BY <2>5, <2>8
    <2>10. T.at <= k + N + (u - 1)
        BY <2>5, <2>6, <2>8
    <2>11. DeadlineFits /\ UnitsFit /\ ~T.clamped => T.at >= k + N
        <3> SUFFICES ASSUME DeadlineFits, UnitsFit, ~T.clamped PROVE T.at >= k + N
            OBVIOUS
        <3>1. ~(ms >= UINT32_MAX - 1)
            BY <2>8
        <3>2. m * u >= N
            BY <2>7, <3>1
        <3> QED
            BY <2>5, <2>8, <3>2
    <2> QED
        BY <1>1, <1>2, <2>1, <2>9, <2>10, <2>11
<1>7. CASE backend = "freebsd"
    <2>1. T = [at |-> k + N, clamped |-> FALSE]
        BY <1>1, <1>2, <1>7 DEF Timeout, RelativeTimeout, At
    <2> QED
        BY <1>1, <1>2, <2>1, Numbers
<1>8. CASE backend \notin {"macos", "windows", "freebsd"}
    <2>1. T = [at |-> Ns(Add(Timespec(k), ts_remaining)), clamped |-> FALSE]
        BY <1>1, <1>8 DEF Timeout, AbsoluteTimeout, At
    <2>2. PICK a \in Normal : a = Timespec(k) /\ Ns(a) = k
        BY TimespecExact
    <2>3. /\ ts_remaining \in Stamp /\ ts_remaining.tv_sec >= 0
          /\ ts_remaining.tv_sec >= -(TIME_MAX + 1)
        BY <1>4, TimedWaitAssumption DEF Stamp
    <2>4. PICK b \in [tv_sec : -(TIME_MAX + 1)..TIME_MAX, tv_nsec : Nat] :
              /\ b = Add(a, ts_remaining) /\ Ns(b) <= k + N
              /\ k + N < (TIME_MAX + 1) * NS => Ns(b) = k + N
        BY <1>2, <2>2, <2>3, AddExact
    <2>5. Ns(b) \in Int
        BY TimedWaitAssumption, NsInt DEF Stamp
    <2>6. ASSUME skew = 0, DeadlineFits, ParkFits
          PROVE  k + N < (TIME_MAX + 1) * NS
        <3>1. k = now + skew
            BY <1>1, <2>6, Numbers
        <3> QED
            BY <1>2, <1>8, <2>6, <3>1, KernelSumFits
    <2>7. T.at = Ns(b) /\ T.clamped = FALSE
        BY <2>1, <2>2, <2>4
    <2>8. T.at \in Int /\ T.clamped \in BOOLEAN
        BY <2>5, <2>7
    <2>9. T.at <= k + N + (Unit - 1)
        BY <2>4, <2>5, <2>7, Numbers
    <2>10. ASSUME skew = 0, DeadlineFits, ParkFits PROVE T.at >= k + N
        BY <2>4, <2>6, <2>7, <2>10
    <2> QED
        BY <1>1, <1>2, <2>8, <2>9, <2>10
<1> QED
    BY <1>5, <1>6, <1>7, <1>8

\* What the kernel is handed is normalised.
LEMMA HandedNormal ==
    ASSUME TypeOK, ClockOK, DeadlineOK, RemainingOK, pc = "park", Refused,
           WellFormed, DeadlineFits
    PROVE  ~ParkFits
<1> SUFFICES ASSUME ParkFits PROVE FALSE
    OBVIOUS
<1>1. Timed /\ backend \notin {"macos", "windows"}
    BY TimedWaitAssumption DEF Refused, Timed
<1>2. /\ ts_remaining \in [tv_sec : Nat, tv_nsec : Nat]
      /\ ts_remaining.tv_nsec < NS
    BY DEF TypeOK
<1>3. CASE backend = "freebsd"
    BY <1>2, <1>3, TimedWaitAssumption DEF Refused, Handed
<1>4. CASE backend # "freebsd"
    <2>1. PICK k \in Nat : k = KernelClock /\ k = now + skew
        BY KernelReading
    <2>2. PICK a \in Normal : a = Timespec(k) /\ Ns(a) = k
        BY TimespecExact
    <2>3. Ns(a) + Ns(ts_remaining) < (TIME_MAX + 1) * NS
        BY <1>1, <2>1, <2>2, KernelSumFits
    <2>5. ts_remaining \in Stamp /\ ts_remaining.tv_sec >= -(TIME_MAX + 1)
        BY <1>2, TimedWaitAssumption DEF Stamp
    <2>6. PICK b \in [tv_sec : -(TIME_MAX + 1)..TIME_MAX, tv_nsec : Nat] :
              /\ b = Add(a, ts_remaining) /\ b.tv_nsec < NS
              /\ b.tv_sec >= ts_remaining.tv_sec
        BY <1>2, <2>3, <2>5, AddExact
    <2>7. Handed = b
        BY <1>4, <2>1, <2>2, <2>6 DEF Handed
    <2>8. b.tv_sec >= 0 /\ b.tv_nsec \in 0..(NS - 1)
        BY <1>2, <2>6, TimedWaitAssumption
    <2> QED
        BY <2>7, <2>8 DEF Refused
<1> QED
    BY <1>3, <1>4

-------------------------------------------------------------------------------
(* The steps *)

\* Zero is a timespec.
LEMMA ZeroType == Zero \in [tv_sec : {0}, tv_nsec : 0..(NS - 1)]
<1>1. NS \in Nat \ {0}
    BY TimedWaitAssumption
<1>2. 0 \div NS = 0
    <2>1. 0 \div NS \in Nat
        BY <1>1, Division
    <2>2. 0 \div NS < 1
        <3>1. 0 < NS * 1
            BY <1>1
        <3> QED
            BY <1>1, <3>1, QuotientBound
    <2> QED
        BY <2>1, <2>2
<1>3. Zero \in Normal
    BY TimespecExact DEF Zero
<1> QED
    BY <1>2, <1>3 DEF Zero, Timespec, Normal

\* The invariant holds when a call is made.
LEMMA InitTime == Init => TimeInv
<1> SUFFICES ASSUME Init PROVE TimeInv
    OBVIOUS
<1>1. TypeOK
    <2>1. Zero \in [tv_sec : -(TIME_MAX + 1)..TIME_MAX, tv_nsec : Nat]
        BY ZeroType, TimedWaitAssumption
    <2>2. Zero \in [tv_sec : Nat, tv_nsec : Nat] /\ Zero.tv_nsec < NS
        BY ZeroType, TimedWaitAssumption
    <2>3. now \in Nat /\ start \in Nat /\ lag \in 0..MaxLag
        BY TimedWaitAssumption DEF Init
    <2>4. clamped \in BOOLEAN /\ changed \in BOOLEAN
        BY DEF Init
    <2> QED
        BY <2>1, <2>2, <2>3, <2>4 DEF Init, TypeOK
<1>2. ClockOK
    BY TimedWaitAssumption DEF Init, ClockOK
<1> QED
    BY <1>1, <1>2
    DEF Init, TimeInv, DeadlineOK, RemainingOK, ResultOK, NoOversleep, NoSpin,
        NeverRefused

\* A step that takes no time and neither sets the deadline nor parks.
LEMMA StillKeepsTime ==
    ASSUME TimeInv, pc # "done",
           UNCHANGED <<backend, now, skew, duration, start, end, lag>>,
           ts_remaining' \in {ts_remaining, Zero},
           wakeAt' \in {wakeAt, FOREVER},
           clamped' \in BOOLEAN, changed' \in BOOLEAN,
           pc' \in {"call", "load", "check", "park", "done"},
           pc' = "call" <=> pc = "call",
           pc' = "park" => pc = "park" /\ ts_remaining' = ts_remaining,
           \/ result' = result
           \/ pc' = "done" /\ result' = "changed"
           \/ pc' = "done" /\ result' = "failed" /\ pc = "park" /\ Refused
    PROVE  TimeInv'
<1> USE DEF TimeInv
<1>0. result = "none"
    BY DEF ResultOK, TypeOK
<1>1. TypeOK'
    <2>1. Zero \in [tv_sec : Nat, tv_nsec : Nat] /\ Zero.tv_nsec < NS
        BY ZeroType, TimedWaitAssumption
    <2>2. /\ ts_remaining' \in [tv_sec : Nat, tv_nsec : Nat]
          /\ WellFormed' => end'.tv_nsec < NS /\ ts_remaining'.tv_nsec < NS
        BY <2>1, SameCall DEF TypeOK
    <2>3. /\ backend' \in Backends /\ now' \in Nat /\ start' \in Nat
          /\ skew' \in Skews \cup {0} /\ duration' \in Durations
          /\ end' \in [tv_sec : -(TIME_MAX + 1)..TIME_MAX, tv_nsec : Nat]
          /\ wakeAt' \in Int \cup {FOREVER} /\ lag' \in 0..MaxLag
        BY DEF TypeOK
    <2>4. result' \in {"none", "changed", "timedout", "failed"}
        BY <1>0
    <2> QED
        BY <2>2, <2>3, <2>4 DEF TypeOK
<1>2. ClockOK'
    BY DEF ClockOK
<1>3. DeadlineOK'
    BY SameCall DEF DeadlineOK
<1>4. RemainingOK'
    BY SameCall DEF RemainingOK
<1>5. ResultOK' /\ NoOversleep' /\ NoSpin'
    BY <1>0 DEF ResultOK, NoOversleep, NoSpin
<1>6. NeverRefused'
    <2>1. result' = "failed" => pc = "park" /\ Refused
        BY <1>0
    <2> QED
        BY <2>1, SameCall, HandedNormal DEF NeverRefused
<1> QED
    BY <1>1, <1>2, <1>3, <1>4, <1>5, <1>6

\* The call sets the deadline.
LEMMA CallKeepsTime ==
    ASSUME TimeInv, Call
    PROVE  TimeInv'
<1> USE DEF TimeInv
<1>0. /\ UNCHANGED <<backend, now, skew, duration, start, ts_remaining, wakeAt,
                     clamped, changed, result, lag>>
      /\ pc = "call" /\ pc' = "load" /\ result = "none"
    BY DEF Call, ResultOK
<1>1. PICK e : e = end'
    OBVIOUS
<1>2. /\ e \in [tv_sec : -(TIME_MAX + 1)..TIME_MAX, tv_nsec : Nat]
      /\ WellFormed => e.tv_nsec < NS
      /\ Timed /\ DeadlineFits =>
            /\ Ns(e) >= start + Ns(duration) - (Resolution - 1)
            /\ Ns(e) <= start + MaxLag + Ns(duration)
    <2>1. CASE Timed
        BY <1>0, <1>1, <2>1, DeadlineSet DEF Call, Timed
    <2>2. CASE ~Timed
        BY <1>1, <2>2, ZeroType, TimedWaitAssumption DEF Call, Timed
    <2> QED
        BY <2>1, <2>2
<1>3. TypeOK'
    <2>1. WellFormed' <=> WellFormed
        BY <1>0, SameCall
    <2>2. /\ WellFormed' => end'.tv_nsec < NS /\ ts_remaining'.tv_nsec < NS
          /\ end' \in [tv_sec : -(TIME_MAX + 1)..TIME_MAX, tv_nsec : Nat]
        BY <1>0, <1>1, <1>2, <2>1 DEF TypeOK
    <2> QED
        BY <1>0, <2>2 DEF TypeOK
<1>4. DeadlineOK'
    <2>1. Ns(end)' = Ns(e)
        BY <1>1 DEF Ns
    <2> QED
        BY <1>0, <1>2, <2>1, SameCall DEF DeadlineOK
<1>5. ClockOK'
    BY <1>0 DEF ClockOK
<1>6. RemainingOK' /\ ResultOK' /\ NoOversleep' /\ NoSpin' /\ NeverRefused'
    BY <1>0 DEF RemainingOK, ResultOK, NoOversleep, NoSpin, NeverRefused
<1> QED
    BY <1>3, <1>4, <1>5, <1>6

\* The check reads the clock.
LEMMA CheckKeepsTime ==
    ASSUME TimeInv, Check
    PROVE  TimeInv'
<1> USE DEF TimeInv
<1>0. /\ UNCHANGED <<backend, now, skew, duration, start, end, wakeAt, clamped,
                     changed>>
      /\ pc = "check" /\ lag' = 0 /\ result = "none" /\ pc' \in {"done", "park"}
    BY DEF Check, Done, ResultOK
<1>1. PICK r : r = ts_remaining'
    OBVIOUS
<1>2. /\ r \in [tv_sec : Nat, tv_nsec : Nat]
      /\ WellFormed => r.tv_nsec < NS
      /\ Timed /\ pc' = "park" =>
            /\ Ns(r) >= 1
            /\ Ns(r) >= Ns(end) - now
            /\ Ns(r) <= Ns(end) - now + (Resolution - 1)
    <2>1. CASE Timed /\ ~Expired(monotonic_now, end)
        <3>1. r = Remaining(end, monotonic_now)
            BY <1>1, <2>1 DEF Check, Timed
        <3> QED
            BY <2>1, <3>1, RemainingSet DEF TypeOK
    <2>2. CASE Timed /\ Expired(monotonic_now, end)
        <3>1. r = ts_remaining /\ pc' = "done"
            BY <1>1, <2>2 DEF Check, Done, Timed
        <3> QED
            BY <3>1 DEF TypeOK
    <2>3. CASE ~Timed
        <3>1. r = ts_remaining
            BY <1>1, <2>3 DEF Check, Timed
        <3> QED
            BY <2>3, <3>1 DEF TypeOK
    <2> QED
        BY <2>1, <2>2, <2>3
<1>3. \/ result' = "none"
      \/ /\ result' = "timedout" /\ pc' = "done" /\ Timed
         /\ WellFormed => Ns(end) <= now
    <2>1. CASE Timed /\ Expired(monotonic_now, end)
        <3>1. PICK a \in Normal : a = monotonic_now /\ Ns(a) <= now
            BY ClockReading DEF TypeOK
        <3>2. WellFormed => Ns(a) >= Ns(end)
            BY <2>1, <3>1, Numbers, ExpiredExact DEF TypeOK
        <3>3. Ns(a) \in Int
            BY NsInt, TimedWaitAssumption DEF Normal, Stamp
        <3> QED
            BY <2>1, <3>1, <3>2, <3>3, Numbers DEF Check, Done, Timed
    <2> QED
        BY <1>0, <2>1 DEF Check, Timed
<1>4. TypeOK'
    <2>1. WellFormed' <=> WellFormed
        BY <1>0, SameCall
    <2>2. /\ WellFormed' => end'.tv_nsec < NS /\ ts_remaining'.tv_nsec < NS
          /\ ts_remaining' \in [tv_sec : Nat, tv_nsec : Nat]
        BY <1>0, <1>1, <1>2, <2>1 DEF TypeOK
    <2>3. lag' \in 0..MaxLag /\ result' \in {"none", "changed", "timedout", "failed"}
        BY <1>0, <1>3, TimedWaitAssumption
    <2> QED
        BY <1>0, <2>2, <2>3 DEF TypeOK
<1>5. RemainingOK'
    <2>1. Ns(ts_remaining)' = Ns(r)
        BY <1>1 DEF Ns
    <2>2. now' - lag' = now
        BY <1>0, Numbers
    <2> QED
        BY <1>0, <1>2, <2>1, <2>2, SameCall DEF RemainingOK
<1>6. DeadlineOK'
    BY <1>0, SameCall DEF DeadlineOK
<1>7. ClockOK'
    BY <1>0, Numbers DEF ClockOK
<1>8. ResultOK'
    BY <1>0, <1>3, SameCall DEF ResultOK
<1>9. NoOversleep' /\ NoSpin' /\ NeverRefused'
    BY <1>0, <1>3 DEF NoOversleep, NoSpin, NeverRefused
<1> QED
    BY <1>4, <1>5, <1>6, <1>7, <1>8, <1>9

\* The park sets the kernel's timer.
LEMMA ParkKeepsTime ==
    ASSUME TimeInv, Park
    PROVE  TimeInv'
<1> USE DEF TimeInv
<1>0. /\ UNCHANGED <<backend, now, skew, duration, start, end, ts_remaining,
                     changed, result, lag>>
      /\ pc = "park" /\ pc' = "asleep" /\ result = "none"
    BY DEF Park, ResultOK
<1>1. /\ wakeAt' \in Int \cup {FOREVER} /\ clamped' \in BOOLEAN
      /\ Timed => wakeAt' \in Int
      /\ Timed /\ skew = 0 =>
            /\ wakeAt' <= now + Ns(ts_remaining) + (Unit - 1)
            /\ DeadlineFits /\ ParkFits /\ UnitsFit /\ ~clamped' =>
                  wakeAt' >= now + Ns(ts_remaining)
    <2>1. CASE Timed
        <3>1. PICK T : T = Timeout(ts_remaining)
            OBVIOUS
        <3>2. wakeAt' = T.at /\ clamped' = T.clamped
            BY <2>1, <3>1 DEF Park, Timed
        <3> QED
            BY <1>0, <2>1, <3>1, <3>2, KernelGivesUp
    <2>2. CASE ~Timed
        <3>1. wakeAt' = FOREVER /\ clamped' = FALSE
            BY <2>2 DEF Park, Timed, At
        <3> QED
            BY <2>2, <3>1
    <2> QED
        BY <2>1, <2>2
<1>2. TypeOK'
    <2>1. WellFormed' => end'.tv_nsec < NS /\ ts_remaining'.tv_nsec < NS
        BY <1>0, SameCall DEF TypeOK
    <2>2. wakeAt' \in Int \cup {FOREVER} /\ clamped' \in BOOLEAN
        BY <1>1
    <2> QED
        BY <1>0, <2>1, <2>2 DEF TypeOK
<1>3. ClockOK' /\ RemainingOK' /\ ResultOK' /\ NeverRefused'
    BY <1>0 DEF ClockOK, RemainingOK, ResultOK, NeverRefused
<1>4. DeadlineOK'
    BY <1>0, SameCall DEF DeadlineOK
<1>5. NoOversleep'
    <2> SUFFICES ASSUME Timed, skew = 0
                 PROVE  /\ wakeAt' # FOREVER
                        /\ wakeAt' <= Ns(end) + lag + (Unit - 1) + (Resolution - 1)
        BY <1>0, SameCall DEF NoOversleep
    <2>1. Ns(ts_remaining) <= Ns(end) - (now - lag) + (Resolution - 1)
        BY <1>0 DEF RemainingOK
    <2> QED
        BY <1>1, <2>1, Numbers, TimedWaitAssumption
<1>6. NoSpin'
    <2> SUFFICES ASSUME Timed, skew = 0, ~clamped', ParkFits, UnitsFit
                 PROVE  wakeAt' >= Ns(end)
        BY <1>0, SameCall DEF NoSpin
    <2>0. DeadlineFits
        <3>1. start + skew + 2 * MaxLag + Ns(duration) < (TIME_MAX + 1) * NS
            BY DEF ParkFits, SumFits
        <3>2. (TIME_MAX + 1) * NS \in Int
            BY TimedWaitAssumption
        <3> QED
            BY <3>1, <3>2, Numbers DEF DeadlineFits, SumFits
    <2>1. Ns(ts_remaining) >= Ns(end) - (now - lag)
        BY <1>0 DEF RemainingOK
    <2> QED
        BY <1>1, <2>0, <2>1, Numbers
<1> QED
    BY <1>2, <1>3, <1>4, <1>5, <1>6

\* Time passes.
LEMMA TickKeepsTime ==
    ASSUME TimeInv, Tick
    PROVE  TimeInv'
<1> USE DEF TimeInv
<1>0. /\ UNCHANGED <<backend, skew, duration, start, pc, end, ts_remaining,
                     wakeAt, clamped, changed, result>>
      /\ pc # "done" /\ now' = now + 1
      /\ result = "none"
    BY DEF Tick, ResultOK
<1>1. /\ lag' \in 0..MaxLag /\ lag' >= lag /\ lag' <= lag + 1
      /\ pc # "asleep" => lag' = lag + 1
    BY Numbers DEF Tick, Sleeping
<1>2. TypeOK'
    <2>1. WellFormed' => end'.tv_nsec < NS /\ ts_remaining'.tv_nsec < NS
        BY <1>0, SameCall DEF TypeOK
    <2>2. now' \in Nat /\ lag' \in 0..MaxLag
        BY <1>0, <1>1, Numbers
    <2> QED
        BY <1>0, <2>1, <2>2 DEF TypeOK
<1>3. ClockOK'
    BY <1>0, <1>1, Numbers DEF ClockOK
<1>4. DeadlineOK'
    BY <1>0, SameCall DEF DeadlineOK
<1>5. RemainingOK'
    <2>1. pc = "park" => now' - lag' = now - lag
        BY <1>0, <1>1, Numbers
    <2> QED
        BY <1>0, <2>1, SameCall DEF RemainingOK
<1>6. ResultOK' /\ NeverRefused'
    BY <1>0 DEF ResultOK, NeverRefused
<1>7. NoOversleep'
    <2> SUFFICES ASSUME pc = "asleep", Timed, skew = 0
                 PROVE  /\ wakeAt # FOREVER
                        /\ wakeAt <= Ns(end) + lag' + (Unit - 1) + (Resolution - 1)
        BY <1>0, SameCall DEF NoOversleep
    <2>1. /\ wakeAt # FOREVER
          /\ wakeAt <= Ns(end) + lag + (Unit - 1) + (Resolution - 1)
        BY DEF NoOversleep
    <2>2. wakeAt \in Int
        BY <2>1 DEF TypeOK
    <2> QED
        BY <1>1, <2>1, <2>2, Numbers
<1>8. NoSpin'
    BY <1>0, SameCall DEF NoSpin
<1> QED
    BY <1>2, <1>3, <1>4, <1>5, <1>6, <1>7, <1>8

\* The realtime clock is set.
LEMMA StepKeepsTime ==
    ASSUME TimeInv, StepRealtime
    PROVE  TimeInv'
<1> USE DEF TimeInv
<1>0. /\ UNCHANGED <<backend, now, duration, start, pc, end, ts_remaining, wakeAt,
                     clamped, changed, result, lag>>
      /\ pc # "done" /\ skew' \in Skews /\ backend = "pthreads_realtime"
      /\ result = "none"
    BY DEF StepRealtime, ResultOK
<1>1. skew' # 0
    BY <1>0, TimedWaitAssumption
<1>2. TypeOK'
    <2>1. WellFormed' => end'.tv_nsec < NS /\ ts_remaining'.tv_nsec < NS
        BY <1>0, SameCall DEF TypeOK
    <2> QED
        BY <1>0, <2>1 DEF TypeOK
<1>3. ClockOK'
    BY <1>0 DEF ClockOK
<1>4. DeadlineOK' /\ RemainingOK'
    BY <1>0, SameCall DEF DeadlineOK, RemainingOK
<1>5. ResultOK' /\ NeverRefused' /\ NoOversleep' /\ NoSpin'
    BY <1>0, <1>1 DEF ResultOK, NeverRefused, NoOversleep, NoSpin
<1> QED
    BY <1>2, <1>3, <1>4, <1>5

\* Every step keeps the invariant.
LEMMA NextKeepsTime == TimeInv /\ [Next]_vars => TimeInv'
<1> SUFFICES ASSUME TimeInv, [Next]_vars PROVE TimeInv'
    OBVIOUS
<1> USE DEF TimeInv
<1>0. clamped \in BOOLEAN /\ changed \in BOOLEAN
    BY DEF TypeOK
<1>1. CASE Load
    BY <1>0, <1>1, StillKeepsTime DEF Load, Done
<1>2. CASE ParkDeclined
    BY <1>0, <1>2, StillKeepsTime DEF ParkDeclined, Resume
<1>3. CASE ParkRefused
    BY <1>0, <1>3, StillKeepsTime DEF ParkRefused, Done
<1>4. CASE KernelTimeout \/ Stir
    BY <1>0, <1>4, StillKeepsTime DEF KernelTimeout, Stir, Resume
<1>5. CASE Notify
    BY <1>0, <1>5, StillKeepsTime DEF Notify, Resume, TypeOK
<1>6. CASE UNCHANGED vars
    <2>1. UNCHANGED <<backend, now, skew, duration, start, pc, end, ts_remaining,
                      wakeAt, clamped, changed, result, lag>>
        BY <1>6 DEF vars
    <2>2. TypeOK'
        BY <2>1, SameCall DEF TypeOK
    <2>3. ClockOK' /\ DeadlineOK' /\ RemainingOK' /\ ResultOK'
        BY <2>1, SameCall DEF ClockOK, DeadlineOK, RemainingOK, ResultOK
    <2>4. NoOversleep' /\ NoSpin'
        BY <2>1, SameCall DEF NoOversleep, NoSpin
    <2>5. NeverRefused'
        BY <2>1, SameCall DEF NeverRefused
    <2> QED
        BY <2>2, <2>3, <2>4, <2>5
<1> QED
    BY <1>1, <1>2, <1>3, <1>4, <1>5, <1>6, CallKeepsTime, CheckKeepsTime,
       ParkKeepsTime, TickKeepsTime, StepKeepsTime
    DEF Next, Waiter

\* TimeInv is an invariant of the specification.
LEMMA TimeHolds == Spec => []TimeInv
    BY InitTime, NextKeepsTime, PTL DEF Spec

\* Deadlines and remaining times keep their shape, and are normalised for a
\* well-formed duration, whatever wraps.
THEOREM TypeCorrect == Spec => []TypeOK
<1>1. TimeInv => TypeOK
    BY DEF TimeInv
<1> QED
    BY <1>1, TimeHolds, PTL

\* No backend gives up before the duration is over, to the resolution of the clock,
\* for every duration whose deadline is a time_t.
THEOREM NeverEarly == Spec => []NoEarlyTimeout
<1>1. TimeInv => NoEarlyTimeout
    <2> SUFFICES ASSUME TimeInv, result = "timedout", DeadlineFits, WellFormed
                 PROVE  now - start > Ns(duration) - Resolution
        BY DEF NoEarlyTimeout
    <2>1. Timed /\ Ns(end) <= now /\ pc # "call"
        BY DEF TimeInv, ResultOK
    <2>2. Ns(end) >= start + Ns(duration) - (Resolution - 1)
        BY <2>1 DEF TimeInv, DeadlineOK
    <2> QED
        BY <2>1, <2>2, Numbers DEF TimeInv
<1> QED
    BY <1>1, TimeHolds, PTL

\* No kernel timer is set beyond the deadline by more than the rounding to its unit
\* and the reading of the clock, and none is set to for ever.
THEOREM NeverOversleeps == Spec => []NoOversleep
<1>1. TimeInv => NoOversleep
    BY DEF TimeInv
<1> QED
    BY <1>1, TimeHolds, PTL

\* No kernel timer that was not cut short goes off before the deadline.
THEOREM NeverSpins == Spec => []NoSpin
<1>1. TimeInv => NoSpin
    BY DEF TimeInv
<1> QED
    BY <1>1, TimeHolds, PTL

\* No backend hands its kernel a timespec that is refused with EINVAL.
THEOREM KernelAccepts == Spec => []NeverRefused
<1>1. TimeInv => NeverRefused
    BY DEF TimeInv
<1> QED
    BY <1>1, TimeHolds, PTL
===============================================================================
