# Verification of wg14_atomic_waits

TLA+ models of the reference implementation of `atomic_wait`, `atomic_notify_*`,
`atomic_wait_expected` and `atomic_notify`, checked with TLC, and their safety
proved with TLAPS.

Paths below are relative to `src/include/wg14_atomic_waits/detail/impl/` unless
they say otherwise; *common* is `atomic_wait_common.ipp.ipp` and *pthreads* is
`atomic_wait_pthreads.c.ipp`.

## The system

The library lets a thread sleep until an atomic no longer holds an expected
value, and lets another one wake it. Where the kernel can wait on an address of
the right width, the call goes straight to the kernel. Everywhere else it goes
through a process-wide hash table, which gives every object that has waiters a
*proxy* to sleep on.

| Component | State | Operations | Interacts with |
|---|---|---|---|
| Generic wait and notify (*common* 495-672) | locals of the call: `item`, `item_counter`, `ret`, `errno_is_set`, `lock_is_held` | `atomic_wait_generic`, `atomic_notify_generic` | table under its lock; the proxy macros |
| Proxy hash table (*common* 99-412) | `buckets`, `bucket_count`, `count`, spinlock | `find_or_create`, `grow`, `remove_item` | allocator; every operation runs under the lock |
| Generation-counter proxy (*common* 29-62) | one 32-bit counter per proxy | INIT, GET_COUNTER, WAIT, WAKE | `wait_on_address32`, `wake_by_address32` |
| pthreads backend (*pthreads*) | mutex, condition variable, `pending`, `waiting` per proxy | `pthread_proxy_init`, `_wait`, `_wake`, `_destroy` | pthreads; all widths and the timed calls come here |
| Void API per width (*common* 677-814) | none | `atomic_wait_N`, `atomic_notify_one_N`, `atomic_notify_all_N` | kernel or hash table, by width and backend |
| Timed wait, compare-exchange notify (*common* 816-938) | the deadline | `atomic_wait_expected_32`, `atomic_notify_32` | kernel on native backends, hash table on pthreads |
| Linux, macOS, FreeBSD, Windows backends | none | `wait_on_addressN`, `wake_by_addressN` | the kernel; unit conversions of timeouts and counts |
| Clock and deadlines (*common* 458-520, 591-614) | none | `monotonic_now`, `timespec` arithmetic | both wait loops |
| Dispatch macros (`atomic_wait.h`) | none | choice of function by `sizeof`, of backend by platform | compile time only |

What is hard here: a notify that falls between a waiter's last look at the value
and its park; the lifetime of a proxy shared by waiters and notifiers; exits of
the wait by change, timeout and error that must all give back the reference, the
lock and the right `errno`; tokens that outlive the waiter they were meant for;
signed, unsigned and narrow counts; open addressing with tombstones that must
never hide or double a key. `PROJECT.json` lists these hazards by line.

Correctness, per component:

- *wait and notify*: no lost wake; every wait whose value has gone ends; results,
  `*expected` and `errno` agree; references are exact and no freed proxy is used;
- *table*: every key findable, once, counted; an entry exactly while referenced;
  growth loses nothing; calls end; all of it together: it is a map;
- *pthreads proxy*: parked count exact on every exit, token pile never negative;
- *timed wait*: ends, reports a timeout only after the deadline, neither spins nor
  oversleeps, whatever unit and clock the kernel goes by;
- *backends and dispatch*: wait and notify of a width meet in the same place, and
  all backends keep one contract.

## Modules

| Module | Models |
|---|---|
| `AtomicWait` | the contract: what a caller of wait and notify may rely on, without tables, proxies, tokens or locks |
| `WaitNotify` | the control every hash-table wait and notify shares, over an abstract table; one action per step of the loop of `atomic_wait_generic`, and the entry of each notify; the refinement mapping to `AtomicWait` |
| `KernelProxy` | extends it with the generation counter and a futex |
| `KernelBackends` | extends that with the calls of `atomic_wait.h`, the choice of route by width and backend, and the native loops on Linux, macOS, FreeBSD and Windows |
| `PthreadsProxy` | extends `WaitNotify` with tokens, condition variable, timeouts, and the compare-exchange notify |
| `TimedWait` | deadline arithmetic, the clocks, and each backend's conversion of the remaining time, in a wait whose steps the clock interrupts |
| `ProxyMap` | what the hash table promises: a map from objects to reference-counted proxies, in which a call gets the proxy of its own key, a lookup never misses and only an insert may fail |
| `HashTable` | the open-addressing table itself |
| `WaitNotifyProofs` | lemmas that both proxies need: counting waiters, and what each step of the shared control is in `AtomicWait` |
| `KernelProxyProofs`, `KernelWakeProofs` | theorems about `KernelProxy` |
| `KernelBackendsProofs` | theorems about `KernelBackends` |
| `PthreadsProxyProofs` | theorems about `PthreadsProxy` |
| `ProbingProofs`, `HashTableProofs` | the arithmetic of the probe path, and theorems about `HashTable` |
| `TimedWaitProofs` | theorems about `TimedWait` |
| `MCKernelProxy`, `MCKernelBackends`, `MCPthreadsProxy`, `MCHashTable`, `MCTimedWait` | symmetry sets, the hash and the sample durations used for model checking |

How they fit: `HashTable` implements `ProxyMap`, which is the table `WaitNotify` works
with; `KernelProxy`, `KernelBackends` and (on one-way flags) `PthreadsProxy` implement
`AtomicWait` (`KeepsPromise`); `TimedWait` justifies the two-valued time of the others:
a wait that they let go at `past` has really lasted its duration.

**The contract.** In `AtomicWait` a waiting thread is awake or asleep. It falls asleep
only if the object still has the expected value or a notify of it is in progress, ends
on a value it saw, after its deadline, or with an error, and may stir at any time. A
notify that ends without reporting a failure has woken all that were asleep or at least
as many as its limit: waking more is allowed, waking fewer is not.

**Granularity.** A step is what runs between two points where another thread can
interfere. The table lock makes a critical section one step, except where the
object, which the lock does not protect, is read inside it (the second check in
`atomic_wait_generic`) or where other threads can see the proxy change without
taking the lock (the bump of the generation and the kernel wake are two steps).
There the variable `lock` shows it held. The proxy mutex of the pthreads backend
guards only the two counters, so each of its critical sections is one step.

**State.** `pc` says where a thread is in the source: `load` (top of the loop),
`register`, `recheck` (under the lock), `time` (clock), `park`, `parked` or
`cond`/`wakeup` (inside the primitive), `recount`, `release` (common tail),
`nlock` (notifier wants the lock), `nwake` (bumped, about to wake), and the
outside states `idle`, `waited`, `notified`. On the native route `load`, `time`, `park`,
`parked` and `nlock` are the same places in `atomic_wait_N`, `atomic_wait_expected_32` and
`atomic_notify_32`, and `item` stays `NULL`. `item`, `item_counter`, `ret`,
`errno_is_set`, `use_count`, `pending` and `waiting` are the code's own variables.
`errno` is `"entry"` for the caller's own value, `"scratch"` after the allocator
has run, or an error. On the native route `RestoresErrno` is what `save_errno` does
around a system call. `observed` is what was written to `*expected`.

**Abstractions.** Outside `TimedWait`, time is `ahead` of or `past` the deadline; a step lets
it pass. `TimedWait` counts nanoseconds, with few of them to a second, and has one
waiter; stores and notifies reach it in one step.
Memory is sequentially consistent: the success order only affects a load whose
value is discarded. In `WaitNotify` a registration may fail whenever memory may,
also for a key that is present, because `find_or_create` may try to grow first.
`INT_MAX` and `LONG_MAX` are small constants; `UINT_MAX` is `2 * INT_MAX + 1` and
conversions between the three wrap as in C. In `HashTable` a probe is one step
(nobody else runs under the lock) and a rehash is one step per old bucket. The
hash is the real one modulo 16, which is all that a table of up to 16 buckets
looks at; keys are chosen so that they collide.

**Environment.** The futex compares and queues atomically, wakes up to the signed
count it is given (at least one), and may return early. A condition variable may
wake spuriously, signal wakes at least one thread, broadcast all; a timed wait may
time out although a signal is on its way, and with CLOCK_REALTIME even early. Waiting on
an address on macOS, FreeBSD and Windows is taken to compare and queue in one step as the
futex does, and may return early. futex, `_umtx_op` and `pthread_cond_timedwait` refuse a timespec that is not
normalised.

**Mutants.** Definitions marked *Mutant* are plausible mistakes in the definition
that follows them. `PROJECT.json` pairs each property with one that breaks it;
no specification uses them.

## Runs

| Run | Shows |
|---|---|
| `KernelNotifyAll` | no lost wake; generations do not return; the path implements `AtomicWait` |
| `KernelFailures` | references, lifetimes, results and `errno` with every call allowed to fail |
| `BackendsSafety` | six backends, 4 and 8 bytes, void and int calls: results as promised, void waits return only on a change even if the kernel fails, wait and notify meet (`AtomicWait`) |
| `BackendsLiveness` | on Linux, 4 bytes by the futex and 8 through the table: waits on a changed value, timed waits and notifies return |
| `PthreadsLatch` | on a flag that only goes one way: no lost wake; `AtomicWait` implemented; waits end once the flag is set, timed waits always |
| `PthreadsFailures` | parked count, token pile, references, results and `errno`, with timeouts and failures |
| `HashTableSafety` | findable, unique, counted, referenced; a rehash places every key; `HashTable` implements `ProxyMap`; every step of a call brings it closer to its return |
| `TimedWaits` | on every backend: no early timeout, no oversleeping beyond a kernel unit, no spinning, no timespec the kernel refuses; timed waits end |

**Bounds.** Three threads let one waiter be parked, one be on its way and one
notify; with up to three waits and two or three notifies (`MaxWaits`, `MaxNotifies`) a thread
can wait, leave and come back to a proxy that was freed and made again, or find
tokens of an earlier round. The runs on all backends have two of each. Two values make a value go and come back. One object
is enough where objects do not interact; `KernelFailures` has two, with two
proxies whose memory they exchange. `INT_MAX = 3` is the least that covers the
threads, and 7 is then `(unsigned) -1`. `GenModulus` is 4 where the generation
must not wrap (at most three notifies) and 2, so that it wraps all the time, where
the property must not depend on it. The tables go from 4 to 8 buckets with three
or four keys of which several share a path; memory may run out at every
allocation. `KernelNotifyAll`, `PthreadsLatch` and `BackendsLiveness` assume that whoever stores
notifies all, since the library promises no wake to a store without a notify
(*the proposal's NOTE 1 lets a store wake a waiter; this path never does*) nor to
all waiters from a notify-one.

`BackendsSafety` takes the widths 4 and 8, where backends differ; 1 and 2 go with 8 on
Linux and with 4 on Windows. A store is followed by a notify of one or of all; allocation,
park and wake may fail on the table's route and, in half of its behaviours, the primitives
of the native one.
`BackendsLiveness` has only Linux, which has both routes; the loops of the others are
the same code. `TimedWait` has seconds of 8 nanoseconds, microseconds of 2, milliseconds
of 4 and 3-bit counters in place of 32-bit ones, so that durations of a few seconds pass
every carry, borrow, rounding and clamp. `TIME_MAX` is 9 seconds: the durations include
zero, negative, one whose deadline reaches the last second of a `time_t` and, for the
latest start, just leaves it, one beyond, and one with too many nanoseconds. Three ticks of
the Windows counter make a second, which is no whole number of nanoseconds to a tick.
`MaxLag` ticks may pass between two steps of the waiter. The realtime clock is set at
most once, back or forward.

**Fairness.** A thread inside the library that can take a step eventually does:
weak fairness per thread. Nobody has to call the library and a spurious wake never
has to come. The table lock is an unfair spinlock, so weak fairness alone would not
give it to a thread under endless contention; in the runs the number of calls is
bounded, contention ends, and what they show is that nobody keeps the lock. In
`PthreadsProxy`, `KernelBackends` and `TimedWait` time passes, and a kernel wait past its
timeout returns, as POSIX and the kernels have it. `HashTable` needs no fairness:
`CallProgress` bounds the steps of a call, and TLC finds no state where it is stuck.

### Disagreements between the code and what is said of it

Each is a run that TLC must find violated; `findings` quotes the lines.

| Run | What the code does |
|---|---|
| `PthreadsTokenTheft` | tokens are anonymous. A waits on 0 and has not parked; the value becomes 1 with notify-all, one token; B registers on 1 and takes the token when it parks; A parks without one and sleeps on a value that is gone |
| `PthreadsLong32` | where `long` has 32 bits, a limit above `LONG_MAX` (other than `UINT_MAX`) makes `pending` negative and the waiter that was woken blocks again |
| `KernelVoidWait` | a void wait that cannot register for lack of memory returns with the value unchanged |
| `HashTableTombstones` | at the maximum size, once every slot has been used, an insert of a new key fails with ENOMEM however empty the table is |

Further remarks, not runs.

- *64-bit waits on 32-bit FreeBSD.* `wait_on_address64` passes `(long) expected`
  (`atomic_wait_freebsd.c.ipp` 118, 124) and is not limited to 64-bit targets, as the one
  of Windows is (`_WIN64`), so the kernel compares half of the object. With `Backends =
  {"freebsd32"}`, `Widths = {8}` and values that differ in the upper half (`Values = {0, 2}`
  with `LongModulus = 2`), TLC finds `KeepsPromise` violated: the store comes between the
  load and the park, the kernel sees no change, and the waiter sleeps after the notify.
- *Durations near `TIME_MAX`.* The sum that makes the deadline overflows (*common* 513,
  835), signed, and as built wraps: a wait "practically for ever" times out at once, where
  `atomic_wait.h:335` has it wait at least `*duration`. `NoEarlyTimeout` carries the
  condition `DeadlineFits`. Just below that, on Linux and with pthreads, the sum of the
  remaining time and a later reading of the clock may overflow instead, and the kernel
  refuses it with `EINVAL` (`ParkFits` in `NeverRefused`; `NoSpin` carries it as well).
- *Very long remaining times in small units.* The products of the macOS and Windows
  conversions are reduced modulo 2^64; beyond some 10^13 and 10^16 seconds they may come
  out small, and the loop wakes often until the deadline. `NoSpin` carries the condition
  `UnitsFit`.
- *Malformed durations.* `tv_nsec` is not checked. One carry does not normalise
  a second or more of nanoseconds: the comparison then ends the wait early, or Linux,
  FreeBSD and pthreads refuse the timeout and the wait fails with `EINVAL`.
- *Dead branch.* The remaining time is positive and rounded up, so the macOS conversion
  never reaches its `timeout_us == 0`.
- *A limit of 0.* `atomic_notify` returns 0 for `max_threads_to_wake == 0` before it has
  tried the exchange (*common* 912), also if the object equals `*expected`, and leaves
  `*expected` alone. `atomic_wait.h:381` says of a result of 0 that the compare-exchange
  failed, and `src/docs/proposal.md:152` that "in all cases" `*expected` is the value found
  by it. `src/plans/combined-analysis.md:41` lists it (1.10), and
  `src/test/atomic_notify_more_test.c:35` tests for what the code does. `NotifyContract`
  states it as the exception it is; without that (`ret[t] = 0` implying `observed[t] \in
  Values \ {expected[t]}`) TLC finds the property violated by one call.
- *Limits.* macOS and Windows wake all for every limit but 1, which the contract allows.
- *Windows clock.* A timeout may come up to one tick of the performance counter early, and
  a nanosecond more where its frequency does not divide 10^9: `monotonic_now` rounds down
  twice (`Resolution`).

From reading: the generation is called "monotonically
increasing" (*common* 42) and wraps after 2^32 notifies, which matters only if
exactly that many fall between one capture and one park. `ret` becomes 1 on
leaving the registration (*common* 588), so a wait can return a positive number
without having been suspended, where `src/include/wg14_atomic_waits/atomic_wait.h:353`
says it was. And `atomic_wait.h:258` says that `atomic_wait` blocks until the object *equals*
`expected`, where code and proposal have it block while it does.

## Proofs

The theorems hold for every finite set of threads, any sets of objects, values, proxies
and limits, and any bounds. They rest on the named assumptions about constants in the
modules that declare them (`WaitNotifyAssumption`: finitely many threads, no more than
`INT_MAX`, `NULL` is nothing else; `GenModulusAssumption`; `BackendsAssumption`;
`PthreadsAssumption`; `HashTableAssumption`; `TimedWaitAssumption`), which TLC evaluates on
every run. What a theorem needs beyond them is a hypothesis of its statement.

| Theorem | Property | Hypotheses |
|---|---|---|
| `KernelProxyProofs`: `TypeCorrect`, `AccountingCorrect`, `NoUseAfterFree`, `NotifierSafe`, `ReturnsAsPromised` | `TypeOK`, `ProxyAccounting`, `NoDanglingProxy`, `NotifierKeepsProxy`, `WaitContract` | none |
| `KernelWakeProofs`: `GenerationsMoveOn`, `KernelKeepsPromise` | `GenerationNeverReturns`, `KeepsPromise` | fewer notifies than generations |
| `KernelWakeProofs`: `NoWakeIsLost` | `NoLostWake` | the same; stores notify all; wakes do not fail |
| `KernelBackendsProofs`: `AllWaitsReturnAsPromised`, `VoidWaitsSeeChange`, `NotifiesReturnAsPromised`, `AllAccountingCorrect` | `WaitContract`, `VoidWaitSeesChange`, `NotifyContract`, `ProxyAccounting` | none |
| `KernelBackendsProofs`: `BackendsKeepPromise` | `KeepsPromise` | fewer notifies than generations; `WordsTell` |
| `PthreadsProxyProofs`: `AccountingCorrect`, `NoUseAfterFree`, `ParkedCounted`, `ReturnsAsPromised` | `ProxyAccounting`, `NoDanglingProxy`, `WaitingExact`, `WaitContract` | none |
| `PthreadsProxyProofs`: `TypeCorrect` | `TypeOK` | `LimitsFit` |
| `PthreadsProxyProofs`: `NoWakeIsLost`, `PthreadsKeepsPromise` | `NoLostWake`, `KeepsPromise` | `LimitsFit`, `FlagUse` |
| `HashTableProofs`: `TypeCorrect`, `EntriesFound`, `KeysUnique`, `CountCorrect`, `ReferencesCorrect`, `RehashNeverFails`, `CallsProgress`, `TableImplementsMap` | `TypeOK`, `Findable`, `NoDuplicateKey`, `CountExact`, `EntriesReferenced`, `RehashPlaces`, `CallProgress`, `MapSpec` | none |
| `TimedWaitProofs`: `TypeCorrect`, `NeverEarly`, `NeverOversleeps`, `NeverSpins`, `KernelAccepts` | `TypeOK`, `NoEarlyTimeout`, `NoOversleep`, `NoSpin`, `NeverRefused` | none |

**The generation counter.** `KernelProxyProofs` has one inductive invariant `Inv`. The
accounting alone is not inductive: `Release` frees the proxy of its last waiter, and that no
notifier is between bump and wake then needs `LockOK` (who is at `recheck` or `nwake` holds
the lock); that the freed proxy is its own needs `NoDanglingProxy` and `RegisteredOK` (a
waiter holds a proxy exactly at the steps past registration); that the count reaches zero
exactly for the last needs the cardinality lemmas `WaitersAdd`, `WaitersRemove` and
`OnlyWaiter` of `WaitNotifyProofs`. `LocalStepPreservesInv` covers the steps that touch
neither table nor references. `ReturnsAsPromised` has a second invariant, `ResultOK`, which
follows the result and `errno` through the loop.

`KernelWakeProofs` adds `GenerationInv`. A waiter about to park is safe only because a
change after its last look either still owes a bump or has already moved the generation
past its capture (`ParkSafe`), which holds across a bump because captures never lie in the
future (`CapturesPast`) and the counter does not wrap (`NoWrap`: generation plus notifiers
still to bump is at most the number of notifies). Nothing of this depends on how many a
notify wakes or on whether calls fail. That no wake is lost does: `NoLostWake` is inductive
beside the two invariants if a store is followed by a wake of all that does not fail, and
`WakeAll` is where the clamp to `INT_MAX` enters. The lemmas about one step are stated under
`Around(t)`, what such a step needs of the rest of the state, rather than under `Inv`, so
that they also hold of the table's route of `KernelBackends`, where `Inv` does not.

**The contract.** For each action there is a lemma *...Promised* that says which step of
`AtomicWait` it is, or that it is none; those of the shared control are in
`WaitNotifyProofs`, those of park and wake with each proxy. The two hard ones are parking
(`ParkSafe`, or `EnoughTokens` below, gives that the value is the expected one or a notify
is in progress) and the end of a notify, which must have woken as many as it owes
(`PromiseEndNotify`) or have failed (`PromiseMisfire`).

**The kernels.** `AllInv` of `KernelBackendsProofs` is `SharedOK` (table, references and
lock) and `ThreadOK(t)` for every thread, so that a step of one thread is checked for that
thread and `UntouchedOK` covers the others. Its heart is `RouteOK`: the routes do not mix,
because width and backend are fixed and `HaveWait` and `HaveWake` agree. It makes the
references exact while native waiters, who sleep at the same object, hold none.
`ErrnoRestored` says that a system call leaves `errno` alone once `save_errno` is back.
`NotifyContract`, which states apart what a limit of 0 does, needs `INT_MAX > 1`: macOS, FreeBSD and Windows report a made-up count, to which
`atomic_notify` adds 1. `BackendsKeepPromise` needs `WordsTell`: where FreeBSD's
8-byte wait compares a 32-bit `long`, the values in use differ in that word. The first of
the further remarks above shows what happens when they do not.

**Tokens.** `Inv` of `PthreadsProxyProofs` replaces the generation by `WaitingExact`.
`TokensOK` adds that no pile exceeds the number of threads; it needs `LimitsFit`, that every
limit fits a `long` or is the one that means all, as everything an `unsigned` can say does
where `long` has 64 bits. `FlagUse` says that a value once stored is none that a wait
expects, that the notify after a store covers every thread, and that it does not fail; bare
notifies, timeouts, spurious wakeups, failing waits and failing registrations stay. Then
`EnoughTokens` is inductive: after the notify nobody is blocked, and there are at least as
many tokens as waiters on their way to sleep. A waiter that takes a token is one of them, so
the two sides fall together. Neither hypothesis can be dropped: `PthreadsTokenTheft`
violates `NoLostWake` without `FlagUse`, `PthreadsLong32` without `LimitsFit`.

**The table.** That a rehash finds a free slot rests on arithmetic: triangular steps modulo
a power of two visit every slot. The difference of the numbers of steps m and n is half of
(m - n)(m + n + 1), of which one factor is odd, so no two steps fall on one slot
(`StepsApart`), and a map of the slots to themselves that is one-to-one is onto
(`ProbeVisitsEverySlot`). `PowerOfTwo(n)` is stated as "every divisor of n but 1 is even",
and least counterexamples (`Minimum`) stand in for induction. Every probe of a table with a
slot never used therefore ends (`FreeSlotFound`). `Inv` of `HashTableProofs` has `TableOK` of the current table and
`RehashOK` of the one a growth is filling: it holds the buckets moved so far and nothing
else. `TableImplementsMap` maps the key and kind of the call under way, too, so that each
return is the answer of the map to that call: a search that ends without its key shows that
the key has no entry (`MissedHoldsNone`, from `Findable`; `ExhaustedHoldsNone`, from
`ProbeVisitsEverySlot`), and one that stops at it has the one entry there is. `ProxyOf`
changes only at the key of the step (`KeysUnique`) and not at all when the tables are
exchanged.

**Time.** `TimeInv` relates `end` to the call (`DeadlineOK`) and `ts_remaining` to `end`
(`RemainingOK`), each up to `lag`, the time a waiter took between two steps, and to the
resolution of the clock, for any frequency of the Windows counter (`ClockReading`). `Ns` of
the wrapped sums is exact under `DeadlineFits` and `ParkFits`, which say no more than that
the sums, read as late as they may be, stay below the end of `time_t`; without them it can
only be too small, so `NoOversleep` holds even then. Rounding to the unit of a kernel and the wrap
modulo 2^64 are in the lemmas on `Units`.

**Only model-checked.** Liveness: `AllWaitsEnd`, `AllNotifiesEnd`, `WaitEnds`,
`TimedWaitEnds` and `TimedCallEnds`, since fairness and ENABLED are beyond the prover. The
violations below *Disagreements* are counterexamples, which TLC gives.

## Not modelled

- Weak memory orders: the models are sequentially consistent.
- Configuration, linkage, `_TIME_BITS` and the build: no run-time state.
- `abort()`: on a failing `pthread_proxy_destroy`, which runs only on a proxy nobody holds
  (`ProxyAccounting`, `WaitingExact`), on a clock that cannot be read, and on a width that
  the header's static assertion excludes.
- A void wait or a notify of 1 or 2 bytes is in the model (`Natives`) and not in a run.
- Negative `tv_nsec`; a torn read of the static `freq` of the Windows clock.
- A fair table lock: the code has none.

## Plan

Done, in this order: `WaitNotify`, `KernelProxy` and its runs; `PthreadsProxy`;
`ProxyMap` and `HashTable`; proofs of the generation-counter path; `AtomicWait` and the
refinements; `KernelBackends`; `TimedWait`; proofs about `HashTable`, `PthreadsProxy`,
`TimedWait` and `KernelBackends`, with the safety half of every refinement.

Next, most important first:

1. `PthreadsProxy`: a weaker `FlagUse`, so that a flag may be cleared while nobody waits.
2. `KernelWakeProofs`: a bound on the notifies between one capture and its park in place
   of one on all notifies, which is all that wrapping can disturb.
3. `KernelBackends`: `NoLostWake` stated for both routes; so far it follows from
   `BackendsKeepPromise` only through the contract.
