------------------------------ MODULE KernelProxy ------------------------------
(***************************************************************************)
(* The hash-table path on a kernel with a 32-bit wait-on-address primitive *)
(* (macOS and FreeBSD for the widths their kernel lacks, and Linux, whose  *)
(* futex is the one modelled).                                             *)
(* Each proxy is a generation counter; a notify bumps it and wakes, a      *)
(* waiter parks on the generation it captured.  These backends come here   *)
(* only from atomic_wait_*, atomic_notify_one_* and atomic_notify_all_*:   *)
(* the timed wait and the compare-exchange notify are 4 bytes wide and use *)
(* the kernel directly, so Next has no clock and no CasNotify.             *)
(***************************************************************************)
EXTENDS WaitNotify

CONSTANT GenModulus     \* the generation is an atomic_uint_least32_t: 2^32

ASSUME GenModulusAssumption == GenModulus \in Nat /\ GenModulus > 1

VARIABLES
    generation,         \* proxy -> its atomic
    item_counter        \* thread -> the generation it captured

kernelVars == <<generation, item_counter>>
vars == <<waitNotifyVars, kernelVars>>

Init ==
    /\ WaitNotifyInit
    /\ generation = [p \in Proxies |-> 0]
    /\ item_counter = [t \in Threads |-> 0]

-------------------------------------------------------------------------------
(* Waiting *)

\* A created proxy starts at generation 0; GET_COUNTER under the table lock,
\* before the value is checked again.
CaptureGeneration(t) ==
    /\ Register(t)
    /\ generation' = IF table[object[t]] = NULL
                     THEN [generation EXCEPT ![item'[t]] = 0] ELSE generation
    /\ item_counter' = [item_counter EXCEPT ![t] = generation'[item'[t]]]

\* wait_on_address32(&item->atomic, item_counter, NULL): the kernel compares
\* and queues the thread in one step, or returns EAGAIN.
Park(t) ==
    /\ pc[t] = "park"
    /\ pc' = [pc EXCEPT ![t] = IF generation[item[t]] = item_counter[t]
                               THEN "parked" ELSE "recount"]
    /\ UNCHANGED <<memory, call, item, result, calls, kernelVars>>

\* Any error but EAGAIN, EINTR and ETIMEDOUT.
ParkFails(t) ==
    /\ WaitMayFail
    /\ pc[t] = "park"
    /\ HardError(t)
    /\ UNCHANGED <<memory, call, item, observed, calls, kernelVars>>

\* EINTR, or a wake without a notify.
SpuriousWake(t) ==
    /\ pc[t] = "parked"
    /\ pc' = [pc EXCEPT ![t] = "recount"]
    /\ UNCHANGED <<memory, call, item, result, calls, kernelVars>>

\* GET_COUNTER after the park and before the load at the top of the loop.
Recount(t) ==
    /\ pc[t] = "recount"
    /\ item_counter' = [item_counter EXCEPT ![t] = generation[item[t]]]
    /\ pc' = [pc EXCEPT ![t] = "load"]
    /\ UNCHANGED <<memory, call, item, result, calls, generation>>

-------------------------------------------------------------------------------
(* Notifying *)

\* Mutants: the proxy is a flag; the counter has no width.
GenerationFlag(g) == 1 - g
GenerationUnbounded(g) == g + 1

NextGeneration(g) == (g + 1) % GenModulus

\* The fetch_add of the proxy's WAKE, under the table lock.
Bump(t) ==
    /\ pc[t] = "nlock"
    /\ lock = NULL
    /\ table[object[t]] # NULL
    /\ lock' = t
    /\ generation' = [generation EXCEPT ![table[object[t]]] =
                         NextGeneration(@)]
    /\ pc' = [pc EXCEPT ![t] = "nwake"]
    /\ UNCHANGED <<value, table, use_count, call, item, result, calls,
                   item_counter>>

Queue(p) == {t \in Threads : pc[t] = "parked" /\ item[t] = p}

\* Mutant: (unsigned) -1 reaches FUTEX_WAKE as -1.
NrWakeUnclamped(m) == IF m > INT_MAX THEN m - (UINT_MAX + 1) ELSE m

\* The signed count FUTEX_WAKE takes.
NrWake(m) == IF m > INT_MAX THEN INT_MAX ELSE m

\* futex_wake: up to nr queued threads, at least one of them if any is queued.
FutexWake(q, nr) ==
    {s \in SUBSET q : Cardinality(s) =
        IF Cardinality(q) <= nr THEN Cardinality(q)
        ELSE IF nr < 1 THEN 1 ELSE nr}

\* wake_by_address32 and the unlock.
Wake(t) ==
    /\ pc[t] = "nwake"
    /\ \E s \in FutexWake(Queue(table[object[t]]), NrWake(max[t])) :
          /\ pc' = [u \in Threads |-> IF u = t THEN "notified"
                                      ELSE IF u \in s THEN "recount" ELSE pc[u]]
          /\ ret' = [ret EXCEPT ![t] = Cardinality(s)]
    /\ lock' = NULL
    /\ UNCHANGED <<value, table, use_count, call, item, observed, errno,
                   errno_is_set, calls, kernelVars>>

WakeFails(t) ==
    /\ WakeMayFail
    /\ pc[t] = "nwake"
    /\ ret' = [ret EXCEPT ![t] = -1]
    /\ pc' = [pc EXCEPT ![t] = "notified"]
    /\ lock' = NULL
    /\ UNCHANGED <<value, table, use_count, call, item, observed, errno,
                   errno_is_set, calls, kernelVars>>

-------------------------------------------------------------------------------
Call(t) ==
    /\ \/ \E o \in Objects, e \in Expects : BeginWait(t, o, e, "none")
       \/ \E o \in Objects, m \in BareWakes : BareNotify(t, o, m)
       \/ \E o \in Objects, v \in Stores, m \in StoreWakes :
             StoreNotify(t, o, v, m)
    /\ UNCHANGED kernelVars

\* What a thread inside the library does next.
Step(t) ==
    \/ Load(t) /\ UNCHANGED kernelVars
    \/ CaptureGeneration(t)
    \/ RegisterFails(t) /\ UNCHANGED kernelVars
    \/ Recheck(t) /\ UNCHANGED kernelVars
    \/ Park(t)
    \/ ParkFails(t)
    \/ Recount(t)
    \/ Release(t) /\ UNCHANGED kernelVars
    \/ NobodyWaits(t) /\ UNCHANGED kernelVars
    \/ Bump(t)
    \/ Wake(t)
    \/ WakeFails(t)

\* Every call has returned and the bounds allow no other.
Done ==
    /\ \A t \in Threads : pc[t] \in Quiescent
    /\ waits = MaxWaits
    /\ notifies = MaxNotifies
    /\ UNCHANGED vars

Next ==
    \/ \E t \in Threads : Call(t) \/ Step(t) \/ SpuriousWake(t)
    \/ Done

Spec == Init /\ [][Next]_vars

-------------------------------------------------------------------------------
(* Properties *)

WaitPC == {"load", "register", "recheck", "park", "parked", "recount",
           "release"}

TypeOK ==
    /\ WaitNotifyTypeOK
    /\ pc \in [Threads -> Quiescent \cup WaitPC \cup {"nlock", "nwake"}]
    /\ generation \in [Proxies -> 0..(GenModulus - 1)]
    /\ item_counter \in [Threads -> 0..(GenModulus - 1)]

\* A notify-all of o that has still to bump, or to wake.
NotifyAllPending(o) ==
    \E n \in Threads : /\ pc[n] \in {"nlock", "nwake"}
                       /\ object[n] = o
                       /\ max[n] = UINT_MAX

\* The promise of the generation counter: no waiter is asleep on a value that
\* is gone, unless the notify that will wake it is still to come.  The window
\* between the last check of the value and the park is the one at stake.
NoLostWake ==
    \A t \in Threads :
        pc[t] = "parked" /\ Changed(t) => NotifyAllPending(object[t])

\* The void waits discard the result of atomic_wait_generic, so for their
\* callers a return means that the value changed: atomic_wait.h has a wait whose
\* value still equals expected park again.
VoidWaitReturnsChanged ==
    \A t \in Threads : pc[t] = "waited" => observed[t] # NULL

\* A notifier between bump and wake works on a proxy the table still holds: the
\* last waiter, which the bump alone may send home, cannot free it under the
\* notifier.
NotifierKeepsProxy ==
    \A t \in Threads : pc[t] = "nwake" => table[object[t]] # NULL

GenerationKept ==
    \A t \in Threads :
        /\ Registered(t)
        /\ item'[t] = item[t]
        /\ item_counter'[t] = item_counter[t]
        /\ generation[item[t]] # item_counter[t]
        => generation'[item[t]] # item_counter[t]

\* While a waiter is registered its proxy's generation never goes back to one
\* that the waiter captured earlier and that a notify has since ended, not even
\* through the reuse of a freed proxy.
GenerationNeverReturns == [][GenerationKept]_vars
===============================================================================
