----------------------------- MODULE PthreadsProxy -----------------------------
(***************************************************************************)
(* The portable backend (detail/impl/atomic_wait_pthreads.c.ipp): a proxy  *)
(* is a mutex, a condition variable, a pile of wake tokens (pending) and a *)
(* count of parked threads (waiting).  Every width, the timed wait and the *)
(* compare-exchange notify come here.                                      *)
(*                                                                         *)
(* The proxy mutex is never seen held: each of its critical sections is    *)
(* one step, and a thread inside pthread_cond_wait is at "cond" while it   *)
(* is blocked and at "wakeup" once it is awake but has no mutex yet.       *)
(***************************************************************************)
EXTENDS WaitNotify

CONSTANTS
    LONG_MAX,       \* largest C long: INT_MAX where long is as wide as int
    CasWakes        \* max_threads_to_wake passed to atomic_notify

ASSUME PthreadsAssumption ==
    /\ LONG_MAX \in Nat /\ LONG_MAX >= INT_MAX
    /\ CasWakes \subseteq 0..UINT_MAX

VARIABLES
    pending,        \* proxy -> wake tokens not yet consumed
    waiting         \* proxy -> threads in pthread_cond_wait

proxyVars == <<pending, waiting>>
vars == <<waitNotifyVars, proxyVars>>

Init ==
    /\ WaitNotifyInit
    /\ pending = [p \in Proxies |-> 0]
    /\ waiting = [p \in Proxies |-> 0]

-------------------------------------------------------------------------------
(* Waiting *)

\* pthread_proxy_init on a created proxy.  There is no counter to capture.
RegisterProxy(t) ==
    /\ Register(t)
    /\ \/ /\ table[object[t]] # NULL
          /\ UNCHANGED proxyVars
       \/ /\ table[object[t]] = NULL
          /\ pending' = [pending EXCEPT ![item'[t]] = 0]
          /\ waiting' = [waiting EXCEPT ![item'[t]] = 0]

\* Mutant: an empty pile hands out a token.
TokenAlways(p) == pending[p] >= 0

HasToken(p) == pending[p] > 0

\* pthread_proxy_wait up to pthread_cond_wait: a token is consumed at once.
Park(t) ==
    /\ pc[t] = "park"
    /\ \/ /\ HasToken(item[t])
          /\ pending' = [pending EXCEPT ![item[t]] = @ - 1]
          /\ pc' = [pc EXCEPT ![t] = "load"]
          /\ UNCHANGED waiting
       \/ /\ ~HasToken(item[t])
          /\ waiting' = [waiting EXCEPT ![item[t]] = @ + 1]
          /\ pc' = [pc EXCEPT ![t] = "cond"]
          /\ UNCHANGED pending
    /\ UNCHANGED <<memory, call, item, result, calls>>

\* pthread_mutex_lock fails.
ParkFails(t) ==
    /\ WaitMayFail
    /\ pc[t] = "park"
    /\ HardError(t)
    /\ UNCHANGED <<memory, call, item, observed, calls, proxyVars>>

\* pthread_cond_wait wakes of its own accord.
SpuriousWake(t) ==
    /\ pc[t] = "cond"
    /\ pc' = [pc EXCEPT ![t] = "wakeup"]
    /\ UNCHANGED <<memory, call, item, result, calls, proxyVars>>

\* pthread_cond_wait returns 0, with the mutex: leave with a token, or block
\* again if there is none.
Resume(t) ==
    /\ pc[t] = "wakeup"
    /\ \/ /\ HasToken(item[t])
          /\ pending' = [pending EXCEPT ![item[t]] = @ - 1]
          /\ waiting' = [waiting EXCEPT ![item[t]] = @ - 1]
          /\ pc' = [pc EXCEPT ![t] = "load"]
       \/ /\ ~HasToken(item[t])
          /\ pc' = [pc EXCEPT ![t] = "cond"]
          /\ UNCHANGED proxyVars
    /\ UNCHANGED <<memory, call, item, result, calls>>

\* Mutant: a waiter that times out still counts as parked.
CondTimeoutCounted(t) ==
    /\ pc[t] \in {"cond", "wakeup"}
    /\ deadline[t] # "none"
    /\ pc' = [pc EXCEPT ![t] = "load"]
    /\ UNCHANGED <<memory, call, item, result, calls, proxyVars>>

\* pthread_cond_timedwait returns ETIMEDOUT, even if a signal was on its way.
\* With CLOCK_REALTIME, which may be set, it can do so before the deadline of
\* the wait loop, which reads a monotonic clock.
CondTimeout(t) ==
    /\ pc[t] \in {"cond", "wakeup"}
    /\ deadline[t] # "none"
    /\ waiting' = [waiting EXCEPT ![item[t]] = @ - 1]
    /\ pc' = [pc EXCEPT ![t] = "load"]
    /\ UNCHANGED <<memory, call, item, result, calls, pending>>

\* pthread_cond_wait fails.
CondFails(t) ==
    /\ WaitMayFail
    /\ pc[t] \in {"cond", "wakeup"}
    /\ waiting' = [waiting EXCEPT ![item[t]] = @ - 1]
    /\ HardError(t)
    /\ UNCHANGED <<memory, call, item, observed, calls, pending>>

-------------------------------------------------------------------------------
(* Notifying *)

\* The C conversions of an unsigned to int and to long.
ToInt(m) == IF m > INT_MAX THEN m - (UINT_MAX + 1) ELSE m
ToLong(m) == IF m > LONG_MAX THEN ToInt(m) ELSE m

\* Mutant: tokens for the parked threads only.
TokensForParked(p, m) ==
    LET cap == IF waiting[p] > 0 THEN waiting[p] ELSE 1
        np == pending[p] + ToLong(m)
    IN  IF m = UINT_MAX \/ np > cap THEN cap ELSE np

\* The pile after a wake of up to m threads: one token per registered waiter at
\* most.
Tokens(p, m) ==
    LET cap == IF use_count[p] > 0 THEN use_count[p] ELSE 1
        np == pending[p] + ToLong(m)
    IN  IF m = UINT_MAX \/ np > cap THEN cap ELSE np

Blocked(p) == {t \in Threads : pc[t] = "cond" /\ item[t] = p}

\* Mutant: always a signal.
CondSignal(p, m) == {s \in SUBSET Blocked(p) : s = {} => Blocked(p) = {}}

\* pthread_cond_signal unblocks at least one thread, if there is one, and
\* pthread_cond_broadcast all of them.
CondWake(p, m) ==
    IF m = 1 THEN {s \in SUBSET Blocked(p) : s = {} => Blocked(p) = {}}
    ELSE {Blocked(p)}

\* The count pthread_proxy_wake reports.
Woken(p, m) ==
    LET n == IF m = UINT_MAX \/ waiting[p] < ToInt(m) THEN waiting[p]
             ELSE ToInt(m)
    IN  IF n < 1 THEN 1 ELSE n

\* atomic_notify_generic finds a proxy: pthread_proxy_wake, and the 1 + of
\* atomic_notify_32, which ret holds.
Wake(t) ==
    LET p == table[object[t]] IN
    /\ pc[t] = "nlock"
    /\ lock = NULL
    /\ p # NULL
    /\ pending' = [pending EXCEPT ![p] = Tokens(p, max[t])]
    /\ \E s \in CondWake(p, max[t]) :
          pc' = [u \in Threads |-> IF u = t THEN "notified"
                                   ELSE IF u \in s THEN "wakeup" ELSE pc[u]]
    /\ ret' = [ret EXCEPT ![t] = @ + Woken(p, max[t])]
    /\ UNCHANGED <<memory, call, item, observed, errno, errno_is_set, calls,
                   waiting>>

\* pthread_mutex_lock fails, or the signal does after the tokens are out.
\* Only atomic_notify_32 reports it in errno.
WakeFails(t) ==
    LET p == table[object[t]] IN
    /\ WakeMayFail
    /\ pc[t] = "nlock"
    /\ lock = NULL
    /\ p # NULL
    /\ pending' \in {pending, [pending EXCEPT ![p] = Tokens(p, max[t])]}
    /\ pc' = [pc EXCEPT ![t] = "notified"]
    /\ errno' = [errno EXCEPT ![t] = IF ret[t] = 1 THEN "EWAKE" ELSE @]
    /\ ret' = [ret EXCEPT ![t] = -1]
    /\ UNCHANGED <<memory, call, item, observed, errno_is_set, calls, waiting>>

-------------------------------------------------------------------------------
Call(t) ==
    /\ \/ \E o \in Objects, e \in Expects, d \in Deadlines :
             BeginWait(t, o, e, d)
       \/ \E o \in Objects, m \in BareWakes :
             BareNotify(t, o, m)
       \/ \E o \in Objects, v \in Stores, m \in StoreWakes :
             StoreNotify(t, o, v, m)
       \/ \E o \in Objects, e \in Expects, v \in Stores, m \in CasWakes :
             CasNotify(t, o, e, v, m)
    /\ UNCHANGED proxyVars

\* What a thread inside the library does next.
Step(t) ==
    \/ /\ \/ Load(t) \/ RegisterFails(t) \/ Recheck(t) \/ CheckTime(t)
          \/ Release(t) \/ NobodyWaits(t)
       /\ UNCHANGED proxyVars
    \/ RegisterProxy(t)
    \/ Park(t)
    \/ ParkFails(t)
    \/ Resume(t)
    \/ Wake(t)
    \/ WakeFails(t)

\* What the clock and the pthreads implementation may do to it.
Environment(t) ==
    \/ DeadlinePasses(t) /\ UNCHANGED proxyVars
    \/ CondTimeout(t)
    \/ SpuriousWake(t)
    \/ CondFails(t)

\* Every call has returned and the bounds allow no other.
Done ==
    /\ \A t \in Threads : pc[t] \in Quiescent
    /\ waits = MaxWaits
    /\ notifies = MaxNotifies
    /\ UNCHANGED vars

Next ==
    \/ \E t \in Threads : Call(t) \/ Step(t) \/ Environment(t)
    \/ Done

Spec == Init /\ [][Next]_vars

\* A thread that can run is scheduled, time passes, and a timed wait past its
\* deadline returns: POSIX has it fail at once when called that late.
FairSpec ==
    /\ Spec
    /\ \A t \in Threads :
          /\ WF_vars(Step(t))
          /\ WF_vars(DeadlinePasses(t) /\ UNCHANGED proxyVars)
          /\ WF_vars(deadline[t] = "past" /\ CondTimeout(t))

-------------------------------------------------------------------------------
(* Properties *)

WaitPC == {"load", "register", "recheck", "time", "park", "cond", "wakeup",
           "release"}

TypeOK ==
    /\ WaitNotifyTypeOK
    /\ pc \in [Threads -> Quiescent \cup WaitPC \cup {"nlock"}]
    /\ pending \in [Proxies -> 0..INT_MAX]
    /\ waiting \in [Proxies -> 0..INT_MAX]

InCond(p) == {t \in Threads : pc[t] \in {"cond", "wakeup"} /\ item[t] = p}

\* pthread_proxy_wait and pthread_proxy_wake agree on who is parked, on every
\* exit: token, timeout and error.
WaitingExact == \A p \in Proxies : waiting[p] = Cardinality(InCond(p))

\* A notify of o, with a limit that covers every thread, that has still to wake.
NotifyAllPending(o) ==
    \E n \in Threads : /\ pc[n] = "nlock"
                       /\ object[n] = o
                       /\ max[n] >= Cardinality(Threads)

\* No waiter is asleep on a value that is gone, unless the notify that will wake
\* it is still to come.
NoLostWake ==
    \A t \in Threads :
        pc[t] = "cond" /\ Changed(t) => NotifyAllPending(object[t])

\* A wait whose value has changed ends, unless the value changes back first.
WaitEnds ==
    \A t \in Threads :
        (pc[t] \in WaitPC /\ Changed(t)) ~> (pc[t] \in Quiescent \/ ~Changed(t))

\* A wait with a duration ends, whatever the values and the notifies do.
TimedWaitEnds ==
    \A t \in Threads :
        (pc[t] \in WaitPC /\ deadline[t] # "none") ~> (pc[t] \in Quiescent)
===============================================================================
