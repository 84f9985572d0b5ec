------------------------------ MODULE WaitNotify ------------------------------
(***************************************************************************)
(* The control that every hash-table backed wait and notify shares:        *)
(* atomic_wait_generic and the callers of atomic_notify_generic            *)
(* (detail/impl/atomic_wait_common.ipp.ipp), over an abstract hash table.  *)
(* What a proxy is, how a thread parks on one and how a notifier wakes it  *)
(* differ per backend: KernelProxy and PthreadsProxy extend this module    *)
(* with those steps and with a next-state relation.                        *)
(*                                                                         *)
(* A step is what runs between two points where another thread can         *)
(* interfere: one load of the object, one critical section, one clock      *)
(* read.  A critical section is one step, except where the object (which   *)
(* the lock does not protect) is read inside it: then the lock is seen     *)
(* held, by a waiter at "recheck" and at a "release" reached from there.   *)
(***************************************************************************)
EXTENDS Integers, FiniteSets

CONSTANTS
    Threads,        \* callers of the library
    Objects,        \* the atomics waited on
    Values,         \* values of the atomics
    Proxies,        \* memory for proxy_waiter_t nodes
    NULL,           \* the null pointer; also "no value"
    INT_MAX,        \* largest C int
    Expects,        \* values the callers wait on
    Stores,         \* values the callers store before they notify
    Deadlines,      \* "none": duration is NULL; "ahead"; "past": already over
    StoreWakes,     \* max_threads_to_wake of a notify that follows a store
    BareWakes,      \* the same, of a notify that follows none
    AllocMayFail,   \* find_or_create may run out of memory
    WaitMayFail,    \* the park primitive may fail hard
    WakeMayFail,    \* the wake primitive may fail
    MaxWaits,       \* bound: wait calls in a behaviour
    MaxNotifies     \* bound: notify calls in a behaviour

UINT_MAX == 2 * INT_MAX + 1       \* (unsigned) -1, "wake all"

ASSUME WaitNotifyAssumption ==
    /\ IsFiniteSet(Threads)
    /\ INT_MAX \in Nat
    /\ Cardinality(Threads) \in 1..INT_MAX
    /\ NULL \notin Threads \cup Objects \cup Proxies \cup Values
    /\ Expects \subseteq Values
    /\ Stores \subseteq Values
    /\ Deadlines \subseteq {"none", "ahead", "past"}
    /\ StoreWakes \subseteq 0..UINT_MAX
    /\ BareWakes \subseteq 0..UINT_MAX
    /\ AllocMayFail \in BOOLEAN
    /\ WaitMayFail \in BOOLEAN
    /\ WakeMayFail \in BOOLEAN
    /\ MaxWaits \in Nat
    /\ MaxNotifies \in Nat

VARIABLES
    value,          \* the atomics
    lock,           \* thread holding the table lock, or NULL
    table,          \* hash table: object -> its proxy, or NULL
    use_count,      \* proxy -> registered waiters
    pc,             \* where each thread is
    object,         \* the argument of the call in progress or just returned
    expected,       \* value the caller waits on
    observed,       \* value written to *expected on exit, NULL if none was
    deadline,       \* "none", "ahead" or "past"
    item,           \* the proxy a waiter is registered on, or NULL
    max,            \* max_threads_to_wake
    ret,            \* result of the call
    errno,          \* "entry" is the caller's own value
    errno_is_set,   \* the wait loop set errno on purpose
    waits,          \* wait calls so far
    notifies        \* notify calls so far

memory == <<value, lock, table, use_count>>
call == <<object, expected, deadline, max>>
result == <<observed, ret, errno, errno_is_set>>
calls == <<waits, notifies>>
waitNotifyVars == <<memory, pc, call, item, result, calls>>

\* A thread at one of these is outside the library.
Quiescent == {"idle", "waited", "notified"}

\* A waiter at one of these has passed the registration under the lock.
Registered(t) == item[t] # NULL

Changed(t) == value[object[t]] # expected[t]

\* Mutant: the tail does not wait for the lock.
LockIgnored(t) == TRUE

\* The tail takes the lock unless it came from the check under the lock.
LockFree(t) == lock \in {NULL, t}

WaitNotifyInit ==
    /\ value \in [Objects -> Values]
    /\ lock = NULL
    /\ table = [o \in Objects |-> NULL]
    /\ use_count = [p \in Proxies |-> 0]
    /\ pc = [t \in Threads |-> "idle"]
    /\ object = [t \in Threads |-> NULL]
    /\ expected = [t \in Threads |-> NULL]
    /\ observed = [t \in Threads |-> NULL]
    /\ deadline = [t \in Threads |-> "none"]
    /\ item = [t \in Threads |-> NULL]
    /\ max = [t \in Threads |-> 0]
    /\ ret = [t \in Threads |-> 0]
    /\ errno = [t \in Threads |-> "entry"]
    /\ errno_is_set = [t \in Threads |-> FALSE]
    /\ waits = 0
    /\ notifies = 0

-------------------------------------------------------------------------------
(* Waiting *)

\* atomic_wait_*, or atomic_wait_expected where d is not "none".
BeginWait(t, o, e, d) ==
    /\ pc[t] \in Quiescent
    /\ waits < MaxWaits
    /\ pc' = [pc EXCEPT ![t] = "load"]
    /\ object' = [object EXCEPT ![t] = o]
    /\ expected' = [expected EXCEPT ![t] = e]
    /\ deadline' = [deadline EXCEPT ![t] = d]
    /\ observed' = [observed EXCEPT ![t] = NULL]
    /\ ret' = [ret EXCEPT ![t] = 0]
    /\ errno' = [errno EXCEPT ![t] = "entry"]
    /\ errno_is_set' = [errno_is_set EXCEPT ![t] = FALSE]
    /\ max' = [max EXCEPT ![t] = 0]
    /\ waits' = waits + 1
    /\ UNCHANGED <<memory, item, notifies>>

\* *expected is the value of the load that ends the wait; the later reload for
\* its memory order discards what it reads.
Observe(t) ==
    /\ Changed(t)
    /\ observed' = [observed EXCEPT ![t] = value[object[t]]]

\* Only a wait with a duration reads the clock before it parks.
BeforePark(t) == IF deadline[t] = "none" THEN "park" ELSE "time"

\* The load at the top of the loop.
Load(t) ==
    /\ pc[t] = "load"
    /\ \/ /\ Observe(t)
          /\ pc' = [pc EXCEPT ![t] =
                       IF item[t] = NULL THEN "waited" ELSE "release"]
       \/ /\ ~Changed(t)
          /\ pc' = [pc EXCEPT ![t] =
                       IF item[t] = NULL THEN "register" ELSE BeforePark(t)]
          /\ UNCHANGED observed
    /\ UNCHANGED <<memory, call, item, ret, errno, errno_is_set, calls>>

\* hash_table_find_or_create(table, object, true) under the table lock, which
\* stays held.  The allocator leaves errno unspecified ("scratch").
Register(t) ==
    /\ pc[t] = "register"
    /\ lock = NULL
    /\ lock' = t
    /\ \/ /\ table[object[t]] # NULL
          /\ item' = [item EXCEPT ![t] = table[object[t]]]
          /\ use_count' = [use_count EXCEPT ![table[object[t]]] = @ + 1]
          /\ UNCHANGED table
       \/ /\ table[object[t]] = NULL
          /\ \E p \in Proxies \ {table[o] : o \in Objects} :
                /\ table' = [table EXCEPT ![object[t]] = p]
                /\ item' = [item EXCEPT ![t] = p]
                /\ use_count' = [use_count EXCEPT ![p] = 1]
    /\ errno' = [errno EXCEPT ![t] = "scratch"]
    /\ pc' = [pc EXCEPT ![t] = "recheck"]
    /\ UNCHANGED <<value, call, observed, ret, errno_is_set, calls>>

\* find_or_create returns NULL, for a key already present too: the table may
\* have to grow first.  The caller returns at once.
RegisterFails(t) ==
    /\ AllocMayFail
    /\ pc[t] = "register"
    /\ lock = NULL
    /\ ret' = [ret EXCEPT ![t] = -1]
    /\ errno' = [errno EXCEPT ![t] = "ENOMEM"]
    /\ pc' = [pc EXCEPT ![t] = "waited"]
    /\ UNCHANGED <<memory, call, item, observed, errno_is_set, calls>>

\* Mutant: the value is not checked again under the lock.
RecheckSkipped(t) ==
    /\ pc[t] = "recheck"
    /\ lock' = NULL
    /\ ret' = [ret EXCEPT ![t] = 1]
    /\ pc' = [pc EXCEPT ![t] = BeforePark(t)]
    /\ UNCHANGED <<value, table, use_count, call, item, observed, errno,
                   errno_is_set, calls>>

\* Mutant: a waiter goes to park with the lock held.
RecheckKeepsLock(t) ==
    /\ pc[t] = "recheck"
    /\ \/ Observe(t) /\ pc' = [pc EXCEPT ![t] = "release"] /\ UNCHANGED ret
       \/ /\ ~Changed(t)
          /\ ret' = [ret EXCEPT ![t] = 1]
          /\ pc' = [pc EXCEPT ![t] = BeforePark(t)]
          /\ UNCHANGED observed
    /\ UNCHANGED <<memory, call, item, errno, errno_is_set, calls>>

\* The load under the lock.  A change is released with the lock still held.
Recheck(t) ==
    /\ pc[t] = "recheck"
    /\ \/ /\ Observe(t)
          /\ pc' = [pc EXCEPT ![t] = "release"]
          /\ UNCHANGED <<lock, ret>>
       \/ /\ ~Changed(t)
          /\ lock' = NULL
          /\ ret' = [ret EXCEPT ![t] = 1]
          /\ pc' = [pc EXCEPT ![t] = BeforePark(t)]
          /\ UNCHANGED observed
    /\ UNCHANGED <<value, table, use_count, call, item, errno, errno_is_set,
                   calls>>

\* Mutant: the loop never gives up.
CheckTimeIgnored(t) ==
    /\ pc[t] = "time"
    /\ pc' = [pc EXCEPT ![t] = "park"]
    /\ UNCHANGED <<memory, call, item, result, calls>>

\* The clock read before a park.
CheckTime(t) ==
    /\ pc[t] = "time"
    /\ \/ /\ deadline[t] = "past"
          /\ errno' = [errno EXCEPT ![t] = "ETIMEDOUT"]
          /\ errno_is_set' = [errno_is_set EXCEPT ![t] = TRUE]
          /\ ret' = [ret EXCEPT ![t] = 0]
          /\ pc' = [pc EXCEPT ![t] = "release"]
       \/ /\ deadline[t] = "ahead"
          /\ pc' = [pc EXCEPT ![t] = "park"]
          /\ UNCHANGED <<errno, errno_is_set, ret>>
    /\ UNCHANGED <<memory, call, item, observed, calls>>

\* A hard error of the park primitive, in the caller's words.
HardError(t) ==
    /\ errno' = [errno EXCEPT ![t] = "EWAIT"]
    /\ errno_is_set' = [errno_is_set EXCEPT ![t] = TRUE]
    /\ ret' = [ret EXCEPT ![t] = -1]
    /\ pc' = [pc EXCEPT ![t] = "release"]

\* Mutants: every waiter removes the proxy; none does.
AnyWaiter(p) == TRUE
NoWaiter(p) == use_count[p] = 0

\* --use_count reaches 0.
LastWaiter(p) == use_count[p] = 1

\* Mutant: errno is left as the allocator set it.
ErrnoKept(t) == errno[t]

\* save_errno.
SavedErrno(t) == IF errno_is_set[t] THEN errno[t] ELSE "entry"

\* The common tail: the last waiter removes and frees the proxy.
Release(t) ==
    /\ pc[t] = "release"
    /\ LockFree(t)
    /\ use_count' = [use_count EXCEPT ![item[t]] = @ - 1]
    /\ table' = IF LastWaiter(item[t])
                THEN [table EXCEPT ![object[t]] = NULL] ELSE table
    /\ lock' = NULL
    /\ item' = [item EXCEPT ![t] = NULL]
    /\ errno' = [errno EXCEPT ![t] = SavedErrno(t)]
    /\ pc' = [pc EXCEPT ![t] = "waited"]
    /\ UNCHANGED <<value, call, observed, ret, errno_is_set, calls>>

\* The clock reaches the end of the duration of a wait in progress.
DeadlinePasses(t) ==
    /\ pc[t] \notin Quiescent
    /\ deadline[t] = "ahead"
    /\ deadline' = [deadline EXCEPT ![t] = "past"]
    /\ UNCHANGED <<memory, pc, object, expected, max, item, result, calls>>

-------------------------------------------------------------------------------
(* Notifying: up to the call of atomic_notify_generic *)

\* The arguments and the bound of a notify of o.  e is NULL unless the call
\* compares.
EnterNotify(t, o, e, m) ==
    /\ pc[t] \in Quiescent
    /\ notifies < MaxNotifies
    /\ object' = [object EXCEPT ![t] = o]
    /\ expected' = [expected EXCEPT ![t] = e]
    /\ max' = [max EXCEPT ![t] = m]
    /\ deadline' = [deadline EXCEPT ![t] = "none"]
    /\ errno' = [errno EXCEPT ![t] = "entry"]
    /\ errno_is_set' = [errno_is_set EXCEPT ![t] = FALSE]
    /\ notifies' = notifies + 1
    /\ UNCHANGED <<lock, table, use_count, item, waits>>

\* On to atomic_notify_generic, which at "nlock" wants the table lock.  r is
\* what the caller adds to the result of the wake.
CallNotify(t, r) ==
    /\ observed' = [observed EXCEPT ![t] = NULL]
    /\ ret' = [ret EXCEPT ![t] = r]
    /\ pc' = [pc EXCEPT ![t] = "nlock"]

\* atomic_notify_one_* or atomic_notify_all_* with no change of the object.
BareNotify(t, o, m) ==
    /\ EnterNotify(t, o, NULL, m)
    /\ CallNotify(t, 0)
    /\ UNCHANGED value

\* The caller stores v, then calls atomic_notify_one_* or atomic_notify_all_*.
StoreNotify(t, o, v, m) ==
    /\ EnterNotify(t, o, NULL, m)
    /\ CallNotify(t, 0)
    /\ value' = [value EXCEPT ![o] = v]

\* atomic_notify_32: the compare-exchange, which max = 0 skips.
CasNotify(t, o, e, v, m) ==
    /\ EnterNotify(t, o, e, m)
    /\ \/ /\ m # 0
          /\ value[o] = e
          /\ value' = [value EXCEPT ![o] = v]
          /\ CallNotify(t, 1)
       \/ /\ m = 0 \/ value[o] # e
          /\ observed' = [observed EXCEPT ![t] =
                             IF m = 0 THEN NULL ELSE value[o]]
          /\ ret' = [ret EXCEPT ![t] = 0]
          /\ pc' = [pc EXCEPT ![t] = "notified"]
          /\ UNCHANGED value

\* hash_table_find_or_create(table, object, false) finds nobody to wake.
NobodyWaits(t) ==
    /\ pc[t] = "nlock"
    /\ lock = NULL
    /\ table[object[t]] = NULL
    /\ pc' = [pc EXCEPT ![t] = "notified"]
    /\ UNCHANGED <<memory, call, item, result, calls>>

-------------------------------------------------------------------------------
(* What the callers see of it *)

\* "parked" and "cond" are asleep, in the two proxies' words.  A wait is over
\* once the tail of atomic_wait_generic is reached.
Phase(t) ==
    CASE pc[t] = "idle" -> "idle"
      [] pc[t] = "notified" -> IF ret[t] = -1 THEN "misfired" ELSE "idle"
      [] pc[t] \in {"nlock", "nwake"} -> "notifying"
      [] pc[t] \in {"parked", "cond"} -> "asleep"
      [] pc[t] \in {"release", "waited"} ->
            IF observed[t] # NULL THEN "changed"
            ELSE IF errno[t] = "ETIMEDOUT" THEN "timedout" ELSE "failed"
      [] OTHER -> "awake"

Waiting(t) == Phase(t) \notin {"idle", "notifying", "misfired"}
InCall(t) == Phase(t) \notin {"idle", "misfired"}

Promise == INSTANCE AtomicWait WITH
    MaxLimit <- UINT_MAX,
    phase <- [t \in Threads |-> Phase(t)],
    object <- [t \in Threads |-> IF InCall(t) THEN object[t] ELSE NULL],
    expected <- [t \in Threads |-> IF Waiting(t) THEN expected[t] ELSE NULL],
    deadline <- [t \in Threads |-> IF Waiting(t) THEN deadline[t] ELSE "none"],
    observed <- [t \in Threads |-> IF Waiting(t) THEN observed[t] ELSE NULL],
    limit <- [t \in Threads |-> IF Phase(t) = "notifying" THEN max[t] ELSE 0]

\* The waits and notifies of this path, with table, proxies and lock, are those
\* that atomic_wait.h promises: a wait ends only on a value it really saw, after
\* its deadline or with an error; it sleeps only on a value still there or with
\* a notify to come; and a notify that does not report a failure leaves asleep
\* only those beyond its limit.
KeepsPromise == Promise!Spec

-------------------------------------------------------------------------------
(* Properties *)

Waiters(p) == {t \in Threads : item[t] = p}

\* The shape of the shared part of the state.
WaitNotifyTypeOK ==
    /\ value \in [Objects -> Values]
    /\ lock \in Threads \cup {NULL}
    /\ table \in [Objects -> Proxies \cup {NULL}]
    /\ use_count \in [Proxies -> Nat]
    /\ object \in [Threads -> Objects \cup {NULL}]
    /\ expected \in [Threads -> Values \cup {NULL}]
    /\ observed \in [Threads -> Values \cup {NULL}]
    /\ deadline \in [Threads -> {"none", "ahead", "past"}]
    /\ item \in [Threads -> Proxies \cup {NULL}]
    /\ max \in [Threads -> 0..UINT_MAX]
    /\ ret \in [Threads -> Int]
    /\ errno \in [Threads -> {"entry", "scratch", "ENOMEM", "ETIMEDOUT",
                              "EWAIT", "EWAKE"}]
    /\ errno_is_set \in [Threads -> BOOLEAN]
    /\ waits \in Nat
    /\ notifies \in Nat

\* atomic_wait_generic's tail against find_or_create: the use count of a proxy
\* is the number of waiters that hold it, a proxy is in the table exactly as
\* long as someone holds it (no leak: one waiter leaving early, late, on a
\* timeout or on an error neither strands nor drops it), and no two objects
\* share one.
ProxyAccounting ==
    /\ \A p \in Proxies : use_count[p] = Cardinality(Waiters(p))
    /\ \A o \in Objects : table[o] # NULL => use_count[table[o]] > 0
    /\ \A o1, o2 \in Objects :
          table[o1] # NULL /\ table[o1] = table[o2] => o1 = o2

\* No use after free: the proxy a waiter parks on, re-reads or releases is the
\* one the table holds for its object, however often the node was removed and
\* its memory reused between two waits.
NoDanglingProxy ==
    \A t \in Threads : Registered(t) => item[t] = table[object[t]]

\* What atomic_wait_generic returns.  Success, and only success, hands the
\* caller a value other than the expected one, and leaves errno as it was; a
\* timeout is 0 with ETIMEDOUT, an error is -1 with its errno; and a caller
\* that is back in its own code holds neither the lock nor a proxy.
WaitContract ==
    \A t \in Threads : pc[t] = "waited" =>
        /\ lock # t /\ ~Registered(t)
        /\ \/ /\ observed[t] \in Values \ {expected[t]}
              /\ ret[t] \in {0, 1}
              /\ errno[t] = "entry"
           \/ /\ observed[t] = NULL
              /\ <<ret[t], errno[t]>> \in
                    {<<0, "ETIMEDOUT">>, <<-1, "ENOMEM">>, <<-1, "EWAIT">>}
              /\ errno[t] = "ETIMEDOUT" => deadline[t] = "past"
===============================================================================
