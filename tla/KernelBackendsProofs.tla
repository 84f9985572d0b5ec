------------------------- MODULE KernelBackendsProofs -------------------------
(***************************************************************************)
(* Proofs about KernelBackends: what the calls of atomic_wait.h return, on *)
(* every backend and on both routes, for all objects and widths, any       *)
(* number of threads and every failure of the kernel and of the allocator. *)
(***************************************************************************)
EXTENDS KernelBackends, KernelWakeProofs

-------------------------------------------------------------------------------
(* The inductive invariant *)

\* What KernelProxy's invariant says of the shared state; a wait on the native
\* route may be at "time", too.
SharedOK ==
    /\ WaitNotifyTypeOK
    /\ pc \in [Threads -> Quiescent \cup AllWaitPC \cup {"nlock", "nwake"}]
    /\ api \in [Threads -> {"void", "int"}]
    /\ backend \in Backends
    /\ LockOK
    /\ ProxyAccounting
    /\ NoDanglingProxy
    /\ NotifierKeepsProxy

\* A call has its arguments, and one with a result is on 4 bytes, which every
\* kernel can wait on.
ArgumentsOK(t) ==
    /\ pc[t] \notin Quiescent => object[t] \in Objects
    /\ pc[t] \in AllWaitPC => expected[t] \in Values
    /\ deadline[t] # "none" => api[t] = "int"
    /\ api[t] = "int" => object[t] = NULL \/ width[object[t]] = 4

\* The two routes do not mix: a wait on the native one never has a proxy, one on
\* the table's has it from the registration to the tail.
RouteOK(t) ==
    /\ NativeWait(t) =>
          /\ ~Registered(t)
          /\ pc[t] \notin {"register", "recheck", "recount", "release", "nwake"}
    /\ ~NativeWait(t) =>
          /\ pc[t] # "time"
          /\ pc[t] \in RegisteredPC => Registered(t)
    /\ Registered(t) => pc[t] \in RegisteredPC \cup {"load"}

\* How a wait has ended.  A void wait on the native route can end in one way.
Ended(t) ==
    \/ Succeeds(t) /\ errno[t] = "entry"
    \/ /\ observed[t] = NULL
       /\ <<ret[t], errno[t]>> \in {<<-1, "ENOMEM">>, <<-1, "EWAIT">>}
       /\ api[t] = "int" \/ ~NativeWait(t)
    \/ /\ observed[t] = NULL /\ api[t] = "int"
       /\ <<ret[t], errno[t]>> = <<0, "ETIMEDOUT">>
       /\ deadline[t] = "past"

\* The results that a wait carries along.
OutcomeOK(t) ==
    /\ pc[t] \in AllWaitPC \ {"release"} => Undecided(t)
    /\ pc[t] \in AllWaitPC /\ ~Registered(t) => errno[t] = "entry"
    /\ pc[t] = "release" => Succeeds(t) \/ Fails(t)
    /\ pc[t] = "waited" => Ended(t)

\* What a notify adds to the count of its wake; what atomic_notify_32 has found out
\* before it wakes, and what it returns.
ReportOK(t) ==
    /\ pc[t] \in {"nlock", "nwake"} => ret[t] \in {0, 1}
    /\ api[t] = "int" /\ pc[t] = "nlock" =>
          /\ ret[t] = 1 /\ observed[t] = NULL
          /\ max[t] # 0 /\ errno[t] = "entry"
    /\ api[t] = "int" /\ pc[t] = "notified" =>
          \/ /\ max[t] = 0
             /\ ret[t] = 0 /\ observed[t] = NULL /\ errno[t] = "entry"
          \/ /\ max[t] # 0
             /\ \/ /\ ret[t] \in 1..INT_MAX
                   /\ observed[t] = NULL /\ errno[t] = "entry"
                \/ /\ ret[t] = 0 /\ errno[t] = "entry"
                   /\ observed[t] \in Values \ {expected[t]}
                \/ ret[t] < 0 /\ observed[t] = NULL /\ errno[t] = "EWAKE"

ThreadOK(t) ==
    ArgumentsOK(t) /\ RouteOK(t) /\ OutcomeOK(t) /\ ReportOK(t)

AllInv == SharedOK /\ \A t \in Threads : ThreadOK(t)

-------------------------------------------------------------------------------
(* A step of one thread *)

\* What ThreadOK(u) is about.
Untouched(u) ==
    /\ pc'[u] = pc[u] /\ object'[u] = object[u] /\ expected'[u] = expected[u]
    /\ observed'[u] = observed[u] /\ deadline'[u] = deadline[u]
    /\ item'[u] = item[u] /\ max'[u] = max[u] /\ ret'[u] = ret[u]
    /\ errno'[u] = errno[u] /\ errno_is_set'[u] = errno_is_set[u]
    /\ api'[u] = api[u]

\* A thread that a step leaves alone stays as it was.
LEMMA UntouchedOK ==
    ASSUME NEW u \in Threads, ThreadOK(u), UNCHANGED <<backend, width>>,
           Untouched(u)
    PROVE  ThreadOK(u)'
<1> USE DEF Untouched
<1>1. NativeWait(u)' = NativeWait(u) /\ Registered(u)' = Registered(u)
    BY DEF NativeWait, HaveWait, Registered
<1>2. /\ Undecided(u)' = Undecided(u)
      /\ Succeeds(u)' = Succeeds(u)
      /\ Fails(u)' = Fails(u)
    BY DEF Undecided, Succeeds, Fails
<1>3. Ended(u)' = Ended(u)
    BY <1>1, <1>2 DEF Ended
<1>4. ArgumentsOK(u)'
    BY DEF ThreadOK, ArgumentsOK
<1>5. RouteOK(u)'
    BY <1>1 DEF ThreadOK, RouteOK
<1>6. OutcomeOK(u)'
    BY <1>1, <1>2, <1>3 DEF ThreadOK, OutcomeOK
<1>7. ReportOK(u)'
    BY DEF ThreadOK, ReportOK
<1> QED
    BY <1>4, <1>5, <1>6, <1>7 DEF ThreadOK

\* The references are safe from a step that leaves table, use counts and the
\* waiters' proxies and objects alone.
LEMMA SharedKept ==
    ASSUME SharedOK, UNCHANGED <<table, use_count, item, backend>>,
           \A u \in Threads : Registered(u) => object'[u] = object[u],
           WaitNotifyTypeOK',
           pc' \in [Threads -> Quiescent \cup AllWaitPC \cup {"nlock", "nwake"}],
           api' \in [Threads -> {"void", "int"}],
           LockOK', NotifierKeepsProxy'
    PROVE  SharedOK'
<1>1. ProxyAccounting'
    BY DEF SharedOK, ProxyAccounting, Waiters
<1>2. NoDanglingProxy'
    BY DEF SharedOK, NoDanglingProxy, Registered
<1> QED
    BY <1>1, <1>2 DEF SharedOK

\* A step inside a call that leaves table, use counts and proxies alone.
LEMMA LocalKeepsAll ==
    ASSUME NEW t \in Threads, AllInv,
           UNCHANGED <<table, use_count, object, item, backend, width, api>>,
           \A u \in Threads : u # t => Untouched(u),
           WaitNotifyTypeOK',
           pc' \in [Threads -> Quiescent \cup AllWaitPC \cup {"nlock", "nwake"}],
           LockOK', ThreadOK(t)', pc'[t] = "nwake" => table[object[t]] # NULL
    PROVE  AllInv'
<1>0. NotifierKeepsProxy'
    BY DEF AllInv, SharedOK, NotifierKeepsProxy, Untouched
<1>1. SharedOK'
    BY <1>0, SharedKept DEF AllInv, SharedOK
<1>2. ASSUME NEW u \in Threads PROVE ThreadOK(u)'
    <2>1. CASE u = t
        BY <2>1
    <2>2. CASE u # t
        BY <2>2, UntouchedOK DEF AllInv
    <2> QED
        BY <2>1, <2>2
<1> QED
    BY <1>1, <1>2 DEF AllInv

\* A wait with a result is on the native route.
LEMMA IntIsNative ==
    ASSUME AllInv, NEW t \in Threads, api[t] = "int", object[t] \in Objects
    PROVE  NativeWait(t)
<1>1. width[object[t]] = 4
    BY WaitNotifyAssumption DEF AllInv, ThreadOK, ArgumentsOK
<1>2. 4 \in Natives[backend]
    BY BackendsAssumption DEF AllInv, SharedOK, Natives
<1> QED
    BY <1>1, <1>2, WaitNotifyAssumption DEF NativeWait, HaveWait

-------------------------------------------------------------------------------
(* The native route *)

\* The load ends the wait with what it saw, or goes on to wait.
LEMMA NativeLoadKeepsAll ==
    ASSUME NEW t \in Threads, AllInv, NativeWait(t), NativeLoad(t)
    PROVE  AllInv'
<1> USE DEF AllInv, SharedOK, WaitNotifyTypeOK, memory, call, calls, kernelVars,
            nativeVars
<1>0. /\ pc[t] = "load" /\ object[t] \in Objects /\ expected[t] \in Values
      /\ Undecided(t) /\ ~Registered(t) /\ errno[t] = "entry"
    BY DEF NativeLoad, ThreadOK, ArgumentsOK, RouteOK, OutcomeOK, Quiescent,
           AllWaitPC, WaitPC
<1>1. /\ UNCHANGED <<value, lock, table, use_count, object, expected, deadline,
                     max, item, errno, errno_is_set, waits, notifies, backend,
                     width, api>>
      /\ \/ /\ Changed(t)
            /\ observed' = [observed EXCEPT ![t] = value[object[t]]]
            /\ pc' = [pc EXCEPT ![t] = "waited"]
            /\ ret' = ret
         \/ /\ ret' = [ret EXCEPT ![t] = IF api[t] = "void" THEN 0 ELSE 1]
            /\ pc' = [pc EXCEPT ![t] =
                         IF deadline[t] = "none" THEN "park" ELSE "time"]
            /\ observed' = observed
    BY DEF NativeLoad, Observe, BeforePark
<1>2. value[object[t]] \in Values
    BY <1>0
<1>3. WaitNotifyTypeOK'
    BY <1>0, <1>1, <1>2
<1>4. pc' \in [Threads -> Quiescent \cup AllWaitPC \cup {"nlock", "nwake"}]
    BY <1>1 DEF Quiescent, AllWaitPC, WaitPC
<1>5. LockOK'
    BY <1>0, <1>1 DEF LockOK
<1>6. NativeWait(t)' /\ ~Registered(t)'
    BY <1>0, <1>1 DEF NativeWait, HaveWait, Registered
<1>7. ArgumentsOK(t)' /\ RouteOK(t)'
    BY <1>0, <1>1, <1>6
    DEF ThreadOK, ArgumentsOK, RouteOK, Quiescent, AllWaitPC, WaitPC, RegisteredPC
<1>8. OutcomeOK(t)'
    <2>1. CASE pc'[t] = "waited"
        BY <1>0, <1>1, <1>2, <2>1
        DEF OutcomeOK, Ended, Succeeds, Undecided, Changed, AllWaitPC, WaitPC
    <2>2. CASE pc'[t] # "waited"
        BY <1>0, <1>1, <2>2 DEF OutcomeOK, Undecided, AllWaitPC, WaitPC
    <2> QED
        BY <2>1, <2>2
<1>9. ReportOK(t)'
    BY <1>1 DEF ReportOK
<1> QED
    BY <1>1, <1>3, <1>4, <1>5, <1>7, <1>8, <1>9, LocalKeepsAll
    DEF Untouched, ThreadOK

\* The clock read before a park: a timeout is only for the calls with a result.
LEMMA NativeCheckTimeKeepsAll ==
    ASSUME NEW t \in Threads, AllInv, NativeWait(t), NativeCheckTime(t)
    PROVE  AllInv'
<1> USE DEF AllInv, SharedOK, WaitNotifyTypeOK, memory, call, calls, kernelVars,
            nativeVars
<1>0. /\ pc[t] = "time" /\ object[t] \in Objects /\ expected[t] \in Values
      /\ Undecided(t) /\ ~Registered(t) /\ errno[t] = "entry"
    BY DEF NativeCheckTime, ThreadOK, ArgumentsOK, RouteOK, OutcomeOK, Quiescent,
           AllWaitPC, WaitPC
<1>1. /\ UNCHANGED <<value, lock, table, use_count, object, expected, deadline,
                     max, item, observed, errno_is_set, waits, notifies, backend,
                     width, api>>
      /\ \/ /\ deadline[t] = "past"
            /\ errno' = [errno EXCEPT ![t] = "ETIMEDOUT"]
            /\ ret' = [ret EXCEPT ![t] = 0]
            /\ pc' = [pc EXCEPT ![t] = "waited"]
         \/ /\ pc' = [pc EXCEPT ![t] = "park"]
            /\ errno' = errno /\ ret' = ret
    BY DEF NativeCheckTime
<1>2. WaitNotifyTypeOK'
    BY <1>1
<1>3. pc' \in [Threads -> Quiescent \cup AllWaitPC \cup {"nlock", "nwake"}]
    BY <1>1 DEF Quiescent, AllWaitPC, WaitPC
<1>4. LockOK'
    BY <1>0, <1>1 DEF LockOK
<1>5. NativeWait(t)' /\ ~Registered(t)'
    BY <1>0, <1>1 DEF NativeWait, HaveWait, Registered
<1>6. ArgumentsOK(t)' /\ RouteOK(t)'
    BY <1>0, <1>1, <1>5
    DEF ThreadOK, ArgumentsOK, RouteOK, Quiescent, AllWaitPC, WaitPC, RegisteredPC
<1>7. OutcomeOK(t)'
    <2>1. CASE pc'[t] = "waited"
        BY <1>0, <1>1, <2>1
        DEF ThreadOK, ArgumentsOK, OutcomeOK, Ended, Undecided, AllWaitPC, WaitPC
    <2>2. CASE pc'[t] # "waited"
        BY <1>0, <1>1, <2>2 DEF OutcomeOK, Undecided, AllWaitPC, WaitPC
    <2> QED
        BY <2>1, <2>2
<1>8. ReportOK(t)'
    BY <1>1 DEF ReportOK
<1> QED
    BY <1>1, <1>2, <1>3, <1>4, <1>6, <1>7, <1>8, LocalKeepsAll
    DEF Untouched, ThreadOK

\* What save_errno is for: a system call leaves the caller's errno as it was.
LEMMA ErrnoRestored ==
    ASSUME NEW t \in Threads, WaitNotifyTypeOK, RestoresErrno(t)
    PROVE  errno' = errno
    BY DEF WaitNotifyTypeOK, RestoresErrno

\* A native wait that goes round the loop, or to sleep, has no result yet.
LEMMA NativeTurnKeepsAll ==
    ASSUME NEW t \in Threads, AllInv, NativeWait(t),
           pc[t] \in {"park", "parked"},
           \E x \in {"parked", "load"} : pc' = [pc EXCEPT ![t] = x],
           UNCHANGED <<memory, call, item, result, calls, kernelVars, nativeVars>>
    PROVE  AllInv'
<1> USE DEF AllInv, SharedOK, WaitNotifyTypeOK, memory, call, result, calls,
            kernelVars, nativeVars
<1>0. /\ object[t] \in Objects /\ expected[t] \in Values
      /\ Undecided(t) /\ ~Registered(t) /\ errno[t] = "entry"
    BY DEF ThreadOK, ArgumentsOK, RouteOK, OutcomeOK, Quiescent, AllWaitPC, WaitPC
<1>1. pc' \in [Threads -> Quiescent \cup AllWaitPC \cup {"nlock", "nwake"}]
    BY DEF Quiescent, AllWaitPC, WaitPC
<1>2. LockOK'
    BY DEF LockOK
<1>3. NativeWait(t)' /\ ~Registered(t)'
    BY <1>0 DEF NativeWait, HaveWait, Registered
<1>4. ArgumentsOK(t)' /\ RouteOK(t)'
    BY <1>0, <1>3
    DEF ThreadOK, ArgumentsOK, RouteOK, Quiescent, AllWaitPC, WaitPC, RegisteredPC
<1>5. OutcomeOK(t)' /\ ReportOK(t)'
    BY <1>0 DEF OutcomeOK, Undecided, ReportOK, AllWaitPC, WaitPC
<1> QED
    BY <1>1, <1>2, <1>4, <1>5, LocalKeepsAll DEF Untouched, ThreadOK

\* An error of the kernel ends a wait only if its caller has a result.
LEMMA NativeParkFailsKeepsAll ==
    ASSUME NEW t \in Threads, AllInv, NativeWait(t), NativeParkFails(t)
    PROVE  AllInv'
<1> USE DEF memory, call, calls, kernelVars, nativeVars
<1>1. CASE /\ pc' = [pc EXCEPT ![t] = "load"]
           /\ RestoresErrno(t) /\ UNCHANGED ret
    <2>1. errno' = errno
        BY <1>1, ErrnoRestored DEF AllInv, SharedOK
    <2> QED
        BY <1>1, <2>1, NativeTurnKeepsAll DEF NativeParkFails, result
<1>2. CASE /\ api[t] = "int"
           /\ errno' = [errno EXCEPT ![t] = "EWAIT"]
           /\ ret' = [ret EXCEPT ![t] = -1]
           /\ pc' = [pc EXCEPT ![t] = "waited"]
    <2> USE DEF AllInv, SharedOK, WaitNotifyTypeOK
    <2>1. /\ pc[t] = "park" /\ Undecided(t) /\ ~Registered(t)
          /\ UNCHANGED <<value, lock, table, use_count, object, expected,
                         deadline, max, item, observed, errno_is_set, waits,
                         notifies, backend, width, api>>
        BY DEF NativeParkFails, ThreadOK, RouteOK, OutcomeOK, AllWaitPC, WaitPC
    <2>2. WaitNotifyTypeOK'
        BY <1>2, <2>1
    <2>3. pc' \in [Threads -> Quiescent \cup AllWaitPC \cup {"nlock", "nwake"}]
        BY <1>2, <2>1 DEF Quiescent, AllWaitPC, WaitPC
    <2>4. LockOK'
        BY <1>2, <2>1 DEF LockOK
    <2>5. NativeWait(t)' /\ ~Registered(t)'
        BY <2>1 DEF NativeWait, HaveWait, Registered
    <2>6. ArgumentsOK(t)' /\ RouteOK(t)'
        BY <1>2, <2>1, <2>5
        DEF ThreadOK, ArgumentsOK, RouteOK, Quiescent, AllWaitPC, WaitPC
    <2>7. OutcomeOK(t)' /\ ReportOK(t)'
        BY <1>2, <2>1
        DEF OutcomeOK, Ended, Undecided, ReportOK, AllWaitPC, WaitPC
    <2> QED
        BY <1>2, <2>1, <2>2, <2>3, <2>4, <2>6, <2>7, LocalKeepsAll
        DEF Untouched, ThreadOK
<1> QED
    BY <1>1, <1>2 DEF NativeParkFails

\* A wake that fails is reported to a caller that has a result.
LEMMA NativeWakeFailsKeepsAll ==
    ASSUME NEW t \in Threads, AllInv, NativeWait(t), NativeWakeFails(t)
    PROVE  AllInv'
<1> USE DEF AllInv, SharedOK, WaitNotifyTypeOK, memory, call, calls, kernelVars,
            nativeVars
<1>0. pc[t] = "nlock" /\ ~Registered(t)
    BY DEF NativeWakeFails, ThreadOK, RouteOK
<1>1. /\ UNCHANGED <<value, lock, table, use_count, object, expected, deadline,
                     max, item, observed, errno_is_set, waits, notifies, backend,
                     width, api>>
      /\ errno' = [errno EXCEPT ![t] = IF api[t] = "int" THEN "EWAKE" ELSE @]
      /\ ret' = [ret EXCEPT ![t] = -1]
      /\ pc' = [pc EXCEPT ![t] = "notified"]
    BY ErrnoRestored DEF NativeWakeFails
<1>2. WaitNotifyTypeOK'
    BY <1>1
<1>3. pc' \in [Threads -> Quiescent \cup AllWaitPC \cup {"nlock", "nwake"}]
    BY <1>1 DEF Quiescent
<1>4. LockOK'
    BY <1>0, <1>1 DEF LockOK
<1>5. NativeWait(t)' /\ ~Registered(t)'
    BY <1>0, <1>1 DEF NativeWait, HaveWait, Registered
<1>6. ArgumentsOK(t)' /\ RouteOK(t)'
    BY <1>0, <1>1, <1>5
    DEF ThreadOK, ArgumentsOK, RouteOK, Quiescent, AllWaitPC, WaitPC
<1>7. OutcomeOK(t)'
    BY <1>1 DEF OutcomeOK, AllWaitPC, WaitPC
<1>8. ReportOK(t)'
    BY <1>0, <1>1 DEF ThreadOK, ReportOK
<1> QED
    BY <1>1, <1>2, <1>3, <1>4, <1>6, <1>7, <1>8, LocalKeepsAll
    DEF Untouched, ThreadOK

\* Whom a wake may reach, and the count: at least nobody, and with the exchange
\* itself added still an int.
LEMMA WakeByAddressCounts ==
    ASSUME NEW t \in Threads, pc[t] = "nlock",
           NEW w \in WakeByAddress(NativeQueue(object[t]), max[t])
    PROVE  w[1] \subseteq NativeQueue(object[t]) /\ w[2] \in 0..(INT_MAX - 1)
<1> DEFINE q == NativeQueue(object[t])
<1>1. \/ w \in LinuxWake(q, max[t]) \/ w \in FreeBSDWake(q, max[t])
      \/ w \in MacWake(q, max[t]) \/ w \in WindowsWake(q, max[t])
    BY DEF WakeByAddress
<1>2. Reported(max[t]) \in 0..(INT_MAX - 1)
    BY WaitNotifyAssumption, BackendsAssumption DEF Reported
<1>3. ASSUME NEW s \in SUBSET q PROVE Cardinality(s) \in 0..(INT_MAX - 1)
    <2>1. s \subseteq Threads \ {t}
        BY DEF NativeQueue
    <2>2. /\ IsFiniteSet(Threads \ {t})
          /\ Cardinality(Threads \ {t}) = Cardinality(Threads) - 1
        BY WaitNotifyAssumption, FS_RemoveElement
    <2>3. IsFiniteSet(s) /\ Cardinality(s) <= Cardinality(Threads \ {t})
        BY <2>1, <2>2, FS_Subset
    <2>4. Cardinality(s) \in Nat /\ Cardinality(Threads) \in Nat
        BY <2>3, FS_CardinalityType, WaitNotifyAssumption
    <2> QED
        BY <2>2, <2>3, <2>4, WaitNotifyAssumption
<1>4. \A n : FutexWake(q, n) \subseteq SUBSET q
    BY DEF FutexWake
<1>5. CASE w \in LinuxWake(q, max[t])
    <2>1. PICK s \in FutexWake(q, NrWake(max[t])) : w = <<s, Cardinality(s)>>
        BY <1>5 DEF LinuxWake
    <2> QED
        BY <2>1, <1>3, <1>4
<1>6. CASE w \in FreeBSDWake(q, max[t])
    <2>1. PICK s \in FutexWake(q, NrWake(max[t])) : w = <<s, Reported(max[t])>>
        BY <1>6 DEF FreeBSDWake
    <2> QED
        BY <2>1, <1>2, <1>4
<1>7. CASE w \in MacWake(q, max[t]) \/ w \in WindowsWake(q, max[t])
    <2>1. PICK s \in OneOrAll(q, max[t]) : w = <<s, Reported(max[t])>>
        BY <1>7 DEF MacWake, WindowsWake
    <2>2. s \subseteq q
        BY <2>1, <1>4 DEF OneOrAll
    <2> QED
        BY <2>1, <2>2, <1>2
<1> QED
    BY <1>1, <1>5, <1>6, <1>7

\* A wait that is woken goes round the loop as it was.
LEMMA WokenOK ==
    ASSUME NEW u \in Threads, AllInv, pc[u] = "parked",
           pc'[u] = (IF NativeWait(u) THEN "load" ELSE "recount"),
           UNCHANGED <<object, expected, observed, deadline, item, max, errno,
                       errno_is_set, api, backend, width>>,
           ret'[u] = ret[u]
    PROVE  ThreadOK(u)'
<1>1. NativeWait(u)' = NativeWait(u) /\ Registered(u)' = Registered(u)
    BY DEF NativeWait, HaveWait, Registered
<1>2. ArgumentsOK(u)'
    BY DEF AllInv, ThreadOK, ArgumentsOK, Quiescent, AllWaitPC, WaitPC
<1>3. RouteOK(u)'
    BY <1>1 DEF AllInv, ThreadOK, RouteOK, RegisteredPC
<1>4. OutcomeOK(u)'
    BY <1>1 DEF AllInv, ThreadOK, OutcomeOK, Undecided, AllWaitPC, WaitPC
<1>5. ReportOK(u)'
    BY DEF ReportOK
<1> QED
    BY <1>2, <1>3, <1>4, <1>5 DEF ThreadOK

\* A wake sends waiters of the object round the loop and returns the count.
LEMMA NativeWakeKeepsAll ==
    ASSUME NEW t \in Threads, AllInv, NativeWait(t), NativeWake(t)
    PROVE  AllInv'
<1> USE DEF memory, call, calls, kernelVars, nativeVars
<1>0. pc[t] = "nlock" /\ ~Registered(t)
    BY DEF NativeWake, AllInv, ThreadOK, RouteOK
<1>1. PICK w \in WakeByAddress(NativeQueue(object[t]), max[t]) :
          /\ pc' = [u \in Threads |-> IF u = t THEN "notified"
                                      ELSE IF u \in w[1] THEN "load" ELSE pc[u]]
          /\ ret' = [ret EXCEPT ![t] = @ + w[2]]
    BY DEF NativeWake
<1>2. UNCHANGED <<value, lock, table, use_count, object, expected, deadline, max,
                  item, observed, errno, errno_is_set, waits, notifies, backend,
                  width, api>>
    BY ErrnoRestored DEF NativeWake, AllInv, SharedOK
<1>3. w[1] \subseteq NativeQueue(object[t]) /\ w[2] \in 0..(INT_MAX - 1)
    BY <1>0, WakeByAddressCounts
<1>4. \A u \in w[1] : u \in Threads /\ u # t /\ pc[u] = "parked" /\ NativeWait(u)
    BY <1>0, <1>3 DEF NativeQueue, NativeWait
<1>5. w[2] \in Int /\ ret[t] \in Int
    BY <1>3, WaitNotifyAssumption DEF AllInv, SharedOK, WaitNotifyTypeOK
<1>6. SharedOK'
    <2> USE DEF AllInv, SharedOK, WaitNotifyTypeOK
    <2>1. WaitNotifyTypeOK'
        BY <1>1, <1>2, <1>5
    <2>2. pc' \in [Threads -> Quiescent \cup AllWaitPC \cup {"nlock", "nwake"}]
        BY <1>1 DEF Quiescent, AllWaitPC, WaitPC
    <2>3. LockOK'
        BY <1>0, <1>1, <1>2, <1>4 DEF LockOK
    <2>4. NotifierKeepsProxy'
        BY <1>1, <1>2 DEF NotifierKeepsProxy
    <2> QED
        BY <1>2, <2>1, <2>2, <2>3, <2>4, SharedKept
<1>7. ThreadOK(t)'
    <2>1. pc'[t] = "notified" /\ ret'[t] = ret[t] + w[2]
        BY <1>1 DEF AllInv, SharedOK, WaitNotifyTypeOK
    <2>2. ArgumentsOK(t)' /\ RouteOK(t)' /\ OutcomeOK(t)'
        BY <1>0, <1>2, <2>1
        DEF AllInv, ThreadOK, ArgumentsOK, RouteOK, OutcomeOK, Registered,
            NativeWait, HaveWait, Quiescent, AllWaitPC, WaitPC, RegisteredPC
    <2>3. ReportOK(t)'
        BY <1>0, <1>2, <1>3, <2>1, WaitNotifyAssumption
        DEF AllInv, ThreadOK, ReportOK
    <2> QED
        BY <2>2, <2>3 DEF ThreadOK
<1>8. ASSUME NEW u \in Threads, u # t PROVE ThreadOK(u)'
    <2>1. ret'[u] = ret[u]
        BY <1>1, <1>8 DEF AllInv, SharedOK, WaitNotifyTypeOK
    <2>2. CASE u \in w[1]
        BY <1>1, <1>2, <1>4, <1>8, <2>1, <2>2, WokenOK
    <2>3. CASE u \notin w[1]
        BY <1>1, <1>2, <1>8, <2>1, <2>3, UntouchedOK DEF Untouched, AllInv
    <2> QED
        BY <2>2, <2>3
<1> QED
    BY <1>6, <1>7, <1>8 DEF AllInv

-------------------------------------------------------------------------------
(* The route through the table *)

\* A call on this route is a void one without a deadline.
LEMMA TableIsVoid ==
    ASSUME AllInv, NEW t \in Threads, ~NativeWait(t), pc[t] \notin Quiescent
    PROVE  object[t] \in Objects /\ api[t] = "void" /\ deadline[t] = "none"
<1>1. object[t] \in Objects
    BY DEF AllInv, ThreadOK, ArgumentsOK
<1>2. api[t] = "void"
    BY <1>1, IntIsNative DEF AllInv, SharedOK
<1> QED
    BY <1>1, <1>2 DEF AllInv, ThreadOK, ArgumentsOK

\* A wait that goes on, with or without a proxy, and has not decided yet.
LEMMA TableTurnKeepsAll ==
    ASSUME NEW t \in Threads, AllInv, ~NativeWait(t),
           pc[t] \in {"load", "recheck", "park", "parked", "recount"},
           \E x \in {"load", "register", "park", "parked", "recount"} :
               /\ pc' = [pc EXCEPT ![t] = x]
               /\ x = "register" => ~Registered(t)
               /\ x # "register" => Registered(t),
           ret' = ret \/ ret' = [ret EXCEPT ![t] = 1],
           lock' = IF pc[t] = "recheck" THEN NULL ELSE lock,
           UNCHANGED <<value, table, use_count, call, item, observed, errno,
                       errno_is_set, calls, nativeVars>>
    PROVE  AllInv'
<1> USE DEF AllInv, SharedOK, WaitNotifyTypeOK, call, calls, nativeVars
<1>0. /\ Undecided(t) /\ api[t] = "void" /\ deadline[t] = "none"
      /\ object[t] \in Objects /\ expected[t] \in Values
      /\ ~Registered(t) => errno[t] = "entry"
    BY TableIsVoid
    DEF ThreadOK, OutcomeOK, ArgumentsOK, AllWaitPC, WaitPC, Quiescent
<1>1. WaitNotifyTypeOK'
    OBVIOUS
<1>2. pc' \in [Threads -> Quiescent \cup AllWaitPC \cup {"nlock", "nwake"}]
    BY DEF AllWaitPC, WaitPC
<1>3. LockOK'
    BY WaitNotifyAssumption DEF LockOK
<1>4. ~NativeWait(t)' /\ Registered(t)' = Registered(t)
    BY DEF NativeWait, HaveWait, Registered
<1>5. ArgumentsOK(t)' /\ RouteOK(t)'
    BY <1>0, <1>4 DEF ThreadOK, ArgumentsOK, RouteOK, RegisteredPC
<1>6. OutcomeOK(t)' /\ ReportOK(t)'
    BY <1>0, <1>4 DEF OutcomeOK, Undecided, ReportOK, AllWaitPC, WaitPC
<1> QED
    BY <1>1, <1>2, <1>3, <1>5, <1>6, LocalKeepsAll DEF Untouched, ThreadOK

\* A wait that has seen a change, or met an error, goes to the tail with its
\* proxy, or returns if it has none.
LEMMA TableEndKeepsAll ==
    ASSUME NEW t \in Threads, AllInv, ~NativeWait(t),
           pc[t] \in {"load", "register", "recheck", "park"},
           \/ /\ Registered(t)
              /\ pc' = [pc EXCEPT ![t] = "release"]
              /\ Succeeds(t)' \/ Fails(t)'
           \/ /\ ~Registered(t)
              /\ pc' = [pc EXCEPT ![t] = "waited"]
              /\ Ended(t)',
           \A u \in Threads : u # t =>
               /\ observed'[u] = observed[u] /\ ret'[u] = ret[u]
               /\ errno'[u] = errno[u] /\ errno_is_set'[u] = errno_is_set[u],
           WaitNotifyTypeOK',
           UNCHANGED <<memory, call, item, nativeVars>>
    PROVE  AllInv'
<1> USE DEF AllInv, SharedOK, memory, call, nativeVars
<1>0. /\ api[t] = "void" /\ deadline[t] = "none"
      /\ object[t] \in Objects /\ expected[t] \in Values
    BY TableIsVoid DEF ThreadOK, ArgumentsOK, AllWaitPC, WaitPC, Quiescent
<1>1. pc' \in [Threads -> Quiescent \cup AllWaitPC \cup {"nlock", "nwake"}]
    BY DEF AllWaitPC, WaitPC, Quiescent
<1>2. pc[t] = "recheck" => Registered(t)
    BY DEF ThreadOK, RouteOK, RegisteredPC
<1>3. LockOK'
    BY <1>2 DEF LockOK
<1>4. ~NativeWait(t)' /\ Registered(t)' = Registered(t)
    BY DEF NativeWait, HaveWait, Registered
<1>5. ArgumentsOK(t)' /\ RouteOK(t)'
    BY <1>0, <1>4
    DEF ThreadOK, ArgumentsOK, RouteOK, RegisteredPC, Quiescent, AllWaitPC, WaitPC
<1>6. OutcomeOK(t)' /\ ReportOK(t)'
    BY <1>0, <1>4 DEF OutcomeOK, ReportOK, AllWaitPC, WaitPC
<1> QED
    BY <1>1, <1>3, <1>5, <1>6, LocalKeepsAll DEF Untouched, ThreadOK

\* The loads of the loop, with and without the lock.
LEMMA TableLoadKeepsAll ==
    ASSUME NEW t \in Threads, AllInv, ~NativeWait(t), Load(t) \/ Recheck(t),
           UNCHANGED nativeVars
    PROVE  AllInv'
<1>0. /\ pc[t] \in {"load", "recheck"} /\ Undecided(t)
      /\ object[t] \in Objects /\ deadline[t] = "none"
      /\ ~Registered(t) => errno[t] = "entry"
      /\ pc[t] = "recheck" => Registered(t)
      /\ value[object[t]] \in Values
    <2>1. pc[t] \in {"load", "recheck"}
        BY DEF Load, Recheck
    <2>2. object[t] \in Objects /\ deadline[t] = "none"
        BY <2>1, TableIsVoid DEF Quiescent
    <2> QED
        BY <2>1, <2>2
        DEF AllInv, SharedOK, WaitNotifyTypeOK, ThreadOK, OutcomeOK, RouteOK,
            RegisteredPC, AllWaitPC, WaitPC
<1>1. CASE Changed(t)
    <2>1. /\ observed' = [observed EXCEPT ![t] = value[object[t]]]
          /\ pc' = [pc EXCEPT ![t] = IF Registered(t) THEN "release" ELSE "waited"]
          /\ UNCHANGED <<memory, call, item, ret, errno, errno_is_set, calls>>
        <3>1. CASE Load(t)
            BY <1>1, <3>1 DEF Load, Observe, Registered
        <3>2. CASE Recheck(t)
            BY <1>0, <1>1, <3>2 DEF Recheck, Observe, memory
        <3> QED
            BY <3>1, <3>2
    <2>2. Succeeds(t)' /\ (~Registered(t) => Ended(t)')
        BY <1>0, <1>1, <2>1
        DEF AllInv, SharedOK, WaitNotifyTypeOK, Undecided, Succeeds, Ended, Changed,
            call
    <2>3. WaitNotifyTypeOK'
        BY <1>0, <2>1 DEF AllInv, SharedOK, WaitNotifyTypeOK, memory, call, calls
    <2>4. \A u \in Threads : u # t =>
              /\ observed'[u] = observed[u] /\ ret'[u] = ret[u]
              /\ errno'[u] = errno[u] /\ errno_is_set'[u] = errno_is_set[u]
        BY <2>1 DEF AllInv, SharedOK, WaitNotifyTypeOK
    <2>5. CASE Registered(t)
        BY <1>0, <2>1, <2>2, <2>3, <2>4, <2>5, TableEndKeepsAll
    <2>6. CASE ~Registered(t)
        BY <1>0, <2>1, <2>2, <2>3, <2>4, <2>6, TableEndKeepsAll
    <2> QED
        BY <2>5, <2>6
<1>2. CASE ~Changed(t)
    <2>1. CASE Load(t)
        BY <1>0, <1>2, <2>1, TableTurnKeepsAll
        DEF Load, Observe, BeforePark, Registered, memory
    <2>2. CASE Recheck(t)
        BY <1>0, <1>2, <2>2, TableTurnKeepsAll
        DEF Recheck, Observe, BeforePark
    <2> QED
        BY <2>1, <2>2
<1> QED
    BY <1>1, <1>2

\* Parking, returning from it and reading the generation again.
LEMMA TableParkKeepsAll ==
    ASSUME NEW t \in Threads, AllInv, ~NativeWait(t),
           Park(t) \/ SpuriousWake(t) \/ Recount(t), UNCHANGED nativeVars
    PROVE  AllInv'
<1>1. /\ pc[t] \in {"park", "parked", "recount"}
      /\ \E x \in {"parked", "recount", "load"} : pc' = [pc EXCEPT ![t] = x]
      /\ UNCHANGED <<memory, call, item, result, calls>>
    BY DEF Park, SpuriousWake, Recount
<1>2. Registered(t)
    BY <1>1 DEF AllInv, ThreadOK, RouteOK, RegisteredPC
<1> QED
    BY <1>1, <1>2, TableTurnKeepsAll DEF memory, result

\* The two errors: no memory, and a park that fails.
LEMMA TableErrorKeepsAll ==
    ASSUME NEW t \in Threads, AllInv, ~NativeWait(t),
           RegisterFails(t) \/ ParkFails(t), UNCHANGED nativeVars
    PROVE  AllInv'
<1>0. /\ pc[t] \in {"register", "park"} /\ Undecided(t)
      /\ pc[t] = "register" => ~Registered(t)
      /\ pc[t] = "park" => Registered(t)
    BY DEF RegisterFails, ParkFails, AllInv, ThreadOK, OutcomeOK, RouteOK,
           RegisteredPC, AllWaitPC, WaitPC
<1>1. WaitNotifyTypeOK'
    <2> USE DEF AllInv, SharedOK, WaitNotifyTypeOK, memory, call, calls
    <2>1. CASE RegisterFails(t)
        BY <2>1 DEF RegisterFails
    <2>2. CASE ParkFails(t)
        BY <2>2 DEF ParkFails, HardError
    <2> QED
        BY <2>1, <2>2
<1>2. /\ UNCHANGED <<memory, call, item>>
      /\ \A u \in Threads : u # t =>
            /\ observed'[u] = observed[u] /\ ret'[u] = ret[u]
            /\ errno'[u] = errno[u] /\ errno_is_set'[u] = errno_is_set[u]
    BY DEF RegisterFails, ParkFails, HardError, AllInv, SharedOK, WaitNotifyTypeOK
<1>3. CASE RegisterFails(t)
    <2>1. Ended(t)'
        BY <1>0, <1>3
        DEF RegisterFails, Ended, Undecided, NativeWait, HaveWait, nativeVars, call,
            AllInv, SharedOK, WaitNotifyTypeOK
    <2>2. pc' = [pc EXCEPT ![t] = "waited"] /\ pc[t] = "register"
        BY <1>3 DEF RegisterFails
    <2> QED
        BY <1>0, <1>1, <1>2, <2>1, <2>2, TableEndKeepsAll
<1>4. CASE ParkFails(t)
    <2>1. Fails(t)'
        BY <1>0, <1>4
        DEF ParkFails, HardError, Fails, Undecided, AllInv, SharedOK,
            WaitNotifyTypeOK
    <2>2. pc' = [pc EXCEPT ![t] = "release"] /\ pc[t] = "park"
        BY <1>4 DEF ParkFails, HardError
    <2> QED
        BY <1>0, <1>1, <1>2, <2>1, <2>2, TableEndKeepsAll
<1> QED
    BY <1>3, <1>4

\* A step that registers, or gives the reference back: besides the thread only
\* the table and its references change.
LEMMA HolderKeepsAll ==
    ASSUME NEW t \in Threads, AllInv, ~NativeWait(t),
           pc[t] \in {"register", "release"}, lock \in {NULL, t},
           \E x \in {"recheck", "waited"} : pc' = [pc EXCEPT ![t] = x],
           WaitNotifyTypeOK', ProxyAccounting', NoDanglingProxy', LockOK',
           \A u \in Threads : u # t => item'[u] = item[u] /\ errno'[u] = errno[u],
           Registered(t)' <=> pc'[t] = "recheck",
           OutcomeOK(t)',
           UNCHANGED <<call, observed, ret, errno_is_set, nativeVars>>
    PROVE  AllInv'
<1> USE DEF call, nativeVars
<1>0. object[t] \in Objects /\ api[t] = "void" /\ deadline[t] = "none"
    BY TableIsVoid DEF Quiescent
<1>1. pc' \in [Threads -> Quiescent \cup AllWaitPC \cup {"nlock", "nwake"}]
    BY DEF AllInv, SharedOK, AllWaitPC, WaitPC, Quiescent
<1>2. SharedOK'
    <2>1. \A u \in Threads : pc'[u] # "nwake"
        BY WaitNotifyAssumption DEF AllInv, SharedOK, LockOK
    <2> QED
        BY <1>1, <2>1 DEF AllInv, SharedOK, NotifierKeepsProxy
<1>3. ThreadOK(t)'
    <2>1. ~NativeWait(t)'
        BY DEF NativeWait, HaveWait
    <2>2. pc'[t] \in {"recheck", "waited"}
        BY DEF AllInv, SharedOK
    <2>3. expected[t] \in Values
        BY DEF AllInv, ThreadOK, ArgumentsOK, AllWaitPC, WaitPC
    <2>4. ArgumentsOK(t)' /\ RouteOK(t)' /\ ReportOK(t)'
        BY <1>0, <2>1, <2>2, <2>3
        DEF AllInv, ThreadOK, ArgumentsOK, RouteOK, ReportOK, RegisteredPC
    <2> QED
        BY <2>4 DEF ThreadOK
<1>4. ASSUME NEW u \in Threads, u # t PROVE ThreadOK(u)'
    BY <1>4, UntouchedOK DEF Untouched, AllInv, SharedOK
<1> QED
    BY <1>2, <1>3, <1>4 DEF AllInv

\* A registered waiter is in a call.
LEMMA AllHolders == AllInv => HoldersOK
    BY DEF AllInv, HoldersOK, ThreadOK, RouteOK, ArgumentsOK, RegisteredPC, Quiescent

\* Registration.
LEMMA TableRegisterKeepsAll ==
    ASSUME NEW t \in Threads, AllInv, ~NativeWait(t), Register(t),
           UNCHANGED nativeVars
    PROVE  AllInv'
<1>1. /\ pc[t] = "register" /\ lock = NULL /\ lock' = t
      /\ pc' = [pc EXCEPT ![t] = "recheck"]
      /\ errno' = [errno EXCEPT ![t] = "scratch"]
      /\ UNCHANGED <<call, observed, ret, errno_is_set>>
    BY DEF Register
<1>2. object[t] \in Objects /\ ~Registered(t) /\ Undecided(t)
    BY <1>1
    DEF AllInv, ThreadOK, ArgumentsOK, RouteOK, OutcomeOK, RegisteredPC, Quiescent,
        AllWaitPC, WaitPC
<1>3. /\ WaitNotifyTypeOK' /\ ProxyAccounting' /\ NoDanglingProxy'
      /\ item'[t] \in Proxies
      /\ \A u \in Threads : u # t => item'[u] = item[u]
    BY <1>2, AllHolders, RegisterKeepsProxies DEF AllInv, SharedOK
<1>4. pc'[t] = "recheck" /\ Registered(t)'
    BY <1>1, <1>3, WaitNotifyAssumption DEF AllInv, SharedOK, Registered
<1>5. OutcomeOK(t)'
    BY <1>1, <1>2, <1>4 DEF OutcomeOK, Undecided, AllWaitPC, WaitPC
<1>6. LockOK'
    BY <1>1, WaitNotifyAssumption DEF AllInv, SharedOK, LockOK
<1>7. \A u \in Threads : u # t => item'[u] = item[u] /\ errno'[u] = errno[u]
    BY <1>1, <1>3 DEF AllInv, SharedOK, WaitNotifyTypeOK
<1> QED
    BY <1>1, <1>3, <1>4, <1>5, <1>6, <1>7, HolderKeepsAll

\* The tail.
LEMMA TableReleaseKeepsAll ==
    ASSUME NEW t \in Threads, AllInv, ~NativeWait(t), Release(t),
           UNCHANGED nativeVars
    PROVE  AllInv'
<1>1. /\ pc[t] = "release" /\ lock \in {NULL, t} /\ lock' = NULL
      /\ pc' = [pc EXCEPT ![t] = "waited"]
      /\ errno' = [errno EXCEPT ![t] = IF errno_is_set[t] THEN errno[t] ELSE "entry"]
      /\ UNCHANGED <<call, observed, ret, errno_is_set>>
    BY DEF Release, LockFree, SavedErrno
<1>2. Registered(t) /\ (Succeeds(t) \/ Fails(t))
    BY <1>1 DEF AllInv, ThreadOK, RouteOK, OutcomeOK, RegisteredPC
<1>3. /\ WaitNotifyTypeOK' /\ ProxyAccounting' /\ NoDanglingProxy'
      /\ item' = [item EXCEPT ![t] = NULL]
    BY <1>2, AllHolders, ReleaseKeepsProxies DEF AllInv, SharedOK
<1>4. pc'[t] = "waited" /\ ~Registered(t)'
    BY <1>1, <1>3 DEF AllInv, SharedOK, WaitNotifyTypeOK, Registered
<1>5. OutcomeOK(t)'
    <2>1. ~NativeWait(t)'
        BY <1>1 DEF NativeWait, HaveWait, nativeVars, call
    <2>2. Ended(t)'
        BY <1>1, <1>2, <2>1
        DEF Ended, Succeeds, Fails, AllInv, SharedOK, WaitNotifyTypeOK, call
    <2> QED
        BY <1>4, <2>2 DEF OutcomeOK, AllWaitPC, WaitPC
<1>6. LockOK'
    BY <1>1, WaitNotifyAssumption DEF AllInv, SharedOK, LockOK
<1>7. \A u \in Threads : u # t => item'[u] = item[u] /\ errno'[u] = errno[u]
    BY <1>1, <1>3 DEF AllInv, SharedOK, WaitNotifyTypeOK
<1> QED
    BY <1>1, <1>3, <1>4, <1>5, <1>6, <1>7, HolderKeepsAll

\* The notifier's own steps through the table, none of which is atomic_notify's.
LEMMA TableNotifyKeepsAll ==
    ASSUME NEW t \in Threads, AllInv, ~NativeWait(t),
           NobodyWaits(t) \/ Bump(t) \/ WakeFails(t), UNCHANGED nativeVars
    PROVE  AllInv'
<1> USE DEF memory, call, calls, result, nativeVars
<1>1. /\ pc[t] \in {"nlock", "nwake"}
      /\ \/ /\ pc[t] = "nlock" /\ lock = NULL /\ lock' = lock
            /\ pc' = [pc EXCEPT ![t] = "notified"] /\ ret' = ret
         \/ /\ pc[t] = "nlock" /\ lock = NULL /\ lock' = t
            /\ pc' = [pc EXCEPT ![t] = "nwake"] /\ ret' = ret
            /\ table[object[t]] # NULL
         \/ /\ pc[t] = "nwake" /\ lock' = NULL
            /\ pc' = [pc EXCEPT ![t] = "notified"]
            /\ ret' = [ret EXCEPT ![t] = -1]
      /\ UNCHANGED <<value, table, use_count, object, expected, deadline, max,
                     item, observed, errno, errno_is_set, waits, notifies,
                     backend, width, api>>
    BY DEF NobodyWaits, Bump, WakeFails
<1>2. object[t] \in Objects /\ api[t] = "void" /\ deadline[t] = "none"
    BY <1>1, TableIsVoid DEF Quiescent
<1>3. WaitNotifyTypeOK'
    BY <1>1 DEF AllInv, SharedOK, WaitNotifyTypeOK
<1>4. pc' \in [Threads -> Quiescent \cup AllWaitPC \cup {"nlock", "nwake"}]
    BY <1>1 DEF AllInv, SharedOK, Quiescent
<1>5. LockOK'
    BY <1>1, WaitNotifyAssumption DEF AllInv, SharedOK, LockOK
<1>6. ThreadOK(t)'
    <2>1. pc'[t] \in {"notified", "nwake"} /\ ~Registered(t)'
        BY <1>1 DEF AllInv, SharedOK, ThreadOK, RouteOK, Registered, RegisteredPC
    <2>2. ~NativeWait(t)'
        BY <1>1 DEF NativeWait, HaveWait
    <2>3. ReportOK(t)'
        BY <1>1, <1>2, <2>1 DEF AllInv, SharedOK, ThreadOK, ReportOK
    <2> QED
        BY <1>1, <1>2, <2>1, <2>2, <2>3
        DEF ThreadOK, ArgumentsOK, RouteOK, OutcomeOK, RegisteredPC, AllWaitPC,
            WaitPC, Quiescent
<1>7. /\ \A u \in Threads : u # t => Untouched(u)
      /\ pc'[t] = "nwake" => table[object[t]] # NULL
    BY <1>1 DEF Untouched, AllInv, SharedOK, WaitNotifyTypeOK
<1> QED
    BY <1>1, <1>3, <1>4, <1>5, <1>6, <1>7, LocalKeepsAll

\* The wake: waiters of the proxy go round the loop.
LEMMA TableWakeKeepsAll ==
    ASSUME NEW t \in Threads, AllInv, ~NativeWait(t), Wake(t),
           UNCHANGED nativeVars
    PROVE  AllInv'
<1> USE DEF call, calls, nativeVars
<1>1. PICK s \in FutexWake(Queue(table[object[t]]), NrWake(max[t])) :
          /\ pc' = [u \in Threads |-> IF u = t THEN "notified"
                                      ELSE IF u \in s THEN "recount" ELSE pc[u]]
          /\ ret' = [ret EXCEPT ![t] = Cardinality(s)]
    BY DEF Wake
<1>2. /\ pc[t] = "nwake" /\ lock' = NULL
      /\ UNCHANGED <<value, table, use_count, object, expected, deadline, max,
                     item, observed, errno, errno_is_set, waits, notifies,
                     backend, width, api>>
    BY DEF Wake
<1>3. object[t] \in Objects /\ api[t] = "void" /\ deadline[t] = "none"
    BY <1>2, TableIsVoid DEF Quiescent
<1>p. table[object[t]] # NULL
    BY <1>2 DEF AllInv, SharedOK, NotifierKeepsProxy
<1>4. \A u \in s : /\ u \in Threads /\ u # t /\ pc[u] = "parked"
                   /\ item[u] = table[object[t]]
    BY <1>2 DEF FutexWake, Queue
<1>5. \A u \in s : ~NativeWait(u)
    BY <1>4, <1>p DEF AllInv, ThreadOK, RouteOK, Registered
<1>6. Cardinality(s) \in Int
    <2>1. s \subseteq Threads
        BY <1>4
    <2> QED
        BY <2>1, WaitNotifyAssumption, FS_Subset, FS_CardinalityType
<1>7. SharedOK'
    <2>1. WaitNotifyTypeOK'
        BY <1>1, <1>2, <1>6 DEF AllInv, SharedOK, WaitNotifyTypeOK
    <2>2. pc' \in [Threads -> Quiescent \cup AllWaitPC \cup {"nlock", "nwake"}]
        BY <1>1 DEF AllInv, SharedOK, Quiescent, AllWaitPC, WaitPC
    <2>3. LockOK'
        BY <1>1, <1>2, <1>4, WaitNotifyAssumption DEF AllInv, SharedOK, LockOK
    <2>4. NotifierKeepsProxy'
        BY <1>1, <1>2 DEF AllInv, SharedOK, NotifierKeepsProxy
    <2> QED
        BY <1>2, <2>1, <2>2, <2>3, <2>4, SharedKept DEF AllInv, SharedOK
<1>8. ThreadOK(t)'
    <2>1. pc'[t] = "notified" /\ ~Registered(t)'
        BY <1>1, <1>2 DEF AllInv, ThreadOK, RouteOK, Registered, RegisteredPC
    <2>2. ~NativeWait(t)'
        BY <1>2 DEF NativeWait, HaveWait
    <2> QED
        BY <1>2, <1>3, <2>1, <2>2
        DEF ThreadOK, ArgumentsOK, RouteOK, OutcomeOK, ReportOK, RegisteredPC,
            AllWaitPC, WaitPC, Quiescent
<1>9. ASSUME NEW u \in Threads, u # t PROVE ThreadOK(u)'
    <2>1. ret'[u] = ret[u]
        BY <1>1, <1>9 DEF AllInv, SharedOK, WaitNotifyTypeOK
    <2>2. CASE u \in s
        BY <1>1, <1>2, <1>4, <1>5, <1>9, <2>1, <2>2, WokenOK
    <2>3. CASE u \notin s
        BY <1>1, <1>2, <1>9, <2>1, <2>3, UntouchedOK DEF Untouched, AllInv
    <2> QED
        BY <2>2, <2>3
<1> QED
    BY <1>7, <1>8, <1>9 DEF AllInv

-------------------------------------------------------------------------------
(* Calls *)

\* A thread that calls the library holds nothing of it and starts afresh.
LEMMA EnterKeepsAll ==
    ASSUME NEW t \in Threads, AllInv, pc[t] \in Quiescent,
           \E x \in {"load", "nlock", "notified"} : pc' = [pc EXCEPT ![t] = x],
           UNCHANGED <<lock, table, use_count, item, backend, width>>,
           \A u \in Threads : u # t => Untouched(u),
           WaitNotifyTypeOK', api' \in [Threads -> {"void", "int"}],
           object'[t] \in Objects,
           deadline'[t] # "none" => api'[t] = "int",
           api'[t] = "int" => width[object'[t]] = 4,
           pc'[t] = "load" => /\ expected'[t] \in Values
                              /\ Undecided(t)'
                              /\ errno'[t] = "entry",
           ReportOK(t)'
    PROVE  AllInv'
<1>0. ~Registered(t)
    BY DEF AllInv, ThreadOK, RouteOK, RegisteredPC, Quiescent
<1>1. pc'[t] \in {"load", "nlock", "notified"}
    BY DEF AllInv, SharedOK
<1>2. SharedOK'
    <2>1. pc' \in [Threads -> Quiescent \cup AllWaitPC \cup {"nlock", "nwake"}]
        BY DEF AllInv, SharedOK, Quiescent, AllWaitPC, WaitPC
    <2>2. LockOK'
        BY <1>1 DEF AllInv, SharedOK, LockOK, Untouched, Quiescent
    <2>3. NotifierKeepsProxy'
        BY <1>1 DEF AllInv, SharedOK, NotifierKeepsProxy, Untouched
    <2>4. \A u \in Threads : Registered(u) => object'[u] = object[u]
        BY <1>0 DEF Untouched
    <2> QED
        BY <2>1, <2>2, <2>3, <2>4, SharedKept DEF AllInv
<1>3. ThreadOK(t)'
    <2>1. ArgumentsOK(t)'
        BY <1>1 DEF ArgumentsOK, AllWaitPC, WaitPC
    <2>2. RouteOK(t)'
        BY <1>0, <1>1 DEF RouteOK, Registered, RegisteredPC
    <2>3. OutcomeOK(t)'
        BY <1>1 DEF OutcomeOK, AllWaitPC, WaitPC
    <2> QED
        BY <2>1, <2>2, <2>3 DEF ThreadOK
<1>4. ASSUME NEW u \in Threads, u # t PROVE ThreadOK(u)'
    BY <1>4, UntouchedOK DEF AllInv
<1> QED
    BY <1>2, <1>3, <1>4 DEF AllInv

\* A wait begins.
LEMMA BeginWaitKeepsAll ==
    ASSUME NEW t \in Threads, AllInv, NEW o \in Objects, NEW e \in Expects,
           NEW d \in {"none", "ahead", "past"}, NEW a \in {"void", "int"},
           BeginWait(t, o, e, d), api' = [api EXCEPT ![t] = a],
           d # "none" => a = "int", a = "int" => width[o] = 4,
           UNCHANGED <<backend, width>>
    PROVE  AllInv'
<1> USE DEF AllInv, SharedOK, WaitNotifyTypeOK, BeginWait, memory
<1>1. WaitNotifyTypeOK' /\ e \in Values
    BY WaitNotifyAssumption DEF UINT_MAX
<1>2. api' \in [Threads -> {"void", "int"}]
    OBVIOUS
<1>3. \A u \in Threads : u # t => Untouched(u)
    BY DEF Untouched
<1>4. /\ pc'[t] = "load" /\ object'[t] = o /\ expected'[t] = e
      /\ deadline'[t] = d /\ api'[t] = a /\ errno'[t] = "entry"
      /\ Undecided(t)'
    BY DEF Undecided
<1>5. ReportOK(t)'
    BY <1>4 DEF ReportOK
<1>6. UNCHANGED <<lock, table, use_count, item>> /\ pc[t] \in Quiescent
    OBVIOUS
<1>7. pc' = [pc EXCEPT ![t] = "load"]
    OBVIOUS
<1> HIDE DEF AllInv, SharedOK, WaitNotifyTypeOK, BeginWait, memory
<1> QED
    BY <1>1, <1>2, <1>3, <1>4, <1>5, <1>6, <1>7, EnterKeepsAll

\* A notify begins; the exchange of atomic_notify_32 is part of it.
LEMMA EnterNotifyKeepsAll ==
    ASSUME NEW t \in Threads, AllInv, NEW o \in Objects,
           NEW e \in Values \cup {NULL}, NEW m \in 0..UINT_MAX,
           NEW a \in {"void", "int"},
           EnterNotify(t, o, e, m), api' = [api EXCEPT ![t] = a],
           a = "int" => width[o] = 4,
           value' \in [Objects -> Values],
           NEW x \in {"nlock", "notified"}, pc' = [pc EXCEPT ![t] = x],
           NEW r \in {0, 1}, ret' = [ret EXCEPT ![t] = r],
           NEW b \in Values \cup {NULL}, observed' = [observed EXCEPT ![t] = b],
           a = "int" =>
               \/ x = "nlock" /\ r = 1 /\ b = NULL /\ m # 0
               \/ /\ x = "notified" /\ r = 0
                  /\ \/ m = 0 /\ b = NULL
                     \/ m # 0 /\ b \in Values \ {e},
           UNCHANGED <<backend, width>>
    PROVE  AllInv'
<1> USE DEF AllInv, SharedOK, WaitNotifyTypeOK, EnterNotify
<1>1. WaitNotifyTypeOK'
    OBVIOUS
<1>2. api' \in [Threads -> {"void", "int"}]
    OBVIOUS
<1>3. \A u \in Threads : u # t => Untouched(u)
    BY DEF Untouched
<1>4. /\ pc'[t] = x /\ object'[t] = o /\ expected'[t] = e
      /\ deadline'[t] = "none" /\ api'[t] = a /\ errno'[t] = "entry"
      /\ max'[t] = m /\ ret'[t] = r /\ observed'[t] = b
    OBVIOUS
<1>5. ReportOK(t)'
    BY <1>4 DEF ReportOK
<1>6. UNCHANGED <<lock, table, use_count, item>> /\ pc[t] \in Quiescent
    OBVIOUS
<1> HIDE DEF AllInv, SharedOK, WaitNotifyTypeOK, EnterNotify
<1> QED
    BY <1>1, <1>2, <1>3, <1>4, <1>5, <1>6, EnterKeepsAll

\* Every call of atomic_wait.h.
LEMMA CallKeepsAll ==
    ASSUME NEW t \in Threads, AllInv, AnyCall(t)
    PROVE  AllInv'
<1>0. UNCHANGED <<backend, width>>
    BY DEF AnyCall
<1>1. CASE VoidCall(t)
    <2>1. api' = [api EXCEPT ![t] = "void"]
        BY <1>1 DEF VoidCall
    <2>2. ASSUME NEW o \in Objects, NEW e \in Expects, BeginWait(t, o, e, "none")
          PROVE  AllInv'
        BY <1>0, <2>1, <2>2, BeginWaitKeepsAll
    <2>3. ASSUME NEW o \in Objects, NEW m \in BareWakes, BareNotify(t, o, m)
          PROVE  AllInv'
        <3>1. m \in 0..UINT_MAX /\ value' \in [Objects -> Values]
            BY <2>3, WaitNotifyAssumption
            DEF BareNotify, AllInv, SharedOK, WaitNotifyTypeOK
        <3> QED
            BY <1>0, <2>1, <2>3, <3>1, EnterNotifyKeepsAll
            DEF BareNotify, CallNotify
    <2>4. ASSUME NEW o \in Objects, NEW v \in Stores, NEW m \in StoreWakes,
                 StoreNotify(t, o, v, m)
          PROVE  AllInv'
        <3>1. m \in 0..UINT_MAX /\ value' \in [Objects -> Values]
            BY <2>4, WaitNotifyAssumption
            DEF StoreNotify, AllInv, SharedOK, WaitNotifyTypeOK
        <3> QED
            BY <1>0, <2>1, <2>4, <3>1, EnterNotifyKeepsAll
            DEF StoreNotify, CallNotify
    <2> QED
        BY <1>1, <2>2, <2>3, <2>4 DEF VoidCall
<1>2. CASE IntCall(t)
    <2>1. api' = [api EXCEPT ![t] = "int"]
        BY <1>2 DEF IntCall
    <2>2. PICK o \in Objects, e \in Expects :
              /\ NativeCheck(o)
              /\ \/ \E d \in Deadlines : BeginWait(t, o, e, d)
                 \/ \E v \in Stores, m \in CasWakes : CasNotify(t, o, e, v, m)
        BY <1>2, Zenon DEF IntCall
    <2>3. width[o] = 4 /\ e \in Values
        BY <2>2, WaitNotifyAssumption DEF NativeCheck
    <2>4. ASSUME NEW d \in Deadlines, BeginWait(t, o, e, d)
          PROVE  AllInv'
        BY <1>0, <2>1, <2>3, <2>4, BeginWaitKeepsAll, WaitNotifyAssumption
    <2>5. ASSUME NEW v \in Stores, NEW m \in CasWakes, CasNotify(t, o, e, v, m)
          PROVE  AllInv'
        <3>1. m \in 0..UINT_MAX /\ v \in Values /\ value[o] \in Values
            BY WaitNotifyAssumption, BackendsAssumption
            DEF AllInv, SharedOK, WaitNotifyTypeOK
        <3>2. EnterNotify(t, o, e, m)
            BY <2>5 DEF CasNotify
        <3>3. CASE /\ m # 0 /\ value' = [value EXCEPT ![o] = v]
                   /\ CallNotify(t, 1)
            <4>1. value' \in [Objects -> Values]
                BY <3>1, <3>3 DEF AllInv, SharedOK, WaitNotifyTypeOK
            <4> QED
                BY <1>0, <2>1, <2>3, <3>1, <3>2, <3>3, <4>1, EnterNotifyKeepsAll
                DEF CallNotify
        <3>4. CASE /\ m = 0 \/ value[o] # e
                   /\ observed' = [observed EXCEPT ![t] =
                                      IF m = 0 THEN NULL ELSE value[o]]
                   /\ ret' = [ret EXCEPT ![t] = 0]
                   /\ pc' = [pc EXCEPT ![t] = "notified"]
                   /\ UNCHANGED value
            <4>1. value' \in [Objects -> Values]
                BY <3>4 DEF AllInv, SharedOK, WaitNotifyTypeOK
            <4>2. PICK b \in Values \cup {NULL} :
                      b = IF m = 0 THEN NULL ELSE value[o]
                BY <3>1
            <4>3. /\ observed' = [observed EXCEPT ![t] = b]
                  /\ m = 0 \/ b \in Values \ {e}
                BY <3>1, <3>4, <4>2
            <4> QED
                BY <1>0, <2>1, <2>3, <3>1, <3>2, <3>4, <4>1, <4>3,
                   EnterNotifyKeepsAll
        <3> QED
            BY <2>5, <3>3, <3>4 DEF CasNotify
    <2> QED
        BY <2>2, <2>4, <2>5
<1> QED
    BY <1>1, <1>2 DEF AnyCall

\* The end of a duration.
LEMMA DeadlineKeepsAll ==
    ASSUME NEW t \in Threads, AllInv, DeadlinePasses(t), UNCHANGED nativeVars
    PROVE  AllInv'
<1> USE DEF AllInv, SharedOK, WaitNotifyTypeOK, DeadlinePasses, memory, result,
            calls, nativeVars
<1>1. WaitNotifyTypeOK' /\ LockOK'
    BY DEF LockOK
<1>2. NativeWait(t)' = NativeWait(t) /\ Registered(t)' = Registered(t)
    BY DEF NativeWait, HaveWait, Registered
<1>3. ArgumentsOK(t)' /\ RouteOK(t)' /\ ReportOK(t)'
    BY <1>2 DEF ThreadOK, ArgumentsOK, RouteOK, ReportOK
<1>4. OutcomeOK(t)'
    BY <1>2
    DEF ThreadOK, OutcomeOK, Undecided, Succeeds, Fails, Quiescent, AllWaitPC, WaitPC
<1>5. \A u \in Threads : u # t => Untouched(u)
    BY DEF Untouched
<1>6. pc[t] = "nwake" => table[object[t]] # NULL
    BY DEF NotifierKeepsProxy
<1> QED
    BY <1>1, <1>3, <1>4, <1>5, <1>6, LocalKeepsAll DEF ThreadOK

-------------------------------------------------------------------------------
(* AllInv is inductive *)

\* At the start every thread is outside the library.
LEMMA InitAll == AllInit => AllInv
<1> SUFFICES ASSUME AllInit PROVE AllInv
    OBVIOUS
<1>1. Inv
    BY InitInv DEF AllInit
<1>2. SharedOK
    <2>1. pc \in [Threads -> Quiescent \cup AllWaitPC \cup {"nlock", "nwake"}]
        BY DEF AllInit, Init, WaitNotifyInit, Quiescent
    <2>2. api \in [Threads -> {"void", "int"}] /\ backend \in Backends
        BY DEF AllInit
    <2> QED
        BY <1>1, <2>1, <2>2 DEF SharedOK, Inv, TypeOK
<1>3. ASSUME NEW t \in Threads PROVE ThreadOK(t)
    <2>1. /\ pc[t] = "idle" /\ item[t] = NULL /\ deadline[t] = "none"
          /\ api[t] = "void"
        BY DEF AllInit, Init, WaitNotifyInit
    <2> QED
        BY <2>1
        DEF ThreadOK, ArgumentsOK, RouteOK, OutcomeOK, ReportOK, Registered,
            RegisteredPC, Quiescent, AllWaitPC, WaitPC
<1> QED
    BY <1>2, <1>3 DEF AllInv

\* Every step keeps AllInv: the route decides which lemma applies.
LEMMA NextKeepsAll == AllInv /\ [AllNext]_allVars => AllInv'
<1> SUFFICES ASSUME AllInv, [AllNext]_allVars PROVE AllInv'
    OBVIOUS
<1>1. ASSUME NEW t \in Threads, AnyCall(t) PROVE AllInv'
    BY <1>1, CallKeepsAll
<1>2. \A t \in Threads : TakesKernel(t) <=> NativeWait(t)
    BY DEF TakesKernel, NativeWait, NativeNotify, HaveWait, HaveWake
<1>3. ASSUME NEW t \in Threads, ~TakesKernel(t), TableStep(t) PROVE AllInv'
    <2>1. ~NativeWait(t) /\ Step(t) /\ UNCHANGED nativeVars
        BY <1>2, <1>3 DEF TableStep
    <2> QED
        BY <2>1, TableLoadKeepsAll, TableRegisterKeepsAll, TableErrorKeepsAll,
           TableParkKeepsAll, TableReleaseKeepsAll, TableNotifyKeepsAll,
           TableWakeKeepsAll
        DEF Step, CaptureGeneration
<1>4. ASSUME NEW t \in Threads, TakesKernel(t), NativeStep(t) PROVE AllInv'
    <2>1. NativeWait(t)
        BY <1>2, <1>4
    <2>2. ASSUME NativePark(t) PROVE AllInv'
        BY <2>1, <2>2, ErrnoRestored, NativeTurnKeepsAll
        DEF NativePark, AllInv, SharedOK, result
    <2> QED
        BY <1>4, <2>1, <2>2, NativeLoadKeepsAll, NativeCheckTimeKeepsAll,
           NativeParkFailsKeepsAll, NativeWakeKeepsAll, NativeWakeFailsKeepsAll
        DEF NativeStep
<1>5. ASSUME NEW t \in Threads, Environment(t) PROVE AllInv'
    <2>1. CASE DeadlinePasses(t) /\ UNCHANGED <<kernelVars, nativeVars>>
        BY <2>1, DeadlineKeepsAll
    <2>2. CASE ~TakesKernel(t) /\ SpuriousWake(t) /\ UNCHANGED nativeVars
        BY <1>2, <2>2, TableParkKeepsAll
    <2>3. CASE TakesKernel(t) /\ NativeReturn(t)
        BY <1>2, <2>3, ErrnoRestored, NativeTurnKeepsAll
        DEF NativeReturn, AllInv, SharedOK, result
    <2> QED
        BY <1>5, <2>1, <2>2, <2>3 DEF Environment
<1>6. ASSUME UNCHANGED allVars PROVE AllInv'
    <2> USE <1>6 DEF allVars, vars, waitNotifyVars, kernelVars, nativeVars, memory,
                     call, result, calls
    <2>1. SharedOK'
        BY DEF AllInv, SharedOK, WaitNotifyTypeOK, LockOK, ProxyAccounting, Waiters,
               NoDanglingProxy, NotifierKeepsProxy, Registered
    <2>2. ASSUME NEW u \in Threads PROVE ThreadOK(u)'
        BY UntouchedOK DEF Untouched, AllInv
    <2> QED
        BY <2>1, <2>2 DEF AllInv
<1> QED
    BY <1>1, <1>3, <1>4, <1>5, <1>6 DEF AllNext, AnyStep, Done, allVars

\* AllInv is an invariant of the specification.
LEMMA AllInvHolds == AllSpec => []AllInv
    BY InitAll, NextKeepsAll, PTL DEF AllSpec

-------------------------------------------------------------------------------
(* What the callers get back *)

\* atomic_wait and atomic_wait_expected keep their contract on every backend: a
\* wait that returns holds neither lock nor proxy, and its result, *expected and
\* errno agree.
THEOREM AllWaitsReturnAsPromised == AllSpec => []WaitContract
<1>1. AllInv => WaitContract
    <2> SUFFICES ASSUME AllInv, NEW t \in Threads, pc[t] = "waited"
                 PROVE  /\ lock # t /\ ~Registered(t)
                        /\ \/ /\ observed[t] \in Values \ {expected[t]}
                              /\ ret[t] \in {0, 1}
                              /\ errno[t] = "entry"
                           \/ /\ observed[t] = NULL
                              /\ <<ret[t], errno[t]>> \in
                                    {<<0, "ETIMEDOUT">>, <<-1, "ENOMEM">>,
                                     <<-1, "EWAIT">>}
                              /\ errno[t] = "ETIMEDOUT" => deadline[t] = "past"
        BY DEF WaitContract
    <2>1. lock # t /\ ~Registered(t)
        BY DEF AllInv, SharedOK, LockOK, ThreadOK, RouteOK, RegisteredPC
    <2>2. Ended(t)
        BY DEF AllInv, ThreadOK, OutcomeOK
    <2> QED
        BY <2>1, <2>2 DEF Ended, Succeeds
<1> QED
    BY <1>1, AllInvHolds, PTL

\* A void wait that goes to the kernel returns only on a changed value, with the
\* caller's errno, whatever errors the kernel reports.
THEOREM VoidWaitsSeeChange == AllSpec => []VoidWaitSeesChange
<1>1. AllInv => VoidWaitSeesChange
    <2> SUFFICES ASSUME AllInv, NEW t \in Threads, pc[t] = "waited",
                        api[t] = "void", NativeWait(t)
                 PROVE  observed[t] # NULL /\ errno[t] = "entry"
        BY DEF VoidWaitSeesChange
    <2>1. Ended(t)
        BY DEF AllInv, ThreadOK, OutcomeOK
    <2> QED
        BY <2>1, WaitNotifyAssumption DEF Ended, Succeeds
<1> QED
    BY <1>1, AllInvHolds, PTL

\* What atomic_notify returns tells the caller, on every backend, whether the
\* exchange was made and whether the wake failed, but for a limit of 0, with
\* which no exchange is tried; the count added to it never leaves the range of
\* int.
THEOREM NotifiesReturnAsPromised == AllSpec => []NotifyContract
<1>1. AllInv => NotifyContract
    BY DEF AllInv, ThreadOK, ReportOK, NotifyContract
<1> QED
    BY <1>1, AllInvHolds, PTL

\* The references are exact on every backend: waits that go to the kernel
\* neither take nor strand a proxy.
THEOREM AllAccountingCorrect == AllSpec => []ProxyAccounting
<1>1. AllInv => ProxyAccounting
    BY DEF AllInv, SharedOK
<1> QED
    BY <1>1, AllInvHolds, PTL

-------------------------------------------------------------------------------
(* The generations, with both routes in use *)

\* A call through the table finds its surroundings as KernelProxy's would.
LEMMA TableAround ==
    ASSUME AllInv, NEW t \in Threads, ~NativeWait(t)
    PROVE  Around(t)
<1>1. pc \in [Threads -> Control] /\ \A u \in Threads : pc[u] # "cond"
    BY DEF AllInv, SharedOK, Control, AllWaitPC, WaitPC, Quiescent
<1>2. \A u \in Threads : pc[u] \in {"park", "parked"} /\ object[u] = object[t] =>
          Registered(u)
    BY DEF AllInv, ThreadOK, RouteOK, NativeWait, RegisteredPC
<1>3. /\ pc[t] \notin Quiescent => object[t] \in Objects
      /\ pc[t] \in RegisteredPC => Registered(t)
      /\ pc[t] = "register" => ~Registered(t)
    BY DEF AllInv, ThreadOK, ArgumentsOK, RouteOK, RegisteredPC
<1>4. pc[t] = "nwake" => table[object[t]] # NULL
    BY DEF AllInv, SharedOK, NotifierKeepsProxy
<1> QED
    BY <1>1, <1>2, <1>3, <1>4, AllHolders DEF AllInv, SharedOK, Around

\* Nobody has a proxy for an object that the kernel can wait on.
LEMMA NativeUnregistered ==
    ASSUME AllInv, NEW o, HaveWait(width[o]), o # NULL
    PROVE  \A u \in Threads : Registered(u) => object[u] # o
    BY DEF AllInv, ThreadOK, RouteOK, NativeWait

\* The native route does not touch the generations.
LEMMA NativeKeepsGeneration ==
    ASSUME NEW t \in Threads, AllInv, GenerationInv, NativeWait(t),
           NativeStep(t) \/ NativeReturn(t)
    PROVE  GenerationInv'
<1> USE DEF memory, call, result, calls, kernelVars
<1>1. /\ WaitNotifyTypeOK /\ ~Registered(t)
      /\ pc \in [Threads -> Quiescent \cup AllWaitPC \cup {"nlock", "nwake"}]
      /\ \A u \in Threads : Registered(u) => object[u] # object[t]
    BY NativeUnregistered DEF AllInv, SharedOK, ThreadOK, RouteOK, NativeWait
<1>2. CASE \/ NativeLoad(t) \/ NativeCheckTime(t) \/ NativePark(t)
           \/ NativeParkFails(t) \/ NativeReturn(t)
    <2>1. /\ UNCHANGED <<value, object, expected, max, notifies, item, generation,
                         item_counter>>
          /\ \A u \in Threads : u # t => pc'[u] = pc[u]
          /\ pc[t] # "nlock" /\ pc'[t] # "nlock"
        BY <1>1, <1>2
        DEF NativeLoad, BeforePark, NativeCheckTime, NativePark, NativeParkFails,
            NativeReturn
    <2>2. ~Registered(t)'
        BY <1>1, <2>1 DEF Registered
    <2> QED
        BY <2>1, <2>2, WaiterKeepsGeneration DEF GenerationInv, CountersOK
<1>3. CASE NativeWake(t)
    <2>1. PICK w \in WakeByAddress(NativeQueue(object[t]), max[t]) :
              pc' = [u \in Threads |-> IF u = t THEN "notified"
                                       ELSE IF u \in w[1] THEN "load" ELSE pc[u]]
        BY <1>3 DEF NativeWake
    <2>2. /\ pc[t] = "nlock"
          /\ UNCHANGED <<value, object, expected, max, notifies, item, kernelVars>>
        BY <1>3 DEF NativeWake
    <2>3. \A u \in w[1] : u \in Threads /\ pc[u] = "parked"
        BY <2>2, WakeByAddressCounts DEF NativeQueue
    <2> QED
        BY <1>1, <2>1, <2>2, <2>3, LeaveKeepsGeneration
<1>4. CASE NativeWakeFails(t)
    <2>1. /\ pc[t] = "nlock" /\ pc'[t] = "notified"
          /\ \A u \in Threads : u # t => pc'[u] = pc[u]
          /\ UNCHANGED <<value, object, expected, max, notifies, item, kernelVars>>
        BY <1>1, <1>4 DEF NativeWakeFails
    <2> QED
        BY <1>1, <2>1, LeaveKeepsGeneration
<1> QED
    BY <1>2, <1>3, <1>4 DEF NativeStep

\* The calls with a result are on objects that nobody has a proxy for.
LEMMA AnyCallKeepsGeneration ==
    ASSUME NEW t \in Threads, AllInv, GenerationInv, AnyCall(t)
    PROVE  GenerationInv'
<1>1. /\ WaitNotifyTypeOK /\ pc \in [Threads -> Control] /\ UNCHANGED kernelVars
      /\ pc[t] \in Quiescent => ~Registered(t)
    BY DEF AnyCall, AllInv, SharedOK, ThreadOK, RouteOK, RegisteredPC, Control,
           Quiescent, AllWaitPC, WaitPC
<1>2. CASE VoidCall(t)
    <2>1. Call(t)
        BY <1>1, <1>2 DEF VoidCall, Call
    <2> QED
        BY <1>1, <2>1, CallKeepsGeneration
<1>3. ASSUME NEW o \in Objects, NEW e \in Expects, NEW d \in Deadlines,
             BeginWait(t, o, e, d)
      PROVE  GenerationInv'
    BY <1>1, <1>3, EnterKeepsGeneration DEF BeginWait, memory, WaitNotifyTypeOK
<1>4. ASSUME NEW o \in Objects, NEW e \in Expects, NEW v \in Stores,
             NEW m \in CasWakes, NativeCheck(o), CasNotify(t, o, e, v, m)
      PROVE  GenerationInv'
    <2>1. \A u \in Threads : Registered(u) => object[u] # o
        <3>1. o # NULL /\ HaveWait(width[o])
            BY <1>4, WaitNotifyAssumption, BackendsAssumption
            DEF NativeCheck, HaveWait, Natives, AllInv, SharedOK
        <3> QED
            BY <3>1, NativeUnregistered
    <2>2. /\ object' = [object EXCEPT ![t] = o]
          /\ expected' = [expected EXCEPT ![t] = e]
          /\ max' = [max EXCEPT ![t] = m]
          /\ notifies' = notifies + 1 /\ notifies < MaxNotifies
          /\ pc[t] \in Quiescent /\ UNCHANGED item
          /\ \/ pc' = [pc EXCEPT ![t] = "nlock"] /\ value' = [value EXCEPT ![o] = v]
             \/ pc' = [pc EXCEPT ![t] = "notified"] /\ value' = value
        BY <1>4 DEF CasNotify, EnterNotify, CallNotify
    <2>3. object'[t] = o
        BY <1>1, <2>2 DEF WaitNotifyTypeOK
    <2> QED
        BY <1>1, <2>1, <2>2, <2>3, EnterKeepsGeneration DEF WaitNotifyTypeOK
<1> QED
    BY <1>2, <1>3, <1>4 DEF AnyCall, IntCall

\* GenerationInv holds beside the native route, too.
LEMMA AllGenerationsHold ==
    ASSUME MaxNotifies < GenModulus
    PROVE  AllSpec => [](AllInv /\ GenerationInv)
<1>1. AllInit => GenerationInv
    BY InitGeneration DEF AllInit
<1>2. AllInv /\ GenerationInv /\ [AllNext]_allVars => GenerationInv'
    <2> SUFFICES ASSUME AllInv, GenerationInv, [AllNext]_allVars
                 PROVE  GenerationInv'
        OBVIOUS
    <2>1. \A t \in Threads : TakesKernel(t) <=> NativeWait(t)
        BY DEF TakesKernel, NativeWait, NativeNotify, HaveWait, HaveWake
    <2>2. ASSUME NEW t \in Threads, ~TakesKernel(t), TableStep(t) \/ SpuriousWake(t)
          PROVE  GenerationInv'
        BY <2>1, <2>2, TableAround, StepKeepsGeneration DEF TableStep
    <2>3. ASSUME NEW t \in Threads, TakesKernel(t), NativeStep(t) \/ NativeReturn(t)
          PROVE  GenerationInv'
        BY <2>1, <2>3, NativeKeepsGeneration
    <2>4. ASSUME NEW t \in Threads, DeadlinePasses(t), UNCHANGED kernelVars
          PROVE  GenerationInv'
        BY <2>4, StutterKeepsGeneration DEF DeadlinePasses, memory, calls
    <2>5. CASE UNCHANGED vars
        BY <2>5, StutterKeepsGeneration
        DEF vars, waitNotifyVars, kernelVars, memory, call, calls
    <2> QED
        BY <2>2, <2>3, <2>4, <2>5, AnyCallKeepsGeneration
        DEF AllNext, AnyStep, Environment, Done, allVars
<1> QED
    BY <1>1, <1>2, InitAll, NextKeepsAll, PTL DEF AllSpec

-------------------------------------------------------------------------------
(* The refinement to AtomicWait, on every backend *)

\* A kernel that compares a word narrower than the object still tells the values
\* apart.
WordsTell ==
    "freebsd32" \in Backends =>
        \A v, w \in Values : v % LongModulus = w % LongModulus => v = w

\* What the lemmas below know of a call that is going to the kernel.
NativeCall(t) ==
    /\ WaitNotifyTypeOK
    /\ pc \in [Threads -> Control]
    /\ NativeWait(t)
    /\ object[t] \in Objects /\ expected[t] \in Values \cup {NULL}
    /\ pc[t] \in AllWaitPC => expected[t] \in Values /\ observed[t] = NULL
    /\ pc[t] = "nlock" => ret[t] \in {0, 1}

\* The invariant says all of that.
LEMMA NativeCalls ==
    ASSUME AllInv, NEW t \in Threads, NativeWait(t), pc[t] \notin Quiescent
    PROVE  NativeCall(t)
<1>1. WaitNotifyTypeOK /\ pc \in [Threads -> Control]
    BY DEF AllInv, SharedOK, Control, AllWaitPC, WaitPC, Quiescent
<1>2. pc[t] \in AllWaitPC => expected[t] \in Values /\ observed[t] = NULL
    BY DEF AllInv, ThreadOK, ArgumentsOK, RouteOK, OutcomeOK, Undecided, AllWaitPC,
           WaitPC
<1> QED
    BY <1>1, <1>2
    DEF NativeCall, AllInv, ThreadOK, ArgumentsOK, ReportOK, WaitNotifyTypeOK

\* The load ends the wait, or goes on.
LEMMA NativeLoadPromised ==
    ASSUME NEW t \in Threads, NativeCall(t), NativeLoad(t)
    PROVE  Promise!Next \/ UNCHANGED Promise!vars
<1> USE DEF NativeCall, NativeLoad, memory, call
<1>1. CASE Changed(t)
    BY <1>1, ObservePromised
<1>2. CASE ~Changed(t)
    <2>1. PICK x \in {"park", "time"} : pc' = [pc EXCEPT ![t] = x]
        BY <1>2 DEF BeforePark, Observe
    <2>2. Phase(t) = "awake" /\ Phase(t)' = "awake"
        BY <2>1 DEF Phase
    <2> QED
        BY <1>2, <2>1, <2>2, GoesOnPromised DEF Observe, WaitNotifyTypeOK
<1> QED
    BY <1>1, <1>2

\* The clock ends a wait only after its deadline.
LEMMA NativeCheckTimePromised ==
    ASSUME NEW t \in Threads, NativeCall(t), NativeCheckTime(t)
    PROVE  Promise!Next \/ UNCHANGED Promise!vars
<1> USE DEF NativeCall, NativeCheckTime, WaitNotifyTypeOK, memory, call
<1>1. Phase(t) = "awake" /\ observed[t] = NULL
    BY DEF Phase, AllWaitPC
<1>2. CASE deadline[t] = "past"
    <2>1. Phase(t)' = "timedout"
        BY <1>1, <1>2 DEF Phase
    <2>2. SameWait(t)
        BY <1>1, <1>2, <2>1, OneWaits DEF Waiting
    <2> QED
        BY <1>1, <1>2, <2>1, <2>2, PromiseGiveUp
<1>3. CASE deadline[t] = "ahead"
    <2>1. Phase(t)' = "awake"
        BY <1>3 DEF Phase
    <2> QED
        BY <1>1, <1>3, <2>1, GoesOnPromised
<1> QED
    BY <1>2, <1>3

\* The kernel's compare and the queueing are one step, so a wait goes to sleep only
\* on the value that it expects.
LEMMA NativeParkPromised ==
    ASSUME NEW t \in Threads, NativeCall(t), NativePark(t), WordsTell,
           backend \in Backends
    PROVE  Promise!Next \/ UNCHANGED Promise!vars
<1>0. errno' = errno
    BY ErrnoRestored DEF NativeCall, NativePark
<1> USE <1>0 DEF NativeCall, NativePark, WaitNotifyTypeOK, memory, call
<1>1. Phase(t) = "awake"
    BY DEF Phase
<1>2. CASE KernelWord(t, value[object[t]]) = KernelWord(t, expected[t])
    <2>1. ~Changed(t)
        BY <1>2 DEF KernelWord, WordsTell, Changed, AllWaitPC, WaitPC
    <2>2. Phase(t)' = "asleep"
        BY <1>2 DEF Phase
    <2>3. SameWait(t)
        BY <1>1, <1>2, <2>2, OneWaits DEF Waiting
    <2> QED
        BY <1>1, <2>1, <2>2, <2>3, PromiseSleep
<1>3. CASE KernelWord(t, value[object[t]]) # KernelWord(t, expected[t])
    <2>1. Phase(t)' = "awake"
        BY <1>3 DEF Phase
    <2> QED
        BY <1>1, <1>3, <2>1, GoesOnPromised
<1> QED
    BY <1>2, <1>3

\* An error of the kernel sends the wait round the loop or ends it.
LEMMA NativeParkFailsPromised ==
    ASSUME NEW t \in Threads, NativeCall(t), NativeParkFails(t)
    PROVE  Promise!Next \/ UNCHANGED Promise!vars
<1> USE DEF NativeCall, WaitNotifyTypeOK, memory, call
<1>1. /\ Phase(t) = "awake" /\ observed[t] = NULL
      /\ UNCHANGED <<value, object, expected, deadline, max, observed>>
    BY DEF NativeParkFails, Phase, AllWaitPC, WaitPC
<1>2. CASE /\ pc' = [pc EXCEPT ![t] = "load"]
           /\ RestoresErrno(t) /\ UNCHANGED ret
    <2>0. errno' = errno
        BY <1>2, ErrnoRestored
    <2>1. Phase(t)' = "awake"
        BY <1>2, <2>0 DEF Phase
    <2> QED
        BY <1>1, <1>2, <2>0, <2>1, GoesOnPromised
<1>3. CASE /\ errno' = [errno EXCEPT ![t] = "EWAIT"]
           /\ ret' = [ret EXCEPT ![t] = -1]
           /\ pc' = [pc EXCEPT ![t] = "waited"]
    <2>1. Phase(t)' = "failed"
        BY <1>1, <1>3 DEF Phase
    <2>2. SameWait(t)
        BY <1>1, <1>3, <2>1, OneWaits DEF Waiting
    <2> QED
        BY <1>1, <2>1, <2>2, PromiseGiveUp
<1> QED
    BY <1>2, <1>3 DEF NativeParkFails

\* A sleep that ends without a wake.
LEMMA NativeReturnPromised ==
    ASSUME NEW t \in Threads, NativeCall(t), NativeReturn(t)
    PROVE  Promise!Next
<1>0. errno' = errno
    BY ErrnoRestored DEF NativeCall, NativeReturn
<1> USE <1>0 DEF NativeCall, NativeReturn, WaitNotifyTypeOK, memory, call
<1>1. Phase(t) = "asleep" /\ Phase(t)' = "awake"
    BY DEF Phase
<1>2. SameWait(t)
    BY <1>1, OneWaits DEF Waiting
<1> QED
    BY <1>1, <1>2, PromiseStir

\* The wake of every backend reaches all the sleepers or as many as its limit.
LEMMA WakeByAddressEnough ==
    ASSUME NEW q \in SUBSET Threads, NEW m \in 0..UINT_MAX,
           NEW w \in WakeByAddress(q, m)
    PROVE  w[1] \subseteq q /\ (w[1] = q \/ Cardinality(w[1]) >= m)
<1>1. \/ \E s \in FutexWake(q, NrWake(m)) : w[1] = s
      \/ \E s \in OneOrAll(q, m) : w[1] = s
    BY DEF WakeByAddress, LinuxWake, FreeBSDWake, MacWake, WindowsWake
<1>2. NrWake(1) = 1 /\ 1 \in 0..UINT_MAX
    BY WaitNotifyAssumption, BackendsAssumption DEF NrWake, UINT_MAX
<1>3. ASSUME NEW s \in OneOrAll(q, m)
      PROVE  s \subseteq q /\ (s = q \/ Cardinality(s) >= m)
    <2>1. CASE m = 1
        BY <1>2, <1>3, <2>1, FutexWakeEnough DEF OneOrAll
    <2>2. CASE m # 1
        BY <1>3, <2>2 DEF OneOrAll
    <2> QED
        BY <2>1, <2>2
<1> QED
    BY <1>1, <1>3, FutexWakeEnough

\* So a notify that goes to the kernel has woken enough when it returns.
LEMMA NativeWakePromised ==
    ASSUME NEW t \in Threads, AllInv, NativeCall(t), NativeWake(t)
    PROVE  Promise!Next
<1> USE DEF NativeCall, WaitNotifyTypeOK
<1>1. NativeQueue(object[t]) = SeenAsleep(object[t])
    <2>1. \A u \in Threads : Phase(u) = "asleep" <=> pc[u] = "parked"
        BY DEF Phase, AllInv, SharedOK, AllWaitPC, WaitPC, Quiescent
    <2>2. \A u \in Threads : object[u] = object[t] => item[u] = NULL
        BY DEF AllInv, ThreadOK, RouteOK, NativeWait, Registered
    <2> QED
        BY <2>1, <2>2 DEF NativeQueue, SeenAsleep
<1>2. PICK w \in WakeByAddress(NativeQueue(object[t]), max[t]) :
          /\ pc' = [u \in Threads |-> IF u = t THEN "notified"
                                      ELSE IF u \in w[1] THEN "load" ELSE pc[u]]
          /\ ret' = [ret EXCEPT ![t] = @ + w[2]]
    BY DEF NativeWake
<1>3. /\ pc[t] = "nlock" /\ ret[t] \in {0, 1}
      /\ UNCHANGED <<value, object, expected, deadline, max, observed, errno>>
    BY ErrnoRestored DEF NativeWake, memory, call
<1>4. w[2] \in 0..(INT_MAX - 1)
    BY <1>3, WakeByAddressCounts
<1>5. PICK s : s = w[1]
    OBVIOUS
<1>6. /\ s \in SUBSET SeenAsleep(object[t])
      /\ s = SeenAsleep(object[t]) \/ Cardinality(s) >= max[t]
    BY <1>1, <1>2, <1>5, WakeByAddressEnough DEF SeenAsleep
<1>7. Phase(t) = "notifying" /\ Phase(t)' = "idle"
    <2>1. ret'[t] # -1 /\ pc'[t] = "notified"
        BY <1>2, <1>3, <1>4, WaitNotifyAssumption
    <2> QED
        BY <1>3, <2>1 DEF Phase
<1>8. \A u \in Threads \ {t} : Phase(u)' = IF u \in s THEN "awake" ELSE Phase(u)
    BY <1>2, <1>3, <1>5 DEF Phase
<1> QED
    BY <1>3, <1>6, <1>7, <1>8, PromiseEndNotify

\* A native wake that fails misfires.
LEMMA NativeWakeFailsPromised ==
    ASSUME NEW t \in Threads, NativeCall(t), NativeWakeFails(t)
    PROVE  Promise!Next
<1>0. api[t] = "void" => errno' = errno
    BY ErrnoRestored DEF NativeCall, NativeWakeFails
<1> USE <1>0 DEF NativeCall, NativeWakeFails, WaitNotifyTypeOK, memory, call
<1>1. Phase(t) = "notifying" /\ Phase(t)' = "misfired"
    BY DEF Phase
<1>2. \A u \in Threads \ {t} : Seen(u)' = Seen(u)
    BY SeenKept
<1> QED
    BY <1>1, <1>2, PromiseMisfire

\* Every call of atomic_wait.h starts what AtomicWait says it starts.
LEMMA AnyCallPromised ==
    ASSUME NEW t \in Threads, AllInv, AnyCall(t)
    PROVE  Promise!Next
<1>1. WaitNotifyTypeOK /\ pc \in [Threads -> Control]
    BY DEF AllInv, SharedOK, Control, AllWaitPC, WaitPC, Quiescent
<1>2. CASE VoidCall(t)
    <2>1. Call(t)
        BY <1>2 DEF AnyCall, VoidCall, Call
    <2> QED
        BY <1>1, <2>1, CallPromised
<1>3. ASSUME NEW o \in Objects, NEW e \in Expects, NEW d \in Deadlines,
             BeginWait(t, o, e, d)
      PROVE  Promise!Next
    BY <1>1, <1>3, PromiseBeginWait
<1>4. ASSUME NEW o \in Objects, NEW e \in Expects, NEW v \in Stores,
             NEW m \in CasWakes, CasNotify(t, o, e, v, m)
      PROVE  Promise!Next
    <2>1. m \in 0..UINT_MAX /\ v \in Values
        BY WaitNotifyAssumption, BackendsAssumption
    <2>2. EnterNotify(t, o, e, m)
        BY <1>4 DEF CasNotify
    <2>3. CASE value' = [value EXCEPT ![o] = v] /\ CallNotify(t, 1)
        BY <1>1, <2>1, <2>2, <2>3, PromiseBeginNotify
    <2>4. CASE /\ observed' = [observed EXCEPT ![t] =
                                  IF m = 0 THEN NULL ELSE value[o]]
               /\ ret' = [ret EXCEPT ![t] = 0]
               /\ pc' = [pc EXCEPT ![t] = "notified"]
               /\ UNCHANGED value
        <3>1. PICK x : x = IF m = 0 THEN NULL ELSE value[o]
            OBVIOUS
        <3>2. observed' = [observed EXCEPT ![t] = x]
            BY <2>4, <3>1
        <3> QED
            BY <1>1, <2>1, <2>2, <2>4, <3>2, PromiseForget
    <2> QED
        BY <1>4, <2>3, <2>4 DEF CasNotify
<1> QED
    BY <1>2, <1>3, <1>4 DEF AnyCall, IntCall

\* Linux, macOS, FreeBSD and Windows give the callers of atomic_wait.h what it
\* promises, on both routes, with waits and notifies of every kind and whatever
\* fails; where FreeBSD's 8-byte wait compares a 32-bit long, for values that such
\* a long tells apart.
THEOREM BackendsKeepPromise ==
    ASSUME MaxNotifies < GenModulus, WordsTell
    PROVE  AllSpec => KeepsPromise
<1>1. AllInit => Promise!Init
    BY PromiseInit DEF AllInit, Init
<1>2. AllInv /\ GenerationInv /\ [AllNext]_allVars
          => [Promise!Next]_(Promise!vars)
    <2> SUFFICES ASSUME AllInv, GenerationInv, [AllNext]_allVars
                 PROVE  Promise!Next \/ UNCHANGED Promise!vars
        OBVIOUS
    <2>1. \A t \in Threads : TakesKernel(t) <=> NativeWait(t)
        BY DEF TakesKernel, NativeWait, NativeNotify, HaveWait, HaveWake
    <2>2. ASSUME NEW t \in Threads, ~TakesKernel(t), TableStep(t) \/ SpuriousWake(t)
          PROVE  Promise!Next \/ UNCHANGED Promise!vars
        <3>1. ResultsKept(t)
            <4>1. pc[t] = "release" /\ observed[t] = NULL => errno_is_set[t]
                BY WaitNotifyAssumption
                DEF AllInv, ThreadOK, OutcomeOK, Succeeds, Fails
            <4>2. pc[t] \in {"register", "park", "parked"} => observed[t] = NULL
                BY DEF AllInv, ThreadOK, OutcomeOK, Undecided, AllWaitPC, WaitPC
            <4>3. pc[t] \in {"nlock", "nwake"} => ret[t] # -1
                BY DEF AllInv, ThreadOK, ReportOK
            <4> QED
                BY <4>1, <4>2, <4>3 DEF ResultsKept
        <3> QED
            BY <2>1, <2>2, <3>1, TableAround, StepPromised DEF TableStep
    <2>3. ASSUME NEW t \in Threads, TakesKernel(t), NativeStep(t) \/ NativeReturn(t)
          PROVE  Promise!Next \/ UNCHANGED Promise!vars
        <3>1. pc[t] \notin Quiescent
            BY <2>3
            DEF NativeStep, NativeLoad, NativeCheckTime, NativePark, NativeParkFails,
                NativeWake, NativeWakeFails, NativeReturn, Quiescent
        <3>2. NativeCall(t) /\ backend \in Backends
            BY <2>1, <2>3, <3>1, NativeCalls DEF AllInv, SharedOK
        <3> QED
            BY <2>3, <3>2, NativeLoadPromised, NativeCheckTimePromised,
               NativeParkPromised, NativeParkFailsPromised, NativeReturnPromised,
               NativeWakePromised, NativeWakeFailsPromised
            DEF NativeStep
    <2>4. ASSUME NEW t \in Threads, DeadlinePasses(t)
          PROVE  Promise!Next \/ UNCHANGED Promise!vars
        BY <2>4, PromiseDeadline DEF AllInv, SharedOK
    <2>5. CASE UNCHANGED vars
        <3>1. \A u \in Threads : Seen(u)' = Seen(u)
            BY <2>5, SeenKept DEF vars, waitNotifyVars, call, result
        <3> QED
            BY <2>5, <3>1, PromiseStutter DEF vars, waitNotifyVars, memory
    <2> QED
        BY <2>2, <2>3, <2>4, <2>5, AnyCallPromised
        DEF AllNext, AnyStep, Environment, Done, allVars
<1> QED
    BY <1>1, <1>2, AllGenerationsHold, PTL DEF AllSpec, KeepsPromise, Promise!Spec
===============================================================================
