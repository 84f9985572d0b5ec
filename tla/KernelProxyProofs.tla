--------------------------- MODULE KernelProxyProofs ---------------------------
(***************************************************************************)
(* Proofs about KernelProxy, for every set of threads, objects, proxies    *)
(* and values and every bound.                                             *)
(***************************************************************************)
EXTENDS KernelProxy, WaitNotifyProofs

RegisteredPC == {"recheck", "park", "parked", "recount", "release"}

\* A thread inside the library has an object, a waiter an expected value, and no
\* wait has a deadline.
CallOK ==
    \A t \in Threads :
        /\ deadline[t] = "none"
        /\ pc[t] \notin Quiescent => object[t] \in Objects
        /\ pc[t] \in WaitPC => expected[t] \in Values

\* Who holds the table lock.
LockOK ==
    \A t \in Threads :
        /\ pc[t] \in {"recheck", "nwake"} => lock = t
        /\ lock = t => pc[t] \in {"recheck", "nwake", "release"}

\* Who is registered: the loop comes back to "load" with and without a proxy.
RegisteredOK ==
    \A t \in Threads :
        /\ pc[t] \in RegisteredPC => Registered(t)
        /\ Registered(t) => pc[t] \in RegisteredPC \cup {"load"}

\* The inductive invariant behind the table and its references.
Inv ==
    /\ TypeOK
    /\ CallOK
    /\ LockOK
    /\ RegisteredOK
    /\ ProxyAccounting
    /\ NoDanglingProxy
    /\ NotifierKeepsProxy

-------------------------------------------------------------------------------
(* Inv is inductive *)

\* At the start nobody is registered and the lock is free.
LEMMA InitInv == Init => Inv
<1> SUFFICES ASSUME Init PROVE Inv
    OBVIOUS
<1> USE DEF Init, WaitNotifyInit
<1>1. TypeOK
    BY WaitNotifyAssumption, GenModulusAssumption
    DEF TypeOK, WaitNotifyTypeOK, Quiescent, WaitPC, UINT_MAX
<1>2. CallOK /\ LockOK /\ RegisteredOK /\ NoDanglingProxy /\ NotifierKeepsProxy
    BY WaitNotifyAssumption
    DEF CallOK, LockOK, RegisteredOK, NoDanglingProxy, NotifierKeepsProxy,
        Registered, RegisteredPC, Quiescent, WaitPC
<1>3. ProxyAccounting
    BY NoWaiters, WaitNotifyAssumption DEF ProxyAccounting
<1> QED
    BY <1>1, <1>2, <1>3 DEF Inv

\* Entering a wait or a notify touches neither lock, table nor references.
LEMMA CallPreservesInv ==
    ASSUME NEW t \in Threads, Inv, Call(t)
    PROVE  Inv'
<1> USE DEF Inv
<1>u. /\ UNCHANGED <<lock, table, use_count, item>>
      /\ UNCHANGED <<generation, item_counter>>
    <2>1. ASSUME NEW o \in Objects, NEW e \in Expects, BeginWait(t, o, e, "none")
          PROVE  UNCHANGED <<lock, table, use_count, item>>
        BY <2>1 DEF BeginWait, memory
    <2>2. ASSUME NEW o \in Objects, NEW m \in BareWakes, BareNotify(t, o, m)
          PROVE  UNCHANGED <<lock, table, use_count, item>>
        BY <2>2 DEF BareNotify, EnterNotify
    <2>3. ASSUME NEW o \in Objects, NEW v \in Stores, NEW m \in StoreWakes,
                 StoreNotify(t, o, v, m)
          PROVE  UNCHANGED <<lock, table, use_count, item>>
        BY <2>3 DEF StoreNotify, EnterNotify
    <2>4. UNCHANGED kernelVars
        BY DEF Call
    <2> QED
        BY <2>1, <2>2, <2>3, <2>4 DEF Call, kernelVars
<1>p. /\ pc[t] \in Quiescent
      /\ \E x \in {"load", "nlock"} : pc' = [pc EXCEPT ![t] = x]
    BY DEF Call, BeginWait, BareNotify, StoreNotify, EnterNotify, CallNotify
<1>1. TypeOK'
    <2>1. ASSUME NEW o \in Objects, NEW e \in Expects, BeginWait(t, o, e, "none")
          PROVE  WaitNotifyTypeOK'
        BY <2>1, WaitNotifyAssumption
        DEF BeginWait, memory, TypeOK, WaitNotifyTypeOK, UINT_MAX
    <2>2. ASSUME NEW o \in Objects, NEW m \in BareWakes, BareNotify(t, o, m)
          PROVE  WaitNotifyTypeOK'
        BY <2>2, WaitNotifyAssumption
        DEF BareNotify, EnterNotify, CallNotify, TypeOK, WaitNotifyTypeOK
    <2>3. ASSUME NEW o \in Objects, NEW v \in Stores, NEW m \in StoreWakes,
                 StoreNotify(t, o, v, m)
          PROVE  WaitNotifyTypeOK'
        BY <2>3, WaitNotifyAssumption
        DEF StoreNotify, EnterNotify, CallNotify, TypeOK, WaitNotifyTypeOK
    <2>4. WaitNotifyTypeOK'
        BY <2>1, <2>2, <2>3 DEF Call
    <2> QED
        BY <1>u, <1>p, <2>4 DEF TypeOK, Quiescent, WaitPC
<1>2. CallOK'
    BY WaitNotifyAssumption
    DEF CallOK, TypeOK, WaitNotifyTypeOK, Call, BeginWait, BareNotify,
        StoreNotify, EnterNotify, CallNotify, Quiescent, WaitPC
<1>3. LockOK' /\ RegisteredOK'
    BY <1>u, <1>p DEF LockOK, RegisteredOK, TypeOK, Registered, RegisteredPC,
                      Quiescent
<1>4. ProxyAccounting'
    BY <1>u DEF ProxyAccounting, Waiters
<1>5. NoDanglingProxy' /\ NotifierKeepsProxy'
    <2>1. ~Registered(t)
        BY <1>p DEF RegisteredOK, RegisteredPC, Quiescent
    <2>2. \A u \in Threads : u # t => object'[u] = object[u]
        BY DEF Call, BeginWait, BareNotify, StoreNotify, EnterNotify, TypeOK,
               WaitNotifyTypeOK
    <2> QED
        BY <1>u, <1>p, <2>1, <2>2
        DEF NoDanglingProxy, NotifierKeepsProxy, Registered, TypeOK
<1> QED
    BY <1>1, <1>2, <1>3, <1>4, <1>5


\* Steps of one thread that touch neither the table nor the references: they
\* keep Inv if they keep its types and respect the lock.
LEMMA LocalStepPreservesInv ==
    ASSUME NEW t \in Threads, Inv,
           UNCHANGED <<table, use_count, object, expected, deadline, item>>,
           TypeOK',
           \A u \in Threads : u # t => pc'[u] = pc[u],
           LockOK', RegisteredOK',
           pc'[t] \in Quiescent \/ pc[t] \notin Quiescent,
           pc'[t] \in WaitPC => pc[t] \in WaitPC,
           pc'[t] = "nwake" => table[object[t]] # NULL
    PROVE  Inv'
<1> USE DEF Inv
<1>1. CallOK'
    BY DEF CallOK
<1>2. ProxyAccounting'
    BY DEF ProxyAccounting, Waiters
<1>3. NoDanglingProxy' /\ NotifierKeepsProxy'
    BY DEF NoDanglingProxy, NotifierKeepsProxy, Registered
<1> QED
    BY <1>1, <1>2, <1>3

\* The load at the top of the loop decides where the waiter goes, no more.
LEMMA LoadPreservesInv ==
    ASSUME NEW t \in Threads, Inv, Load(t), UNCHANGED kernelVars
    PROVE  Inv'
<1> USE DEF Inv, CallOK, Load, Observe, BeforePark, memory, call, result, calls, kernelVars
<1>1. TypeOK'
    BY WaitNotifyAssumption, GenModulusAssumption
    DEF TypeOK, WaitNotifyTypeOK, Quiescent, WaitPC
<1>2. LockOK' /\ RegisteredOK'
    BY WaitNotifyAssumption
    DEF TypeOK, LockOK, RegisteredOK, Registered, RegisteredPC, Quiescent, WaitPC
<1> QED
    BY <1>1, <1>2, LocalStepPreservesInv DEF TypeOK, Quiescent, WaitPC

\* A registration that fails leaves the table as it was.
LEMMA RegisterFailsPreservesInv ==
    ASSUME NEW t \in Threads, Inv, RegisterFails(t), UNCHANGED kernelVars
    PROVE  Inv'
<1> USE DEF Inv, RegisterFails, memory, call, result, calls, kernelVars
<1>1. TypeOK'
    BY WaitNotifyAssumption, GenModulusAssumption
    DEF TypeOK, WaitNotifyTypeOK, Quiescent, WaitPC
<1>2. LockOK' /\ RegisteredOK'
    BY WaitNotifyAssumption
    DEF TypeOK, LockOK, RegisteredOK, Registered, RegisteredPC, Quiescent, WaitPC
<1> QED
    BY <1>1, <1>2, LocalStepPreservesInv DEF TypeOK, Quiescent, WaitPC

\* The check under the lock gives the lock back, or keeps it for the tail.
LEMMA RecheckPreservesInv ==
    ASSUME NEW t \in Threads, Inv, Recheck(t), UNCHANGED kernelVars
    PROVE  Inv'
<1> USE DEF Inv, CallOK, Recheck, Observe, BeforePark, memory, call, result, calls, kernelVars
<1>1. TypeOK'
    BY WaitNotifyAssumption, GenModulusAssumption
    DEF TypeOK, WaitNotifyTypeOK, Quiescent, WaitPC
<1>2. LockOK' /\ RegisteredOK'
    BY WaitNotifyAssumption
    DEF TypeOK, LockOK, RegisteredOK, Registered, RegisteredPC, Quiescent, WaitPC
<1> QED
    BY <1>1, <1>2, LocalStepPreservesInv DEF TypeOK, Quiescent, WaitPC

\* A waiter keeps its reference while it parks.
LEMMA ParkPreservesInv ==
    ASSUME NEW t \in Threads, Inv, Park(t)
    PROVE  Inv'
<1> USE DEF Inv, Park, memory, call, result, calls, kernelVars
<1>1. TypeOK'
    BY WaitNotifyAssumption, GenModulusAssumption
    DEF TypeOK, WaitNotifyTypeOK, Quiescent, WaitPC
<1>2. LockOK' /\ RegisteredOK'
    BY WaitNotifyAssumption
    DEF TypeOK, LockOK, RegisteredOK, Registered, RegisteredPC, Quiescent, WaitPC
<1> QED
    BY <1>1, <1>2, LocalStepPreservesInv DEF TypeOK, Quiescent, WaitPC

\* A park that fails hard goes to the tail with its reference.
LEMMA ParkFailsPreservesInv ==
    ASSUME NEW t \in Threads, Inv, ParkFails(t)
    PROVE  Inv'
<1> USE DEF Inv, ParkFails, HardError, memory, call, result, calls, kernelVars
<1>1. TypeOK'
    BY WaitNotifyAssumption, GenModulusAssumption
    DEF TypeOK, WaitNotifyTypeOK, Quiescent, WaitPC
<1>2. LockOK' /\ RegisteredOK'
    BY WaitNotifyAssumption
    DEF TypeOK, LockOK, RegisteredOK, Registered, RegisteredPC, Quiescent, WaitPC
<1> QED
    BY <1>1, <1>2, LocalStepPreservesInv DEF TypeOK, Quiescent, WaitPC

\* A spurious wake keeps the reference.
LEMMA SpuriousWakePreservesInv ==
    ASSUME NEW t \in Threads, Inv, SpuriousWake(t)
    PROVE  Inv'
<1> USE DEF Inv, SpuriousWake, memory, call, result, calls, kernelVars
<1>1. TypeOK'
    BY WaitNotifyAssumption, GenModulusAssumption
    DEF TypeOK, WaitNotifyTypeOK, Quiescent, WaitPC
<1>2. LockOK' /\ RegisteredOK'
    BY WaitNotifyAssumption
    DEF TypeOK, LockOK, RegisteredOK, Registered, RegisteredPC, Quiescent, WaitPC
<1> QED
    BY <1>1, <1>2, LocalStepPreservesInv DEF TypeOK, Quiescent, WaitPC

\* The new capture is a generation of the waiter's own proxy.
LEMMA RecountPreservesInv ==
    ASSUME NEW t \in Threads, Inv, Recount(t)
    PROVE  Inv'
<1> USE DEF Inv, Recount, memory, call, result, calls, kernelVars
<1>0. item[t] \in Proxies
    BY DEF TypeOK, WaitNotifyTypeOK, RegisteredOK, Registered, RegisteredPC
<1>1. TypeOK'
    BY <1>0 DEF TypeOK, WaitNotifyTypeOK, Quiescent, WaitPC
<1>2. LockOK' /\ RegisteredOK'
    BY WaitNotifyAssumption
    DEF TypeOK, LockOK, RegisteredOK, Registered, RegisteredPC, Quiescent, WaitPC
<1> QED
    BY <1>1, <1>2, LocalStepPreservesInv DEF TypeOK, Quiescent, WaitPC

\* A notify that finds nobody leaves everything alone.
LEMMA NobodyWaitsPreservesInv ==
    ASSUME NEW t \in Threads, Inv, NobodyWaits(t), UNCHANGED kernelVars
    PROVE  Inv'
<1> USE DEF Inv, NobodyWaits, memory, call, result, calls, kernelVars
<1>1. TypeOK'
    BY WaitNotifyAssumption, GenModulusAssumption
    DEF TypeOK, WaitNotifyTypeOK, Quiescent, WaitPC
<1>2. LockOK' /\ RegisteredOK'
    BY WaitNotifyAssumption
    DEF TypeOK, LockOK, RegisteredOK, Registered, RegisteredPC, Quiescent, WaitPC
<1> QED
    BY <1>1, <1>2, LocalStepPreservesInv DEF TypeOK, Quiescent, WaitPC

\* The bump takes the lock on a proxy that is in the table.
LEMMA BumpPreservesInv ==
    ASSUME NEW t \in Threads, Inv, Bump(t)
    PROVE  Inv'
<1> USE DEF Inv, Bump, NextGeneration, memory, call, result, calls, kernelVars
<1>0. table[object[t]] \in Proxies
    BY DEF TypeOK, WaitNotifyTypeOK, CallOK, Quiescent
<1>1. TypeOK'
    <2>1. generation' \in [Proxies -> 0..(GenModulus - 1)]
        BY <1>0, GenModulusAssumption DEF TypeOK
    <2> QED
        BY <2>1, <1>0 DEF TypeOK, WaitNotifyTypeOK, Quiescent, WaitPC
<1>2. LockOK' /\ RegisteredOK'
    BY WaitNotifyAssumption
    DEF TypeOK, LockOK, RegisteredOK, Registered, RegisteredPC, Quiescent, WaitPC
<1> QED
    BY <1>1, <1>2, LocalStepPreservesInv DEF TypeOK, Quiescent, WaitPC

\* A wake that fails still gives the lock back.
LEMMA WakeFailsPreservesInv ==
    ASSUME NEW t \in Threads, Inv, WakeFails(t)
    PROVE  Inv'
<1> USE DEF Inv, WakeFails, memory, call, result, calls, kernelVars
<1>1. TypeOK'
    BY WaitNotifyAssumption, GenModulusAssumption
    DEF TypeOK, WaitNotifyTypeOK, Quiescent, WaitPC
<1>2. LockOK' /\ RegisteredOK'
    BY WaitNotifyAssumption
    DEF TypeOK, LockOK, RegisteredOK, Registered, RegisteredPC, Quiescent, WaitPC
<1> QED
    BY <1>1, <1>2, LocalStepPreservesInv DEF TypeOK, Quiescent, WaitPC

\* A wake moves threads of the queue, which stay registered, besides its own.
LEMMA WakePreservesInv ==
    ASSUME NEW t \in Threads, Inv, Wake(t)
    PROVE  Inv'
<1> USE DEF Inv, Wake, memory, call, calls, kernelVars
<1>1. PICK s \in FutexWake(Queue(table[object[t]]), NrWake(max[t])) :
          /\ pc' = [u \in Threads |-> IF u = t THEN "notified"
                                      ELSE IF u \in s THEN "recount" ELSE pc[u]]
          /\ ret' = [ret EXCEPT ![t] = Cardinality(s)]
    OBVIOUS
<1>2. \A u \in s : u \in Threads /\ pc[u] = "parked"
    BY DEF FutexWake, Queue
<1>3. Cardinality(s) \in Nat
    BY <1>2, WaitNotifyAssumption, FS_Subset, FS_CardinalityType
<1>4. pc[t] = "nwake" /\ lock = t
    BY DEF LockOK
<1>5. TypeOK'
    BY <1>1, <1>3, WaitNotifyAssumption
    DEF TypeOK, WaitNotifyTypeOK, Quiescent, WaitPC
<1>6. CallOK'
    BY <1>1, <1>2 DEF CallOK, Quiescent, WaitPC
<1>7. LockOK'
    BY <1>1, <1>2, <1>4, WaitNotifyAssumption DEF LockOK
<1>8. RegisteredOK'
    BY <1>1, <1>2, <1>4 DEF RegisteredOK, Registered, RegisteredPC
<1>9. ProxyAccounting'
    BY DEF ProxyAccounting, Waiters
<1>10. NoDanglingProxy' /\ NotifierKeepsProxy'
    BY <1>1 DEF NoDanglingProxy, NotifierKeepsProxy, Registered
<1> QED
    BY <1>5, <1>6, <1>7, <1>8, <1>9, <1>10

\* A registered waiter is inside a wait.
LEMMA InvHolders == Inv => HoldersOK
    BY DEF Inv, HoldersOK, CallOK, RegisteredOK, RegisteredPC, Quiescent

\* Registration: one reference more, on the table's proxy or on a fresh one.
LEMMA CapturePreservesInv ==
    ASSUME NEW t \in Threads, Inv, CaptureGeneration(t)
    PROVE  Inv'
<1> USE DEF Inv, CaptureGeneration, call, calls
<1>1. /\ pc[t] = "register" /\ lock = NULL /\ lock' = t
      /\ pc' = [pc EXCEPT ![t] = "recheck"]
      /\ UNCHANGED <<object, expected, deadline>>
    BY DEF Register
<1>2. object[t] \in Objects /\ ~Registered(t)
    BY <1>1 DEF CallOK, RegisteredOK, RegisteredPC, Quiescent
<1>3. /\ WaitNotifyTypeOK'
      /\ ProxyAccounting'
      /\ NoDanglingProxy'
      /\ item'[t] \in Proxies
      /\ \A u \in Threads : u # t => item'[u] = item[u]
    BY <1>2, InvHolders, RegisterKeepsProxies DEF TypeOK
<1>4. TypeOK'
    <2>1. generation' \in [Proxies -> 0..(GenModulus - 1)]
        BY <1>3, GenModulusAssumption DEF TypeOK
    <2>2. item_counter' \in [Threads -> 0..(GenModulus - 1)]
        BY <1>3, <2>1 DEF TypeOK
    <2> QED
        BY <1>1, <1>3, <2>1, <2>2 DEF TypeOK, WaitPC
<1>5. CallOK'
    BY <1>1, <1>2 DEF CallOK, Quiescent, WaitPC, TypeOK
<1>6. LockOK'
    BY <1>1, WaitNotifyAssumption DEF LockOK, TypeOK
<1>7. RegisteredOK'
    BY <1>1, <1>3, WaitNotifyAssumption
    DEF RegisteredOK, Registered, RegisteredPC, TypeOK
<1>8. NotifierKeepsProxy'
    BY <1>1, WaitNotifyAssumption DEF NotifierKeepsProxy, LockOK, TypeOK
<1> QED
    BY <1>3, <1>4, <1>5, <1>6, <1>7, <1>8

\* The tail: one reference less.  The lock keeps every notifier out of "nwake"
\* meanwhile.
LEMMA ReleasePreservesInv ==
    ASSUME NEW t \in Threads, Inv, Release(t), UNCHANGED kernelVars
    PROVE  Inv'
<1> USE DEF Inv, kernelVars, call, calls
<1>1. /\ pc[t] = "release" /\ pc' = [pc EXCEPT ![t] = "waited"]
      /\ lock' = NULL /\ lock \in {NULL, t}
      /\ UNCHANGED <<object, expected, deadline, generation, item_counter>>
    BY DEF Release, LockFree
<1>2. /\ WaitNotifyTypeOK'
      /\ ProxyAccounting'
      /\ NoDanglingProxy'
      /\ item' = [item EXCEPT ![t] = NULL]
    <2>1. Registered(t)
        BY <1>1 DEF RegisteredOK, RegisteredPC
    <2> QED
        BY <2>1, InvHolders, ReleaseKeepsProxies DEF TypeOK
<1>3. TypeOK'
    BY <1>1, <1>2 DEF TypeOK, Quiescent
<1>4. CallOK'
    BY <1>1 DEF CallOK, Quiescent, WaitPC, TypeOK
<1>5. LockOK'
    BY <1>1, WaitNotifyAssumption DEF LockOK, TypeOK
<1>6. RegisteredOK'
    BY <1>1, <1>2 DEF RegisteredOK, Registered, RegisteredPC, TypeOK, WaitNotifyTypeOK
<1>7. NotifierKeepsProxy'
    BY <1>1, WaitNotifyAssumption DEF NotifierKeepsProxy, LockOK, TypeOK
<1> QED
    BY <1>2, <1>3, <1>4, <1>5, <1>6, <1>7

\* Every step keeps Inv.
LEMMA NextPreservesInv == Inv /\ [Next]_vars => Inv'
<1> SUFFICES ASSUME Inv, [Next]_vars PROVE Inv'
    OBVIOUS
<1>1. ASSUME NEW t \in Threads, Call(t) PROVE Inv'
    BY <1>1, CallPreservesInv
<1>2. ASSUME NEW t \in Threads, Step(t) PROVE Inv'
    BY <1>2, LoadPreservesInv, CapturePreservesInv, RegisterFailsPreservesInv,
       RecheckPreservesInv, ParkPreservesInv, ParkFailsPreservesInv,
       RecountPreservesInv, ReleasePreservesInv, NobodyWaitsPreservesInv,
       BumpPreservesInv, WakePreservesInv, WakeFailsPreservesInv
    DEF Step
<1>3. ASSUME NEW t \in Threads, SpuriousWake(t) PROVE Inv'
    BY <1>3, SpuriousWakePreservesInv
<1>4. ASSUME UNCHANGED vars PROVE Inv'
    BY <1>4
    DEF vars, waitNotifyVars, kernelVars, memory, call, result, calls, Inv,
        TypeOK, WaitNotifyTypeOK, CallOK, LockOK, RegisteredOK, ProxyAccounting,
        NoDanglingProxy, NotifierKeepsProxy, Registered, Waiters
<1> QED
    BY <1>1, <1>2, <1>3, <1>4 DEF Next, Done

\* Inv is an invariant of the specification.
LEMMA InvHolds == Spec => []Inv
    BY InitInv, NextPreservesInv, PTL DEF Spec

\* The state of the generation-counter path always has its types: no use count
\* falls below zero and no counter leaves its 32 bits.
THEOREM TypeCorrect == Spec => []TypeOK
<1>1. Inv => TypeOK
    BY DEF Inv
<1> QED
    BY <1>1, InvHolds, PTL

\* Reference counts are exact: however waits end, a proxy is in the table exactly
\* as long as a waiter holds it.
THEOREM AccountingCorrect == Spec => []ProxyAccounting
<1>1. Inv => ProxyAccounting
    BY DEF Inv
<1> QED
    BY <1>1, InvHolds, PTL

\* No waiter ever uses a proxy that was freed or that belongs to another object.
THEOREM NoUseAfterFree == Spec => []NoDanglingProxy
<1>1. Inv => NoDanglingProxy
    BY DEF Inv
<1> QED
    BY <1>1, InvHolds, PTL

\* No notifier wakes on a proxy that was freed after its bump.
THEOREM NotifierSafe == Spec => []NotifierKeepsProxy
<1>1. Inv => NotifierKeepsProxy
    BY DEF Inv
<1> QED
    BY <1>1, InvHolds, PTL

-------------------------------------------------------------------------------
(* What a wait returns *)

Undecided(t) ==
    observed[t] = NULL /\ errno_is_set[t] = FALSE /\ ret[t] \in {0, 1}

Succeeds(t) ==
    /\ observed[t] \in Values \ {expected[t]}
    /\ errno_is_set[t] = FALSE
    /\ ret[t] \in {0, 1}

Fails(t) ==
    /\ observed[t] = NULL
    /\ errno_is_set[t] = TRUE
    /\ <<ret[t], errno[t]>> = <<-1, "EWAIT">>

\* The results a wait carries from step to step.
ResultOK ==
    \A t \in Threads :
        /\ pc[t] \in WaitPC \ {"release"} => Undecided(t)
        /\ pc[t] \in {"load", "register"} /\ ~Registered(t) => errno[t] = "entry"
        /\ pc[t] = "release" => Succeeds(t) \/ Fails(t)
        /\ pc[t] = "waited" =>
              \/ Succeeds(t) /\ errno[t] = "entry"
              \/ Fails(t)
              \/ observed[t] = NULL /\ <<ret[t], errno[t]>> = <<-1, "ENOMEM">>

\* A step of one thread keeps the results of the others.
LEMMA OthersKeepResults ==
    ASSUME NEW t \in Threads, ResultOK,
           \A u \in Threads : u # t =>
               /\ pc'[u] = pc[u] /\ observed'[u] = observed[u]
               /\ expected'[u] = expected[u] /\ ret'[u] = ret[u]
               /\ errno'[u] = errno[u] /\ errno_is_set'[u] = errno_is_set[u]
               /\ item'[u] = item[u],
           /\ pc'[t] \in WaitPC \ {"release"} => Undecided(t)'
           /\ pc'[t] \in {"load", "register"} /\ ~Registered(t)'
                 => errno'[t] = "entry"
           /\ pc'[t] = "release" => Succeeds(t)' \/ Fails(t)'
           /\ pc'[t] = "waited" =>
                 \/ Succeeds(t)' /\ errno'[t] = "entry"
                 \/ Fails(t)'
                 \/ observed'[t] = NULL /\ <<ret'[t], errno'[t]>> = <<-1, "ENOMEM">>
    PROVE  ResultOK'
    BY DEF ResultOK, Undecided, Succeeds, Fails, Registered

\* A new call starts without a result.
LEMMA CallKeepsResults ==
    ASSUME NEW t \in Threads, Inv, ResultOK, Call(t)
    PROVE  ResultOK'
<1> USE DEF Inv, TypeOK, WaitNotifyTypeOK
<1>1. ASSUME NEW o \in Objects, NEW e \in Expects, BeginWait(t, o, e, "none")
      PROVE  ResultOK'
    BY <1>1, OthersKeepResults DEF BeginWait, Undecided
<1>2. ASSUME NEW o \in Objects, NEW m \in BareWakes, BareNotify(t, o, m)
      PROVE  ResultOK'
    BY <1>2, OthersKeepResults DEF BareNotify, EnterNotify, CallNotify, WaitPC
<1>3. ASSUME NEW o \in Objects, NEW v \in Stores, NEW m \in StoreWakes,
             StoreNotify(t, o, v, m)
      PROVE  ResultOK'
    BY <1>3, OthersKeepResults DEF StoreNotify, EnterNotify, CallNotify, WaitPC
<1> QED
    BY <1>1, <1>2, <1>3 DEF Call

\* Each exit of atomic_wait_generic sets a result that matches its errno.
LEMMA StepKeepsResults ==
    ASSUME NEW t \in Threads, Inv, ResultOK, Step(t) \/ SpuriousWake(t)
    PROVE  ResultOK'
<1> USE DEF Inv, TypeOK, WaitNotifyTypeOK, call, result, WaitPC
<1>1. CASE Load(t)
    <2>1. CASE Changed(t)
        <3>1. /\ observed' = [observed EXCEPT ![t] = value[object[t]]]
              /\ pc'[t] \in {"waited", "release"}
              /\ pc'[t] = "waited" => ~Registered(t)
            BY <1>1, <2>1 DEF Load, Observe, Registered
        <3>2. value[object[t]] \in Values \ {expected[t]}
            BY <1>1, <2>1 DEF Load, Changed, CallOK, Quiescent
        <3> QED
            BY <1>1, <3>1, <3>2, OthersKeepResults
            DEF Load, ResultOK, Undecided, Succeeds
    <2>2. CASE ~Changed(t)
        <3>1. /\ pc[t] = "load"
              /\ \E x \in {"register", "park"} :
                    /\ pc' = [pc EXCEPT ![t] = x]
                    /\ x = "register" => ~Registered(t)
              /\ UNCHANGED <<observed, expected, ret, errno, errno_is_set, item>>
            BY <1>1, <2>2 DEF Load, Observe, BeforePark, Registered, CallOK
        <3> QED
            BY <3>1, OthersKeepResults DEF ResultOK, Undecided, Registered
    <2> QED
        BY <2>1, <2>2
<1>2. CASE CaptureGeneration(t)
    <2>1. \A u \in Threads : u # t => item'[u] = item[u]
        BY <1>2 DEF CaptureGeneration, Register
    <2> QED
        BY <1>2, <2>1, OthersKeepResults
        DEF CaptureGeneration, Register, ResultOK, Undecided
<1>3. CASE RegisterFails(t)
    BY <1>3, OthersKeepResults DEF RegisterFails, ResultOK, Undecided
<1>4. CASE Recheck(t)
    <2>1. CASE Changed(t)
        <3>1. value[object[t]] \in Values \ {expected[t]}
            BY <1>4, <2>1 DEF Recheck, Changed, CallOK, Quiescent
        <3>2. /\ pc[t] = "recheck"
              /\ pc' = [pc EXCEPT ![t] = "release"]
              /\ observed' = [observed EXCEPT ![t] = value[object[t]]]
              /\ UNCHANGED <<expected, ret, errno, errno_is_set, item>>
            BY <1>4, <2>1 DEF Recheck, Observe
        <3> QED
            BY <3>1, <3>2, OthersKeepResults DEF ResultOK, Undecided, Succeeds
    <2>2. CASE ~Changed(t)
        <3>1. /\ pc[t] = "recheck"
              /\ pc' = [pc EXCEPT ![t] = "park"]
              /\ ret' = [ret EXCEPT ![t] = 1]
              /\ UNCHANGED <<observed, expected, errno, errno_is_set, item>>
            BY <1>4, <2>2 DEF Recheck, Observe, BeforePark, CallOK
        <3> QED
            BY <3>1, OthersKeepResults DEF ResultOK, Undecided
    <2> QED
        BY <2>1, <2>2
<1>5. CASE Park(t) \/ Recount(t) \/ SpuriousWake(t)
    <2>1. /\ pc[t] \in {"park", "recount", "parked"}
          /\ \E x \in {"parked", "recount", "load"} :
                pc' = [pc EXCEPT ![t] = x]
          /\ UNCHANGED <<observed, expected, ret, errno, errno_is_set, item>>
        BY <1>5 DEF Park, Recount, SpuriousWake
    <2>2. Registered(t)'
        BY <2>1 DEF RegisteredOK, RegisteredPC, Registered
    <2> QED
        BY <2>1, <2>2, OthersKeepResults DEF ResultOK, Undecided
<1>6. CASE ParkFails(t)
    BY <1>6, OthersKeepResults DEF ParkFails, HardError, ResultOK, Undecided, Fails
<1>7. CASE Release(t)
    BY <1>7, OthersKeepResults
    DEF Release, SavedErrno, ResultOK, Succeeds, Fails
<1>8. CASE NobodyWaits(t) \/ Bump(t) \/ WakeFails(t)
    BY <1>8, OthersKeepResults DEF NobodyWaits, Bump, WakeFails
<1>9. CASE Wake(t)
    <2>1. PICK s \in FutexWake(Queue(table[object[t]]), NrWake(max[t])) :
              pc' = [u \in Threads |-> IF u = t THEN "notified"
                                       ELSE IF u \in s THEN "recount" ELSE pc[u]]
        BY <1>9 DEF Wake
    <2>2. \A u \in s : pc[u] = "parked"
        BY DEF FutexWake, Queue
    <2>3. /\ \A u \in Threads : u # t => ret'[u] = ret[u]
          /\ UNCHANGED <<observed, errno, errno_is_set, expected, item>>
        BY <1>9 DEF Wake
    <2> QED
        BY <2>1, <2>2, <2>3
        DEF ResultOK, Undecided, Succeeds, Fails, Registered
<1> QED
    BY <1>1, <1>2, <1>3, <1>4, <1>5, <1>6, <1>7, <1>8, <1>9 DEF Step

\* The results are right in every state.
LEMMA ResultsHold == Spec => []ResultOK
<1>1. Init => ResultOK
    BY WaitNotifyAssumption
    DEF Init, WaitNotifyInit, ResultOK, WaitPC
<1>2. Inv /\ ResultOK /\ [Next]_vars => ResultOK'
    <2> SUFFICES ASSUME Inv, ResultOK, [Next]_vars PROVE ResultOK'
        OBVIOUS
    <2>1. ASSUME UNCHANGED vars PROVE ResultOK'
        BY <2>1
        DEF vars, waitNotifyVars, call, result, ResultOK, Undecided, Succeeds,
            Fails, Registered
    <2> QED
        BY <2>1, CallKeepsResults, StepKeepsResults DEF Next, Done
<1> QED
    BY <1>1, <1>2, InvHolds, PTL DEF Spec

\* What a wait hands back: on success a value other than the expected one and
\* the caller's errno, on failure the error and its errno, and in both cases
\* neither the lock nor a reference.
THEOREM ReturnsAsPromised == Spec => []WaitContract
<1>1. Inv /\ ResultOK => WaitContract
    <2> SUFFICES ASSUME Inv, ResultOK, NEW t \in Threads, pc[t] = "waited"
                 PROVE  /\ lock # t /\ ~Registered(t)
                        /\ \/ /\ observed[t] \in Values \ {expected[t]}
                              /\ ret[t] \in {0, 1}
                              /\ errno[t] = "entry"
                           \/ /\ observed[t] = NULL
                              /\ <<ret[t], errno[t]>> \in
                                    {<<0, "ETIMEDOUT">>, <<-1, "ENOMEM">>,
                                     <<-1, "EWAIT">>}
                              /\ errno[t] = "ETIMEDOUT" => deadline[t] = "past"
        BY DEF WaitContract
    <2>1. lock # t /\ ~Registered(t)
        BY DEF Inv, LockOK, RegisteredOK, RegisteredPC
    <2> QED
        BY <2>1 DEF ResultOK, Succeeds, Fails
<1> QED
    BY <1>1, InvHolds, ResultsHold, PTL

===============================================================================
