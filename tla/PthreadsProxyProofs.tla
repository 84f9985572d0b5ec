-------------------------- MODULE PthreadsProxyProofs --------------------------
(***************************************************************************)
(* Proofs about PthreadsProxy, for every set of threads, objects, proxies  *)
(* and values, every limit and every bound, with timeouts and failures:    *)
(* the table, the use counts and the count of parked threads are exact, a  *)
(* wait returns what its contract says, the tokens stay in range on a      *)
(* platform whose long holds every limit, and on an object that is set     *)
(* once and for all no wake is lost.                                       *)
(***************************************************************************)
EXTENDS PthreadsProxy, WaitNotifyProofs

RegisteredPC == {"recheck", "time", "park", "cond", "wakeup", "release"}

\* A thread inside the library has an object, a waiter an expected value, and only
\* a wait with a duration reads the clock.
CallOK ==
    \A t \in Threads :
        /\ pc[t] \notin Quiescent => object[t] \in Objects
        /\ pc[t] \in WaitPC => expected[t] \in Expects
        /\ pc[t] = "time" => deadline[t] # "none"

\* Who holds the table lock.
LockOK ==
    \A t \in Threads :
        /\ pc[t] = "recheck" => lock = t
        /\ lock = t => pc[t] \in {"recheck", "release"}

\* Who is registered: the loop comes back to "load" with and without a proxy.
RegisteredOK ==
    \A t \in Threads :
        /\ pc[t] \in RegisteredPC => Registered(t)
        /\ Registered(t) => pc[t] \in RegisteredPC \cup {"load"}

\* The types, but for the range of the tokens.
StateOK ==
    /\ WaitNotifyTypeOK
    /\ pc \in [Threads -> Quiescent \cup WaitPC \cup {"nlock"}]
    /\ pending \in [Proxies -> Int]
    /\ waiting \in [Proxies -> Nat]

\* The inductive invariant behind the table, its references and the parked
\* threads.
Inv ==
    /\ StateOK
    /\ CallOK
    /\ LockOK
    /\ RegisteredOK
    /\ ProxyAccounting
    /\ NoDanglingProxy
    /\ WaitingExact

-------------------------------------------------------------------------------
(* Tokens *)

Limits == StoreWakes \cup BareWakes \cup CasWakes

\* Every limit fits a long or is the one that means all: true of every limit
\* where long is wider than int.
LimitsFit == \A m \in Limits : m <= LONG_MAX \/ m = UINT_MAX

\* There are never more tokens than threads, and a notifier has a limit that
\* fits.
TokensOK ==
    /\ \A p \in Proxies : pending[p] \in 0..Cardinality(Threads)
    /\ \A t \in Threads : pc[t] = "nlock" => max[t] \in Limits

-------------------------------------------------------------------------------
(* A flag: what is stored is never waited on *)

\* A value once stored is none that a wait expects, and the notify after a store
\* covers every thread and does not fail.
FlagUse ==
    /\ Stores \cap Expects = {}
    /\ \A m \in StoreWakes \cup (CasWakes \ {0}) : m >= Cardinality(Threads)
    /\ WakeMayFail = FALSE

\* Waiters past their last look at the object and not asleep.
Sleepy(p) ==
    {t \in Threads : pc[t] \in {"time", "park", "wakeup"} /\ item[t] = p}

\* The value was looked at and no token taken since.
Looked == {"time", "park", "cond", "wakeup"}

\* Until the flag is set the value is the one they looked at.
NotYetSet ==
    \A t \in Threads :
        pc[t] \in Looked /\ value[object[t]] \notin Stores => ~Changed(t)

\* The flag is set and the notify is through.
Settled(o) == value[o] \in Stores /\ ~NotifyAllPending(o)

\* Nobody sleeps, and there is a token for everyone who might.
EnoughFor(p) == Blocked(p) = {} /\ pending[p] >= Cardinality(Sleepy(p))

EnoughTokens ==
    \A o \in Objects, p \in Proxies : Settled(o) /\ table[o] = p => EnoughFor(p)

FlagInv == NotYetSet /\ EnoughTokens

-------------------------------------------------------------------------------
(* Parked threads, counted *)

\* The parked threads of a proxy can be counted.
LEMMA InCondFinite ==
    ASSUME NEW p
    PROVE  IsFiniteSet(InCond(p)) /\ Cardinality(InCond(p)) \in Nat
<1>1. InCond(p) \subseteq Threads
    BY DEF InCond
<1> QED
    BY <1>1, WaitNotifyAssumption, FS_Subset, FS_CardinalityType

\* A step that parks and unparks nobody.
LEMMA SameParked ==
    ASSUME WaitingExact, UNCHANGED waiting,
           \A u \in Threads : /\ pc'[u] \in {"cond", "wakeup"} <=>
                                    pc[u] \in {"cond", "wakeup"}
                              /\ pc[u] \in {"cond", "wakeup"} => item'[u] = item[u]
    PROVE  WaitingExact'
<1>1. \A p \in Proxies : InCond(p)' = InCond(p)
    BY DEF InCond
<1> QED
    BY <1>1 DEF WaitingExact

\* A thread parks.
LEMMA OneMoreParked ==
    ASSUME Inv, NEW t \in Threads, item[t] \in Proxies,
           pc[t] \notin {"cond", "wakeup"}, pc' = [pc EXCEPT ![t] = "cond"],
           waiting' = [waiting EXCEPT ![item[t]] = @ + 1], UNCHANGED item
    PROVE  WaitingExact' /\ waiting' \in [Proxies -> Nat]
<1> USE DEF Inv, StateOK
<1>1. /\ InCond(item[t])' = InCond(item[t]) \cup {t}
      /\ t \notin InCond(item[t])
    BY DEF InCond
<1>2. Cardinality(InCond(item[t])') = Cardinality(InCond(item[t])) + 1
    BY <1>1, InCondFinite, FS_AddElement
<1>3. \A p \in Proxies : p # item[t] => InCond(p)' = InCond(p)
    BY DEF InCond
<1>4. WaitingExact'
    BY <1>2, <1>3 DEF WaitingExact
<1> QED
    BY <1>4

\* A parked thread leaves.
LEMMA OneLessParked ==
    ASSUME Inv, NEW t \in Threads, item[t] \in Proxies,
           pc[t] \in {"cond", "wakeup"},
           NEW x, x \notin {"cond", "wakeup"}, pc' = [pc EXCEPT ![t] = x],
           waiting' = [waiting EXCEPT ![item[t]] = @ - 1], UNCHANGED item
    PROVE  WaitingExact' /\ waiting' \in [Proxies -> Nat]
<1> USE DEF Inv, StateOK
<1>1. /\ InCond(item[t])' = InCond(item[t]) \ {t}
      /\ t \in InCond(item[t])
    BY DEF InCond
<1>2. Cardinality(InCond(item[t])') = Cardinality(InCond(item[t])) - 1
    BY <1>1, InCondFinite, FS_RemoveElement
<1>3. \A p \in Proxies : p # item[t] => InCond(p)' = InCond(p)
    BY DEF InCond
<1>4. WaitingExact'
    BY <1>2, <1>3 DEF WaitingExact
<1>5. waiting[item[t]] - 1 \in Nat
    <2>1. Cardinality(InCond(item[t])') \in Nat
        BY InCondFinite, <1>1, FS_RemoveElement, FS_CardinalityType
    <2> QED
        BY <1>2, <2>1 DEF WaitingExact
<1> QED
    BY <1>4, <1>5

-------------------------------------------------------------------------------
(* Inv is inductive *)

\* At the start nobody is registered or parked.
LEMMA InitInv == Init => Inv
<1> SUFFICES ASSUME Init PROVE Inv
    OBVIOUS
<1> USE DEF Init, WaitNotifyInit
<1>1. StateOK
    BY WaitNotifyAssumption
    DEF StateOK, WaitNotifyTypeOK, Quiescent, WaitPC, UINT_MAX
<1>2. CallOK /\ LockOK /\ RegisteredOK /\ NoDanglingProxy
    BY WaitNotifyAssumption
    DEF CallOK, LockOK, RegisteredOK, NoDanglingProxy, Registered, RegisteredPC,
        Quiescent, WaitPC
<1>3. ProxyAccounting
    BY NoWaiters, WaitNotifyAssumption DEF ProxyAccounting
<1>4. WaitingExact
    <2>1. \A p \in Proxies : InCond(p) = {}
        BY DEF InCond
    <2> QED
        BY <2>1, FS_EmptySet DEF WaitingExact
<1> QED
    BY <1>1, <1>2, <1>3, <1>4 DEF Inv

\* A registered waiter is inside a wait.
LEMMA InvHolders == Inv => HoldersOK
    BY DEF Inv, HoldersOK, CallOK, RegisteredOK, RegisteredPC, Quiescent

\* What a step of one thread inside the library has to show when it leaves the
\* table and the references alone.
LEMMA LocalStep ==
    ASSUME NEW t \in Threads, Inv, NEW x \in Quiescent \cup WaitPC,
           pc' = [pc EXCEPT ![t] = x],
           UNCHANGED <<table, use_count, object, expected, item>>,
           WaitNotifyTypeOK', pending' \in [Proxies -> Int],
           waiting' \in [Proxies -> Nat], WaitingExact',
           pc[t] \notin Quiescent,
           x \in WaitPC => pc[t] \in WaitPC,
           x \in RegisteredPC => Registered(t),
           Registered(t) => x \in RegisteredPC \cup {"load"},
           x # "recheck",
           \/ lock' = lock /\ lock # t
           \/ lock' = lock /\ x = "release"
           \/ lock' = NULL /\ lock = t,
           x = "time" => deadline'[t] # "none",
           \A u \in Threads : u # t => deadline'[u] = deadline[u]
    PROVE  Inv'
<1> USE DEF Inv
<1>1. StateOK'
    BY DEF StateOK
<1>2. CallOK'
    BY DEF CallOK, StateOK
<1>3. LockOK'
    BY WaitNotifyAssumption DEF LockOK, StateOK
<1>4. RegisteredOK'
    BY DEF RegisteredOK, Registered, StateOK
<1>5. ProxyAccounting' /\ NoDanglingProxy'
    BY DEF ProxyAccounting, Waiters, NoDanglingProxy, Registered
<1> QED
    BY <1>1, <1>2, <1>3, <1>4, <1>5

\* Entering a wait or a notify touches neither lock, table nor references.
LEMMA CallPreservesInv ==
    ASSUME NEW t \in Threads, Inv, Call(t)
    PROVE  Inv'
<1> USE DEF Inv
<1>1. /\ UNCHANGED <<lock, table, use_count, item, pending, waiting>>
      /\ pc[t] \in Quiescent
      /\ \E x \in {"load", "nlock", "notified"} : pc' = [pc EXCEPT ![t] = x]
    BY DEF Call, BeginWait, BareNotify, StoreNotify, CasNotify, EnterNotify,
           CallNotify, memory, proxyVars
<1>2. WaitNotifyTypeOK'
    <2>1. ASSUME NEW o \in Objects, NEW e \in Expects, NEW d \in Deadlines,
                 BeginWait(t, o, e, d)
          PROVE  WaitNotifyTypeOK'
        BY <2>1, WaitNotifyAssumption
        DEF BeginWait, memory, StateOK, WaitNotifyTypeOK, UINT_MAX
    <2>2. ASSUME NEW o \in Objects, NEW m \in BareWakes, BareNotify(t, o, m)
          PROVE  WaitNotifyTypeOK'
        BY <2>2, WaitNotifyAssumption
        DEF BareNotify, EnterNotify, CallNotify, StateOK, WaitNotifyTypeOK
    <2>3. ASSUME NEW o \in Objects, NEW v \in Stores, NEW m \in StoreWakes,
                 StoreNotify(t, o, v, m)
          PROVE  WaitNotifyTypeOK'
        BY <2>3, WaitNotifyAssumption
        DEF StoreNotify, EnterNotify, CallNotify, StateOK, WaitNotifyTypeOK
    <2>4. ASSUME NEW o \in Objects, NEW e \in Expects, NEW v \in Stores,
                 NEW m \in CasWakes, CasNotify(t, o, e, v, m)
          PROVE  WaitNotifyTypeOK'
        BY <2>4, WaitNotifyAssumption, PthreadsAssumption
        DEF CasNotify, EnterNotify, CallNotify, StateOK, WaitNotifyTypeOK
    <2> QED
        BY <2>1, <2>2, <2>3, <2>4 DEF Call
<1>3. StateOK'
    BY <1>1, <1>2 DEF StateOK, Quiescent, WaitPC
<1>4. CallOK'
    <2>1. ASSUME NEW o \in Objects, NEW e \in Expects, NEW d \in Deadlines,
                 BeginWait(t, o, e, d)
          PROVE  CallOK'
        BY <2>1 DEF CallOK, StateOK, WaitNotifyTypeOK, BeginWait, Quiescent, WaitPC
    <2>2. ASSUME NEW o \in Objects, NEW e, NEW m, EnterNotify(t, o, e, m),
                 NEW x \in {"nlock", "notified"}, pc' = [pc EXCEPT ![t] = x]
          PROVE  CallOK'
        BY <2>2 DEF CallOK, StateOK, WaitNotifyTypeOK, EnterNotify, Quiescent, WaitPC
    <2> QED
        BY <2>1, <2>2 DEF Call, BareNotify, StoreNotify, CasNotify, CallNotify
<1>5. LockOK' /\ RegisteredOK'
    BY <1>1 DEF LockOK, RegisteredOK, StateOK, Registered, RegisteredPC, Quiescent
<1>6. ProxyAccounting'
    BY <1>1 DEF ProxyAccounting, Waiters
<1>7. NoDanglingProxy'
    <2>1. ~Registered(t)
        BY <1>1 DEF RegisteredOK, RegisteredPC, Quiescent
    <2>2. \A u \in Threads : u # t => object'[u] = object[u]
        BY DEF Call, BeginWait, BareNotify, StoreNotify, CasNotify, EnterNotify,
               StateOK, WaitNotifyTypeOK
    <2> QED
        BY <1>1, <2>1, <2>2 DEF NoDanglingProxy, Registered
<1>8. WaitingExact'
    BY <1>1, SameParked DEF StateOK, Quiescent
<1> QED
    BY <1>3, <1>4, <1>5, <1>6, <1>7, <1>8

\* The load at the top of the loop decides where the waiter goes, no more.
LEMMA LoadPreservesInv ==
    ASSUME NEW t \in Threads, Inv, Load(t), UNCHANGED proxyVars
    PROVE  Inv'
<1> USE DEF Inv, StateOK, memory, call, calls, proxyVars
<1>1. PICK x \in {"waited", "release", "register", "time", "park"} :
          /\ pc[t] = "load" /\ pc' = [pc EXCEPT ![t] = x]
          /\ x \in {"waited", "register"} <=> ~Registered(t)
          /\ x = "time" => deadline[t] # "none"
    BY DEF Load, BeforePark, Registered
<1>2. WaitNotifyTypeOK'
    BY DEF Load, Observe, WaitNotifyTypeOK, CallOK, Quiescent
<1>3. WaitingExact'
    BY <1>1, SameParked DEF Load
<1> QED
    BY <1>1, <1>2, <1>3, LocalStep
    DEF Load, Quiescent, WaitPC, RegisteredPC, LockOK

\* A registration that fails leaves the table as it was.
LEMMA RegisterFailsPreservesInv ==
    ASSUME NEW t \in Threads, Inv, RegisterFails(t), UNCHANGED proxyVars
    PROVE  Inv'
<1> USE DEF Inv, StateOK, RegisterFails, memory, call, calls, proxyVars
<1>1. WaitNotifyTypeOK'
    BY DEF WaitNotifyTypeOK
<1>2. WaitingExact'
    BY SameParked
<1>3. ~Registered(t)
    BY DEF RegisteredOK, RegisteredPC
<1> QED
    BY <1>1, <1>2, <1>3, LocalStep DEF Quiescent, WaitPC, RegisteredPC, LockOK

\* The check under the lock gives the lock back, or keeps it for the tail.
LEMMA RecheckPreservesInv ==
    ASSUME NEW t \in Threads, Inv, Recheck(t), UNCHANGED proxyVars
    PROVE  Inv'
<1> USE DEF Inv, StateOK, call, calls, proxyVars
<1>1. PICK x \in {"release", "time", "park"} :
          /\ pc[t] = "recheck" /\ pc' = [pc EXCEPT ![t] = x]
          /\ \/ lock' = lock /\ x = "release"
             \/ lock' = NULL /\ lock = t
          /\ x = "time" => deadline[t] # "none"
    BY DEF Recheck, BeforePark, LockOK
<1>2. WaitNotifyTypeOK'
    BY DEF Recheck, Observe, WaitNotifyTypeOK, CallOK, Quiescent
<1>3. WaitingExact'
    BY <1>1, SameParked DEF Recheck
<1>4. Registered(t)
    BY <1>1 DEF RegisteredOK, RegisteredPC
<1> QED
    BY <1>1, <1>2, <1>3, <1>4, LocalStep
    DEF Recheck, Quiescent, WaitPC, RegisteredPC

\* The clock read sends the waiter on or to the tail.
LEMMA CheckTimePreservesInv ==
    ASSUME NEW t \in Threads, Inv, CheckTime(t), UNCHANGED proxyVars
    PROVE  Inv'
<1> USE DEF Inv, StateOK, memory, call, calls, proxyVars
<1>1. PICK x \in {"release", "park"} :
          pc[t] = "time" /\ pc' = [pc EXCEPT ![t] = x]
    BY DEF CheckTime
<1>2. WaitNotifyTypeOK'
    <2>1. errno_is_set' \in [Threads -> BOOLEAN]
        BY DEF CheckTime, WaitNotifyTypeOK
    <2> QED
        BY <2>1 DEF CheckTime, WaitNotifyTypeOK
<1>3. WaitingExact'
    BY <1>1, SameParked DEF CheckTime
<1>4. Registered(t)
    BY <1>1 DEF RegisteredOK, RegisteredPC
<1> QED
    BY <1>1, <1>2, <1>3, <1>4, LocalStep
    DEF CheckTime, Quiescent, WaitPC, RegisteredPC, LockOK

\* A notify that finds nobody leaves everything alone.
LEMMA NobodyWaitsPreservesInv ==
    ASSUME NEW t \in Threads, Inv, NobodyWaits(t), UNCHANGED proxyVars
    PROVE  Inv'
<1> USE DEF Inv, StateOK, NobodyWaits, memory, call, result, calls, proxyVars
<1>1. WaitNotifyTypeOK'
    BY DEF WaitNotifyTypeOK
<1>2. WaitingExact'
    BY SameParked
<1>3. ~Registered(t)
    BY DEF RegisteredOK, RegisteredPC
<1> QED
    BY <1>1, <1>2, <1>3, LocalStep DEF Quiescent, WaitPC, RegisteredPC, LockOK

\* The clock touches no thread.
LEMMA DeadlinePassesPreservesInv ==
    ASSUME NEW t \in Threads, Inv, DeadlinePasses(t), UNCHANGED proxyVars
    PROVE  Inv'
<1> USE DEF Inv, DeadlinePasses, memory, result, calls, proxyVars
<1>1. StateOK'
    BY DEF StateOK, WaitNotifyTypeOK
<1>2. CallOK'
    BY DEF CallOK, StateOK, WaitNotifyTypeOK
<1>3. WaitingExact'
    BY SameParked
<1> QED
    BY <1>1, <1>2, <1>3
    DEF LockOK, RegisteredOK, Registered, ProxyAccounting, Waiters, NoDanglingProxy

\* Registration: a fresh proxy has nobody parked, whatever its memory was before.
LEMMA RegisterPreservesInv ==
    ASSUME NEW t \in Threads, Inv, RegisterProxy(t)
    PROVE  Inv'
<1> USE DEF Inv, call, calls
<1>1. /\ pc[t] = "register" /\ lock = NULL /\ lock' = t
      /\ pc' = [pc EXCEPT ![t] = "recheck"]
      /\ UNCHANGED <<object, expected, deadline>>
    BY DEF RegisterProxy, Register
<1>2. object[t] \in Objects /\ ~Registered(t)
    BY <1>1 DEF CallOK, RegisteredOK, RegisteredPC, Quiescent
<1>3. /\ WaitNotifyTypeOK'
      /\ ProxyAccounting'
      /\ NoDanglingProxy'
      /\ item'[t] \in Proxies
      /\ \A u \in Threads : u # t => item'[u] = item[u]
      /\ table[object[t]] = NULL => \A u \in Threads : item[u] # item'[t]
    BY <1>2, InvHolders, RegisterKeepsProxies DEF RegisterProxy, StateOK
<1>4. pending' \in [Proxies -> Int] /\ waiting' \in [Proxies -> Nat]
    BY <1>3 DEF RegisterProxy, StateOK, proxyVars
<1>5. StateOK'
    BY <1>1, <1>3, <1>4 DEF StateOK, WaitPC
<1>6. CallOK'
    BY <1>1, <1>2 DEF CallOK, Quiescent, WaitPC, StateOK
<1>7. LockOK'
    BY <1>1, WaitNotifyAssumption DEF LockOK, StateOK
<1>8. RegisteredOK'
    BY <1>1, <1>3, WaitNotifyAssumption
    DEF RegisteredOK, Registered, RegisteredPC, StateOK
<1>9. WaitingExact'
    <2>1. \A u \in Threads : /\ pc'[u] \in {"cond", "wakeup"} <=>
                                   pc[u] \in {"cond", "wakeup"}
                             /\ pc[u] \in {"cond", "wakeup"} => item'[u] = item[u]
        BY <1>1, <1>3 DEF StateOK
    <2>2. CASE table[object[t]] # NULL
        BY <2>1, <2>2, SameParked DEF RegisterProxy, proxyVars
    <2>3. CASE table[object[t]] = NULL
        <3>1. PICK p \in Proxies :
                  p = item'[t] /\ waiting' = [waiting EXCEPT ![p] = 0]
            BY <1>3, <2>3 DEF RegisterProxy
        <3>2. \A q \in Proxies : InCond(q)' = InCond(q)
            BY <2>1 DEF InCond
        <3>3. InCond(p) = {}
            BY <1>3, <2>3, <3>1 DEF InCond
        <3>4. \A q \in Proxies : waiting'[q] = IF q = p THEN 0 ELSE waiting[q]
            BY <3>1 DEF StateOK
        <3> QED
            BY <3>2, <3>3, <3>4, FS_EmptySet DEF WaitingExact
    <2> QED
        BY <2>2, <2>3
<1> QED
    BY <1>3, <1>5, <1>6, <1>7, <1>8, <1>9

\* A waiter takes a token and goes round, or is counted as parked.
LEMMA ParkPreservesInv ==
    ASSUME NEW t \in Threads, Inv, Park(t)
    PROVE  Inv'
<1> USE DEF Inv, StateOK, memory, call, result, calls
<1>1. pc[t] = "park" /\ Registered(t)
    BY DEF Park, RegisteredOK, RegisteredPC
<1>2. item[t] \in Proxies
    BY <1>1 DEF WaitNotifyTypeOK, Registered
<1>3. WaitNotifyTypeOK'
    BY DEF Park, WaitNotifyTypeOK
<1>4. CASE HasToken(item[t])
    <2>1. WaitingExact'
        BY <1>1, <1>4, SameParked DEF Park
    <2>2. pending' \in [Proxies -> Int]
        BY <1>2, <1>4 DEF Park
    <2> QED
        BY <1>1, <1>3, <1>4, <2>1, <2>2, LocalStep
        DEF Park, Quiescent, WaitPC, RegisteredPC, LockOK
<1>5. CASE ~HasToken(item[t])
    <2>1. WaitingExact' /\ waiting' \in [Proxies -> Nat]
        BY <1>1, <1>2, <1>5, OneMoreParked DEF Park
    <2> QED
        BY <1>1, <1>3, <1>5, <2>1, LocalStep
        DEF Park, Quiescent, WaitPC, RegisteredPC, LockOK
<1> QED
    BY <1>4, <1>5

\* A park that fails hard goes to the tail with its reference.
LEMMA ParkFailsPreservesInv ==
    ASSUME NEW t \in Threads, Inv, ParkFails(t)
    PROVE  Inv'
<1> USE DEF Inv, StateOK, ParkFails, HardError, memory, call, calls, proxyVars
<1>1. Registered(t)
    BY DEF RegisteredOK, RegisteredPC
<1>2. WaitNotifyTypeOK'
    <2>1. errno_is_set' \in [Threads -> BOOLEAN]
        BY DEF WaitNotifyTypeOK
    <2> QED
        BY <2>1 DEF WaitNotifyTypeOK
<1>3. WaitingExact'
    BY SameParked
<1> QED
    BY <1>1, <1>2, <1>3, LocalStep DEF Quiescent, WaitPC, RegisteredPC, LockOK

\* A spurious wake keeps the reference and the place in waiting.
LEMMA SpuriousWakePreservesInv ==
    ASSUME NEW t \in Threads, Inv, SpuriousWake(t)
    PROVE  Inv'
<1> USE DEF Inv, StateOK, SpuriousWake, memory, call, result, calls, proxyVars
<1>1. Registered(t)
    BY DEF RegisteredOK, RegisteredPC
<1>2. WaitNotifyTypeOK'
    BY DEF WaitNotifyTypeOK
<1>3. WaitingExact'
    BY SameParked
<1> QED
    BY <1>1, <1>2, <1>3, LocalStep DEF Quiescent, WaitPC, RegisteredPC, LockOK

\* A thread that is awake takes a token and leaves, or blocks again.
LEMMA ResumePreservesInv ==
    ASSUME NEW t \in Threads, Inv, Resume(t)
    PROVE  Inv'
<1> USE DEF Inv, StateOK, memory, call, result, calls
<1>1. pc[t] = "wakeup" /\ Registered(t)
    BY DEF Resume, RegisteredOK, RegisteredPC
<1>2. item[t] \in Proxies
    BY <1>1 DEF WaitNotifyTypeOK, Registered
<1>3. WaitNotifyTypeOK'
    BY DEF Resume, WaitNotifyTypeOK
<1>4. CASE HasToken(item[t])
    <2>1. WaitingExact' /\ waiting' \in [Proxies -> Nat]
        BY <1>1, <1>2, <1>4, OneLessParked DEF Resume
    <2>2. pending' \in [Proxies -> Int]
        BY <1>2, <1>4 DEF Resume
    <2> QED
        BY <1>1, <1>3, <1>4, <2>1, <2>2, LocalStep
        DEF Resume, Quiescent, WaitPC, RegisteredPC, LockOK
<1>5. CASE ~HasToken(item[t])
    <2>1. WaitingExact'
        BY <1>1, <1>5, SameParked DEF Resume, proxyVars
    <2> QED
        BY <1>1, <1>3, <1>5, <2>1, LocalStep
        DEF Resume, Quiescent, WaitPC, RegisteredPC, LockOK, proxyVars
<1> QED
    BY <1>4, <1>5

\* A waiter that times out is no longer counted as parked.
LEMMA CondTimeoutPreservesInv ==
    ASSUME NEW t \in Threads, Inv, CondTimeout(t)
    PROVE  Inv'
<1> USE DEF Inv, StateOK, memory, call, result, calls
<1>1. pc[t] \in {"cond", "wakeup"} /\ Registered(t)
    BY DEF CondTimeout, RegisteredOK, RegisteredPC
<1>2. item[t] \in Proxies
    BY <1>1 DEF WaitNotifyTypeOK, Registered
<1>3. WaitNotifyTypeOK'
    BY DEF CondTimeout, WaitNotifyTypeOK
<1>4. WaitingExact' /\ waiting' \in [Proxies -> Nat]
    BY <1>1, <1>2, OneLessParked DEF CondTimeout
<1> QED
    BY <1>1, <1>3, <1>4, LocalStep
    DEF CondTimeout, Quiescent, WaitPC, RegisteredPC, LockOK

\* Nor is one whose pthread_cond_wait fails.
LEMMA CondFailsPreservesInv ==
    ASSUME NEW t \in Threads, Inv, CondFails(t)
    PROVE  Inv'
<1> USE DEF Inv, StateOK, memory, call, calls
<1>1. pc[t] \in {"cond", "wakeup"} /\ Registered(t)
    BY DEF CondFails, RegisteredOK, RegisteredPC
<1>2. item[t] \in Proxies
    BY <1>1 DEF WaitNotifyTypeOK, Registered
<1>3. WaitNotifyTypeOK'
    <2>1. errno_is_set' \in [Threads -> BOOLEAN]
        BY DEF CondFails, HardError, WaitNotifyTypeOK
    <2> QED
        BY <2>1 DEF CondFails, HardError, WaitNotifyTypeOK
<1>4. WaitingExact' /\ waiting' \in [Proxies -> Nat]
    BY <1>1, <1>2, OneLessParked DEF CondFails, HardError
<1> QED
    BY <1>1, <1>3, <1>4, LocalStep
    DEF CondFails, HardError, Quiescent, WaitPC, RegisteredPC, LockOK

\* What a notify adds to the tokens and to its result are integers.
LEMMA WakeTypes ==
    ASSUME Inv, NEW t \in Threads, NEW p \in Proxies
    PROVE  Tokens(p, max[t]) \in Int /\ Woken(p, max[t]) \in Int
<1>1. /\ max[t] \in Nat /\ INT_MAX \in Nat /\ LONG_MAX \in Nat /\ UINT_MAX \in Nat
    BY WaitNotifyAssumption, PthreadsAssumption
    DEF Inv, StateOK, WaitNotifyTypeOK, UINT_MAX
<1>2. ToInt(max[t]) \in Int /\ ToLong(max[t]) \in Int
    BY <1>1 DEF ToInt, ToLong
<1>3. use_count[p] \in Nat /\ pending[p] \in Int /\ waiting[p] \in Nat
    BY DEF Inv, StateOK, WaitNotifyTypeOK
<1> QED
    BY <1>1, <1>2, <1>3 DEF Tokens, Woken

\* Who a notify unblocks is blocked on its proxy.
LEMMA WakesBlocked ==
    ASSUME NEW p, NEW m, NEW s \in CondWake(p, m)
    PROVE  s \subseteq Blocked(p)
    BY DEF CondWake

\* A notify moves blocked threads on, which stay registered and counted as parked.
LEMMA WakePreservesInv ==
    ASSUME NEW t \in Threads, Inv, Wake(t)
    PROVE  Inv'
<1> USE DEF Inv, memory, call, calls
<1>1. PICK p \in Proxies : p = table[object[t]] /\ pc[t] = "nlock"
    BY DEF Wake, StateOK, WaitNotifyTypeOK, CallOK, Quiescent
<1>2. PICK s \in CondWake(p, max[t]) :
          pc' = [u \in Threads |-> IF u = t THEN "notified"
                                   ELSE IF u \in s THEN "wakeup" ELSE pc[u]]
    BY <1>1 DEF Wake
<1>3. \A u \in s : u \in Threads /\ pc[u] = "cond" /\ u # t
    BY <1>1, WakesBlocked DEF Blocked
<1>4. /\ UNCHANGED <<lock, table, use_count, object, expected, deadline, item,
                     waiting>>
      /\ pending' = [pending EXCEPT ![p] = Tokens(p, max[t])]
      /\ ret' = [ret EXCEPT ![t] = @ + Woken(p, max[t])]
    BY <1>1 DEF Wake
<1>5. StateOK'
    <2>1. WaitNotifyTypeOK'
        BY <1>4, WakeTypes DEF Wake, StateOK, WaitNotifyTypeOK
    <2> QED
        BY <1>2, <1>4, <2>1, WakeTypes DEF StateOK, Quiescent, WaitPC
<1>6. CallOK'
    BY <1>2, <1>3, <1>4 DEF CallOK, Quiescent, WaitPC
<1>7. LockOK' /\ RegisteredOK'
    BY <1>1, <1>2, <1>3, <1>4 DEF LockOK, RegisteredOK, Registered, RegisteredPC
<1>8. ProxyAccounting' /\ NoDanglingProxy'
    BY <1>4 DEF ProxyAccounting, Waiters, NoDanglingProxy, Registered
<1>9. WaitingExact'
    BY <1>1, <1>2, <1>3, <1>4, SameParked
<1> QED
    BY <1>5, <1>6, <1>7, <1>8, <1>9

\* A notify that fails leaves tokens or none.
LEMMA WakeFailsPreservesInv ==
    ASSUME NEW t \in Threads, Inv, WakeFails(t)
    PROVE  Inv'
<1> USE DEF Inv, StateOK, memory, call, calls
<1>1. PICK p \in Proxies : p = table[object[t]] /\ pc[t] = "nlock"
    BY DEF WakeFails, WaitNotifyTypeOK, CallOK, Quiescent
<1>2. pending' \in [Proxies -> Int]
    BY <1>1, WakeTypes DEF WakeFails
<1>3. WaitNotifyTypeOK'
    BY DEF WakeFails, WaitNotifyTypeOK
<1>4. WaitingExact'
    BY <1>1, SameParked DEF WakeFails
<1>5. ~Registered(t)
    BY <1>1 DEF RegisteredOK, RegisteredPC
<1> QED
    BY <1>1, <1>2, <1>3, <1>4, <1>5, LocalStep
    DEF WakeFails, Quiescent, WaitPC, RegisteredPC, LockOK

\* The tail: one reference less.
LEMMA ReleasePreservesInv ==
    ASSUME NEW t \in Threads, Inv, Release(t), UNCHANGED proxyVars
    PROVE  Inv'
<1> USE DEF Inv, proxyVars, call, calls
<1>1. /\ pc[t] = "release" /\ pc' = [pc EXCEPT ![t] = "waited"]
      /\ lock' = NULL /\ lock \in {NULL, t}
      /\ UNCHANGED <<object, expected, deadline, pending, waiting>>
    BY DEF Release, LockFree
<1>2. /\ WaitNotifyTypeOK'
      /\ ProxyAccounting'
      /\ NoDanglingProxy'
      /\ item' = [item EXCEPT ![t] = NULL]
    <2>1. Registered(t)
        BY <1>1 DEF RegisteredOK, RegisteredPC
    <2> QED
        BY <2>1, InvHolders, ReleaseKeepsProxies DEF StateOK
<1>3. StateOK'
    BY <1>1, <1>2 DEF StateOK, Quiescent
<1>4. CallOK'
    BY <1>1 DEF CallOK, Quiescent, WaitPC, StateOK
<1>5. LockOK'
    BY <1>1, WaitNotifyAssumption DEF LockOK, StateOK
<1>6. RegisteredOK'
    BY <1>1, <1>2 DEF RegisteredOK, Registered, RegisteredPC, StateOK, WaitNotifyTypeOK
<1>7. WaitingExact'
    BY <1>1, <1>2, SameParked DEF StateOK, WaitNotifyTypeOK
<1> QED
    BY <1>2, <1>3, <1>4, <1>5, <1>6, <1>7

\* Every step keeps Inv.
LEMMA NextPreservesInv == Inv /\ [Next]_vars => Inv'
<1> SUFFICES ASSUME Inv, [Next]_vars PROVE Inv'
    OBVIOUS
<1>1. ASSUME NEW t \in Threads, Call(t) PROVE Inv'
    BY <1>1, CallPreservesInv
<1>2. ASSUME NEW t \in Threads, Step(t) PROVE Inv'
    BY <1>2, LoadPreservesInv, RegisterFailsPreservesInv, RecheckPreservesInv,
       CheckTimePreservesInv, ReleasePreservesInv, NobodyWaitsPreservesInv,
       RegisterPreservesInv, ParkPreservesInv, ParkFailsPreservesInv,
       ResumePreservesInv, WakePreservesInv, WakeFailsPreservesInv
    DEF Step
<1>3. ASSUME NEW t \in Threads, Environment(t) PROVE Inv'
    BY <1>3, DeadlinePassesPreservesInv, CondTimeoutPreservesInv,
       SpuriousWakePreservesInv, CondFailsPreservesInv
    DEF Environment
<1>4. ASSUME UNCHANGED vars PROVE Inv'
    BY <1>4
    DEF vars, waitNotifyVars, proxyVars, memory, call, result, calls, Inv,
        StateOK, WaitNotifyTypeOK, CallOK, LockOK, RegisteredOK, ProxyAccounting,
        NoDanglingProxy, WaitingExact, InCond, Registered, Waiters
<1> QED
    BY <1>1, <1>2, <1>3, <1>4 DEF Next, Done

\* Inv is an invariant of the specification.
LEMMA InvHolds == Spec => []Inv
    BY InitInv, NextPreservesInv, PTL DEF Spec

\* Reference counts are exact on the pthreads path too, through timeouts, hard
\* errors and failed registrations.
THEOREM AccountingCorrect == Spec => []ProxyAccounting
<1>1. Inv => ProxyAccounting
    BY DEF Inv
<1> QED
    BY <1>1, InvHolds, PTL

\* No waiter ever uses a mutex and condition variable that were freed or belong
\* to another object.
THEOREM NoUseAfterFree == Spec => []NoDanglingProxy
<1>1. Inv => NoDanglingProxy
    BY DEF Inv
<1> QED
    BY <1>1, InvHolds, PTL

\* waiting counts the threads inside pthread_cond_wait, on every exit from it.
THEOREM ParkedCounted == Spec => []WaitingExact
<1>1. Inv => WaitingExact
    BY DEF Inv
<1> QED
    BY <1>1, InvHolds, PTL

-------------------------------------------------------------------------------
(* The tokens stay in range *)

\* The pile never holds more than a token per thread, nor a negative number.
LEMMA TokensInRange ==
    ASSUME Inv, TokensOK, LimitsFit,
           NEW t \in Threads, pc[t] = "nlock", NEW p \in Proxies
    PROVE  /\ Tokens(p, max[t]) \in 0..Cardinality(Threads)
           /\ ToLong(max[t]) = max[t] \/ max[t] = UINT_MAX
<1>1. Cardinality(Threads) \in Nat \ {0}
    BY WaitNotifyAssumption
<1>2. use_count[p] \in 0..Cardinality(Threads)
    <2>1. Waiters(p) \subseteq Threads /\ use_count[p] = Cardinality(Waiters(p))
        BY DEF Waiters, Inv, ProxyAccounting
    <2> QED
        BY <1>1, <2>1, WaitersFinite, WaitNotifyAssumption, FS_Subset
<1>3. pending[p] \in 0..Cardinality(Threads) /\ max[t] \in Nat
    BY WaitNotifyAssumption DEF TokensOK, Inv, StateOK, WaitNotifyTypeOK, UINT_MAX
<1>4. ToLong(max[t]) = max[t] \/ max[t] = UINT_MAX
    BY <1>3, PthreadsAssumption DEF TokensOK, LimitsFit, ToLong
<1> QED
    BY <1>1, <1>2, <1>3, <1>4 DEF Tokens

\* Only a notify adds tokens, and only a positive pile loses one.
LEMMA NextKeepsTokens ==
    ASSUME LimitsFit, Inv, TokensOK, [Next]_vars
    PROVE  TokensOK'
<1> USE DEF Inv, StateOK
<1>0. Cardinality(Threads) \in Nat
    BY WaitNotifyAssumption
<1>1. ASSUME NEW t \in Threads, Call(t) PROVE TokensOK'
    <2>1. UNCHANGED pending
        BY <1>1 DEF Call, proxyVars
    <2>2. ASSUME NEW o \in Objects, NEW e, NEW m \in Limits, EnterNotify(t, o, e, m),
                 \A u \in Threads : u # t => pc'[u] = pc[u]
          PROVE  TokensOK'
        BY <2>1, <2>2 DEF TokensOK, EnterNotify, WaitNotifyTypeOK
    <2>3. ASSUME NEW o \in Objects, NEW e \in Expects, NEW d \in Deadlines,
                 BeginWait(t, o, e, d)
          PROVE  TokensOK'
        BY <2>1, <2>3 DEF TokensOK, BeginWait, WaitNotifyTypeOK
    <2>4. \A u \in Threads : u # t => pc'[u] = pc[u]
        BY <1>1 DEF Call, BeginWait, BareNotify, StoreNotify, CasNotify, CallNotify
    <2> QED
        BY <1>1, <2>2, <2>3, <2>4
        DEF Call, BareNotify, StoreNotify, CasNotify, Limits
<1>2. ASSUME UNCHANGED <<pending, max>>,
             \A u \in Threads : pc'[u] = "nlock" => pc[u] = "nlock"
      PROVE  TokensOK'
    BY <1>2 DEF TokensOK
<1>3. ASSUME NEW t \in Threads, Wake(t) \/ WakeFails(t) PROVE TokensOK'
    <2>1. PICK p \in Proxies : p = table[object[t]] /\ pc[t] = "nlock"
        BY <1>3 DEF Wake, WakeFails, WaitNotifyTypeOK, CallOK, Quiescent
    <2>2. Tokens(p, max[t]) \in 0..Cardinality(Threads)
        BY <2>1, TokensInRange
    <2>3. \A q \in Proxies : pending'[q] \in 0..Cardinality(Threads)
        BY <1>3, <2>1, <2>2 DEF Wake, WakeFails, TokensOK
    <2>4. UNCHANGED max /\ \A u \in Threads : pc'[u] = "nlock" => pc[u] = "nlock"
        BY <1>3 DEF Wake, WakeFails, call
    <2> QED
        BY <2>3, <2>4 DEF TokensOK
<1>4. ASSUME NEW t \in Threads, Park(t) \/ Resume(t) PROVE TokensOK'
    <2>1. item[t] \in Proxies
        BY <1>4 DEF Park, Resume, RegisteredOK, RegisteredPC, Registered,
                    WaitNotifyTypeOK
    <2>2. \A q \in Proxies : pending'[q] \in 0..Cardinality(Threads)
        BY <1>0, <1>4, <2>1 DEF Park, Resume, HasToken, TokensOK, proxyVars
    <2>3. UNCHANGED max /\ \A u \in Threads : pc'[u] = "nlock" => pc[u] = "nlock"
        BY <1>4 DEF Park, Resume, call
    <2> QED
        BY <2>2, <2>3 DEF TokensOK
<1>5. ASSUME NEW t \in Threads, RegisterProxy(t) PROVE TokensOK'
    <2>1. \A q \in Proxies : pending'[q] \in 0..Cardinality(Threads)
        BY <1>0, <1>5 DEF RegisterProxy, TokensOK, proxyVars
    <2>2. UNCHANGED max /\ \A u \in Threads : pc'[u] = "nlock" => pc[u] = "nlock"
        BY <1>5 DEF RegisterProxy, Register, call
    <2> QED
        BY <2>1, <2>2 DEF TokensOK
<1>6. ASSUME NEW t \in Threads,
             \/ Load(t) /\ UNCHANGED proxyVars
             \/ RegisterFails(t) /\ UNCHANGED proxyVars
             \/ Recheck(t) /\ UNCHANGED proxyVars
             \/ CheckTime(t) /\ UNCHANGED proxyVars
             \/ Release(t) /\ UNCHANGED proxyVars
             \/ NobodyWaits(t) /\ UNCHANGED proxyVars
             \/ ParkFails(t)
             \/ Environment(t)
      PROVE  TokensOK'
    <2>1. UNCHANGED <<pending, max>>
        BY <1>6 DEF Load, RegisterFails, Recheck, CheckTime, Release, NobodyWaits,
                    ParkFails, Environment, DeadlinePasses, CondTimeout,
                    SpuriousWake, CondFails, call, proxyVars
    <2>2. \A u \in Threads : pc'[u] = "nlock" => pc[u] = "nlock"
        BY <1>6 DEF Load, RegisterFails, Recheck, CheckTime, Release, NobodyWaits,
                    ParkFails, HardError, Environment, DeadlinePasses, CondTimeout,
                    SpuriousWake, CondFails, BeforePark
    <2> QED
        BY <1>2, <2>1, <2>2
<1>7. ASSUME UNCHANGED vars PROVE TokensOK'
    BY <1>2, <1>7 DEF vars, waitNotifyVars, call, proxyVars
<1> QED
    BY <1>1, <1>3, <1>4, <1>5, <1>6, <1>7 DEF Next, Done, Step

\* Where long holds every limit, the state always has its types: no pile of tokens
\* goes below zero or past the range of an int.
THEOREM TypeCorrect ==
    ASSUME LimitsFit
    PROVE  Spec => []TypeOK
<1>1. Init => TokensOK
    BY WaitNotifyAssumption DEF Init, WaitNotifyInit, TokensOK
<1>2. Inv /\ TokensOK /\ [Next]_vars => TokensOK'
    BY NextKeepsTokens
<1>3. Inv /\ TokensOK => TypeOK
    <2> SUFFICES ASSUME Inv, TokensOK PROVE TypeOK
        OBVIOUS
    <2>1. Cardinality(Threads) \in 1..INT_MAX /\ INT_MAX \in Nat
        BY WaitNotifyAssumption
    <2>2. \A p \in Proxies : waiting[p] \in 0..INT_MAX
        <3> SUFFICES ASSUME NEW p \in Proxies PROVE waiting[p] \in 0..INT_MAX
            OBVIOUS
        <3>1. InCond(p) \subseteq Threads /\ waiting[p] = Cardinality(InCond(p))
            BY DEF InCond, Inv, WaitingExact
        <3>2. /\ Cardinality(InCond(p)) \in Nat
              /\ Cardinality(InCond(p)) <= Cardinality(Threads)
            BY <3>1, InCondFinite, WaitNotifyAssumption, FS_Subset
        <3> QED
            BY <2>1, <3>1, <3>2
    <2>3. \A p \in Proxies : pending[p] \in 0..INT_MAX
        BY <2>1 DEF TokensOK
    <2> QED
        BY <2>2, <2>3 DEF Inv, StateOK, TypeOK
<1> QED
    BY <1>1, <1>2, <1>3, InvHolds, PTL DEF Spec

-------------------------------------------------------------------------------
(* What a wait returns *)

Undecided(t) ==
    observed[t] = NULL /\ errno_is_set[t] = FALSE /\ ret[t] \in {0, 1}

Succeeds(t) ==
    /\ observed[t] \in Values \ {expected[t]}
    /\ errno_is_set[t] = FALSE
    /\ ret[t] \in {0, 1}

Fails(t) ==
    /\ observed[t] = NULL
    /\ errno_is_set[t] = TRUE
    /\ \/ <<ret[t], errno[t]>> = <<-1, "EWAIT">>
       \/ <<ret[t], errno[t]>> = <<0, "ETIMEDOUT">> /\ deadline[t] = "past"

\* The results a wait carries from step to step.
ResultOf(t) ==
    /\ pc[t] \in WaitPC \ {"release"} => Undecided(t)
    /\ pc[t] \in {"load", "register"} /\ ~Registered(t) => errno[t] = "entry"
    /\ pc[t] = "release" => Succeeds(t) \/ Fails(t)
    /\ pc[t] = "waited" =>
          \/ Succeeds(t) /\ errno[t] = "entry"
          \/ Fails(t)
          \/ observed[t] = NULL /\ <<ret[t], errno[t]>> = <<-1, "ENOMEM">>

ResultOK == \A t \in Threads : ResultOf(t)

\* A thread keeps its result through the steps of the others.
LEMMA ResultKept ==
    ASSUME NEW u \in Threads, ResultOf(u),
           /\ pc'[u] = pc[u] /\ observed'[u] = observed[u]
           /\ expected'[u] = expected[u] /\ ret'[u] = ret[u]
           /\ errno'[u] = errno[u] /\ errno_is_set'[u] = errno_is_set[u]
           /\ item'[u] = item[u] /\ deadline'[u] = deadline[u]
    PROVE  ResultOf(u)'
    BY DEF ResultOf, Undecided, Succeeds, Fails, Registered

\* So a step need only be looked at for the thread that takes it.
LEMMA OthersKeepResults ==
    ASSUME NEW t \in Threads, ResultOK, ResultOf(t)',
           \A u \in Threads : u # t =>
               /\ pc'[u] = pc[u] /\ observed'[u] = observed[u]
               /\ expected'[u] = expected[u] /\ ret'[u] = ret[u]
               /\ errno'[u] = errno[u] /\ errno_is_set'[u] = errno_is_set[u]
               /\ item'[u] = item[u] /\ deadline'[u] = deadline[u]
    PROVE  ResultOK'
    BY ResultKept DEF ResultOK

\* A new call starts without a result.
LEMMA CallKeepsResults ==
    ASSUME NEW t \in Threads, Inv, ResultOK, Call(t)
    PROVE  ResultOK'
<1> USE DEF Inv, StateOK, WaitNotifyTypeOK
<1>1. ASSUME NEW o \in Objects, NEW e \in Expects, NEW d \in Deadlines,
             BeginWait(t, o, e, d)
      PROVE  ResultOK'
    <2>1. ResultOf(t)'
        BY <1>1 DEF BeginWait, ResultOf, Undecided, WaitPC
    <2> QED
        BY <1>1, <2>1, OthersKeepResults DEF BeginWait
<1>2. ASSUME NEW o \in Objects, NEW e, NEW m, EnterNotify(t, o, e, m),
             NEW r, NEW ob, NEW x \in {"nlock", "notified"},
             pc' = [pc EXCEPT ![t] = x], ret' = [ret EXCEPT ![t] = r],
             observed' = [observed EXCEPT ![t] = ob]
      PROVE  ResultOK'
    <2>1. ResultOf(t)'
        BY <1>2 DEF ResultOf, WaitPC
    <2> QED
        BY <1>2, <2>1, OthersKeepResults DEF EnterNotify
<1> QED
    BY <1>1, <1>2 DEF Call, BareNotify, StoreNotify, CasNotify, CallNotify

\* The load that ends a wait.
LEMMA ObserveSucceeds ==
    ASSUME NEW t \in Threads, Inv, ResultOK, pc[t] \in {"load", "recheck"}, Observe(t),
           UNCHANGED <<expected, ret, errno, errno_is_set>>,
           NEW x \in {"waited", "release"}, pc' = [pc EXCEPT ![t] = x],
           x = "waited" => pc[t] = "load" /\ ~Registered(t)
    PROVE  ResultOf(t)'
<1> USE DEF Inv, StateOK, WaitNotifyTypeOK
<1>1. value[object[t]] \in Values \ {expected[t]}
    BY DEF Observe, Changed, CallOK, Quiescent
<1>2. Undecided(t) /\ (x = "waited" => errno[t] = "entry")
    BY DEF ResultOK, ResultOf, WaitPC
<1>3. observed'[t] = value[object[t]] /\ pc'[t] = x
    BY DEF Observe
<1>4. Succeeds(t)'
    BY <1>1, <1>2, <1>3 DEF Succeeds, Undecided
<1> QED
    BY <1>2, <1>3, <1>4 DEF ResultOf, WaitPC

\* Each exit of atomic_wait_generic sets a result that matches its errno.
LEMMA StepKeepsResults ==
    ASSUME NEW t \in Threads, Inv, ResultOK, Step(t) \/ Environment(t)
    PROVE  ResultOK'
<1> USE DEF Inv, StateOK, WaitNotifyTypeOK, call, result
<1>1. CASE Load(t)
    <2>1. ResultOf(t)'
        <3>1. CASE Changed(t)
            BY <1>1, <3>1, ObserveSucceeds DEF Load, Registered, Observe
        <3>2. CASE ~Changed(t)
            <4>1. /\ pc[t] = "load"
                  /\ \E x \in {"register", "park", "time"} :
                        /\ pc' = [pc EXCEPT ![t] = x]
                        /\ x = "register" => ~Registered(t)
                  /\ UNCHANGED <<observed, expected, ret, errno, errno_is_set, item>>
                BY <1>1, <3>2 DEF Load, Observe, BeforePark, Registered
            <4> QED
                BY <4>1 DEF ResultOK, ResultOf, Undecided, WaitPC, Registered
        <3> QED
            BY <3>1, <3>2
    <2> QED
        BY <1>1, <2>1, OthersKeepResults DEF Load, Observe
<1>2. CASE RegisterProxy(t)
    <2>1. \A u \in Threads : u # t => item'[u] = item[u]
        BY <1>2 DEF RegisterProxy, Register
    <2>2. ResultOf(t)'
        BY <1>2 DEF RegisterProxy, Register, ResultOK, ResultOf, Undecided, WaitPC
    <2> QED
        BY <1>2, <2>1, <2>2, OthersKeepResults DEF RegisterProxy, Register
<1>3. CASE RegisterFails(t)
    <2>1. ResultOf(t)'
        BY <1>3 DEF RegisterFails, ResultOK, ResultOf, Undecided, WaitPC
    <2> QED
        BY <1>3, <2>1, OthersKeepResults DEF RegisterFails
<1>4. CASE Recheck(t)
    <2>1. ResultOf(t)'
        <3>1. CASE Changed(t)
            BY <1>4, <3>1, ObserveSucceeds DEF Recheck, Observe
        <3>2. CASE ~Changed(t)
            <4>1. /\ pc[t] = "recheck"
                  /\ \E x \in {"park", "time"} : pc' = [pc EXCEPT ![t] = x]
                  /\ ret' = [ret EXCEPT ![t] = 1]
                  /\ UNCHANGED <<observed, expected, errno, errno_is_set, item>>
                BY <1>4, <3>2 DEF Recheck, Observe, BeforePark
            <4> QED
                BY <4>1 DEF ResultOK, ResultOf, Undecided, WaitPC
        <3> QED
            BY <3>1, <3>2
    <2> QED
        BY <1>4, <2>1, OthersKeepResults DEF Recheck, Observe
<1>5. CASE CheckTime(t)
    <2>1. ResultOf(t)'
        <3>1. CASE deadline[t] = "past"
            BY <1>5, <3>1
            DEF CheckTime, ResultOK, ResultOf, Undecided, Fails, WaitPC
        <3>2. CASE deadline[t] = "ahead"
            BY <1>5, <3>2 DEF CheckTime, ResultOK, ResultOf, Undecided, WaitPC
        <3> QED
            BY <1>5, <3>1, <3>2 DEF CheckTime
    <2> QED
        BY <1>5, <2>1, OthersKeepResults DEF CheckTime
<1>6. CASE Park(t) \/ Resume(t) \/ SpuriousWake(t) \/ CondTimeout(t)
    <2>1. /\ pc[t] \in {"park", "cond", "wakeup"}
          /\ \E x \in {"cond", "wakeup", "load"} : pc' = [pc EXCEPT ![t] = x]
          /\ UNCHANGED <<observed, expected, ret, errno, errno_is_set, item, deadline>>
        BY <1>6 DEF Park, Resume, SpuriousWake, CondTimeout
    <2>2. Registered(t)'
        BY <2>1 DEF RegisteredOK, RegisteredPC, Registered
    <2>3. ResultOf(t)'
        BY <2>1, <2>2 DEF ResultOK, ResultOf, Undecided, WaitPC
    <2> QED
        BY <2>1, <2>3, OthersKeepResults
<1>7. CASE ParkFails(t) \/ CondFails(t)
    <2>1. /\ pc[t] \in {"park", "cond", "wakeup"} /\ HardError(t)
          /\ UNCHANGED <<observed, expected, item, deadline>>
        BY <1>7 DEF ParkFails, CondFails
    <2>2. ResultOf(t)'
        BY <2>1 DEF HardError, ResultOK, ResultOf, Undecided, Fails, WaitPC
    <2> QED
        BY <2>1, <2>2, OthersKeepResults DEF HardError
<1>8. CASE Release(t)
    <2>1. ResultOf(t)'
        BY <1>8 DEF Release, SavedErrno, ResultOK, ResultOf, Succeeds, Fails, WaitPC
    <2> QED
        BY <1>8, <2>1, OthersKeepResults DEF Release
<1>9. CASE NobodyWaits(t) \/ WakeFails(t)
    <2>1. ResultOf(t)'
        BY <1>9 DEF NobodyWaits, WakeFails, ResultOf, WaitPC
    <2> QED
        BY <1>9, <2>1, OthersKeepResults DEF NobodyWaits, WakeFails
<1>10. CASE Wake(t)
    <2>1. PICK s \in CondWake(table[object[t]], max[t]) :
              pc' = [u \in Threads |-> IF u = t THEN "notified"
                                       ELSE IF u \in s THEN "wakeup" ELSE pc[u]]
        BY <1>10 DEF Wake
    <2>2. \A u \in s : pc[u] = "cond"
        BY WakesBlocked DEF Blocked
    <2>3. /\ \A u \in Threads : u # t => ret'[u] = ret[u]
          /\ UNCHANGED <<observed, errno, errno_is_set, expected, item, deadline>>
        BY <1>10 DEF Wake
    <2> QED
        BY <2>1, <2>2, <2>3
        DEF ResultOK, ResultOf, Undecided, Succeeds, Fails, Registered, WaitPC
<1>11. CASE DeadlinePasses(t)
    <2>1. ResultOf(t)'
        BY <1>11 DEF DeadlinePasses, ResultOK, ResultOf, Undecided, Succeeds, Fails,
                     Registered
    <2> QED
        BY <1>11, <2>1, OthersKeepResults DEF DeadlinePasses
<1> QED
    BY <1>1, <1>2, <1>3, <1>4, <1>5, <1>6, <1>7, <1>8, <1>9, <1>10, <1>11
    DEF Step, Environment

\* The results are right in every state.
LEMMA ResultsHold == Spec => []ResultOK
<1>1. Init => ResultOK
    BY WaitNotifyAssumption
    DEF Init, WaitNotifyInit, ResultOK, ResultOf, WaitPC
<1>2. Inv /\ ResultOK /\ [Next]_vars => ResultOK'
    <2> SUFFICES ASSUME Inv, ResultOK, [Next]_vars PROVE ResultOK'
        OBVIOUS
    <2>1. ASSUME UNCHANGED vars PROVE ResultOK'
        BY <2>1
        DEF vars, waitNotifyVars, call, result, ResultOK, ResultOf, Undecided,
            Succeeds, Fails, Registered
    <2> QED
        BY <2>1, CallKeepsResults, StepKeepsResults DEF Next, Done
<1> QED
    BY <1>1, <1>2, InvHolds, PTL DEF Spec

\* What a wait hands back: on success a value other than the expected one and
\* the caller's errno, a timeout only after its deadline, an error with its errno,
\* and in every case neither the lock nor a reference.
THEOREM ReturnsAsPromised == Spec => []WaitContract
<1>1. Inv /\ ResultOK => WaitContract
    <2> SUFFICES ASSUME Inv, ResultOK, NEW t \in Threads, pc[t] = "waited"
                 PROVE  /\ lock # t /\ ~Registered(t)
                        /\ \/ /\ observed[t] \in Values \ {expected[t]}
                              /\ ret[t] \in {0, 1}
                              /\ errno[t] = "entry"
                           \/ /\ observed[t] = NULL
                              /\ <<ret[t], errno[t]>> \in
                                    {<<0, "ETIMEDOUT">>, <<-1, "ENOMEM">>,
                                     <<-1, "EWAIT">>}
                              /\ errno[t] = "ETIMEDOUT" => deadline[t] = "past"
        BY DEF WaitContract
    <2>1. lock # t /\ ~Registered(t)
        BY DEF Inv, LockOK, RegisteredOK, RegisteredPC
    <2> QED
        BY <2>1 DEF ResultOK, ResultOf, Succeeds, Fails
<1> QED
    BY <1>1, InvHolds, ResultsHold, PTL

-------------------------------------------------------------------------------
(* A flag loses no wake *)

\* Those who might sleep can be counted; they are waiters of the proxy.
LEMMA SleepyCount ==
    ASSUME NEW p
    PROVE  /\ IsFiniteSet(Sleepy(p)) /\ Cardinality(Sleepy(p)) \in Nat
           /\ Cardinality(Sleepy(p)) <= Cardinality(Waiters(p))
<1>1. Sleepy(p) \subseteq Waiters(p)
    BY DEF Sleepy, Waiters
<1> QED
    BY <1>1, WaitersFinite, FS_Subset, FS_CardinalityType

\* Nobody new, and no token less.
LEMMA EnoughKept ==
    ASSUME NEW p \in Proxies, EnoughFor(p), pending \in [Proxies -> Int],
           Sleepy(p)' \subseteq Sleepy(p), Blocked(p)' \subseteq Blocked(p),
           pending'[p] = pending[p]
    PROVE  EnoughFor(p)'
<1>1. Cardinality(Sleepy(p)') <= Cardinality(Sleepy(p)) /\ Cardinality(Sleepy(p)') \in Nat
    BY SleepyCount, FS_Subset, FS_CardinalityType
<1>2. Cardinality(Sleepy(p)) \in Nat /\ pending[p] \in Int
    BY SleepyCount
<1>3. pending'[p] >= Cardinality(Sleepy(p)')
    BY <1>1, <1>2 DEF EnoughFor
<1> QED
    BY <1>3 DEF EnoughFor

\* The waiters of a settled object have seen their last unchanged value.
LEMMA SettledChanged ==
    ASSUME FlagUse, Inv, NEW o \in Objects, Settled(o), NEW t \in Threads,
           item[t] \in Proxies, table[o] = item[t]
    PROVE  Changed(t)
<1>1. Registered(t)
    BY WaitNotifyAssumption DEF Registered
<1>2. object[t] = o
    BY <1>1, InvHolders DEF Inv, NoDanglingProxy, ProxyAccounting, HoldersOK, Registered
<1>3. expected[t] \in Expects
    BY <1>1 DEF Inv, RegisteredOK, RegisteredPC, CallOK, WaitPC
<1> QED
    BY <1>2, <1>3 DEF Settled, FlagUse, Changed

\* What a step of a waiter has to show.
LEMMA WaiterKeepsFlag ==
    ASSUME NEW t \in Threads, Inv, FlagInv,
           UNCHANGED <<value, object, expected, max>>,
           \A u \in Threads : u # t => pc'[u] = pc[u] /\ item'[u] = item[u],
           pc[t] # "nlock", pc'[t] # "nlock",
           pc'[t] \in Looked => ~Changed(t) \/ pc[t] \in Looked,
           \A o \in Objects, p \in Proxies :
               Settled(o) /\ table'[o] = p => EnoughFor(p)'
    PROVE  FlagInv'
<1>1. \A u \in Threads : Changed(u)' <=> Changed(u)
    BY DEF Changed
<1>2. NotYetSet'
    BY <1>1 DEF FlagInv, NotYetSet
<1>3. \A o : NotifyAllPending(o)' <=> NotifyAllPending(o)
    BY DEF NotifyAllPending
<1>4. \A o : Settled(o)' <=> Settled(o)
    BY <1>3 DEF Settled
<1>5. EnoughTokens'
    BY <1>4 DEF EnoughTokens
<1> QED
    BY <1>2, <1>5 DEF FlagInv

\* The same, of a step that keeps its reference: only its own proxy matters, and
\* only once the value is gone.
LEMMA HolderKeepsFlag ==
    ASSUME FlagUse, NEW t \in Threads, Inv, FlagInv,
           UNCHANGED <<value, object, expected, max, table, item>>,
           NEW x, pc' = [pc EXCEPT ![t] = x],
           pc[t] # "nlock", x # "nlock",
           x \in Looked => ~Changed(t) \/ pc[t] \in Looked,
           NEW q, q = item[t],
           \A p \in Proxies : p # q => pending'[p] = pending[p],
           q \in Proxies /\ EnoughFor(q) /\ Changed(t) => EnoughFor(q)'
    PROVE  FlagInv'
<1>1. ASSUME NEW o \in Objects, NEW p \in Proxies, Settled(o), table'[o] = p
      PROVE  EnoughFor(p)'
    <2>1. EnoughFor(p)
        BY <1>1 DEF FlagInv, EnoughTokens
    <2>2. CASE p # q
        <3>1. Sleepy(p)' = Sleepy(p) /\ Blocked(p)' = Blocked(p)
            BY <2>2 DEF Sleepy, Blocked, Inv, StateOK
        <3> QED
            BY <2>1, <2>2, <3>1, EnoughKept DEF Inv, StateOK
    <2>3. CASE p = q
        <3>1. Changed(t)
            BY <1>1, <2>3, SettledChanged
        <3> QED
            BY <2>1, <2>3, <3>1
    <2> QED
        BY <2>2, <2>3
<1>2. pc'[t] = x /\ \A u \in Threads : u # t => pc'[u] = pc[u] /\ item'[u] = item[u]
    BY DEF Inv, StateOK
<1> QED
    BY <1>1, <1>2, WaiterKeepsFlag

\* A waiter that looks and sees the value gone goes to the tail.
LEMMA LookKeepsFlag ==
    ASSUME FlagUse, NEW t \in Threads, Inv, FlagInv,
           Load(t) \/ Recheck(t), UNCHANGED proxyVars
    PROVE  FlagInv'
<1> USE DEF memory, call, calls, proxyVars
<1>1. PICK x \in {"waited", "release", "register", "time", "park"} :
          /\ pc[t] \in {"load", "recheck"} /\ pc' = [pc EXCEPT ![t] = x]
          /\ Changed(t) => x \in {"waited", "release"}
          /\ ~Changed(t) => x \in {"register", "time", "park"}
    BY DEF Load, Recheck, BeforePark, Observe
<1>2. UNCHANGED <<value, object, expected, max, table, item, pending>>
    BY DEF Load, Recheck
<1>3. PICK q : q = item[t]
    OBVIOUS
<1>4. q \in Proxies /\ EnoughFor(q) /\ Changed(t) => EnoughFor(q)'
    <2> SUFFICES ASSUME q \in Proxies, EnoughFor(q), Changed(t) PROVE EnoughFor(q)'
        OBVIOUS
    <2>1. Sleepy(q)' = Sleepy(q) /\ Blocked(q)' = Blocked(q)
        BY <1>1, <1>2 DEF Sleepy, Blocked, Inv, StateOK
    <2> QED
        BY <1>2, <2>1, EnoughKept DEF Inv, StateOK
<1> QED
    BY <1>1, <1>2, <1>3, <1>4, HolderKeepsFlag DEF Looked

\* A waiter that leaves its place before a park takes no token with it.
LEMMA LeaveKeepsFlag ==
    ASSUME FlagUse, NEW t \in Threads, Inv, FlagInv,
           UNCHANGED <<value, object, expected, max, table, item, pending>>,
           pc[t] \in Looked,
           NEW x \in {"load", "park", "release"}, pc' = [pc EXCEPT ![t] = x],
           x = "park" => pc[t] = "time"
    PROVE  FlagInv'
<1>1. PICK q : q = item[t]
    OBVIOUS
<1>2. q \in Proxies /\ EnoughFor(q) /\ Changed(t) => EnoughFor(q)'
    <2> SUFFICES ASSUME q \in Proxies, EnoughFor(q) PROVE EnoughFor(q)'
        OBVIOUS
    <2>1. Sleepy(q)' \subseteq Sleepy(q) /\ Blocked(q)' \subseteq Blocked(q)
        BY DEF Sleepy, Blocked, Inv, StateOK
    <2> QED
        BY <2>1, EnoughKept DEF Inv, StateOK
<1> QED
    BY <1>1, <1>2, HolderKeepsFlag DEF Looked

\* Once the flag is set there is a token for the one that parks, so it does not
\* block.
LEMMA TokenKeepsFlag ==
    ASSUME FlagUse, NEW t \in Threads, Inv, FlagInv, Park(t) \/ Resume(t)
    PROVE  FlagInv'
<1> USE DEF memory, call, calls
<1>1. PICK x \in {"load", "cond"} :
          /\ pc[t] \in {"park", "wakeup"} /\ pc' = [pc EXCEPT ![t] = x]
          /\ IF HasToken(item[t])
             THEN x = "load" /\ pending' = [pending EXCEPT ![item[t]] = @ - 1]
             ELSE x = "cond" /\ UNCHANGED pending
    BY DEF Park, Resume, proxyVars
<1>2. UNCHANGED <<value, object, expected, max, table, item>>
    BY DEF Park, Resume
<1>3. PICK q \in Proxies : q = item[t]
    BY <1>1 DEF Inv, RegisteredOK, RegisteredPC, Registered, StateOK, WaitNotifyTypeOK
<1>4. \A p \in Proxies : p # q => pending'[p] = pending[p]
    BY <1>1, <1>3 DEF Inv, StateOK
<1>5. EnoughFor(q) => EnoughFor(q)'
    <2> SUFFICES ASSUME EnoughFor(q) PROVE EnoughFor(q)'
        OBVIOUS
    <2>1. t \in Sleepy(q)
        BY <1>1, <1>3 DEF Sleepy
    <2>2. Cardinality(Sleepy(q)) >= 1 /\ Cardinality(Sleepy(q)) \in Nat
        BY <2>1, SleepyCount, FS_EmptySet
    <2>3. HasToken(q) /\ pending[q] \in Int
        BY <2>2 DEF EnoughFor, HasToken, Inv, StateOK
    <2>4. Sleepy(q)' = Sleepy(q) \ {t} /\ Blocked(q)' = Blocked(q)
        BY <1>1, <1>2, <1>3, <2>3 DEF Sleepy, Blocked, Inv, StateOK
    <2>5. Cardinality(Sleepy(q)') = Cardinality(Sleepy(q)) - 1
        BY <2>1, <2>4, SleepyCount, FS_RemoveElement
    <2>6. pending'[q] = pending[q] - 1
        BY <1>1, <1>3, <2>3 DEF Inv, StateOK
    <2>7. pending'[q] >= Cardinality(Sleepy(q)')
        BY <2>2, <2>3, <2>5, <2>6 DEF EnoughFor
    <2> QED
        BY <2>4, <2>7 DEF EnoughFor
<1> QED
    BY <1>1, <1>2, <1>3, <1>4, <1>5, HolderKeepsFlag DEF Looked

\* Nobody is asleep on a flag that is set and notified, so nobody wakes there.
LEMMA SpuriousKeepsFlag ==
    ASSUME FlagUse, NEW t \in Threads, Inv, FlagInv, SpuriousWake(t)
    PROVE  FlagInv'
<1> USE DEF SpuriousWake, memory, call, calls, proxyVars
<1>1. PICK q : q = item[t]
    OBVIOUS
<1>2. ~EnoughFor(q)
    BY <1>1 DEF EnoughFor, Blocked
<1> QED
    BY <1>1, <1>2, HolderKeepsFlag DEF Looked

\* A fresh proxy has no token and no waiter; a registration on an old one adds a
\* waiter that has yet to look.
LEMMA RegisterKeepsFlag ==
    ASSUME FlagUse, NEW t \in Threads, Inv, FlagInv, RegisterProxy(t)
    PROVE  FlagInv'
<1> USE DEF Inv, StateOK, call, calls
<1>1. /\ pc[t] = "register" /\ pc' = [pc EXCEPT ![t] = "recheck"]
      /\ UNCHANGED <<value, object, expected, max>>
    BY DEF RegisterProxy, Register
<1>2. object[t] \in Objects /\ ~Registered(t)
    BY <1>1 DEF CallOK, RegisteredOK, RegisteredPC, Quiescent
<1>3. /\ item'[t] \in Proxies
      /\ \A u \in Threads : u # t => item'[u] = item[u]
      /\ table[object[t]] = NULL => \A u \in Threads : item[u] # item'[t]
    BY <1>2, InvHolders, RegisterKeepsProxies DEF RegisterProxy
<1>4. ASSUME NEW o \in Objects, NEW p \in Proxies, Settled(o), table'[o] = p
      PROVE  EnoughFor(p)'
    <2>1. Sleepy(p)' \subseteq Sleepy(p) /\ Blocked(p)' \subseteq Blocked(p)
        BY <1>1, <1>3 DEF Sleepy, Blocked
    <2>2. CASE table[o] = p /\ pending'[p] = pending[p]
        <3>1. EnoughFor(p)
            BY <1>4, <2>2 DEF FlagInv, EnoughTokens
        <3> QED
            BY <2>1, <2>2, <3>1, EnoughKept
    <2>3. CASE /\ pending'[p] = 0
               /\ \A u \in Threads : item[u] # p
        <3>1. Sleepy(p)' = {} /\ Blocked(p)' = {}
            BY <2>1, <2>3 DEF Sleepy, Blocked
        <3> QED
            BY <2>3, <3>1, FS_EmptySet DEF EnoughFor
    <2>4. CASE table[object[t]] # NULL
        BY <1>4, <2>2, <2>4 DEF RegisterProxy, Register, proxyVars
    <2>5. CASE table[object[t]] = NULL
        <3>1. PICK r \in Proxies :
                  /\ r = item'[t] /\ \A o2 \in Objects : table[o2] # r
                  /\ table' = [table EXCEPT ![object[t]] = r]
                  /\ pending' = [pending EXCEPT ![r] = 0]
            BY <1>3, <2>5 DEF RegisterProxy, Register, WaitNotifyTypeOK
        <3>2. CASE o = object[t]
            BY <1>2, <1>3, <1>4, <2>3, <2>5, <3>1, <3>2 DEF WaitNotifyTypeOK
        <3>3. CASE o # object[t]
            BY <1>4, <2>2, <3>1, <3>3 DEF WaitNotifyTypeOK
        <3> QED
            BY <3>2, <3>3
    <2> QED
        BY <2>4, <2>5
<1> QED
    BY <1>1, <1>3, <1>4, WaiterKeepsFlag DEF Looked

\* The tail leaves the tokens to the others.
LEMMA ReleaseKeepsFlag ==
    ASSUME FlagUse, NEW t \in Threads, Inv, FlagInv, Release(t), UNCHANGED proxyVars
    PROVE  FlagInv'
<1> USE DEF Inv, StateOK, call, calls, proxyVars
<1>1. /\ pc[t] = "release" /\ pc' = [pc EXCEPT ![t] = "waited"]
      /\ UNCHANGED <<value, object, expected, max, pending>>
      /\ \A u \in Threads : u # t => item'[u] = item[u]
    BY DEF Release
<1>2. \A o \in Objects, p \in Proxies : table'[o] = p => table[o] = p
    BY WaitNotifyAssumption DEF Release, WaitNotifyTypeOK
<1>3. ASSUME NEW o \in Objects, NEW p \in Proxies, Settled(o), table'[o] = p
      PROVE  EnoughFor(p)'
    <2>1. EnoughFor(p)
        BY <1>2, <1>3 DEF FlagInv, EnoughTokens
    <2>2. Sleepy(p)' \subseteq Sleepy(p) /\ Blocked(p)' \subseteq Blocked(p)
        BY <1>1 DEF Sleepy, Blocked
    <2> QED
        BY <1>1, <2>1, <2>2, EnoughKept
<1> QED
    BY <1>1, <1>3, WaiterKeepsFlag DEF Looked

\* What a call or the end of a notify has to show: it leaves the waiters and their
\* tokens alone, and settles no object that has waiters.
LEMMA CallerKeepsFlag ==
    ASSUME NEW t \in Threads, Inv, FlagInv, pc[t] \notin WaitPC,
           UNCHANGED <<table, item, pending>>,
           \A u \in Threads : u # t => /\ pc'[u] = pc[u] /\ object'[u] = object[u]
                                       /\ expected'[u] = expected[u],
           pc'[t] \notin Looked,
           \A o \in Objects :
               /\ value'[o] = value[o] \/ value'[o] \in Stores
               /\ table[o] # NULL /\ Settled(o)' => Settled(o)
    PROVE  FlagInv'
<1> USE DEF Inv, StateOK
<1>1. ASSUME NEW u \in Threads, pc'[u] \in Looked, value'[object'[u]] \notin Stores
      PROVE  ~Changed(u)'
    <2>1. /\ u # t /\ pc[u] \in Looked
          /\ object'[u] = object[u] /\ expected'[u] = expected[u]
        BY <1>1
    <2>2. object[u] \in Objects
        BY <2>1 DEF Looked, CallOK, Quiescent
    <2>3. value'[object[u]] = value[object[u]] /\ value[object[u]] \notin Stores
        BY <1>1, <2>1, <2>2
    <2>4. ~Changed(u)
        BY <2>1, <2>3 DEF FlagInv, NotYetSet
    <2> QED
        BY <2>1, <2>3, <2>4 DEF Changed
<1>2. NotYetSet'
    BY <1>1 DEF NotYetSet
<1>3. ASSUME NEW o \in Objects, NEW p \in Proxies, Settled(o)', table'[o] = p
      PROVE  EnoughFor(p)'
    <2>1. EnoughFor(p)
        BY <1>3, WaitNotifyAssumption DEF FlagInv, EnoughTokens
    <2>2. Sleepy(p)' \subseteq Sleepy(p) /\ Blocked(p)' \subseteq Blocked(p)
        BY DEF Sleepy, Blocked, Looked
    <2> QED
        BY <2>1, <2>2, EnoughKept
<1>4. EnoughTokens'
    BY <1>3 DEF EnoughTokens
<1> QED
    BY <1>2, <1>4 DEF FlagInv

\* The store of a flag comes with its notify.
LEMMA CallKeepsFlag ==
    ASSUME FlagUse, NEW t \in Threads, Inv, FlagInv, Call(t)
    PROVE  FlagInv'
<1> USE DEF Inv, StateOK, WaitNotifyTypeOK
<1>1. /\ pc[t] \in Quiescent /\ UNCHANGED <<table, item, pending>>
      /\ \A u \in Threads : u # t => /\ pc'[u] = pc[u] /\ object'[u] = object[u]
                                     /\ expected'[u] = expected[u]
                                     /\ max'[u] = max[u]
      /\ pc'[t] \in {"load", "nlock", "notified"}
    BY DEF Call, BeginWait, BareNotify, StoreNotify, CasNotify, EnterNotify,
           CallNotify, memory, proxyVars
<1>2. pc[t] \notin WaitPC /\ pc[t] # "nlock" /\ pc'[t] \notin Looked
    BY <1>1 DEF Quiescent, WaitPC, Looked
<1>3. \A o : NotifyAllPending(o) => NotifyAllPending(o)'
    BY <1>1, <1>2 DEF NotifyAllPending
<1>4. \A o \in Objects :
          \/ value'[o] = value[o]
          \/ /\ value'[o] \in Stores
             /\ NotifyAllPending(o)'
    <2>1. CASE UNCHANGED value
        BY <2>1
    <2>2. ASSUME NEW o \in Objects, NEW v \in Stores, NEW m \in Nat, NEW e,
                 m >= Cardinality(Threads), value' = [value EXCEPT ![o] = v],
                 EnterNotify(t, o, e, m), pc' = [pc EXCEPT ![t] = "nlock"]
          PROVE  \A o2 \in Objects : \/ value'[o2] = value[o2]
                                     \/ /\ value'[o2] \in Stores
                                        /\ NotifyAllPending(o2)'
        <3>1. pc'[t] = "nlock" /\ object'[t] = o /\ max'[t] = m
            BY <2>2 DEF EnterNotify
        <3>2. NotifyAllPending(o)'
            BY <2>2, <3>1 DEF NotifyAllPending
        <3> QED
            BY <2>2, <3>2
    <2>3. ASSUME NEW o \in Objects, NEW v \in Stores, NEW m \in StoreWakes,
                 StoreNotify(t, o, v, m)
          PROVE  \A o2 \in Objects : \/ value'[o2] = value[o2]
                                     \/ /\ value'[o2] \in Stores
                                        /\ NotifyAllPending(o2)'
        <3>1. m \in Nat /\ m >= Cardinality(Threads)
            BY <2>3, WaitNotifyAssumption DEF FlagUse, UINT_MAX
        <3> QED
            BY <2>2, <2>3, <3>1 DEF StoreNotify, CallNotify
    <2>4. ASSUME NEW o \in Objects, NEW e \in Expects, NEW v \in Stores,
                 NEW m \in CasWakes, CasNotify(t, o, e, v, m)
          PROVE  \A o2 \in Objects : \/ value'[o2] = value[o2]
                                     \/ /\ value'[o2] \in Stores
                                        /\ NotifyAllPending(o2)'
        <3>1. CASE m = 0 \/ value[o] # e
            BY <2>1, <2>4, <3>1 DEF CasNotify
        <3>2. CASE m # 0 /\ value[o] = e
            <4>1. m \in Nat /\ m >= Cardinality(Threads)
                BY <2>4, <3>2, WaitNotifyAssumption, PthreadsAssumption
                DEF FlagUse, UINT_MAX
            <4> QED
                BY <2>2, <2>4, <3>2, <4>1 DEF CasNotify, CallNotify
        <3> QED
            BY <3>1, <3>2
    <2> QED
        BY <2>1, <2>3, <2>4 DEF Call, BeginWait, BareNotify, memory
<1>5. \A o \in Objects :
          /\ value'[o] = value[o] \/ value'[o] \in Stores
          /\ Settled(o)' => Settled(o)
    BY <1>3, <1>4 DEF Settled
<1> QED
    BY <1>1, <1>2, <1>5, CallerKeepsFlag

\* A notify that finds no proxy settles an object that nobody waits on.
LEMMA NobodyWaitsKeepsFlag ==
    ASSUME NEW t \in Threads, Inv, FlagInv, NobodyWaits(t), UNCHANGED proxyVars
    PROVE  FlagInv'
<1> USE DEF NobodyWaits, memory, call, calls, proxyVars
<1>1. \A o \in Objects : table[o] # NULL =>
          (NotifyAllPending(o) => NotifyAllPending(o)')
    BY DEF NotifyAllPending, Inv, StateOK
<1>2. \A o \in Objects : table[o] # NULL /\ Settled(o)' => Settled(o)
    BY <1>1 DEF Settled
<1> QED
    BY <1>2, CallerKeepsFlag DEF Inv, StateOK, WaitPC, Looked

\* A notify that covers every thread leaves a token for every waiter and nobody
\* asleep; a smaller one settles nothing and takes no token away.
LEMMA WakeSettles ==
    ASSUME FlagUse, LimitsFit, NEW t \in Threads, Inv, TokensOK, FlagInv, Wake(t),
           NEW o \in Objects, o = object[t], NEW p \in Proxies, p = table[o],
           Settled(o)'
    PROVE  EnoughFor(p)'
<1> USE DEF Inv, StateOK, WaitNotifyTypeOK, memory, call, calls
<1>1. PICK s \in CondWake(p, max[t]) :
          pc' = [u \in Threads |-> IF u = t THEN "notified"
                                   ELSE IF u \in s THEN "wakeup" ELSE pc[u]]
    BY DEF Wake
<1>2. /\ pc[t] = "nlock" /\ UNCHANGED <<value, object, max, item, use_count>>
      /\ pending'[p] = Tokens(p, max[t])
    BY DEF Wake
<1>3. s \subseteq Blocked(p) /\ Blocked(p)' = Blocked(p) \ s
    <2>1. s \subseteq Blocked(p)
        BY <1>1, WakesBlocked
    <2> QED
        BY <1>1, <1>2, <2>1 DEF Blocked
<1>4. Cardinality(Threads) \in Nat /\ IsFiniteSet(Threads) /\ max[t] \in Nat /\ UINT_MAX \in Nat
    BY WaitNotifyAssumption DEF UINT_MAX
<1>5. /\ use_count[p] = Cardinality(Waiters(p)) /\ use_count[p] \in Nat \ {0}
      /\ pending[p] \in Nat
    <2>1. table[o] # NULL
        BY WaitNotifyAssumption
    <2>2. use_count[p] = Cardinality(Waiters(p)) /\ use_count[p] > 0
        BY <2>1 DEF ProxyAccounting
    <2>3. pending[p] \in 0..Cardinality(Threads)
        BY DEF TokensOK
    <2> QED
        BY <1>4, <2>2, <2>3
<1>6. Cardinality(Waiters(p)) <= Cardinality(Threads)
    <2>1. Waiters(p) \subseteq Threads
        BY DEF Waiters
    <2> QED
        BY <1>4, <2>1, FS_Subset
<1>7. ToLong(max[t]) = max[t] \/ max[t] = UINT_MAX
    BY <1>2, TokensInRange
<1>8. Cardinality(Sleepy(p)') \in Nat /\ Cardinality(Sleepy(p)') <= Cardinality(Waiters(p))
    <2>1. Sleepy(p)' \subseteq Waiters(p)
        BY <1>2 DEF Sleepy, Waiters
    <2> QED
        BY <2>1, WaitersFinite, FS_Subset, FS_CardinalityType
<1>9. CASE max[t] >= Cardinality(Threads)
    <2>1. Tokens(p, max[t]) = use_count[p]
        BY <1>4, <1>5, <1>6, <1>7, <1>9 DEF Tokens
    <2>2. CASE max[t] # 1
        BY <1>1, <1>2, <1>3, <1>5, <1>8, <2>1, <2>2 DEF CondWake, EnoughFor
    <2>3. CASE max[t] = 1
        <3>1. Cardinality(Threads \ {t}) = Cardinality(Threads) - 1
            BY <1>4, FS_RemoveElement
        <3>2. IsFiniteSet(Threads \ {t}) /\ Cardinality(Threads \ {t}) \in Nat
            BY <1>4, FS_RemoveElement, FS_CardinalityType
        <3>3. Cardinality(Threads \ {t}) = 0
            BY <1>4, <1>9, <2>3, <3>1, <3>2
        <3>4. Threads \ {t} = {}
            BY <3>2, <3>3, FS_EmptySet
        <3>5. Blocked(p) = {}
            BY <1>2, <3>4 DEF Blocked
        <3> QED
            BY <1>2, <1>3, <1>5, <1>8, <2>1, <3>5 DEF EnoughFor
    <2> QED
        BY <2>2, <2>3
<1>10. CASE ~(max[t] >= Cardinality(Threads))
    <2>1. NotifyAllPending(o) => NotifyAllPending(o)'
        BY <1>1, <1>2, <1>3, <1>10 DEF NotifyAllPending, Blocked
    <2>2. Settled(o)
        BY <1>2, <2>1 DEF Settled
    <2>3. EnoughFor(p)
        BY <2>2 DEF FlagInv, EnoughTokens
    <2>4. s = {} /\ Blocked(p)' = {}
        BY <1>3, <2>3 DEF EnoughFor
    <2>5. Sleepy(p)' = Sleepy(p)
        BY <1>1, <1>2, <2>4 DEF Sleepy
    <2>6. \/ Tokens(p, max[t]) = use_count[p]
          \/ Tokens(p, max[t]) >= pending[p] /\ Tokens(p, max[t]) \in Int
        BY <1>4, <1>5, <1>7 DEF Tokens
    <2>7. Tokens(p, max[t]) >= Cardinality(Sleepy(p)')
        BY <1>5, <1>8, <2>3, <2>5, <2>6 DEF EnoughFor
    <2> QED
        BY <1>2, <2>4, <2>7 DEF EnoughFor
<1> QED
    BY <1>9, <1>10

\* A notify leaves the other objects alone.
LEMMA WakeKeepsFlag ==
    ASSUME FlagUse, LimitsFit, NEW t \in Threads, Inv, TokensOK, FlagInv, Wake(t)
    PROVE  FlagInv'
<1> USE DEF Inv, StateOK, WaitNotifyTypeOK, memory, call, calls
<1>1. PICK o \in Objects, p \in Proxies :
          o = object[t] /\ p = table[o] /\ pc[t] = "nlock"
    BY DEF Wake, CallOK, Quiescent
<1>2. PICK s \in CondWake(p, max[t]) :
          pc' = [u \in Threads |-> IF u = t THEN "notified"
                                   ELSE IF u \in s THEN "wakeup" ELSE pc[u]]
    BY <1>1 DEF Wake
<1>3. /\ UNCHANGED <<value, object, expected, max, item, table>>
      /\ pending' = [pending EXCEPT ![p] = Tokens(p, max[t])]
    BY <1>1 DEF Wake
<1>4. s \subseteq Blocked(p)
    BY <1>2, WakesBlocked
<1>5. NotYetSet'
    <2>1. \A u \in Threads : pc'[u] \in Looked => pc[u] \in Looked
        BY <1>2, <1>4 DEF Looked, Blocked
    <2> QED
        BY <1>3, <2>1 DEF FlagInv, NotYetSet, Changed
<1>6. ASSUME NEW o2 \in Objects, NEW q \in Proxies, Settled(o2)', table'[o2] = q
      PROVE  EnoughFor(q)'
    <2>1. CASE o2 = o
        BY <1>1, <1>3, <1>6, <2>1, WakeSettles
    <2>2. CASE o2 # o
        <3>1. q # p
            BY <1>1, <1>3, <1>6, <2>2, WaitNotifyAssumption DEF ProxyAccounting
        <3>2. NotifyAllPending(o2) => NotifyAllPending(o2)'
            BY <1>1, <1>2, <1>3, <1>4, <2>2 DEF NotifyAllPending, Blocked
        <3>3. EnoughFor(q)
            BY <1>3, <1>6, <3>2 DEF Settled, FlagInv, EnoughTokens
        <3>4. Sleepy(q)' \subseteq Sleepy(q) /\ Blocked(q)' \subseteq Blocked(q)
            BY <1>2, <1>3, <1>4, <3>1 DEF Sleepy, Blocked
        <3> QED
            BY <1>3, <3>1, <3>3, <3>4, EnoughKept
    <2> QED
        BY <2>1, <2>2
<1>7. EnoughTokens'
    BY <1>6 DEF EnoughTokens
<1> QED
    BY <1>5, <1>7 DEF FlagInv

\* A failed registration or a wait that ends early leaves the others alone.
LEMMA ErrorKeepsFlag ==
    ASSUME FlagUse, NEW t \in Threads, Inv, FlagInv,
           \/ RegisterFails(t) /\ UNCHANGED proxyVars
           \/ CheckTime(t) /\ UNCHANGED proxyVars
           \/ ParkFails(t)
           \/ CondTimeout(t)
           \/ CondFails(t)
    PROVE  FlagInv'
<1> USE DEF memory, call, calls, proxyVars
<1>1. CASE RegisterFails(t) /\ UNCHANGED proxyVars
    <2>1. /\ pc' = [pc EXCEPT ![t] = "waited"] /\ pc[t] = "register"
          /\ UNCHANGED <<value, object, expected, max, table, item, pending>>
        BY <1>1 DEF RegisterFails
    <2>2. PICK q : q = item[t]
        OBVIOUS
    <2>3. q \in Proxies /\ EnoughFor(q) => EnoughFor(q)'
        <3>1. Sleepy(q)' \subseteq Sleepy(q) /\ Blocked(q)' \subseteq Blocked(q)
            BY <2>1 DEF Sleepy, Blocked, Inv, StateOK
        <3> QED
            BY <2>1, <3>1, EnoughKept DEF Inv, StateOK
    <2> QED
        BY <2>1, <2>2, <2>3, HolderKeepsFlag DEF Looked
<1>2. CASE CheckTime(t) /\ UNCHANGED proxyVars
    <2>1. PICK x \in {"load", "park", "release"} :
              pc' = [pc EXCEPT ![t] = x] /\ pc[t] = "time"
        BY <1>2 DEF CheckTime
    <2>2. UNCHANGED <<value, object, expected, max, table, item, pending>>
        BY <1>2 DEF CheckTime
    <2> QED
        BY <2>1, <2>2, LeaveKeepsFlag DEF Looked
<1>3. CASE ParkFails(t) \/ CondTimeout(t) \/ CondFails(t)
    <2>1. PICK x \in {"load", "park", "release"} :
              /\ pc' = [pc EXCEPT ![t] = x] /\ x # "park"
              /\ pc[t] \in {"park", "cond", "wakeup"}
        BY <1>3 DEF ParkFails, CondTimeout, CondFails, HardError
    <2>2. UNCHANGED <<value, object, expected, max, table, item, pending>>
        BY <1>3 DEF ParkFails, CondTimeout, CondFails
    <2> QED
        BY <2>1, <2>2, LeaveKeepsFlag DEF Looked
<1> QED
    BY <1>1, <1>2, <1>3

\* Every step keeps the promise of the flag.
LEMMA NextKeepsFlag ==
    ASSUME FlagUse, LimitsFit, Inv, TokensOK, FlagInv, [Next]_vars
    PROVE  FlagInv'
<1>1. ASSUME NEW t \in Threads, Step(t) PROVE FlagInv'
    <2>1. ~WakeFails(t)
        BY DEF WakeFails, FlagUse
    <2> QED
        BY <1>1, <2>1, LookKeepsFlag, ErrorKeepsFlag, ReleaseKeepsFlag,
           NobodyWaitsKeepsFlag, RegisterKeepsFlag, TokenKeepsFlag, WakeKeepsFlag
        DEF Step
<1>2. ASSUME UNCHANGED <<value, table, pc, object, expected, max, item, pending>>
      PROVE  FlagInv'
    BY <1>2
    DEF FlagInv, NotYetSet, EnoughTokens, Changed, Settled, NotifyAllPending,
        EnoughFor, Blocked, Sleepy
<1>3. ASSUME NEW t \in Threads, Environment(t) PROVE FlagInv'
    <2>1. CASE DeadlinePasses(t) /\ UNCHANGED proxyVars
        BY <1>2, <2>1 DEF DeadlinePasses, memory, proxyVars
    <2> QED
        BY <1>3, <2>1, ErrorKeepsFlag, SpuriousKeepsFlag DEF Environment
<1>4. CASE UNCHANGED vars
    BY <1>2, <1>4 DEF vars, waitNotifyVars, proxyVars, memory, call
<1> QED
    BY <1>1, <1>3, <1>4, CallKeepsFlag DEF Next, Done

\* FlagInv is an invariant of callers who use a flag.
LEMMA FlagInvHolds ==
    ASSUME FlagUse, LimitsFit
    PROVE  Spec => [](Inv /\ TokensOK /\ FlagInv)
<1>1. Init => FlagInv
    <2> SUFFICES ASSUME Init PROVE FlagInv
        OBVIOUS
    <2>1. \A t \in Threads : pc[t] = "idle"
        BY DEF Init, WaitNotifyInit
    <2>2. \A o \in Objects, p \in Proxies : table[o] # p
        BY WaitNotifyAssumption DEF Init, WaitNotifyInit
    <2> QED
        BY <2>1, <2>2 DEF FlagInv, NotYetSet, EnoughTokens, Looked
<1>2. Init => TokensOK
    BY WaitNotifyAssumption DEF Init, WaitNotifyInit, TokensOK
<1>3. Inv /\ TokensOK /\ FlagInv /\ [Next]_vars => TokensOK' /\ FlagInv'
    BY NextKeepsTokens, NextKeepsFlag
<1> QED
    BY <1>1, <1>2, <1>3, InvHolds, PTL DEF Spec

\* A waiter never sleeps through the notify of a flag: whatever it was doing when
\* the flag was set - before its registration, between its last look and the
\* mutex, or inside pthread_cond_wait - with timeouts, spurious wakeups, bare
\* notifies and other waiters taking tokens, and whatever else fails.
THEOREM NoWakeIsLost ==
    ASSUME FlagUse, LimitsFit
    PROVE  Spec => []NoLostWake
<1>1. Inv /\ FlagInv => NoLostWake
    <2> SUFFICES ASSUME Inv, FlagInv, NEW t \in Threads, pc[t] = "cond", Changed(t)
                 PROVE  NotifyAllPending(object[t])
        BY DEF NoLostWake
    <2>1. PICK o \in Objects, p \in Proxies :
              o = object[t] /\ p = item[t] /\ p = table[o]
        BY DEF Inv, CallOK, RegisteredOK, RegisteredPC, NoDanglingProxy, Registered,
               Quiescent, StateOK, WaitNotifyTypeOK
    <2>2. value[o] \in Stores
        BY <2>1 DEF FlagInv, NotYetSet, Looked
    <2>3. ~EnoughFor(p)
        BY <2>1 DEF EnoughFor, Blocked
    <2> QED
        BY <2>1, <2>2, <2>3 DEF FlagInv, EnoughTokens, Settled
<1> QED
    BY <1>1, FlagInvHolds, PTL

-------------------------------------------------------------------------------
(* The refinement to AtomicWait *)

\* A notifier has not failed before its wake does; ret holds the 1 + of
\* atomic_notify_32.
NotifierOK == \A t \in Threads : pc[t] = "nlock" => ret[t] \in {0, 1}

\* The types that the lemmas about AtomicWait want.
LEMMA ControlTyped ==
    ASSUME Inv
    PROVE  WaitNotifyTypeOK /\ pc \in [Threads -> Control]
    BY DEF Inv, StateOK, Control, WaitPC

\* Only a wake that fails makes a notify fail.
LEMMA NotifierHolds == Spec => []NotifierOK
<1>1. Init => NotifierOK
    BY DEF Init, WaitNotifyInit, NotifierOK
<1>2. Inv /\ NotifierOK /\ [Next]_vars => NotifierOK'
    <2> SUFFICES ASSUME Inv, NotifierOK, [Next]_vars PROVE NotifierOK'
        OBVIOUS
    <2> USE DEF Inv, StateOK, WaitNotifyTypeOK
    <2>1. ASSUME NEW t \in Threads,
                 \A u \in Threads \ {t} : pc'[u] = pc[u] /\ ret'[u] = ret[u],
                 pc'[t] = "nlock" => ret'[t] \in {0, 1}
          PROVE  NotifierOK'
        BY <2>1 DEF NotifierOK
    <2>2. ASSUME NEW t \in Threads, Call(t) PROVE NotifierOK'
        BY <2>1, <2>2 DEF Call, BeginWait, BareNotify, StoreNotify, CasNotify,
                          EnterNotify, CallNotify
    <2>3. ASSUME NEW t \in Threads, Wake(t) PROVE NotifierOK'
        <3>1. PICK s \in CondWake(table[object[t]], max[t]) :
                  pc' = [u \in Threads |-> IF u = t THEN "notified"
                                           ELSE IF u \in s THEN "wakeup"
                                           ELSE pc[u]]
            BY <2>3 DEF Wake
        <3>2. \A u \in Threads \ {t} : ret'[u] = ret[u]
            BY <2>3 DEF Wake
        <3> QED
            BY <3>1, <3>2 DEF NotifierOK
    <2>4. ASSUME NEW t \in Threads, Step(t) \/ Environment(t), ~Wake(t)
          PROVE  NotifierOK'
        <3>1. \A u \in Threads \ {t} : pc'[u] = pc[u] /\ ret'[u] = ret[u]
            BY <2>4
            DEF Step, Environment, Load, RegisterProxy, Register, RegisterFails,
                Recheck, CheckTime, Observe, Park, ParkFails, HardError, Resume,
                Release, NobodyWaits, WakeFails, SpuriousWake, CondTimeout,
                CondFails, DeadlinePasses, result
        <3>2. pc'[t] = "nlock" => pc[t] = "nlock" /\ ret'[t] = ret[t]
            BY <2>4
            DEF Step, Environment, Load, RegisterProxy, Register, RegisterFails,
                Recheck, CheckTime, Observe, Park, ParkFails, HardError, Resume,
                Release, NobodyWaits, WakeFails, SpuriousWake, CondTimeout,
                CondFails, DeadlinePasses, BeforePark, result
        <3> QED
            BY <2>1, <3>1, <3>2 DEF NotifierOK
    <2>5. CASE UNCHANGED vars
        BY <2>5 DEF vars, waitNotifyVars, result, NotifierOK
    <2> QED
        BY <2>2, <2>3, <2>4, <2>5 DEF Next, Done
<1> QED
    BY <1>1, <1>2, InvHolds, PTL DEF Spec

\* Whoever sleeps on an object is blocked on its proxy.
LEMMA SleepersBlocked ==
    ASSUME Inv, NEW o \in Objects
    PROVE  /\ table[o] # NULL => SeenAsleep(o) = Blocked(table[o])
           /\ table[o] = NULL => SeenAsleep(o) = {}
<1> USE DEF Inv, StateOK, WaitNotifyTypeOK
<1>1. \A u \in Threads : Phase(u) = "asleep" <=> pc[u] = "cond"
    BY DEF Phase, Quiescent, WaitPC
<1>2. \A u \in Threads : pc[u] = "cond" =>
          object[u] \in Objects /\ item[u] = table[object[u]] /\ item[u] # NULL
    BY DEF CallOK, RegisteredOK, RegisteredPC, NoDanglingProxy, Registered,
           Quiescent
<1>3. \A u \in Threads : pc[u] = "cond" /\ item[u] = table[o] => object[u] = o
    BY <1>2 DEF ProxyAccounting
<1> QED
    BY <1>1, <1>2, <1>3 DEF SeenAsleep, Blocked

\* A notify wakes all its sleepers, or one if that is its limit.
LEMMA WakePromised ==
    ASSUME NEW t \in Threads, Inv, NotifierOK, Wake(t)
    PROVE  Promise!Next
<1>1. PICK o \in Objects : o = object[t] /\ table[o] # NULL
    BY DEF Wake, Inv, CallOK, Quiescent
<1>2. Blocked(table[o]) = SeenAsleep(o)
    BY <1>1, SleepersBlocked
<1>3. PICK s \in CondWake(table[o], max[t]) :
          pc' = [u \in Threads |-> IF u = t THEN "notified"
                                   ELSE IF u \in s THEN "wakeup" ELSE pc[u]]
    BY <1>1, Zenon DEF Wake
<1> USE DEF Inv, StateOK, WaitNotifyTypeOK
<1>4. /\ pc[t] = "nlock"
      /\ UNCHANGED <<value, object, expected, deadline, max, observed, errno>>
    BY DEF Wake, call, memory
<1>5. s \subseteq SeenAsleep(o) /\ SeenAsleep(o) \subseteq Threads
    BY <1>2, <1>3, WakesBlocked DEF SeenAsleep
<1>6. s = SeenAsleep(o) \/ Cardinality(s) >= max[t]
    <2>1. CASE max[t] # 1
        BY <1>2, <1>3, <2>1 DEF CondWake
    <2>2. CASE max[t] = 1
        <3>1. IsFiniteSet(s) /\ Cardinality(s) \in Nat
            BY <1>5, WaitNotifyAssumption, FS_Subset, FS_CardinalityType
        <3>2. s = {} => s = SeenAsleep(o)
            BY <1>2, <1>3, <2>2 DEF CondWake
        <3>3. s # {} => Cardinality(s) # 0
            BY <3>1, FS_EmptySet
        <3> QED
            BY <2>2, <3>1, <3>2, <3>3
    <2> QED
        BY <2>1, <2>2
<1>7. Phase(t) = "notifying" /\ Phase(t)' = "idle"
    <2>1. table[o] \in Proxies /\ max[t] \in Int /\ INT_MAX \in Int
        BY <1>1, WaitNotifyAssumption DEF UINT_MAX
    <2>2. Woken(table[o], max[t]) \in Int /\ Woken(table[o], max[t]) >= 1
        BY <2>1 DEF Woken, ToInt, UINT_MAX
    <2>3. ret'[t] = ret[t] + Woken(table[o], max[t])
        BY <1>1 DEF Wake
    <2>4. ret'[t] # -1 /\ pc'[t] = "notified"
        BY <1>3, <1>4, <2>2, <2>3 DEF NotifierOK
    <2> QED
        BY <1>4, <2>4 DEF Phase
<1>8. \A u \in Threads \ {t} : Phase(u)' = IF u \in s THEN "awake" ELSE Phase(u)
    <2>1. \A u \in Threads \ {t} : ret'[u] = ret[u]
        BY DEF Wake
    <2> QED
        BY <1>3, <1>4, <2>1 DEF Phase
<1> QED
    BY <1>1, <1>4, <1>5, <1>6, <1>7, <1>8, PromiseEndNotify

\* A waiter blocks without a token only on a value still there or with the notify
\* to come.
LEMMA BlocksSafely ==
    ASSUME NEW t \in Threads, Inv, TokensOK, FlagInv, pc[t] \in {"park", "wakeup"},
           ~HasToken(item[t])
    PROVE  ~Changed(t) \/ \E n \in Threads : /\ Phase(n) = "notifying"
                                             /\ object[n] = object[t]
<1> SUFFICES ASSUME Changed(t)
             PROVE  \E n \in Threads : /\ Phase(n) = "notifying"
                                       /\ object[n] = object[t]
    OBVIOUS
<1>1. PICK o \in Objects, p \in Proxies :
          o = object[t] /\ p = item[t] /\ p = table[o]
    BY DEF Inv, CallOK, RegisteredOK, RegisteredPC, NoDanglingProxy, Registered,
           Quiescent, StateOK, WaitNotifyTypeOK
<1>2. value[o] \in Stores
    BY <1>1 DEF FlagInv, NotYetSet, Looked
<1>3. t \in Sleepy(p)
    BY <1>1 DEF Sleepy
<1>4. Cardinality(Sleepy(p)) \in Nat \ {0}
    <2>1. IsFiniteSet(Sleepy(p))
        BY WaitNotifyAssumption, FS_Subset DEF Sleepy
    <2> QED
        BY <1>3, <2>1, FS_EmptySet, FS_CardinalityType
<1>5. ~EnoughFor(p)
    BY <1>1, <1>4 DEF EnoughFor, HasToken, Inv, StateOK
<1>6. NotifyAllPending(o)
    BY <1>1, <1>2, <1>5 DEF FlagInv, EnoughTokens, Settled
<1>7. \A n \in Threads : pc[n] = "nlock" => Phase(n) = "notifying"
    BY DEF Phase
<1> QED
    BY <1>1, <1>6, <1>7 DEF NotifyAllPending

\* Every call starts what AtomicWait says it starts.
LEMMA CallPromised ==
    ASSUME NEW t \in Threads, Inv, Call(t)
    PROVE  Promise!Next
<1>1. WaitNotifyTypeOK /\ pc \in [Threads -> Control]
    BY ControlTyped
<1>2. ASSUME NEW o \in Objects, NEW e \in Expects, NEW d \in Deadlines,
             BeginWait(t, o, e, d)
      PROVE  Promise!Next
    BY <1>1, <1>2, PromiseBeginWait
<1>3. ASSUME NEW o \in Objects, NEW m \in BareWakes, BareNotify(t, o, m)
      PROVE  Promise!Next
    <2>1. m \in 0..UINT_MAX
        BY WaitNotifyAssumption
    <2>2. value[o] \in Values /\ value' = [value EXCEPT ![o] = value[o]]
        BY <1>1, <1>3 DEF BareNotify, WaitNotifyTypeOK
    <2> QED
        BY <1>1, <1>3, <2>1, <2>2, PromiseBeginNotify DEF BareNotify
<1>4. ASSUME NEW o \in Objects, NEW v \in Stores, NEW m \in StoreWakes,
             StoreNotify(t, o, v, m)
      PROVE  Promise!Next
    <2>1. m \in 0..UINT_MAX /\ v \in Values
        BY WaitNotifyAssumption
    <2> QED
        BY <1>1, <1>4, <2>1, PromiseBeginNotify DEF StoreNotify
<1>5. ASSUME NEW o \in Objects, NEW e \in Expects, NEW v \in Stores,
             NEW m \in CasWakes, CasNotify(t, o, e, v, m)
      PROVE  Promise!Next
    <2>1. m \in 0..UINT_MAX /\ v \in Values
        BY WaitNotifyAssumption, PthreadsAssumption
    <2>2. CASE m # 0 /\ value[o] = e
        BY <1>1, <1>5, <2>1, <2>2, PromiseBeginNotify DEF CasNotify
    <2>3. CASE m = 0 \/ value[o] # e
        <3>1. PICK x : observed' = [observed EXCEPT ![t] = x]
            BY <1>5, <2>3 DEF CasNotify
        <3> QED
            BY <1>1, <1>5, <2>1, <2>3, <3>1, PromiseForget DEF CasNotify
    <2> QED
        BY <2>2, <2>3
<1> QED
    BY <1>2, <1>3, <1>4, <1>5 DEF Call

\* A waiter on its way into, inside or out of pthread_cond_wait.
LEMMA CondPromised ==
    ASSUME NEW t \in Threads, Inv, ResultOK, TokensOK, FlagInv,
           Park(t) \/ Resume(t) \/ SpuriousWake(t) \/ CondTimeout(t)
    PROVE  Promise!Next \/ UNCHANGED Promise!vars
<1>1. WaitNotifyTypeOK /\ pc \in [Threads -> Control]
    BY ControlTyped
<1>2. PICK x \in {"load", "cond", "wakeup"} :
          /\ pc' = [pc EXCEPT ![t] = x]
          /\ pc[t] \in {"park", "cond", "wakeup"}
          /\ x = "cond" => pc[t] \in {"park", "wakeup"} /\ ~HasToken(item[t])
    BY DEF Park, Resume, SpuriousWake, CondTimeout
<1>3. UNCHANGED <<value, object, expected, deadline, max, observed, ret, errno>>
    BY DEF Park, Resume, SpuriousWake, CondTimeout, memory, call, result
<1>4. /\ Phase(t) = IF pc[t] = "cond" THEN "asleep" ELSE "awake"
      /\ Phase(t)' = IF x = "cond" THEN "asleep" ELSE "awake"
    BY <1>1, <1>2 DEF Phase
<1>5. SameWait(t)
    BY <1>1, <1>2, <1>3, <1>4, OneWaits DEF Waiting
<1>6. CASE x = "cond"
    BY <1>2, <1>3, <1>4, <1>5, <1>6, BlocksSafely, PromiseSleep
<1>7. CASE x # "cond" /\ pc[t] = "cond"
    BY <1>3, <1>4, <1>5, <1>7, PromiseStir
<1>8. CASE x # "cond" /\ pc[t] # "cond"
    BY <1>3, <1>4, <1>5, <1>8, PromiseUnseen
<1> QED
    BY <1>6, <1>7, <1>8

\* Every other step is one of AtomicWait's or changes nothing it sees.
LEMMA StepPromised ==
    ASSUME NEW t \in Threads, Inv, ResultOK, NotifierOK, TokensOK, FlagInv,
           Step(t) \/ Environment(t), FlagUse
    PROVE  Promise!Next \/ UNCHANGED Promise!vars
<1> USE DEF memory, call, result
<1>1. WaitNotifyTypeOK /\ pc \in [Threads -> Control]
    BY ControlTyped
<1>2. pc[t] \notin Quiescent => object[t] \in Objects
    BY DEF Inv, CallOK
<1>3. pc[t] \in WaitPC \ {"release"} => observed[t] = NULL
    BY DEF ResultOK, ResultOf, Undecided
<1>4. CASE Load(t) \/ Recheck(t)
    <2>1. object[t] \in Objects
        BY <1>2, <1>4 DEF Load, Recheck, Quiescent
    <2> QED
        BY <1>1, <1>4, <2>1, LoadPromised, RecheckPromised
<1>5. CASE RegisterProxy(t)
    BY <1>1, <1>5, RegisterPromised DEF RegisterProxy
<1>6. CASE RegisterFails(t) \/ CheckTime(t)
    <2>1. observed[t] = NULL
        BY <1>3, <1>6 DEF RegisterFails, CheckTime, WaitPC
    <2> QED
        BY <1>1, <1>6, <2>1, RegisterFailsPromised, CheckTimePromised
<1>7. CASE ParkFails(t) \/ CondFails(t)
    <2>1. pc[t] \in {"park", "cond", "wakeup"} /\ HardError(t)
        BY <1>7 DEF ParkFails, CondFails
    <2>2. UNCHANGED <<value, object, expected, deadline, max, observed>>
        BY <1>7 DEF ParkFails, CondFails
    <2>3. observed[t] = NULL /\ Phase(t) \in {"awake", "asleep"}
        BY <1>3, <2>1 DEF WaitPC, Phase
    <2> QED
        BY <1>1, <2>1, <2>2, <2>3, HardErrorPromised
<1>8. CASE Release(t)
    <2>1. observed[t] = NULL => errno_is_set[t]
        <3>1. Succeeds(t) \/ Fails(t)
            BY <1>8 DEF Release, ResultOK, ResultOf
        <3> QED
            BY <3>1, WaitNotifyAssumption DEF Succeeds, Fails
    <2> QED
        BY <1>1, <1>8, <2>1, ReleasePromised
<1>9. CASE NobodyWaits(t)
    <2>1. ret[t] # -1 /\ object[t] \in Objects
        BY <1>2, <1>9 DEF NobodyWaits, NotifierOK, Quiescent
    <2>2. SeenAsleep(object[t]) = {}
        BY <1>9, <2>1, SleepersBlocked DEF NobodyWaits
    <2> QED
        BY <1>1, <1>9, <2>1, <2>2, NobodyWaitsPromised
<1>10. CASE DeadlinePasses(t)
    BY <1>1, <1>10, PromiseDeadline
<1>11. ~WakeFails(t)
    BY DEF WakeFails, FlagUse
<1> QED
    BY <1>4, <1>5, <1>6, <1>7, <1>8, <1>9, <1>10, <1>11, WakePromised, CondPromised
    DEF Step, Environment

\* The portable backend gives the callers who share a one-way flag what
\* atomic_wait.h promises: table, proxies, mutexes, condition variables and tokens
\* add nothing that a caller could see.
THEOREM PthreadsKeepsPromise ==
    ASSUME FlagUse, LimitsFit
    PROVE  Spec => KeepsPromise
<1>1. Init => Promise!Init
    BY PromiseInit DEF Init
<1>2. Inv /\ ResultOK /\ NotifierOK /\ TokensOK /\ FlagInv /\ [Next]_vars
          => [Promise!Next]_(Promise!vars)
    <2> SUFFICES ASSUME Inv, ResultOK, NotifierOK, TokensOK, FlagInv, [Next]_vars
                 PROVE  Promise!Next \/ UNCHANGED Promise!vars
        OBVIOUS
    <2>1. CASE UNCHANGED vars
        <3>1. \A u \in Threads : Seen(u)' = Seen(u)
            BY <2>1, SeenKept DEF vars, waitNotifyVars, call, result
        <3> QED
            BY <2>1, <3>1, PromiseStutter DEF vars, waitNotifyVars, memory
    <2> QED
        BY <2>1, CallPromised, StepPromised DEF Next, Done
<1> QED
    BY <1>1, <1>2, FlagInvHolds, ResultsHold, NotifierHolds, PTL
    DEF Spec, KeepsPromise, Promise!Spec
===============================================================================
