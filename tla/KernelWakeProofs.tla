---------------------------- MODULE KernelWakeProofs ----------------------------
(***************************************************************************)
(* No wake is lost on the generation-counter path: the argument of the     *)
(* comment above GET_COUNTER in atomic_wait_common.ipp.ipp, for every      *)
(* number of threads, objects and proxies.  It needs fewer notifies than   *)
(* the generation has values: a counter that goes all the way round looks  *)
(* like one that did not move.                                             *)
(*                                                                         *)
(* The lemmas about single steps ask of the rest of the state only what    *)
(* Around says, so that they hold of the table's route of KernelBackends,  *)
(* too.                                                                    *)
(***************************************************************************)
EXTENDS KernelProxyProofs

\* Notifiers that have still to bump.
Lockers == {n \in Threads : pc[n] = "nlock"}

\* A notify of o that follows a store and has still to bump.
BumpPending(o) ==
    \E n \in Threads : pc[n] = "nlock" /\ object[n] = o /\ max[n] \in StoreWakes

CountersOK ==
    generation \in [Proxies -> Nat] /\ item_counter \in [Threads -> Nat]

\* Every bump is a notify that left "nlock", so no generation wraps round.
NoWrap ==
    /\ notifies <= MaxNotifies
    /\ \A p \in Proxies : generation[p] + Cardinality(Lockers) <= notifies

\* A captured generation is the current one or an earlier one.
CapturesPast ==
    \A t \in Threads : Registered(t) => item_counter[t] <= generation[item[t]]

\* A waiter about to park on a value that is gone will be bumped, or has been
\* and will get EAGAIN.
ParkSafe ==
    \A t \in Threads :
        pc[t] = "park" /\ Registered(t) /\ Changed(t) =>
            BumpPending(object[t]) \/ item_counter[t] # generation[item[t]]

\* What the generations are for, as an inductive invariant.
GenerationInv == CountersOK /\ NoWrap /\ CapturesPast /\ ParkSafe

\* What a step of t needs of the rest of the state.
Around(t) ==
    /\ WaitNotifyTypeOK
    /\ pc \in [Threads -> Control]
    /\ ProxyAccounting
    /\ NoDanglingProxy
    /\ HoldersOK
    /\ pc[t] \notin Quiescent => object[t] \in Objects
    /\ pc[t] \in RegisteredPC => Registered(t)
    /\ pc[t] = "register" => ~Registered(t)
    /\ pc[t] = "nwake" => table[object[t]] # NULL
    /\ \A u \in Threads :
          /\ pc[u] # "cond"
          /\ pc[u] \in {"park", "parked"} /\ object[u] = object[t] => Registered(u)

\* Inv says that and more.
LEMMA InvAround ==
    ASSUME Inv, NEW t \in Threads
    PROVE  Around(t)
<1>1. pc \in [Threads -> Control] /\ \A u \in Threads : pc[u] # "cond"
    BY DEF Inv, TypeOK, Control, WaitPC, Quiescent
<1> QED
    BY <1>1, InvHolders
    DEF Inv, TypeOK, CallOK, RegisteredOK, RegisteredPC, NotifierKeepsProxy, Around

-------------------------------------------------------------------------------
(* GenerationInv is inductive *)

\* The notifiers that wait for the lock can be counted.
LEMMA LockersFinite == IsFiniteSet(Lockers) /\ Cardinality(Lockers) \in Nat
<1>1. Lockers \subseteq Threads
    BY DEF Lockers
<1> QED
    BY <1>1, WaitNotifyAssumption, FS_Subset, FS_CardinalityType

\* At the start nobody is parked and no generation has moved.
LEMMA InitGeneration == Init => GenerationInv
<1> SUFFICES ASSUME Init PROVE GenerationInv
    OBVIOUS
<1>1. Lockers = {}
    BY DEF Lockers, Init, WaitNotifyInit
<1>2. Cardinality(Lockers) = 0
    BY <1>1, FS_EmptySet
<1> QED
    BY <1>2, WaitNotifyAssumption
    DEF GenerationInv, CountersOK, NoWrap, CapturesPast, ParkSafe, Registered, Init,
        WaitNotifyInit

\* What a waiter's step has to show when it leaves the objects, the notifiers
\* and the generations alone.
LEMMA WaiterKeepsGeneration ==
    ASSUME NEW t \in Threads, GenerationInv,
           UNCHANGED <<value, object, expected, max, notifies, generation>>,
           \A u \in Threads : u # t => /\ pc'[u] = pc[u]
                                       /\ item'[u] = item[u]
                                       /\ item_counter'[u] = item_counter[u],
           item_counter' \in [Threads -> Nat],
           pc[t] # "nlock", pc'[t] # "nlock",
           Registered(t)' => item_counter'[t] <= generation[item'[t]],
           pc'[t] = "park" /\ Registered(t)' => ~Changed(t)
    PROVE  GenerationInv'
<1> USE DEF GenerationInv
<1>1. Lockers' = Lockers
    BY DEF Lockers
<1>2. CountersOK' /\ NoWrap'
    BY <1>1 DEF CountersOK, NoWrap
<1>3. CapturesPast'
    BY DEF CapturesPast, Registered
<1>4. \A o : BumpPending(o) => BumpPending(o)'
    BY DEF BumpPending
<1>5. \A u \in Threads : Changed(u)' <=> Changed(u)
    BY DEF Changed
<1>6. ParkSafe'
    BY <1>4, <1>5 DEF ParkSafe, Registered
<1> QED
    BY <1>2, <1>3, <1>6

\* A waiter goes on to park only on a value it has just seen unchanged.  Under the
\* lock the capture came first, so a change after it owes a bump.
LEMMA LoadKeepsGeneration ==
    ASSUME NEW t \in Threads, Around(t), GenerationInv, Load(t) \/ Recheck(t),
           UNCHANGED kernelVars
    PROVE  GenerationInv'
<1> USE DEF BeforePark, Observe, memory, call, calls, kernelVars
<1>1. /\ UNCHANGED <<value, object, expected, max, notifies, item, generation,
                     item_counter>>
      /\ \A u \in Threads : u # t => pc'[u] = pc[u]
      /\ pc[t] # "nlock" /\ pc'[t] # "nlock"
      /\ pc'[t] = "park" => ~Changed(t)
    <2>1. CASE Load(t)
        BY <2>1 DEF Load, Around
    <2>2. CASE Recheck(t)
        BY <2>2 DEF Recheck, Around
    <2> QED
        BY <2>1, <2>2
<1>2. Registered(t)' => item_counter'[t] <= generation[item'[t]]
    BY <1>1 DEF GenerationInv, CapturesPast, Registered
<1> QED
    BY <1>1, <1>2, WaiterKeepsGeneration DEF GenerationInv, CountersOK

\* The end of a park, of a wait or of a failed wake leaves the generations alone.
LEMMA MoveKeepsGeneration ==
    ASSUME NEW t \in Threads, Around(t), GenerationInv,
           \/ RegisterFails(t) /\ UNCHANGED kernelVars
           \/ Park(t) \/ ParkFails(t) \/ SpuriousWake(t) \/ WakeFails(t)
    PROVE  GenerationInv'
<1> USE DEF memory, call, calls, kernelVars
<1>1. /\ UNCHANGED <<value, object, expected, max, notifies, item, generation,
                     item_counter>>
      /\ \A u \in Threads : u # t => pc'[u] = pc[u]
      /\ pc[t] # "nlock" /\ pc'[t] \notin {"nlock", "park"}
    BY DEF RegisterFails, Park, ParkFails, HardError, SpuriousWake, WakeFails, Around
<1>2. Registered(t)' => item_counter'[t] <= generation[item'[t]]
    BY <1>1 DEF GenerationInv, CapturesPast, Registered
<1> QED
    BY <1>1, <1>2, WaiterKeepsGeneration DEF GenerationInv, CountersOK

\* The new capture comes before the next load.
LEMMA RecountKeepsGeneration ==
    ASSUME NEW t \in Threads, Around(t), GenerationInv, Recount(t)
    PROVE  GenerationInv'
<1> USE DEF Recount, memory, call, calls
<1>1. item[t] \in Proxies
    BY DEF Around, WaitNotifyTypeOK, Registered, RegisteredPC
<1>2. item_counter' \in [Threads -> Nat]
    BY <1>1 DEF GenerationInv, CountersOK
<1>3. item_counter'[t] <= generation[item'[t]]
    BY <1>1 DEF GenerationInv, CountersOK
<1> QED
    BY <1>2, <1>3, WaiterKeepsGeneration DEF Around, GenerationInv, CountersOK

\* A waiter that leaves parks nobody.
LEMMA ReleaseKeepsGeneration ==
    ASSUME NEW t \in Threads, Around(t), GenerationInv, Release(t),
           UNCHANGED kernelVars
    PROVE  GenerationInv'
<1> USE DEF Release, call, calls, kernelVars
<1>1. ~Registered(t)'
    BY DEF Registered, Around, WaitNotifyTypeOK
<1> QED
    BY <1>1, WaiterKeepsGeneration
    DEF Around, WaitNotifyTypeOK, GenerationInv, CountersOK

\* A fresh proxy starts over at 0, which nobody who is registered can see.
LEMMA CaptureIsFresh ==
    ASSUME NEW t \in Threads, Around(t), CountersOK, CaptureGeneration(t)
    PROVE  /\ item'[t] \in Proxies
           /\ \A u \in Threads : u # t => item'[u] = item[u]
           /\ item_counter' = [item_counter EXCEPT ![t] = generation'[item'[t]]]
           /\ generation' \in [Proxies -> Nat]
           /\ \A q \in Proxies : generation'[q] <= generation[q]
           /\ \A u \in Threads : u # t /\ Registered(u) =>
                 generation'[item[u]] = generation[item[u]]
<1>1. /\ pc[t] = "register" /\ object[t] \in Objects /\ ~Registered(t)
      /\ Register(t)
    BY DEF CaptureGeneration, Register, Around, Quiescent
<1>2. /\ item'[t] \in Proxies
      /\ \A u \in Threads : u # t => item'[u] = item[u]
      /\ table[object[t]] = NULL => \A u \in Threads : item[u] # item'[t]
    BY <1>1, RegisterKeepsProxies DEF Around
<1>3. /\ item_counter' = [item_counter EXCEPT ![t] = generation'[item'[t]]]
      /\ \/ generation' = generation
         \/ /\ generation' = [generation EXCEPT ![item'[t]] = 0]
            /\ table[object[t]] = NULL
    BY DEF CaptureGeneration
<1>4. /\ generation' \in [Proxies -> Nat]
      /\ \A q \in Proxies : generation'[q] <= generation[q]
    BY <1>2, <1>3 DEF CountersOK
<1>5. ASSUME NEW u \in Threads, u # t, Registered(u)
      PROVE  generation'[item[u]] = generation[item[u]]
    <2>1. item[u] \in Proxies
        BY <1>5 DEF Around, WaitNotifyTypeOK, Registered
    <2> QED
        BY <1>2, <1>3, <2>1 DEF CountersOK
<1> QED
    BY <1>2, <1>3, <1>4, <1>5

\* Registration captures the proxy's generation before it looks at the value.
LEMMA CaptureKeepsGeneration ==
    ASSUME NEW t \in Threads, Around(t), GenerationInv, CaptureGeneration(t)
    PROVE  GenerationInv'
<1>1. CountersOK
    BY DEF GenerationInv
<1>2. /\ item'[t] \in Proxies
      /\ \A u \in Threads : u # t => item'[u] = item[u]
      /\ item_counter' = [item_counter EXCEPT ![t] = generation'[item'[t]]]
      /\ generation' \in [Proxies -> Nat]
      /\ \A q \in Proxies : generation'[q] <= generation[q]
      /\ \A u \in Threads : u # t /\ Registered(u) =>
            generation'[item[u]] = generation[item[u]]
    BY <1>1, CaptureIsFresh
<1>3. /\ UNCHANGED <<value, object, expected, max, notifies>>
      /\ pc[t] = "register" /\ pc' = [pc EXCEPT ![t] = "recheck"]
    BY DEF CaptureGeneration, Register, call, calls
<1>4. CountersOK'
    BY <1>1, <1>2 DEF CountersOK
<1>5. NoWrap'
    <2>1. Lockers' = Lockers
        BY <1>3 DEF Lockers, Around
    <2> QED
        BY <1>1, <1>2, <1>3, <2>1, LockersFinite
        DEF GenerationInv, CountersOK, NoWrap, Around, WaitNotifyTypeOK
<1>6. CapturesPast'
    <2>1. item_counter'[t] <= generation'[item'[t]]
        BY <1>1, <1>2 DEF CountersOK
    <2>2. ASSUME NEW u \in Threads, u # t, Registered(u)'
          PROVE  item_counter'[u] <= generation'[item'[u]]
        BY <1>1, <1>2, <2>2 DEF CountersOK, GenerationInv, CapturesPast, Registered
    <2> QED
        BY <2>1, <2>2 DEF CapturesPast
<1>7. ParkSafe'
    <2>1. \A o : BumpPending(o) => BumpPending(o)'
        BY <1>3 DEF BumpPending, Around
    <2>2. \A u \in Threads : /\ Changed(u)' <=> Changed(u)
                             /\ u # t => pc'[u] = pc[u]
                             /\ pc'[t] = "recheck"
        BY <1>3 DEF Changed, Around
    <2>3. \A u \in Threads : u # t => item_counter'[u] = item_counter[u]
        BY <1>1, <1>2 DEF CountersOK
    <2> QED
        BY <1>2, <1>3, <2>1, <2>2, <2>3 DEF GenerationInv, ParkSafe, Registered
<1> QED
    BY <1>4, <1>5, <1>6, <1>7 DEF GenerationInv

\* A notifier that leaves "nlock" without a bump owes nobody one: nobody is
\* registered on its object.
LEMMA LeaveKeepsGeneration ==
    ASSUME NEW t \in Threads, GenerationInv, WaitNotifyTypeOK, pc[t] = "nlock",
           \A u \in Threads : Registered(u) => object[u] # object[t],
           pc'[t] = "notified",
           \A u \in Threads : u # t =>
               \/ pc'[u] = pc[u]
               \/ pc[u] = "parked" /\ pc'[u] = "load",
           UNCHANGED <<value, object, expected, max, notifies, item, kernelVars>>
    PROVE  GenerationInv'
<1> USE DEF kernelVars
<1>1. Lockers' = Lockers \ {t} /\ t \in Lockers
    BY DEF Lockers
<1>2. Cardinality(Lockers') = Cardinality(Lockers) - 1
    BY <1>1, LockersFinite, FS_RemoveElement
<1>3. CountersOK' /\ NoWrap'
    BY <1>2, LockersFinite, WaitNotifyAssumption
    DEF GenerationInv, CountersOK, NoWrap, WaitNotifyTypeOK
<1>4. CapturesPast'
    BY DEF GenerationInv, CapturesPast, Registered
<1>5. ParkSafe'
    <2>1. \A o : o # object[t] => (BumpPending(o) => BumpPending(o)')
        BY DEF BumpPending
    <2>2. \A u \in Threads : /\ Changed(u)' <=> Changed(u)
                             /\ pc'[u] = "park" => pc[u] = "park"
        BY DEF Changed
    <2> QED
        BY <2>1, <2>2 DEF GenerationInv, ParkSafe, Registered
<1> QED
    BY <1>3, <1>4, <1>5 DEF GenerationInv

\* A notifier that finds no proxy.
LEMMA NobodyWaitsKeepsGeneration ==
    ASSUME NEW t \in Threads, Around(t), GenerationInv, NobodyWaits(t),
           UNCHANGED kernelVars
    PROVE  GenerationInv'
<1>1. \A u \in Threads : Registered(u) => object[u] # object[t]
    BY DEF NobodyWaits, Around, NoDanglingProxy, Registered
<1>2. /\ pc[t] = "nlock" /\ pc' = [pc EXCEPT ![t] = "notified"]
      /\ UNCHANGED <<value, object, expected, max, notifies, item>>
    BY DEF NobodyWaits, memory, call, calls
<1>3. pc'[t] = "notified" /\ \A u \in Threads : u # t => pc'[u] = pc[u]
    BY <1>2 DEF Around
<1> QED
    BY <1>1, <1>2, <1>3, LeaveKeepsGeneration DEF Around

\* The bump ends every generation captured so far, and does not wrap round.
LEMMA BumpIncrements ==
    ASSUME NEW t \in Threads, Around(t), GenerationInv, Bump(t),
           MaxNotifies < GenModulus
    PROVE  /\ table[object[t]] \in Proxies
           /\ generation' = [generation EXCEPT ![table[object[t]]] = @ + 1]
           /\ Cardinality(Lockers') = Cardinality(Lockers) - 1
<1> USE DEF Bump, call, calls
<1>1. table[object[t]] \in Proxies
    BY DEF Around, WaitNotifyTypeOK, Quiescent
<1>2. Lockers' = Lockers \ {t} /\ t \in Lockers
    BY DEF Lockers, Around
<1>3. Cardinality(Lockers') = Cardinality(Lockers) - 1
    BY <1>2, LockersFinite, FS_RemoveElement
<1>4. Cardinality(Lockers) >= 1
    BY <1>2, LockersFinite, FS_EmptySet
<1>5. generation[table[object[t]]] + 1 < GenModulus
    BY <1>1, <1>4, LockersFinite, GenModulusAssumption, WaitNotifyAssumption
    DEF GenerationInv, CountersOK, NoWrap, Around, WaitNotifyTypeOK
<1>6. NextGeneration(generation[table[object[t]]])
          = generation[table[object[t]]] + 1
    BY <1>1, <1>5, GenModulusAssumption DEF NextGeneration, GenerationInv, CountersOK
<1> QED
    BY <1>1, <1>3, <1>6

\* After the bump nobody parks on the generation that it ended.
LEMMA BumpKeepsGeneration ==
    ASSUME NEW t \in Threads, Around(t), GenerationInv, Bump(t),
           MaxNotifies < GenModulus
    PROVE  GenerationInv'
<1> USE DEF Bump, call, calls
<1>0. PICK p \in Proxies :
          /\ p = table[object[t]]
          /\ generation' = [generation EXCEPT ![p] = @ + 1]
          /\ Cardinality(Lockers') = Cardinality(Lockers) - 1
    BY BumpIncrements
<1>1. CountersOK' /\ NoWrap'
    BY <1>0, LockersFinite, WaitNotifyAssumption
    DEF GenerationInv, CountersOK, NoWrap, Around, WaitNotifyTypeOK
<1>2. \A q \in Proxies : generation'[q] >= generation[q] /\ generation'[q] \in Nat
    BY <1>0 DEF GenerationInv, CountersOK
<1>3. CapturesPast'
    BY <1>0, <1>2
    DEF GenerationInv, CountersOK, CapturesPast, Registered, Around, WaitNotifyTypeOK
<1>4. \A u \in Threads :
          /\ Changed(u)' <=> Changed(u)
          /\ pc'[u] = "park" => pc[u] = "park"
          /\ Registered(u) => item[u] = table[object[u]] /\ item[u] \in Proxies
    BY DEF Changed, Around, WaitNotifyTypeOK, NoDanglingProxy, Registered
<1>5. \A u \in Threads : Registered(u) /\ object[u] = object[t] =>
          item_counter[u] # generation'[item[u]]
    BY <1>0, <1>4 DEF GenerationInv, CountersOK, CapturesPast
<1>6. \A o : o # object[t] => (BumpPending(o) => BumpPending(o)')
    BY DEF BumpPending, Around
<1>7. ParkSafe'
    <2> SUFFICES ASSUME NEW u \in Threads, pc[u] = "park", Registered(u), Changed(u),
                        object[u] # object[t],
                        item_counter[u] # generation[item[u]]
                 PROVE  item_counter[u] # generation'[item[u]]
        BY <1>4, <1>5, <1>6 DEF GenerationInv, ParkSafe, Registered
    <2>1. item_counter[u] < generation[item[u]]
        BY <1>4 DEF GenerationInv, CountersOK, CapturesPast
    <2> QED
        BY <1>2, <1>4, <2>1 DEF GenerationInv, CountersOK
<1> QED
    BY <1>1, <1>3, <1>7 DEF GenerationInv

\* The wake leaves the generations alone.
LEMMA WakeKeepsGeneration ==
    ASSUME NEW t \in Threads, Around(t), GenerationInv, Wake(t)
    PROVE  GenerationInv'
<1> USE DEF Wake, call, calls, kernelVars
<1>1. PICK s \in FutexWake(Queue(table[object[t]]), NrWake(max[t])) :
          pc' = [u \in Threads |-> IF u = t THEN "notified"
                                   ELSE IF u \in s THEN "recount" ELSE pc[u]]
    OBVIOUS
<1>2. \A u \in s : u \in Threads /\ pc[u] = "parked"
    BY DEF FutexWake, Queue
<1>3. Lockers' = Lockers
    BY <1>1, <1>2 DEF Lockers
<1>4. CountersOK' /\ NoWrap' /\ CapturesPast'
    BY <1>3 DEF GenerationInv, CountersOK, NoWrap, CapturesPast, Registered
<1>5. ParkSafe'
    <2>1. \A u \in Threads : /\ Changed(u)' <=> Changed(u)
                             /\ pc'[u] = "park" => pc[u] = "park"
        BY <1>1 DEF Changed
    <2>2. \A o : BumpPending(o) => BumpPending(o)'
        BY <1>1, <1>2 DEF BumpPending
    <2> QED
        BY <2>1, <2>2 DEF GenerationInv, ParkSafe, Registered
<1> QED
    BY <1>4, <1>5 DEF GenerationInv

\* A store makes a value go, and puts a notify at "nlock" in the same step, unless
\* nobody is registered on the object.
LEMMA EnterKeepsGeneration ==
    ASSUME NEW t \in Threads, GenerationInv, WaitNotifyTypeOK,
           pc \in [Threads -> Control], pc[t] \in Quiescent, ~Registered(t),
           UNCHANGED <<item, kernelVars>>,
           \A u \in Threads : u # t => /\ pc'[u] = pc[u]
                                       /\ object'[u] = object[u]
                                       /\ expected'[u] = expected[u]
                                       /\ max'[u] = max[u],
           \/ pc'[t] = "load" /\ notifies' = notifies
           \/ /\ pc'[t] \in {"nlock", "notified"}
              /\ notifies' = notifies + 1 /\ notifies < MaxNotifies,
           \/ value' = value
           \/ /\ pc'[t] = "nlock"
              /\ max'[t] \in StoreWakes
                 \/ \A u \in Threads : Registered(u) => object[u] # object'[t]
              /\ \E v : value' = [value EXCEPT ![object'[t]] = v]
    PROVE  GenerationInv'
<1> USE DEF kernelVars
<1>1. t \notin Lockers
    BY DEF Lockers, Quiescent
<1>2. \/ Lockers' = Lockers /\ notifies' \in {notifies, notifies + 1}
      \/ Lockers' = Lockers \cup {t} /\ notifies' = notifies + 1
    BY <1>1 DEF Lockers
<1>3. \/ Cardinality(Lockers') = Cardinality(Lockers)
      \/ /\ Cardinality(Lockers') = Cardinality(Lockers) + 1
         /\ notifies' = notifies + 1
    BY <1>1, <1>2, LockersFinite, FS_AddElement
<1>4. CountersOK' /\ NoWrap'
    BY <1>2, <1>3, LockersFinite, WaitNotifyAssumption
    DEF GenerationInv, CountersOK, NoWrap, WaitNotifyTypeOK
<1>5. CapturesPast'
    BY DEF GenerationInv, CapturesPast, Registered
<1>6. \A o : BumpPending(o) => BumpPending(o)'
    BY DEF BumpPending, Quiescent
<1>7. ASSUME NEW u \in Threads, u # t, Registered(u), Changed(u)'
      PROVE  Changed(u) \/ BumpPending(object[u])'
    <2>1. CASE value' = value
        BY <1>7, <2>1 DEF Changed
    <2>2. CASE value' # value
        <3>1. CASE object[u] = object'[t]
            BY <1>7, <2>2, <3>1 DEF BumpPending
        <3>2. CASE object[u] # object'[t]
            <4>1. PICK v : value' = [value EXCEPT ![object'[t]] = v]
                BY <2>2
            <4>2. value'[object[u]] = value[object[u]]
                BY <3>2, <4>1 DEF WaitNotifyTypeOK
            <4> QED
                BY <1>7, <4>2 DEF Changed
        <3> QED
            BY <3>1, <3>2
    <2> QED
        BY <2>1, <2>2
<1>8. ParkSafe'
    BY <1>6, <1>7 DEF GenerationInv, ParkSafe, Registered
<1> QED
    BY <1>4, <1>5, <1>8 DEF GenerationInv

\* The calls of the hash-table path.
LEMMA CallKeepsGeneration ==
    ASSUME NEW t \in Threads, WaitNotifyTypeOK, pc \in [Threads -> Control],
           pc[t] \in Quiescent => ~Registered(t), GenerationInv,
           Call(t)
    PROVE  GenerationInv'
<1> USE DEF WaitNotifyTypeOK
<1>1. UNCHANGED kernelVars
    BY DEF Call
<1>2. ASSUME NEW o \in Objects, NEW e \in Expects, BeginWait(t, o, e, "none")
      PROVE  GenerationInv'
    BY <1>1, <1>2, EnterKeepsGeneration DEF BeginWait, memory
<1>3. ASSUME NEW o \in Objects, NEW m \in BareWakes, BareNotify(t, o, m)
      PROVE  GenerationInv'
    BY <1>1, <1>3, EnterKeepsGeneration DEF BareNotify, EnterNotify, CallNotify
<1>4. ASSUME NEW o \in Objects, NEW v \in Stores, NEW m \in StoreWakes,
             StoreNotify(t, o, v, m)
      PROVE  GenerationInv'
    BY <1>1, <1>4, EnterKeepsGeneration DEF StoreNotify, EnterNotify, CallNotify
<1> QED
    BY <1>2, <1>3, <1>4 DEF Call

\* Every step of the hash-table path.
LEMMA StepKeepsGeneration ==
    ASSUME NEW t \in Threads, Around(t), GenerationInv, Step(t) \/ SpuriousWake(t),
           MaxNotifies < GenModulus
    PROVE  GenerationInv'
    BY LoadKeepsGeneration, CaptureKeepsGeneration, MoveKeepsGeneration,
       RecountKeepsGeneration, ReleaseKeepsGeneration, NobodyWaitsKeepsGeneration,
       BumpKeepsGeneration, WakeKeepsGeneration
    DEF Step

\* Nothing the generations depend on has changed.
LEMMA StutterKeepsGeneration ==
    ASSUME GenerationInv,
           UNCHANGED <<value, pc, object, expected, item, max, notifies, kernelVars>>
    PROVE  GenerationInv'
    BY DEF GenerationInv, CountersOK, NoWrap, CapturesPast, ParkSafe, Lockers,
           BumpPending, Changed, Registered, kernelVars

\* GenerationInv is an invariant as long as the generation does not wrap.
LEMMA GenerationInvHolds ==
    ASSUME MaxNotifies < GenModulus
    PROVE  Spec => [](Inv /\ GenerationInv)
<1>1. Init => Inv /\ GenerationInv
    BY InitInv, InitGeneration
<1>2. Inv /\ GenerationInv /\ [Next]_vars => Inv' /\ GenerationInv'
    <2> SUFFICES ASSUME Inv, GenerationInv, [Next]_vars PROVE GenerationInv'
        BY NextPreservesInv
    <2>1. ASSUME NEW t \in Threads, Call(t) PROVE GenerationInv'
        <3>1. pc[t] \in Quiescent => ~Registered(t)
            BY DEF Inv, RegisteredOK, RegisteredPC, Quiescent
        <3> QED
            BY <2>1, <3>1, InvAround, CallKeepsGeneration DEF Around
    <2>2. ASSUME NEW t \in Threads, Step(t) \/ SpuriousWake(t) PROVE GenerationInv'
        BY <2>2, InvAround, StepKeepsGeneration
    <2>3. CASE UNCHANGED vars
        BY <2>3, StutterKeepsGeneration
        DEF vars, waitNotifyVars, kernelVars, memory, call, calls
    <2> QED
        BY <2>1, <2>2, <2>3 DEF Next, Done
<1> QED
    BY <1>1, <1>2, PTL DEF Spec

-------------------------------------------------------------------------------
(* No lost wake *)

\* A notify-all wakes the whole queue of its object.
LEMMA WakeAll ==
    ASSUME NEW q, q \subseteq Threads, NEW s \in FutexWake(q, NrWake(UINT_MAX))
    PROVE  s = q
<1>1. NrWake(UINT_MAX) = INT_MAX
    BY WaitNotifyAssumption DEF NrWake, UINT_MAX
<1>2. IsFiniteSet(q) /\ Cardinality(q) <= Cardinality(Threads)
    BY WaitNotifyAssumption, FS_Subset
<1>3. Cardinality(q) \in Nat /\ Cardinality(Threads) \in Nat
    BY <1>2, WaitNotifyAssumption, FS_CardinalityType
<1>4. s \subseteq q /\ Cardinality(s) = Cardinality(q)
    BY <1>1, <1>2, <1>3, WaitNotifyAssumption DEF FutexWake
<1> QED
    BY <1>2, <1>4, FS_Subset

\* Steps of t that neither change a value nor end a notify that someone sleeps for.
LEMMA MoveKeepsNoLostWake ==
    ASSUME NEW t \in Threads, NoLostWake,
           UNCHANGED <<value, object, expected, max>>,
           \A u \in Threads : u # t => pc'[u] = pc[u],
           pc'[t] = "parked" =>
               pc[t] = "park" /\ (Changed(t) => NotifyAllPending(object[t])),
           pc[t] \in {"nlock", "nwake"} /\ pc'[t] \notin {"nlock", "nwake"} =>
               \A u \in Threads : pc[u] = "parked" => object[u] # object[t]
    PROVE  NoLostWake'
<1> SUFFICES ASSUME NEW u \in Threads, pc'[u] = "parked", Changed(u)'
             PROVE  NotifyAllPending(object[u])'
    BY DEF NoLostWake
<1>1. Changed(u)
    BY DEF Changed
<1>2. NotifyAllPending(object[u])
    BY <1>1 DEF NoLostWake
<1>3. PICK n \in Threads : /\ pc[n] \in {"nlock", "nwake"}
                           /\ object[n] = object[u]
                           /\ max[n] = UINT_MAX
    BY <1>2 DEF NotifyAllPending
<1>4. pc'[n] \in {"nlock", "nwake"}
    BY <1>3
<1> QED
    BY <1>3, <1>4 DEF NotifyAllPending

\* The kernel's compare: a waiter queues only on a generation that a notify has
\* still to end.
LEMMA ParkKeepsNoLostWake ==
    ASSUME NEW t \in Threads, Inv, GenerationInv, NoLostWake, Park(t),
           StoreWakes = {UINT_MAX}
    PROVE  NoLostWake'
<1>1. pc'[t] = "parked" =>
          pc[t] = "park" /\ (Changed(t) => NotifyAllPending(object[t]))
    BY DEF Park, GenerationInv, ParkSafe, BumpPending, NotifyAllPending, Inv,
           RegisteredOK, RegisteredPC, TypeOK
<1> QED
    BY <1>1, MoveKeepsNoLostWake DEF Park, memory, call, Inv, TypeOK

\* A notifier that finds no proxy owes nobody a wake.
LEMMA NobodyWaitsKeepsNoLostWake ==
    ASSUME NEW t \in Threads, Inv, NoLostWake, NobodyWaits(t)
    PROVE  NoLostWake'
<1>1. \A u \in Threads : pc[u] = "parked" => object[u] # object[t]
    BY WaitNotifyAssumption
    DEF NobodyWaits, Inv, RegisteredOK, RegisteredPC, NoDanglingProxy, Registered
<1> QED
    BY <1>1, MoveKeepsNoLostWake DEF NobodyWaits, memory, call, Inv, TypeOK

\* The wake leaves nobody of its object queued.
LEMMA WakeKeepsNoLostWake ==
    ASSUME NEW t \in Threads, Inv, NoLostWake, Wake(t)
    PROVE  NoLostWake'
<1> USE DEF Wake, call
<1>1. PICK s \in FutexWake(Queue(table[object[t]]), NrWake(max[t])) :
          pc' = [u \in Threads |-> IF u = t THEN "notified"
                                   ELSE IF u \in s THEN "recount" ELSE pc[u]]
    OBVIOUS
<1>2. \A u \in s : u \in Threads /\ pc[u] = "parked"
    BY DEF FutexWake, Queue
<1> SUFFICES ASSUME NEW u \in Threads, pc'[u] = "parked", Changed(u)'
             PROVE  NotifyAllPending(object[u])'
    BY DEF NoLostWake
<1>3. pc[u] = "parked" /\ Changed(u)
    BY <1>1 DEF Changed
<1>4. PICK n \in Threads : /\ pc[n] \in {"nlock", "nwake"}
                           /\ object[n] = object[u]
                           /\ max[n] = UINT_MAX
    BY <1>3 DEF NoLostWake, NotifyAllPending
<1>5. n # t
    <2> SUFFICES ASSUME n = t PROVE FALSE
        OBVIOUS
    <2>1. u \in Queue(table[object[t]])
        BY <1>3, <1>4 DEF Queue, Inv, RegisteredOK, RegisteredPC, NoDanglingProxy
    <2>2. s = Queue(table[object[t]])
        BY <1>1, <1>4, WakeAll DEF Queue
    <2> QED
        BY <1>1, <1>3, <2>1, <2>2
<1> QED
    BY <1>1, <1>2, <1>4, <1>5 DEF NotifyAllPending

\* A store makes a value go, and puts a notify-all at "nlock" in the same step.
LEMMA EnterKeepsNoLostWake ==
    ASSUME NEW t \in Threads, NoLostWake, pc[t] \in Quiescent,
           value \in [Objects -> Values],
           pc'[t] \in {"load", "nlock"},
           \A u \in Threads : u # t => /\ pc'[u] = pc[u]
                                       /\ object'[u] = object[u]
                                       /\ expected'[u] = expected[u]
                                       /\ max'[u] = max[u],
           \/ value' = value
           \/ /\ pc'[t] = "nlock" /\ max'[t] = UINT_MAX
              /\ \E v : value' = [value EXCEPT ![object'[t]] = v]
    PROVE  NoLostWake'
<1> SUFFICES ASSUME NEW u \in Threads, pc'[u] = "parked", Changed(u)'
             PROVE  NotifyAllPending(object[u])'
    BY DEF NoLostWake
<1>1. u # t /\ pc[u] = "parked" /\ object'[u] = object[u]
    OBVIOUS
<1>2. CASE Changed(u)
    <2>1. PICK n \in Threads : /\ pc[n] \in {"nlock", "nwake"}
                               /\ object[n] = object[u]
                               /\ max[n] = UINT_MAX
        BY <1>1, <1>2 DEF NoLostWake, NotifyAllPending
    <2> QED
        BY <1>1, <2>1 DEF NotifyAllPending, Quiescent
<1>3. CASE ~Changed(u)
    <2>1. PICK v : /\ value' = [value EXCEPT ![object'[t]] = v]
                   /\ pc'[t] = "nlock" /\ max'[t] = UINT_MAX
        BY <1>1, <1>3 DEF Changed
    <2>2. object'[t] = object[u]
        BY <1>1, <1>3, <2>1 DEF Changed
    <2> QED
        BY <1>1, <2>1, <2>2 DEF NotifyAllPending
<1> QED
    BY <1>2, <1>3

\* The calls.
LEMMA CallKeepsNoLostWake ==
    ASSUME NEW t \in Threads, Inv, NoLostWake, Call(t), StoreWakes = {UINT_MAX}
    PROVE  NoLostWake'
<1> USE DEF Inv, TypeOK, WaitNotifyTypeOK
<1>1. ASSUME NEW o \in Objects, NEW e \in Expects, BeginWait(t, o, e, "none")
      PROVE  NoLostWake'
    BY <1>1, EnterKeepsNoLostWake DEF BeginWait, memory
<1>2. ASSUME NEW o \in Objects, NEW m \in BareWakes, BareNotify(t, o, m)
      PROVE  NoLostWake'
    BY <1>2, EnterKeepsNoLostWake DEF BareNotify, EnterNotify, CallNotify
<1>3. ASSUME NEW o \in Objects, NEW v \in Stores, NEW m \in StoreWakes,
             StoreNotify(t, o, v, m)
      PROVE  NoLostWake'
    BY <1>3, EnterKeepsNoLostWake DEF StoreNotify, EnterNotify, CallNotify
<1> QED
    BY <1>1, <1>2, <1>3 DEF Call

\* No lost wake on the generation-counter path, for any number of threads and
\* objects: if every store is followed by a notify-all that succeeds and the
\* generation does not go all the way round, no waiter sleeps on a value that is
\* gone without a notifier on its way to wake it.
THEOREM NoWakeIsLost ==
    ASSUME StoreWakes = {UINT_MAX}, ~WakeMayFail, MaxNotifies < GenModulus
    PROVE  Spec => []NoLostWake
<1>1. Init => NoLostWake
    BY DEF Init, WaitNotifyInit, NoLostWake
<1>2. Inv /\ GenerationInv /\ NoLostWake /\ [Next]_vars => NoLostWake'
    <2> SUFFICES ASSUME Inv, GenerationInv, NoLostWake, [Next]_vars
                 PROVE  NoLostWake'
        OBVIOUS
    <2>1. ASSUME NEW t \in Threads,
                 \/ Load(t) \/ CaptureGeneration(t) \/ RegisterFails(t) \/ Recheck(t)
                 \/ ParkFails(t) \/ Recount(t) \/ Release(t) \/ Bump(t)
                 \/ SpuriousWake(t)
          PROVE  NoLostWake'
        <3>1. /\ UNCHANGED <<value, object, expected, max>>
              /\ \A u \in Threads : u # t => pc'[u] = pc[u]
              /\ pc'[t] # "parked"
              /\ pc[t] \in {"nlock", "nwake"} => pc'[t] = "nwake"
            BY <2>1
            DEF Load, CaptureGeneration, Register, RegisterFails, Recheck, BeforePark,
                ParkFails, HardError, Recount, Release, Bump, SpuriousWake, memory,
                call, Inv, TypeOK
        <3> QED
            BY <3>1, MoveKeepsNoLostWake
    <2>2. ASSUME NEW t \in Threads, Step(t) PROVE NoLostWake'
        <3>1. ~WakeFails(t)
            BY DEF WakeFails
        <3> QED
            BY <2>1, <2>2, <3>1, ParkKeepsNoLostWake, NobodyWaitsKeepsNoLostWake,
               WakeKeepsNoLostWake DEF Step
    <2>3. CASE UNCHANGED vars
        BY <2>3 DEF vars, waitNotifyVars, memory, call, NoLostWake, NotifyAllPending,
                    Changed
    <2> QED
        BY <2>1, <2>2, <2>3, CallKeepsNoLostWake DEF Next, Done
<1> QED
    BY <1>1, <1>2, GenerationInvHolds, PTL DEF Spec

\* A generation that a notify has ended does not come back while a waiter that
\* captured it is registered: what makes the kernel's compare on it sound,
\* whatever fails and whomever the notifies wake.
THEOREM GenerationsMoveOn ==
    ASSUME MaxNotifies < GenModulus
    PROVE  Spec => GenerationNeverReturns
<1>1. ASSUME Inv, GenerationInv, [Next]_vars PROVE [GenerationKept]_vars
    <2>0. \A t \in Threads : Registered(t) /\ generation[item[t]] # item_counter[t]
              => /\ item_counter[t] < generation[item[t]]
                 /\ item[t] \in Proxies /\ item_counter[t] \in Nat
        BY <1>1
        DEF GenerationInv, CountersOK, CapturesPast, Registered, Inv, TypeOK,
            WaitNotifyTypeOK
    <2>1. ASSUME NEW u \in Threads, Bump(u) PROVE GenerationKept
        <3>1. /\ table[object[u]] \in Proxies
              /\ generation' = [generation EXCEPT ![table[object[u]]] = @ + 1]
            BY <1>1, <2>1, InvAround, BumpIncrements
        <3>2. \A p \in Proxies : generation'[p] >= generation[p]
                                 /\ generation'[p] \in Nat /\ generation[p] \in Nat
            BY <1>1, <3>1 DEF GenerationInv, CountersOK
        <3> QED
            BY <2>0, <3>2 DEF GenerationKept
    <2>2. ASSUME NEW u \in Threads, CaptureGeneration(u) PROVE GenerationKept
        <3>1. ~Registered(u) /\ CountersOK
            BY <1>1, <2>2, InvAround
            DEF Around, CaptureGeneration, Register, GenerationInv
        <3>2. \A t \in Threads : t # u /\ Registered(t) =>
                  generation'[item[t]] = generation[item[t]]
            BY <1>1, <2>2, <3>1, InvAround, CaptureIsFresh
        <3> QED
            BY <3>1, <3>2 DEF GenerationKept
    <2>3. ASSUME generation' = generation PROVE GenerationKept
        BY <2>3 DEF GenerationKept
    <2>4. ASSUME NEW u \in Threads, Step(u), ~Bump(u), ~CaptureGeneration(u)
          PROVE  generation' = generation
        BY <2>4 DEF Step, Park, ParkFails, Recount, Wake, WakeFails, kernelVars
    <2>5. ASSUME NEW u \in Threads, Call(u) \/ SpuriousWake(u)
          PROVE  generation' = generation
        BY <2>5 DEF Call, SpuriousWake, kernelVars
    <2> QED
        BY <1>1, <2>1, <2>2, <2>3, <2>4, <2>5 DEF Next, Done
<1> QED
    BY <1>1, GenerationInvHolds, PTL DEF Spec, GenerationNeverReturns

-------------------------------------------------------------------------------
(* The refinement to AtomicWait *)

\* The results that a call carries along, as far as AtomicWait sees them: a wait
\* that is not over has no value, one that gave up keeps its errno, and a notify
\* has not failed before its wake does.
ResultsKept(t) ==
    /\ pc[t] \in {"register", "park", "parked"} => observed[t] = NULL
    /\ pc[t] = "release" /\ observed[t] = NULL => errno_is_set[t]
    /\ pc[t] \in {"nlock", "nwake"} => ret[t] # -1

\* Whoever sleeps on the object of a call through the table is in the queue of its
\* proxy.
LEMMA SleepersQueued ==
    ASSUME NEW t \in Threads, Around(t), object[t] \in Objects
    PROVE  /\ table[object[t]] # NULL =>
                 SeenAsleep(object[t]) = Queue(table[object[t]])
           /\ table[object[t]] = NULL => SeenAsleep(object[t]) = {}
<1> USE DEF Around
<1>1. \A u \in Threads : Phase(u) = "asleep" <=> pc[u] = "parked"
    BY DEF Phase, Control, Quiescent
<1>2. \A u \in Threads : pc[u] = "parked" /\ object[u] = object[t] =>
          item[u] = table[object[t]] /\ item[u] # NULL
    BY DEF NoDanglingProxy, Registered
<1>3. \A u \in Threads : item[u] = table[object[t]] /\ item[u] # NULL =>
          object[u] = object[t]
    BY DEF NoDanglingProxy, HoldersOK, ProxyAccounting, Registered
<1> QED
    BY <1>1, <1>2, <1>3 DEF SeenAsleep, Queue

\* A notify wakes all its sleepers or as many as its limit, whatever the kernel's
\* signed count makes of it.
LEMMA FutexWakeEnough ==
    ASSUME NEW q \in SUBSET Threads, NEW m \in 0..UINT_MAX,
           NEW s \in FutexWake(q, NrWake(m))
    PROVE  s \subseteq q /\ (s = q \/ Cardinality(s) >= m)
<1>1. s \subseteq q
    BY DEF FutexWake
<1>2. IsFiniteSet(q) /\ IsFiniteSet(s) /\ Cardinality(q) <= Cardinality(Threads)
    BY <1>1, WaitNotifyAssumption, FS_Subset
<1>3. /\ Cardinality(q) \in Nat /\ Cardinality(s) \in Nat
      /\ Cardinality(Threads) \in Nat
    BY <1>2, WaitNotifyAssumption, FS_CardinalityType
<1>4. m \in Nat /\ INT_MAX \in Nat /\ Cardinality(Threads) <= INT_MAX
    BY WaitNotifyAssumption DEF UINT_MAX
<1>5. Cardinality(s) = Cardinality(q) \/ Cardinality(s) >= m
    BY <1>2, <1>3, <1>4 DEF FutexWake, NrWake
<1> QED
    BY <1>1, <1>2, <1>5, FS_Subset

\* So does one through the table.
LEMMA WakePromised ==
    ASSUME NEW t \in Threads, Around(t), Wake(t)
    PROVE  Promise!Next
<1> USE DEF Around, WaitNotifyTypeOK
<1>1. PICK o \in Objects : o = object[t] /\ table[o] # NULL
    BY DEF Wake, Quiescent
<1>2. Queue(table[object[t]]) = SeenAsleep(o)
    BY <1>1, SleepersQueued
<1>3. PICK s \in FutexWake(SeenAsleep(o), NrWake(max[t])) :
          /\ pc' = [u \in Threads |-> IF u = t THEN "notified"
                                      ELSE IF u \in s THEN "recount" ELSE pc[u]]
          /\ ret' = [ret EXCEPT ![t] = Cardinality(s)]
    BY <1>2, Zenon DEF Wake
<1>4. /\ pc[t] = "nwake"
      /\ UNCHANGED <<value, object, expected, deadline, max, observed, errno>>
    BY DEF Wake, call
<1>5. SeenAsleep(o) \in SUBSET Threads
    BY DEF SeenAsleep
<1>6. s \subseteq SeenAsleep(o) /\ (s = SeenAsleep(o) \/ Cardinality(s) >= max[t])
    BY <1>3, <1>5, FutexWakeEnough
<1>7. Cardinality(s) \in Nat
    BY <1>5, <1>6, WaitNotifyAssumption, FS_Subset, FS_CardinalityType
<1>8. Phase(t) = "notifying" /\ Phase(t)' = "idle"
    <2>1. ret'[t] # -1 /\ pc'[t] = "notified"
        BY <1>3, <1>7
    <2> QED
        BY <1>4, <2>1 DEF Phase
<1>9. \A u \in Threads \ {t} : Phase(u)' = IF u \in s THEN "awake" ELSE Phase(u)
    BY <1>3, <1>4 DEF Phase
<1> QED
    BY <1>1, <1>4, <1>6, <1>8, <1>9, PromiseEndNotify

\* A wake that fails is one that AtomicWait lets misfire.
LEMMA WakeFailsPromised ==
    ASSUME NEW t \in Threads, Around(t), WakeFails(t)
    PROVE  Promise!Next
<1> USE DEF Around, WaitNotifyTypeOK, WakeFails, call
<1>1. Phase(t) = "notifying" /\ Phase(t)' = "misfired"
    BY DEF Phase
<1>2. \A u \in Threads \ {t} : Seen(u)' = Seen(u)
    BY SeenKept
<1> QED
    BY <1>1, <1>2, PromiseMisfire

\* A waiter parks only on a value still there or with the notify to come.
LEMMA ParkPromised ==
    ASSUME NEW t \in Threads, Around(t), GenerationInv, Park(t)
    PROVE  Promise!Next \/ UNCHANGED Promise!vars
<1> USE DEF Around, WaitNotifyTypeOK, Park, memory, call, result
<1>1. Phase(t) = "awake"
    BY DEF Phase
<1>2. CASE generation[item[t]] = item_counter[t]
    <2>1. Phase(t)' = "asleep"
        BY <1>2 DEF Phase
    <2>2. SameWait(t)
        BY <1>1, <1>2, <2>1, OneWaits DEF Waiting
    <2>3. \A n \in Threads : pc[n] = "nlock" => Phase(n) = "notifying"
        BY DEF Phase
    <2>4. ~Changed(t) \/ \E n \in Threads : /\ Phase(n) = "notifying"
                                            /\ object[n] = object[t]
        BY <1>2, <2>3 DEF GenerationInv, ParkSafe, BumpPending, RegisteredPC
    <2> QED
        BY <1>1, <2>1, <2>2, <2>4, PromiseSleep
<1>3. CASE generation[item[t]] # item_counter[t]
    <2>1. Phase(t)' = "awake"
        BY <1>3 DEF Phase
    <2> QED
        BY <1>1, <1>3, <2>1, GoesOnPromised
<1> QED
    BY <1>2, <1>3

\* Every step of the table's route is one of AtomicWait's or changes nothing it
\* sees.
LEMMA StepPromised ==
    ASSUME NEW t \in Threads, Around(t), ResultsKept(t), GenerationInv,
           Step(t) \/ SpuriousWake(t)
    PROVE  Promise!Next \/ UNCHANGED Promise!vars
<1> USE DEF memory, call, result
<1>1. WaitNotifyTypeOK /\ pc \in [Threads -> Control]
    BY DEF Around
<1>2. pc[t] \notin Quiescent => object[t] \in Objects
    BY DEF Around
<1>3. CASE Load(t) \/ Recheck(t)
    <2>1. object[t] \in Objects
        BY <1>2, <1>3 DEF Load, Recheck, Quiescent
    <2> QED
        BY <1>1, <1>3, <2>1, LoadPromised, RecheckPromised
<1>4. CASE CaptureGeneration(t)
    BY <1>1, <1>4, RegisterPromised DEF CaptureGeneration
<1>5. CASE RegisterFails(t)
    <2>1. observed[t] = NULL
        BY <1>5 DEF RegisterFails, ResultsKept
    <2> QED
        BY <1>1, <1>5, <2>1, RegisterFailsPromised
<1>6. CASE ParkFails(t)
    <2>1. observed[t] = NULL /\ Phase(t) = "awake"
        BY <1>6 DEF ParkFails, ResultsKept, Phase
    <2> QED
        BY <1>1, <1>6, <2>1, HardErrorPromised DEF ParkFails
<1>7. CASE SpuriousWake(t)
    <2>1. Phase(t) = "asleep" /\ Phase(t)' = "awake"
        BY <1>1, <1>7 DEF SpuriousWake, Phase
    <2>2. SameWait(t)
        BY <1>1, <1>7, <2>1, OneWaits DEF SpuriousWake, Waiting
    <2> QED
        BY <1>7, <2>1, <2>2, PromiseStir DEF SpuriousWake
<1>8. CASE Recount(t)
    <2>1. Phase(t) = "awake" /\ Phase(t)' = "awake"
        BY <1>1, <1>8 DEF Recount, Phase
    <2> QED
        BY <1>1, <1>8, <2>1, GoesOnPromised DEF Recount
<1>9. CASE Release(t)
    <2>1. observed[t] = NULL => errno_is_set[t]
        BY <1>9 DEF Release, ResultsKept
    <2> QED
        BY <1>1, <1>9, <2>1, ReleasePromised
<1>10. CASE NobodyWaits(t)
    <2>1. ret[t] # -1 /\ object[t] \in Objects
        BY <1>2, <1>10 DEF NobodyWaits, ResultsKept, Quiescent
    <2>2. SeenAsleep(object[t]) = {}
        BY <1>10, <2>1, SleepersQueued DEF NobodyWaits
    <2> QED
        BY <1>1, <1>10, <2>1, <2>2, NobodyWaitsPromised
<1>11. CASE Bump(t)
    <2>1. \A u \in Threads : Phase(u)' = Phase(u)
        BY <1>1, <1>11 DEF Bump, Phase
    <2>2. \A u \in Threads : Seen(u)' = Seen(u)
        BY <1>11, <2>1 DEF Bump, Seen, SeenObject, SeenExpected, SeenDeadline,
                           SeenObserved, SeenLimit, Waiting, InCall
    <2> QED
        BY <1>11, <2>2, PromiseStutter DEF Bump
<1> QED
    BY <1>3, <1>4, <1>5, <1>6, <1>7, <1>8, <1>9, <1>10, <1>11, WakePromised,
       WakeFailsPromised, ParkPromised DEF Step

\* Every call starts what AtomicWait says it starts.
LEMMA CallPromised ==
    ASSUME NEW t \in Threads, WaitNotifyTypeOK, pc \in [Threads -> Control], Call(t)
    PROVE  Promise!Next
<1>1. ASSUME NEW o \in Objects, NEW e \in Expects, BeginWait(t, o, e, "none")
      PROVE  Promise!Next
    BY <1>1, PromiseBeginWait
<1>2. ASSUME NEW o \in Objects, NEW m \in BareWakes, BareNotify(t, o, m)
      PROVE  Promise!Next
    <2>1. m \in 0..UINT_MAX
        BY WaitNotifyAssumption
    <2>2. value[o] \in Values /\ value' = [value EXCEPT ![o] = value[o]]
        BY <1>2 DEF BareNotify, WaitNotifyTypeOK
    <2> QED
        BY <1>2, <2>1, <2>2, PromiseBeginNotify DEF BareNotify
<1>3. ASSUME NEW o \in Objects, NEW v \in Stores, NEW m \in StoreWakes,
             StoreNotify(t, o, v, m)
      PROVE  Promise!Next
    <2>1. m \in 0..UINT_MAX /\ v \in Values
        BY WaitNotifyAssumption
    <2> QED
        BY <1>3, <2>1, PromiseBeginNotify DEF StoreNotify
<1> QED
    BY <1>1, <1>2, <1>3 DEF Call

\* A notifier has not failed before its wake does.
NotifierOK == \A t \in Threads : pc[t] \in {"nlock", "nwake"} => ret[t] = 0

\* Only a wake that fails makes a notify fail.
LEMMA NotifierHolds == Spec => []NotifierOK
<1>1. Init => NotifierOK
    BY DEF Init, WaitNotifyInit, NotifierOK
<1>2. Inv /\ NotifierOK /\ [Next]_vars => NotifierOK'
    <2> SUFFICES ASSUME Inv, NotifierOK, [Next]_vars PROVE NotifierOK'
        OBVIOUS
    <2> USE DEF Inv, TypeOK, WaitNotifyTypeOK
    <2>1. ASSUME NEW t \in Threads,
                 \A u \in Threads \ {t} : pc'[u] = pc[u] /\ ret'[u] = ret[u],
                 pc'[t] \in {"nlock", "nwake"} => ret'[t] = 0
          PROVE  NotifierOK'
        BY <2>1 DEF NotifierOK
    <2>2. ASSUME NEW t \in Threads, Call(t) PROVE NotifierOK'
        BY <2>1, <2>2 DEF Call, BeginWait, BareNotify, StoreNotify, EnterNotify,
                          CallNotify
    <2>3. ASSUME NEW t \in Threads, Wake(t) PROVE NotifierOK'
        <3>1. PICK s \in FutexWake(Queue(table[object[t]]), NrWake(max[t])) :
                  pc' = [u \in Threads |-> IF u = t THEN "notified"
                                           ELSE IF u \in s THEN "recount"
                                           ELSE pc[u]]
            BY <2>3 DEF Wake
        <3>2. \A u \in Threads \ {t} : ret'[u] = ret[u]
            BY <2>3 DEF Wake
        <3> QED
            BY <3>1, <3>2 DEF NotifierOK
    <2>4. ASSUME NEW t \in Threads, Step(t) \/ SpuriousWake(t), ~Wake(t)
          PROVE  NotifierOK'
        <3>1. \A u \in Threads \ {t} : pc'[u] = pc[u] /\ ret'[u] = ret[u]
            BY <2>4
            DEF Step, Load, CaptureGeneration, Register, RegisterFails, Recheck,
                Observe, Park, ParkFails, HardError, Recount, Release, NobodyWaits,
                Bump, WakeFails, SpuriousWake, result
        <3>2. pc'[t] \in {"nlock", "nwake"} => pc[t] = "nlock" /\ ret'[t] = ret[t]
            BY <2>4
            DEF Step, Load, CaptureGeneration, Register, RegisterFails, Recheck,
                Observe, Park, ParkFails, HardError, Recount, Release, NobodyWaits,
                Bump, WakeFails, SpuriousWake, BeforePark, result
        <3> QED
            BY <2>1, <3>1, <3>2 DEF NotifierOK
    <2>5. CASE UNCHANGED vars
        BY <2>5 DEF vars, waitNotifyVars, result, NotifierOK
    <2> QED
        BY <2>2, <2>3, <2>4, <2>5 DEF Next, Done
<1> QED
    BY <1>1, <1>2, InvHolds, PTL DEF Spec

\* The hash-table path over a kernel's compare-and-wait gives its callers what
\* atomic_wait.h promises: table, proxies, lock, generations and the kernel's
\* queues add nothing that a caller could see, whatever fails and whomever the
\* notifies wake.
THEOREM KernelKeepsPromise ==
    ASSUME MaxNotifies < GenModulus
    PROVE  Spec => KeepsPromise
<1>1. Init => Promise!Init
    BY PromiseInit DEF Init
<1>2. Inv /\ ResultOK /\ NotifierOK /\ GenerationInv /\ [Next]_vars
          => [Promise!Next]_(Promise!vars)
    <2> SUFFICES ASSUME Inv, ResultOK, NotifierOK, GenerationInv, [Next]_vars
                 PROVE  Promise!Next \/ UNCHANGED Promise!vars
        OBVIOUS
    <2>1. CASE UNCHANGED vars
        <3>1. \A u \in Threads : Seen(u)' = Seen(u)
            BY <2>1, SeenKept DEF vars, waitNotifyVars, call, result
        <3> QED
            BY <2>1, <3>1, PromiseStutter DEF vars, waitNotifyVars, memory
    <2>2. ASSUME NEW t \in Threads, Step(t) \/ SpuriousWake(t)
          PROVE  Promise!Next \/ UNCHANGED Promise!vars
        <3>1. ResultsKept(t)
            <4>1. pc[t] = "release" /\ observed[t] = NULL => errno_is_set[t]
                BY WaitNotifyAssumption DEF ResultOK, Succeeds, Fails
            <4> QED
                BY <4>1 DEF ResultsKept, ResultOK, Undecided, NotifierOK, WaitPC
        <3> QED
            BY <2>2, <3>1, InvAround, StepPromised
    <2>3. ASSUME NEW t \in Threads, Call(t) PROVE Promise!Next
        BY <2>3, InvAround, CallPromised DEF Around
    <2> QED
        BY <2>1, <2>2, <2>3 DEF Next, Done
<1> QED
    BY <1>1, <1>2, GenerationInvHolds, ResultsHold, NotifierHolds, PTL
    DEF Spec, KeepsPromise, Promise!Spec
===============================================================================
