--------------------------- MODULE WaitNotifyProofs ---------------------------
(***************************************************************************)
(* Lemmas about WaitNotify that the proofs of both proxies need: waiters   *)
(* of a proxy counted, and the two actions that change the references,     *)
(* Register and Release, keep the table, the use counts and the waiters in *)
(* step.                                                                   *)
(***************************************************************************)
EXTENDS WaitNotify, FiniteSetTheorems, TLAPS

\* A registered waiter is in a call on an object.
HoldersOK == \A t \in Threads : Registered(t) => object[t] \in Objects

-------------------------------------------------------------------------------
(* Waiters of a proxy, counted *)

\* The waiters of a proxy are finitely many, so they can be counted.
LEMMA WaitersFinite ==
    ASSUME NEW p
    PROVE  IsFiniteSet(Waiters(p)) /\ Cardinality(Waiters(p)) \in Nat
<1>1. Waiters(p) \subseteq Threads
    BY DEF Waiters
<1> QED
    BY <1>1, WaitNotifyAssumption, FS_Subset, FS_CardinalityType

\* One waiter more.
LEMMA WaitersAdd ==
    ASSUME NEW t \in Threads, NEW p, item[t] # p,
           item' = [item EXCEPT ![t] = p],
           item \in [Threads -> Proxies \cup {NULL}]
    PROVE  Cardinality(Waiters(p)') = Cardinality(Waiters(p)) + 1
<1>1. Waiters(p)' = Waiters(p) \cup {t} /\ t \notin Waiters(p)
    BY DEF Waiters
<1> QED
    BY <1>1, WaitersFinite, FS_AddElement

\* One waiter less.
LEMMA WaitersRemove ==
    ASSUME NEW t \in Threads, NEW p, NEW q, item[t] = p, q # p,
           item' = [item EXCEPT ![t] = q],
           item \in [Threads -> Proxies \cup {NULL}]
    PROVE  Cardinality(Waiters(p)') = Cardinality(Waiters(p)) - 1
<1>1. Waiters(p)' = Waiters(p) \ {t} /\ t \in Waiters(p)
    BY DEF Waiters
<1> QED
    BY <1>1, WaitersFinite, FS_RemoveElement

\* The waiters of the other proxies stay.
LEMMA WaitersSame ==
    ASSUME NEW t \in Threads, NEW p, NEW q, item[t] # p, q # p,
           item' = [item EXCEPT ![t] = q],
           item \in [Threads -> Proxies \cup {NULL}]
    PROVE  Waiters(p)' = Waiters(p)
    BY DEF Waiters

\* A proxy with one waiter has no other.
LEMMA OnlyWaiter ==
    ASSUME NEW p, NEW t \in Threads, item[t] = p, Cardinality(Waiters(p)) = 1
    PROVE  \A u \in Threads : item[u] = p => u = t
<1>1. PICK x : Waiters(p) = {x}
    BY WaitersFinite, FS_Singleton
<1> QED
    BY <1>1 DEF Waiters

\* Whoever holds a proxy is counted among its waiters.
LEMMA SomeWaiter ==
    ASSUME NEW p, NEW t \in Threads, item[t] = p
    PROVE  Cardinality(Waiters(p)) > 0
<1>1. Waiters(p) # {}
    BY DEF Waiters
<1> QED
    BY <1>1, WaitersFinite, FS_EmptySet

\* A proxy that nobody holds has no waiters to count.
LEMMA NoWaiters ==
    ASSUME NEW p, \A t \in Threads : item[t] # p
    PROVE  Cardinality(Waiters(p)) = 0
<1>1. Waiters(p) = {}
    BY DEF Waiters
<1> QED
    BY <1>1, FS_EmptySet

-------------------------------------------------------------------------------
(* References *)

\* Registration: one reference more, on the table's proxy or on a fresh one.
LEMMA RegisterKeepsProxies ==
    ASSUME NEW t \in Threads, WaitNotifyTypeOK, ProxyAccounting, NoDanglingProxy,
           HoldersOK, object[t] \in Objects, ~Registered(t), Register(t)
    PROVE  /\ WaitNotifyTypeOK'
           /\ ProxyAccounting'
           /\ NoDanglingProxy'
           /\ HoldersOK'
           /\ item'[t] \in Proxies
           /\ \A u \in Threads : u # t => item'[u] = item[u]
           /\ table[object[t]] # NULL => item'[t] = table[object[t]]
           /\ table[object[t]] = NULL => \A u \in Threads : item[u] # item'[t]
<1> USE DEF call, calls, Registered
<1>1. item[t] = NULL
    OBVIOUS
<1>2. PICK p \in Proxies :
          /\ item' = [item EXCEPT ![t] = p]
          /\ \/ /\ table[object[t]] = p
                /\ use_count' = [use_count EXCEPT ![p] = @ + 1]
                /\ table' = table
             \/ /\ table[object[t]] = NULL
                /\ \A o \in Objects : table[o] # p
                /\ use_count' = [use_count EXCEPT ![p] = 1]
                /\ table' = [table EXCEPT ![object[t]] = p]
    BY DEF Register, WaitNotifyTypeOK
<1>3. UNCHANGED object
    BY DEF Register
<1>4. item'[t] = p /\ \A u \in Threads : u # t => item'[u] = item[u]
    BY <1>2 DEF WaitNotifyTypeOK
<1>5. WaitNotifyTypeOK'
    BY <1>2 DEF WaitNotifyTypeOK, Register
<1>6. NoDanglingProxy' /\ HoldersOK'
    BY <1>2, <1>3, <1>4, WaitNotifyAssumption
    DEF NoDanglingProxy, HoldersOK, WaitNotifyTypeOK
<1>7. table[object[t]] = NULL => \A u \in Threads : item[u] # p
    BY <1>2, WaitNotifyAssumption DEF NoDanglingProxy, HoldersOK
<1>8. \A q \in Proxies : use_count'[q] = Cardinality(Waiters(q)')
    <2>1. ASSUME NEW q \in Proxies, q # p
          PROVE  use_count'[q] = Cardinality(Waiters(q)')
        <3>1. Waiters(q)' = Waiters(q)
            BY <1>1, <1>2, <2>1, WaitersSame, WaitNotifyAssumption
            DEF WaitNotifyTypeOK
        <3>2. use_count'[q] = use_count[q]
            BY <1>2, <2>1 DEF WaitNotifyTypeOK
        <3> QED
            BY <3>1, <3>2 DEF ProxyAccounting
    <2>2. Cardinality(Waiters(p)') = Cardinality(Waiters(p)) + 1
        BY <1>1, <1>2, WaitersAdd, WaitNotifyAssumption DEF WaitNotifyTypeOK
    <2>3. table[object[t]] = NULL => Cardinality(Waiters(p)) = 0
        BY <1>7, NoWaiters
    <2>4. use_count'[p] = Cardinality(Waiters(p)')
        BY <1>2, <2>2, <2>3, WaitNotifyAssumption
        DEF ProxyAccounting, WaitNotifyTypeOK
    <2> QED
        BY <2>1, <2>4
<1>9. \A o \in Objects : table'[o] # NULL => use_count'[table'[o]] > 0
    BY <1>2, WaitNotifyAssumption DEF ProxyAccounting, WaitNotifyTypeOK
<1>10. \A o1, o2 \in Objects :
          table'[o1] # NULL /\ table'[o1] = table'[o2] => o1 = o2
    BY <1>2 DEF ProxyAccounting, WaitNotifyTypeOK
<1>11. ProxyAccounting'
    BY <1>8, <1>9, <1>10 DEF ProxyAccounting
<1>12. table[object[t]] # NULL => p = table[object[t]]
    BY <1>2
<1> QED
    BY <1>4, <1>5, <1>6, <1>7, <1>11, <1>12

\* The tail: one reference less, and the last one takes the entry with it.
LEMMA ReleaseKeepsProxies ==
    ASSUME NEW t \in Threads, WaitNotifyTypeOK, ProxyAccounting, NoDanglingProxy,
           HoldersOK, Registered(t), Release(t)
    PROVE  /\ WaitNotifyTypeOK'
           /\ ProxyAccounting'
           /\ NoDanglingProxy'
           /\ HoldersOK'
           /\ item' = [item EXCEPT ![t] = NULL]
<1> USE DEF call, calls, Registered
<1>1. PICK p \in Proxies :
          /\ object[t] \in Objects
          /\ p = item[t] /\ p = table[object[t]]
    BY DEF HoldersOK, NoDanglingProxy, WaitNotifyTypeOK
<1>2. /\ use_count' = [use_count EXCEPT ![p] = @ - 1]
      /\ table' = IF use_count[p] = 1 THEN [table EXCEPT ![object[t]] = NULL]
                  ELSE table
      /\ item' = [item EXCEPT ![t] = NULL]
      /\ UNCHANGED object
    BY <1>1 DEF Release, LastWaiter
<1>3. use_count[p] \in Nat /\ use_count[p] > 0
    <2>1. Cardinality(Waiters(p)) > 0
        BY <1>1, SomeWaiter
    <2> QED
        BY <1>1, <2>1 DEF ProxyAccounting, WaitNotifyTypeOK
<1>4. use_count[p] = 1 => \A u \in Threads : item[u] = p => u = t
    BY <1>1, OnlyWaiter DEF ProxyAccounting
<1>5. WaitNotifyTypeOK'
    <2>1. /\ use_count' \in [Proxies -> Nat]
          /\ table' \in [Objects -> Proxies \cup {NULL}]
        BY <1>1, <1>2, <1>3 DEF WaitNotifyTypeOK
    <2>2. errno' \in [Threads -> {"entry", "scratch", "ENOMEM", "ETIMEDOUT",
                                  "EWAIT", "EWAKE"}]
        BY DEF Release, SavedErrno, WaitNotifyTypeOK
    <2> QED
        BY <1>2, <2>1, <2>2 DEF Release, WaitNotifyTypeOK
<1>6. NoDanglingProxy' /\ HoldersOK'
    BY <1>1, <1>2, <1>4, WaitNotifyAssumption
    DEF NoDanglingProxy, HoldersOK, WaitNotifyTypeOK
<1>7. \A q \in Proxies : use_count'[q] = Cardinality(Waiters(q)')
    <2>1. ASSUME NEW q \in Proxies, q # p
          PROVE  use_count'[q] = Cardinality(Waiters(q)')
        <3>1. Waiters(q)' = Waiters(q)
            BY <1>1, <1>2, <2>1, WaitersSame, WaitNotifyAssumption
            DEF WaitNotifyTypeOK
        <3>2. use_count'[q] = use_count[q]
            BY <1>2, <2>1 DEF WaitNotifyTypeOK
        <3> QED
            BY <3>1, <3>2 DEF ProxyAccounting
    <2>2. Cardinality(Waiters(p)') = Cardinality(Waiters(p)) - 1
        BY <1>1, <1>2, WaitersRemove, WaitNotifyAssumption DEF WaitNotifyTypeOK
    <2>3. use_count'[p] = use_count[p] - 1
        BY <1>1, <1>2 DEF WaitNotifyTypeOK
    <2> QED
        BY <1>1, <2>1, <2>2, <2>3 DEF ProxyAccounting
<1>8. \A o \in Objects : table'[o] # NULL => use_count'[table'[o]] > 0
    BY <1>1, <1>2, <1>3, WaitNotifyAssumption DEF ProxyAccounting, WaitNotifyTypeOK
<1>9. \A o1, o2 \in Objects :
          table'[o1] # NULL /\ table'[o1] = table'[o2] => o1 = o2
    BY <1>1, <1>2 DEF ProxyAccounting, WaitNotifyTypeOK
<1> QED
    BY <1>2, <1>5, <1>6, <1>7, <1>8, <1>9 DEF ProxyAccounting

-------------------------------------------------------------------------------
(* The refinement to AtomicWait: what a step has to show of the thread that    *)
(* takes it                                                                    *)

SeenObject(t) == IF InCall(t) THEN object[t] ELSE NULL
SeenExpected(t) == IF Waiting(t) THEN expected[t] ELSE NULL
SeenDeadline(t) == IF Waiting(t) THEN deadline[t] ELSE "none"
SeenObserved(t) == IF Waiting(t) THEN observed[t] ELSE NULL
SeenLimit(t) == IF Phase(t) = "notifying" THEN max[t] ELSE 0

\* Where a thread can be, with either proxy.
Control ==
    Quiescent \cup {"load", "register", "recheck", "time", "park", "parked", "cond",
                    "wakeup", "recount", "release", "nlock", "nwake"}

\* All that AtomicWait knows of a thread.
Seen(t) == <<Phase(t), SeenObject(t), SeenExpected(t), SeenDeadline(t),
             SeenObserved(t), SeenLimit(t)>>

\* A thread that keeps these keeps what is seen of it.
LEMMA SeenKept ==
    ASSUME NEW u \in Threads,
           /\ pc'[u] = pc[u] /\ ret'[u] = ret[u] /\ errno'[u] = errno[u]
           /\ object'[u] = object[u] /\ expected'[u] = expected[u]
           /\ deadline'[u] = deadline[u] /\ observed'[u] = observed[u]
           /\ max'[u] = max[u]
    PROVE  Seen(u)' = Seen(u)
<1>1. Phase(u)' = Phase(u)
    BY DEF Phase
<1> QED
    BY <1>1 DEF Seen, SeenObject, SeenExpected, SeenDeadline, SeenObserved,
                SeenLimit, Waiting, InCall

\* At the start nobody has called.
LEMMA PromiseInit == WaitNotifyInit => Promise!Init
<1> SUFFICES ASSUME WaitNotifyInit PROVE Promise!Init
    OBVIOUS
<1>1. \A t \in Threads : Phase(t) = "idle"
    BY DEF WaitNotifyInit, Phase
<1> QED
    BY <1>1 DEF WaitNotifyInit, Promise!Init, Waiting, InCall

\* A step that nobody sees.
LEMMA PromiseStutter ==
    ASSUME UNCHANGED value, \A u \in Threads : Seen(u)' = Seen(u)
    PROVE  UNCHANGED Promise!vars
<1>1. \A u \in Threads :
          /\ Phase(u)' = Phase(u) /\ SeenObject(u)' = SeenObject(u)
          /\ SeenExpected(u)' = SeenExpected(u)
          /\ SeenDeadline(u)' = SeenDeadline(u)
          /\ SeenObserved(u)' = SeenObserved(u) /\ SeenLimit(u)' = SeenLimit(u)
    BY DEF Seen
<1> QED
    BY <1>1 DEF Promise!vars, SeenObject, SeenExpected, SeenDeadline, SeenObserved,
                SeenLimit, Waiting, InCall

\* A step of t inside a wait, which goes on or ends with the same arguments.
SameWait(t) ==
    /\ UNCHANGED <<value, object, expected, deadline>>
    /\ \A u \in Threads \ {t} : Seen(u)' = Seen(u)
    /\ Waiting(t) /\ Waiting(t)'

\* It changes the phase and the value seen, no more.
LEMMA SameWaitSeen ==
    ASSUME NEW t \in Threads, SameWait(t)
    PROVE  \A u \in Threads :
               /\ SeenObject(u)' = SeenObject(u)
               /\ SeenExpected(u)' = SeenExpected(u)
               /\ SeenDeadline(u)' = SeenDeadline(u)
               /\ SeenLimit(u)' = SeenLimit(u)
               /\ u # t => /\ Phase(u)' = Phase(u)
                           /\ SeenObserved(u)' = SeenObserved(u)
    BY DEF SameWait, Seen, SeenObject, SeenExpected, SeenDeadline, SeenLimit,
           Waiting, InCall

\* A load that sees another value ends the wait.
LEMMA PromiseObserve ==
    ASSUME NEW t \in Threads, SameWait(t), Phase(t) = "awake",
           Phase(t)' = "changed", Changed(t), observed'[t] = value[object[t]]
    PROVE  Promise!Next
<1>1. Promise!Observe(t)
    BY SameWaitSeen
    DEF Promise!Observe, SameWait, SeenObject, SeenExpected, SeenDeadline,
        SeenLimit, SeenObserved, Changed, Waiting, InCall
<1> QED
    BY <1>1 DEF Promise!Next

\* A waiter goes to sleep on a value that is still there, or with a notify to
\* come.
LEMMA PromiseSleep ==
    ASSUME NEW t \in Threads, SameWait(t), Phase(t) = "awake",
           Phase(t)' = "asleep", observed'[t] = observed[t],
           ~Changed(t) \/ \E n \in Threads : /\ Phase(n) = "notifying"
                                             /\ object[n] = object[t]
    PROVE  Promise!Next
<1>1. ~Changed(t) \/ Promise!Notifying(object[t]) # {}
    BY DEF Promise!Notifying, InCall
<1>2. Promise!Sleep(t)
    BY <1>1, SameWaitSeen
    DEF Promise!Sleep, SameWait, SeenObject, SeenExpected, SeenDeadline, SeenLimit,
        SeenObserved, Changed, Waiting, InCall
<1> QED
    BY <1>2 DEF Promise!Next

\* A sleep ends.
LEMMA PromiseStir ==
    ASSUME NEW t \in Threads, SameWait(t), Phase(t) = "asleep",
           Phase(t)' = "awake", observed'[t] = observed[t]
    PROVE  Promise!Next
<1>1. Promise!Stir(t)
    BY SameWaitSeen
    DEF Promise!Stir, SameWait, SeenObject, SeenExpected, SeenDeadline, SeenLimit,
        SeenObserved, Waiting, InCall
<1> QED
    BY <1>1 DEF Promise!Next

\* A wait ends with an error, or after its deadline.
LEMMA PromiseGiveUp ==
    ASSUME NEW t \in Threads, SameWait(t), Phase(t) \in {"awake", "asleep"},
           \/ Phase(t)' = "failed"
           \/ /\ Phase(t)' = "timedout" /\ Phase(t) = "awake"
              /\ deadline[t] = "past",
           observed'[t] = observed[t]
    PROVE  Promise!Next
<1>1. Promise!GiveUp(t)
    BY SameWaitSeen
    DEF Promise!GiveUp, SameWait, SeenObject, SeenExpected, SeenDeadline, SeenLimit,
        SeenObserved, Waiting, InCall
<1> QED
    BY <1>1 DEF Promise!Next

\* Time passes for a waiter; for the others nobody sees it.
LEMMA PromiseDeadline ==
    ASSUME NEW t \in Threads, WaitNotifyTypeOK, DeadlinePasses(t)
    PROVE  Promise!Next \/ UNCHANGED Promise!vars
<1> USE DEF DeadlinePasses, memory, result, WaitNotifyTypeOK
<1>1. \A u \in Threads \ {t} : Seen(u)' = Seen(u)
    BY SeenKept
<1>2. Phase(t)' = Phase(t)
    BY DEF Phase
<1>3. CASE Waiting(t)
    <2>1. Promise!DeadlinePasses(t)
        BY <1>1, <1>2, <1>3
        DEF Promise!DeadlinePasses, Seen, SeenObject, SeenExpected, SeenDeadline,
            SeenLimit, SeenObserved, Waiting, InCall
    <2> QED
        BY <2>1 DEF Promise!Next
<1>4. CASE ~Waiting(t)
    <2>1. Seen(t)' = Seen(t)
        BY <1>2, <1>4 DEF Seen, SeenObject, SeenExpected, SeenDeadline, SeenLimit,
                          SeenObserved, Waiting, InCall
    <2> QED
        BY <1>1, <2>1, PromiseStutter
<1> QED
    BY <1>3, <1>4

-------------------------------------------------------------------------------
(* Calls and the end of a notify *)

\* A thread outside the library may call.
LEMMA QuiescentFree ==
    ASSUME NEW t \in Threads, pc[t] \in Quiescent
    PROVE  Promise!Free(t)
    BY DEF Promise!Free, Promise!Over, Quiescent, Phase

\* A wait begins.
LEMMA PromiseBeginWait ==
    ASSUME NEW t \in Threads, NEW o \in Objects, NEW e \in Expects,
           NEW d \in Deadlines \cup {"none"}, WaitNotifyTypeOK, BeginWait(t, o, e, d),
           pc \in [Threads -> Control]
    PROVE  Promise!Next
<1> USE DEF BeginWait, memory, WaitNotifyTypeOK
<1>1. \A u \in Threads \ {t} : Seen(u)' = Seen(u)
    BY SeenKept
<1>2. Phase(t)' = "awake"
    BY DEF Phase
<1>3. Promise!Argument(t, "awake", o, e, d, 0)
    BY <1>1, <1>2
    DEF Promise!Argument, Seen, SeenObject, SeenExpected, SeenDeadline, SeenLimit,
        SeenObserved, Waiting, InCall
<1>4. Promise!BeginWait(t, o, e, d)
    BY <1>3, QuiescentFree DEF Promise!BeginWait
<1>5. e \in Values /\ d \in {"none", "ahead", "past"}
    BY WaitNotifyAssumption
<1> QED
    BY <1>4, <1>5 DEF Promise!Next

\* A notify begins, with or without a store.
LEMMA PromiseBeginNotify ==
    ASSUME NEW t \in Threads, NEW o \in Objects, NEW e, NEW m \in 0..UINT_MAX,
           NEW r, NEW v \in Values, WaitNotifyTypeOK, EnterNotify(t, o, e, m),
           CallNotify(t, r), value' = [value EXCEPT ![o] = v],
           pc \in [Threads -> Control]
    PROVE  Promise!Next
<1> USE DEF EnterNotify, CallNotify, WaitNotifyTypeOK
<1>1. \A u \in Threads \ {t} : Seen(u)' = Seen(u)
    BY SeenKept
<1>2. Phase(t)' = "notifying"
    BY DEF Phase
<1>3. Promise!Argument(t, "notifying", o, NULL, "none", m)
    BY <1>1, <1>2
    DEF Promise!Argument, Seen, SeenObject, SeenExpected, SeenDeadline, SeenLimit,
        SeenObserved, Waiting, InCall
<1>4. Promise!BeginNotify(t, o, m)
    BY <1>3, QuiescentFree DEF Promise!BeginNotify
<1> QED
    BY <1>4 DEF Promise!Next

\* A compare-exchange notify that finds another value, or may wake nobody, has no
\* effect.
LEMMA PromiseForget ==
    ASSUME NEW t \in Threads, NEW o \in Objects, NEW e, NEW m \in 0..UINT_MAX,
           NEW x, WaitNotifyTypeOK, EnterNotify(t, o, e, m), UNCHANGED value,
           observed' = [observed EXCEPT ![t] = x], ret' = [ret EXCEPT ![t] = 0],
           pc' = [pc EXCEPT ![t] = "notified"], pc \in [Threads -> Control]
    PROVE  Promise!Next
<1> USE DEF EnterNotify, WaitNotifyTypeOK
<1>1. \A u \in Threads \ {t} : Seen(u)' = Seen(u)
    BY SeenKept
<1>2. Phase(t)' = "idle"
    BY DEF Phase
<1>3. Promise!Argument(t, "idle", NULL, NULL, "none", 0)
    BY <1>1, <1>2
    DEF Promise!Argument, Seen, SeenObject, SeenExpected, SeenDeadline, SeenLimit,
        SeenObserved, Waiting, InCall
<1>4. Promise!Forget(t)
    BY <1>3, QuiescentFree DEF Promise!Forget
<1> QED
    BY <1>4 DEF Promise!Next

\* AtomicWait counts as this module does.
LEMMA PromiseCounts ==
    ASSUME NEW s
    PROVE  Promise!Cardinality(s) = Cardinality(s)
    BY DEF Promise!Cardinality, Cardinality

\* Sleepers on an object.
SeenAsleep(o) == {u \in Threads : Phase(u) = "asleep" /\ object[u] = o}

\* A notify returns and has woken all the sleepers on its object, or as many as
\* its limit.
LEMMA PromiseEndNotify ==
    ASSUME NEW t \in Threads, Phase(t) = "notifying", Phase(t)' = "idle",
           NEW s \in SUBSET SeenAsleep(object[t]),
           s = SeenAsleep(object[t]) \/ Cardinality(s) >= max[t],
           \A u \in Threads \ {t} :
               Phase(u)' = IF u \in s THEN "awake" ELSE Phase(u),
           UNCHANGED <<value, object, expected, deadline, observed, max>>
    PROVE  Promise!Next
<1>1. SeenAsleep(object[t]) = Promise!Asleep(object[t])
    BY DEF SeenAsleep, Promise!Asleep, InCall
<1>2. \A u \in s : u \in Threads /\ Phase(u) = "asleep" /\ u # t
    BY DEF SeenAsleep
<1>3. \A u \in Threads \ {t} :
          /\ SeenObject(u)' = SeenObject(u) /\ SeenExpected(u)' = SeenExpected(u)
          /\ SeenDeadline(u)' = SeenDeadline(u)
          /\ SeenObserved(u)' = SeenObserved(u) /\ SeenLimit(u)' = SeenLimit(u)
    BY <1>2 DEF SeenObject, SeenExpected, SeenDeadline, SeenObserved, SeenLimit,
                Waiting, InCall
<1>4. Promise!EndNotify(t)
    BY <1>1, <1>2, <1>3, PromiseCounts
    DEF Promise!EndNotify, SeenObject, SeenExpected, SeenDeadline, SeenObserved,
        SeenLimit, Waiting, InCall
<1> QED
    BY <1>4 DEF Promise!Next

\* A notify that fails wakes nobody.
LEMMA PromiseMisfire ==
    ASSUME NEW t \in Threads, Phase(t) = "notifying", Phase(t)' = "misfired",
           UNCHANGED value, \A u \in Threads \ {t} : Seen(u)' = Seen(u)
    PROVE  Promise!Next
<1>1. \A u \in Threads \ {t} :
          /\ Phase(u)' = Phase(u) /\ SeenObject(u)' = SeenObject(u)
          /\ SeenExpected(u)' = SeenExpected(u)
          /\ SeenDeadline(u)' = SeenDeadline(u)
          /\ SeenObserved(u)' = SeenObserved(u) /\ SeenLimit(u)' = SeenLimit(u)
    BY DEF Seen
<1>2. Promise!Misfire(t)
    BY <1>1
    DEF Promise!Misfire, SeenObject, SeenExpected, SeenDeadline, SeenObserved,
        SeenLimit, Waiting, InCall
<1> QED
    BY <1>2 DEF Promise!Next

-------------------------------------------------------------------------------
(* The actions of WaitNotify, as AtomicWait sees them *)

\* A step of t alone that stays within its wait.
LEMMA OneWaits ==
    ASSUME NEW t \in Threads, Waiting(t), Waiting(t)',
           UNCHANGED <<value, object, expected, deadline, max>>,
           \A u \in Threads \ {t} :
               /\ pc'[u] = pc[u] /\ ret'[u] = ret[u]
               /\ errno'[u] = errno[u] /\ observed'[u] = observed[u]
    PROVE  SameWait(t)
<1>1. \A u \in Threads \ {t} : Seen(u)' = Seen(u)
    BY SeenKept
<1> QED
    BY <1>1 DEF SameWait

\* Such a step shows only in the phase and in the value seen.
LEMMA PromiseUnseen ==
    ASSUME NEW t \in Threads, SameWait(t), Phase(t)' = Phase(t),
           observed'[t] = observed[t]
    PROVE  UNCHANGED Promise!vars
<1>1. \A u \in Threads : Seen(u)' = Seen(u)
    BY SameWaitSeen DEF SameWait, Seen, SeenObserved, Waiting
<1> QED
    BY <1>1, PromiseStutter DEF SameWait

\* The load that sees a change ends the wait for the caller, whatever is left to
\* release.
LEMMA ObservePromised ==
    ASSUME NEW t \in Threads, WaitNotifyTypeOK, pc \in [Threads -> Control],
           object[t] \in Objects, Observe(t), pc[t] \in {"load", "recheck"},
           NEW x \in {"waited", "release"}, pc' = [pc EXCEPT ![t] = x],
           UNCHANGED <<value, object, expected, deadline, max, ret, errno>>
    PROVE  Promise!Next
<1> USE DEF WaitNotifyTypeOK
<1>1. observed'[t] = value[object[t]] /\ observed'[t] # NULL
    BY WaitNotifyAssumption DEF Observe
<1>2. Phase(t) = "awake" /\ Phase(t)' = "changed"
    BY <1>1 DEF Phase
<1>3. SameWait(t)
    BY <1>2, OneWaits DEF Observe, Waiting
<1> QED
    BY <1>1, <1>2, <1>3, PromiseObserve DEF Observe

\* A waiter that goes on is awake before and after.
LEMMA GoesOnPromised ==
    ASSUME NEW t \in Threads, Phase(t) = "awake", Phase(t)' = "awake",
           UNCHANGED <<value, object, expected, deadline, max, observed>>,
           \A u \in Threads \ {t} :
               pc'[u] = pc[u] /\ ret'[u] = ret[u] /\ errno'[u] = errno[u]
    PROVE  UNCHANGED Promise!vars
<1>1. SameWait(t)
    BY OneWaits DEF Waiting
<1> QED
    BY <1>1, PromiseUnseen

\* The load at the top of the loop.
LEMMA LoadPromised ==
    ASSUME NEW t \in Threads, WaitNotifyTypeOK, pc \in [Threads -> Control],
           object[t] \in Objects, Load(t)
    PROVE  Promise!Next \/ UNCHANGED Promise!vars
<1> USE DEF Load, memory, call
<1>1. CASE Changed(t)
    <2>1. PICK x \in {"waited", "release"} : pc' = [pc EXCEPT ![t] = x]
        BY <1>1
    <2> QED
        BY <1>1, <2>1, ObservePromised
<1>2. CASE ~Changed(t)
    <2>1. PICK x \in {"register", "park", "time"} : pc' = [pc EXCEPT ![t] = x]
        BY <1>2 DEF BeforePark, Observe
    <2>2. Phase(t) = "awake" /\ Phase(t)' = "awake"
        BY <2>1 DEF Phase
    <2> QED
        BY <1>2, <2>1, <2>2, GoesOnPromised DEF Observe, WaitNotifyTypeOK
<1> QED
    BY <1>1, <1>2

\* The load under the lock.
LEMMA RecheckPromised ==
    ASSUME NEW t \in Threads, WaitNotifyTypeOK, pc \in [Threads -> Control],
           object[t] \in Objects, Recheck(t)
    PROVE  Promise!Next \/ UNCHANGED Promise!vars
<1> USE DEF Recheck, call
<1>1. CASE Changed(t)
    BY <1>1, ObservePromised
<1>2. CASE ~Changed(t)
    <2>1. PICK x \in {"park", "time"} : pc' = [pc EXCEPT ![t] = x]
        BY <1>2 DEF BeforePark, Observe
    <2>2. Phase(t) = "awake" /\ Phase(t)' = "awake"
        BY <2>1 DEF Phase
    <2> QED
        BY <1>2, <2>1, <2>2, GoesOnPromised DEF Observe, WaitNotifyTypeOK
<1> QED
    BY <1>1, <1>2

\* Nobody sees a registration.
LEMMA RegisterPromised ==
    ASSUME NEW t \in Threads, WaitNotifyTypeOK, pc \in [Threads -> Control],
           Register(t)
    PROVE  UNCHANGED Promise!vars
<1> USE DEF Register, call
<1>1. Phase(t) = "awake" /\ Phase(t)' = "awake"
    BY DEF Phase
<1> QED
    BY <1>1, GoesOnPromised DEF WaitNotifyTypeOK

\* A wait that could not register ends with an error.
LEMMA RegisterFailsPromised ==
    ASSUME NEW t \in Threads, WaitNotifyTypeOK, pc \in [Threads -> Control],
           RegisterFails(t), observed[t] = NULL
    PROVE  Promise!Next
<1> USE DEF RegisterFails, memory, call, WaitNotifyTypeOK
<1>1. Phase(t) = "awake" /\ Phase(t)' = "failed"
    BY DEF Phase
<1>2. SameWait(t)
    BY <1>1, OneWaits DEF Waiting
<1> QED
    BY <1>1, <1>2, PromiseGiveUp

\* So does one whose park fails.
LEMMA HardErrorPromised ==
    ASSUME NEW t \in Threads, WaitNotifyTypeOK, pc \in [Threads -> Control],
           HardError(t), observed[t] = NULL, Phase(t) \in {"awake", "asleep"},
           UNCHANGED <<value, object, expected, deadline, max, observed>>
    PROVE  Promise!Next
<1> USE DEF HardError, WaitNotifyTypeOK
<1>1. Phase(t)' = "failed"
    BY DEF Phase
<1>2. SameWait(t)
    BY <1>1, OneWaits DEF Waiting
<1> QED
    BY <1>1, <1>2, PromiseGiveUp

\* The clock ends a wait only after its deadline.
LEMMA CheckTimePromised ==
    ASSUME NEW t \in Threads, WaitNotifyTypeOK, pc \in [Threads -> Control],
           CheckTime(t), observed[t] = NULL
    PROVE  Promise!Next \/ UNCHANGED Promise!vars
<1> USE DEF CheckTime, memory, call, WaitNotifyTypeOK
<1>1. Phase(t) = "awake"
    BY DEF Phase
<1>2. CASE deadline[t] = "past"
    <2>1. Phase(t)' = "timedout"
        BY <1>2 DEF Phase
    <2>2. SameWait(t)
        BY <1>1, <1>2, <2>1, OneWaits DEF Waiting
    <2> QED
        BY <1>1, <1>2, <2>1, <2>2, PromiseGiveUp
<1>3. CASE deadline[t] = "ahead"
    <2>1. Phase(t)' = "awake"
        BY <1>3 DEF Phase
    <2> QED
        BY <1>1, <1>3, <2>1, GoesOnPromised
<1> QED
    BY <1>2, <1>3

\* The tail changes nothing that the caller is told: errno is restored only after
\* a success.
LEMMA ReleasePromised ==
    ASSUME NEW t \in Threads, WaitNotifyTypeOK, pc \in [Threads -> Control],
           Release(t), observed[t] = NULL => errno_is_set[t]
    PROVE  UNCHANGED Promise!vars
<1> USE DEF Release, call, WaitNotifyTypeOK
<1>1. observed[t] = NULL => errno'[t] = errno[t]
    BY DEF SavedErrno
<1>2. Phase(t)' = Phase(t) /\ Waiting(t) /\ Waiting(t)'
    BY <1>1 DEF Phase, Waiting
<1>3. SameWait(t)
    BY <1>2, OneWaits
<1> QED
    BY <1>2, <1>3, PromiseUnseen

\* A notify that finds no proxy has nobody to wake.
LEMMA NobodyWaitsPromised ==
    ASSUME NEW t \in Threads, WaitNotifyTypeOK, pc \in [Threads -> Control],
           NobodyWaits(t), ret[t] # -1, SeenAsleep(object[t]) = {}
    PROVE  Promise!Next
<1> USE DEF NobodyWaits, memory, call, result
<1>1. Phase(t) = "notifying" /\ Phase(t)' = "idle"
    BY DEF Phase
<1>2. \A u \in Threads \ {t} : Phase(u)' = Phase(u)
    BY DEF Phase
<1>3. PICK s \in SUBSET SeenAsleep(object[t]) : s = {}
    OBVIOUS
<1> QED
    BY <1>1, <1>2, <1>3, PromiseEndNotify
===============================================================================
