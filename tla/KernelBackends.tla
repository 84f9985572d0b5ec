------------------------------ MODULE KernelBackends ------------------------------
(***************************************************************************)
(* The library on a kernel that can wait on an address: atomic_wait,       *)
(* atomic_notify_one, atomic_notify_all, atomic_wait_expected and          *)
(* atomic_notify of atomic_wait.h on the Linux, macOS, FreeBSD and Windows *)
(* backends.  sizeof the object and the HAVE_ macros of the backend send a *)
(* call to the kernel, with the object itself as the address, or through   *)
(* the hash table of KernelProxy.  The steps of the first kind are here;   *)
(* they share the program counters of the second: "load" is the top of the *)
(* loop, "parked" is asleep in the kernel, on the object if item is NULL,  *)
(* and "nlock" is a notify that has still to look for anyone to wake.      *)
(***************************************************************************)
EXTENDS KernelProxy

CONSTANTS
    Backends,       \* the backends to consider, of those in Natives
    Widths,         \* sizeof the objects, in bytes
    CasWakes,       \* max_threads_to_wake passed to atomic_notify
    LongModulus     \* 2^32, the range of a 32-bit long

VARIABLES
    backend,        \* the one compiled in
    width,          \* sizeof each object
    faulty,         \* the native primitives may fail
    api             \* thread -> "void", or "int" where the caller has a result

nativeVars == <<backend, width, faulty, api>>
allVars == <<vars, nativeVars>>

\* The widths each backend defines HAVE_WAIT_ON_ADDRESS_ for.  "win32" and
\* "freebsd32" are those backends where pointers and long have 32 bits.
Natives ==
    [linux |-> {4}, macos |-> {4, 8}, freebsd |-> {4, 8}, freebsd32 |-> {4, 8},
     win64 |-> {1, 2, 4, 8}, win32 |-> {1, 2, 4}]

ASSUME BackendsAssumption ==
    /\ Backends \subseteq DOMAIN Natives
    /\ Widths \subseteq {1, 2, 4, 8}
    /\ CasWakes \subseteq 0..UINT_MAX
    /\ Values \subseteq Nat
    /\ LongModulus \in Nat \ {0}
    /\ INT_MAX > 1

Windows == {"win64", "win32"}

HaveWait(w) == w \in Natives[backend]

\* Mutant: 8 bytes has no wake of its own.
HaveNarrowWake(w) == w \in Natives[backend] \ {8}

\* HAVE_WAKE_BY_ADDRESS_ is defined for the same widths.
HaveWake(w) == w \in Natives[backend]

NativeWait(t) == object[t] # NULL /\ HaveWait(width[object[t]])
NativeNotify(t) == object[t] # NULL /\ HaveWake(width[object[t]])

AllInit ==
    /\ Init
    /\ backend \in Backends
    /\ width \in [Objects -> Widths]
    /\ faulty \in {FALSE} \cup {HaveWait(width[o]) : o \in Objects}
    /\ api = [t \in Threads |-> "void"]

-------------------------------------------------------------------------------
(* Waiting on the object itself *)

\* Mutant: a timeout is only noticed by a wait that has not slept.
NativeLoadParks(t) ==
    /\ pc[t] = "load"
    /\ \/ Observe(t) /\ pc' = [pc EXCEPT ![t] = "waited"] /\ UNCHANGED ret
       \/ /\ ~Changed(t)
          /\ ret' = [ret EXCEPT ![t] = IF api[t] = "void" THEN 0 ELSE 1]
          /\ pc' = [pc EXCEPT ![t] = IF ret[t] = 1 THEN "park"
                                     ELSE BeforePark(t)]
          /\ UNCHANGED observed
    /\ UNCHANGED <<memory, call, item, errno, errno_is_set, calls, kernelVars,
                   nativeVars>>

\* The load at the top of both loops; only atomic_wait_expected_32 counts
\* that it went on to wait.
NativeLoad(t) ==
    /\ pc[t] = "load"
    /\ \/ Observe(t) /\ pc' = [pc EXCEPT ![t] = "waited"] /\ UNCHANGED ret
       \/ /\ ~Changed(t)
          /\ ret' = [ret EXCEPT ![t] = IF api[t] = "void" THEN 0 ELSE 1]
          /\ pc' = [pc EXCEPT ![t] = BeforePark(t)]
          /\ UNCHANGED observed
    /\ UNCHANGED <<memory, call, item, errno, errno_is_set, calls, kernelVars,
                   nativeVars>>

\* Mutant: a timeout returns ret.
NativeCheckTimeKeepsRet(t) ==
    /\ pc[t] = "time"
    /\ \/ /\ deadline[t] = "past"
          /\ errno' = [errno EXCEPT ![t] = "ETIMEDOUT"]
          /\ pc' = [pc EXCEPT ![t] = "waited"]
       \/ /\ deadline[t] = "ahead"
          /\ pc' = [pc EXCEPT ![t] = "park"]
          /\ UNCHANGED errno
    /\ UNCHANGED <<memory, call, item, observed, ret, errno_is_set, calls,
                   kernelVars, nativeVars>>

NativeCheckTime(t) ==
    /\ pc[t] = "time"
    /\ \/ /\ deadline[t] = "past"
          /\ errno' = [errno EXCEPT ![t] = "ETIMEDOUT"]
          /\ ret' = [ret EXCEPT ![t] = 0]
          /\ pc' = [pc EXCEPT ![t] = "waited"]
       \/ /\ deadline[t] = "ahead"
          /\ pc' = [pc EXCEPT ![t] = "park"]
          /\ UNCHANGED <<errno, ret>>
    /\ UNCHANGED <<memory, call, item, observed, errno_is_set, calls,
                   kernelVars, nativeVars>>

\* The word the kernel compares: wait_on_address64 of FreeBSD passes a long.
KernelWord(t, v) ==
    IF backend = "freebsd32" /\ width[object[t]] = 8 THEN v % LongModulus ELSE v

\* Mutant: errno stays what the system call made it.
LeavesErrno(t) == errno' = [errno EXCEPT ![t] = "kernel"]

\* Around the system call in wait_on_addressN and wake_by_addressN: whatever it
\* leaves in errno, save_errno goes back on every return.
RestoresErrno(t) ==
    LET save_errno == errno[t]
        called == [errno EXCEPT ![t] = "kernel"]
    IN  errno' = [called EXCEPT ![t] = save_errno]

\* wait_on_addressN(object, expected, ...): the kernel compares and queues the
\* thread in one step, or returns.
NativePark(t) ==
    /\ pc[t] = "park"
    /\ pc' = [pc EXCEPT ![t] =
                 IF KernelWord(t, value[object[t]]) = KernelWord(t, expected[t])
                 THEN "parked" ELSE "load"]
    /\ RestoresErrno(t)
    /\ UNCHANGED <<memory, call, item, observed, ret, errno_is_set, calls,
                   kernelVars, nativeVars>>

\* Mutant: the void wait gives up, too.
NativeParkFailsOut(t) ==
    /\ faulty
    /\ pc[t] = "park"
    /\ errno' = [errno EXCEPT ![t] = "EWAIT"]
    /\ ret' = [ret EXCEPT ![t] = -1]
    /\ pc' = [pc EXCEPT ![t] = "waited"]
    /\ UNCHANGED <<memory, call, item, observed, errno_is_set, calls,
                   kernelVars, nativeVars>>

WindowsErrors ==
    {"ERROR_SUCCESS", "ERROR_TIMEOUT", "ERROR_INVALID_PARAMETER",
     "ERROR_NOT_ENOUGH_MEMORY", "ERROR_OUTOFMEMORY", "ERROR_ACCESS_DENIED",
     "ERROR_INVALID_HANDLE", "ERROR_NO_SYSTEM_RESOURCES", "another"}

windows_error_to_errno(lasterr) ==
    CASE lasterr = "ERROR_SUCCESS" -> "0"
      [] lasterr = "ERROR_TIMEOUT" -> "ETIMEDOUT"
      [] lasterr = "ERROR_INVALID_PARAMETER" -> "EINVAL"
      [] lasterr \in {"ERROR_NOT_ENOUGH_MEMORY", "ERROR_OUTOFMEMORY"} -> "ENOMEM"
      [] lasterr = "ERROR_ACCESS_DENIED" -> "EACCES"
      [] lasterr = "ERROR_INVALID_HANDLE" -> "EBADF"
      [] lasterr = "ERROR_NO_SYSTEM_RESOURCES" -> "EAGAIN"
      [] OTHER -> "EIO"

\* What wait_on_addressN can report where the kernel does not queue the thread.
WaitErrors ==
    IF backend \in Windows
    THEN {windows_error_to_errno(e) : e \in WindowsErrors}
    ELSE {"EAGAIN", "EINTR", "ETIMEDOUT", "EINVAL"}

\* The void wait goes round again, whatever it is; the other one unless it is an
\* error that a further wait may not meet.
NativeParkFails(t) ==
    /\ faulty
    /\ pc[t] = "park"
    /\ \E e \in WaitErrors :
          \/ /\ api[t] = "void" \/ e \in {"0", "EAGAIN", "EINTR", "ETIMEDOUT"}
             /\ pc' = [pc EXCEPT ![t] = "load"]
             /\ RestoresErrno(t)
             /\ UNCHANGED ret
          \/ /\ api[t] = "int" /\ e \notin {"0", "EAGAIN", "EINTR", "ETIMEDOUT"}
             /\ errno' = [errno EXCEPT ![t] = "EWAIT"]
             /\ ret' = [ret EXCEPT ![t] = -1]
             /\ pc' = [pc EXCEPT ![t] = "waited"]
    /\ UNCHANGED <<memory, call, item, observed, errno_is_set, calls,
                   kernelVars, nativeVars>>

\* The kernel returns without a wake: EINTR, a spurious wake, or the end of its
\* timeout, which may come before the deadline.
NativeReturn(t) ==
    /\ pc[t] = "parked"
    /\ pc' = [pc EXCEPT ![t] = "load"]
    /\ RestoresErrno(t)
    /\ UNCHANGED <<memory, call, item, observed, ret, errno_is_set, calls,
                   kernelVars, nativeVars>>

-------------------------------------------------------------------------------
(* Waking by address *)

NativeQueue(o) ==
    {t \in Threads : pc[t] = "parked" /\ item[t] = NULL /\ object[t] = o}

\* Mutant: "a large count" is the largest.
ReportedMax(m) == IF m = 1 THEN 1 ELSE INT_MAX

\* The count of a backend whose kernel does not tell.
Reported(m) == IF m = 1 THEN 1 ELSE INT_MAX - 1

OneOrAll(q, m) == IF m = 1 THEN FutexWake(q, 1) ELSE {q}

\* wake_by_addressN of each backend: whom it wakes and what it returns.
LinuxWake(q, m) == {<<s, Cardinality(s)>> : s \in FutexWake(q, NrWake(m))}
FreeBSDWake(q, m) == {<<s, Reported(m)>> : s \in FutexWake(q, NrWake(m))}
MacWake(q, m) == {<<s, Reported(m)>> : s \in OneOrAll(q, m)}
WindowsWake(q, m) == {<<s, Reported(m)>> : s \in OneOrAll(q, m)}

WakeByAddress(q, m) ==
    CASE backend = "linux" -> LinuxWake(q, m)
      [] backend = "macos" -> MacWake(q, m)
      [] backend \in Windows -> WindowsWake(q, m)
      [] OTHER -> FreeBSDWake(q, m)

\* atomic_notify_32 adds 1, which ret holds.  Nobody there is success, too
\* (ENOENT on macOS).
NativeWake(t) ==
    /\ pc[t] = "nlock"
    /\ \E w \in WakeByAddress(NativeQueue(object[t]), max[t]) :
          /\ pc' = [u \in Threads |-> IF u = t THEN "notified"
                                      ELSE IF u \in w[1] THEN "load" ELSE pc[u]]
          /\ ret' = [ret EXCEPT ![t] = @ + w[2]]
    /\ RestoresErrno(t)
    /\ UNCHANGED <<memory, call, item, observed, errno_is_set, calls,
                   kernelVars, nativeVars>>

\* Only atomic_notify_32 reports it in errno.  WakeByAddress cannot fail.
NativeWakeFails(t) ==
    /\ faulty
    /\ backend \notin Windows
    /\ pc[t] = "nlock"
    /\ \/ api[t] = "int" /\ errno' = [errno EXCEPT ![t] = "EWAKE"]
       \/ api[t] = "void" /\ RestoresErrno(t)
    /\ ret' = [ret EXCEPT ![t] = -1]
    /\ pc' = [pc EXCEPT ![t] = "notified"]
    /\ UNCHANGED <<memory, call, item, observed, errno_is_set, calls,
                   kernelVars, nativeVars>>

-------------------------------------------------------------------------------
(* atomic_wait.h: the function is chosen by sizeof; the calls with a result are *)
(* for 4 bytes only.                                                            *)

\* sizeof is that of uint_native_wait_notify_t.
NativeCheck(o) == width[o] = 4

VoidCall(t) ==
    /\ \/ \E o \in Objects, e \in Expects : BeginWait(t, o, e, "none")
       \/ \E o \in Objects, m \in BareWakes : BareNotify(t, o, m)
       \/ \E o \in Objects, v \in Stores, m \in StoreWakes :
             StoreNotify(t, o, v, m)
    /\ api' = [api EXCEPT ![t] = "void"]

IntCall(t) ==
    /\ \E o \in Objects, e \in Expects :
          /\ NativeCheck(o)
          /\ \/ \E d \in Deadlines : BeginWait(t, o, e, d)
             \/ \E v \in Stores, m \in CasWakes : CasNotify(t, o, e, v, m)
    /\ api' = [api EXCEPT ![t] = "int"]

AnyCall(t) ==
    /\ VoidCall(t) \/ IntCall(t)
    /\ UNCHANGED <<kernelVars, backend, width, faulty>>

\* A call on the hash table's route.
TableStep(t) ==
    /\ Step(t)
    /\ pc[t] = "nwake" /\ backend \in Windows => ret'[t] # -1
    /\ UNCHANGED nativeVars

\* A call on the native route.
NativeStep(t) ==
    \/ NativeLoad(t) \/ NativeCheckTime(t) \/ NativePark(t) \/ NativeParkFails(t)
    \/ NativeWake(t) \/ NativeWakeFails(t)

\* Where the route is chosen.
TakesKernel(t) == IF pc[t] = "nlock" THEN NativeNotify(t) ELSE NativeWait(t)

AnyStep(t) ==
    \/ ~TakesKernel(t) /\ TableStep(t)
    \/ TakesKernel(t) /\ NativeStep(t)

\* What the clock and the kernel may do.
Environment(t) ==
    \/ DeadlinePasses(t) /\ UNCHANGED <<kernelVars, nativeVars>>
    \/ ~TakesKernel(t) /\ SpuriousWake(t) /\ UNCHANGED nativeVars
    \/ TakesKernel(t) /\ NativeReturn(t)

AllNext ==
    \/ \E t \in Threads : AnyCall(t) \/ AnyStep(t) \/ Environment(t)
    \/ Done /\ UNCHANGED nativeVars

AllSpec == AllInit /\ [][AllNext]_allVars

\* A thread that can run is scheduled, time passes, and the kernel keeps its
\* timeout.
AllFairSpec ==
    /\ AllSpec
    /\ \A t \in Threads :
          /\ WF_allVars(AnyStep(t))
          /\ WF_allVars(DeadlinePasses(t) /\ UNCHANGED <<kernelVars, nativeVars>>)
          /\ WF_allVars(deadline[t] = "past" /\ TakesKernel(t) /\ NativeReturn(t))

-------------------------------------------------------------------------------
(* Properties *)

\* atomic_wait_N on the native route: an error of the kernel is discarded and
\* the loop goes on, so the caller only ever gets back to a value that changed,
\* and to the errno it had.
VoidWaitSeesChange ==
    \A t \in Threads :
        pc[t] = "waited" /\ api[t] = "void" /\ NativeWait(t) =>
            observed[t] # NULL /\ errno[t] = "entry"

\* What atomic_notify returns, on every backend.  A limit of 0 is exempt from
\* what atomic_wait.h and the proposal say of the result: the code returns 0
\* without an exchange and with *expected as it was.  With any other limit it is
\* positive, and an int, exactly if the exchange was made and the wake did not
\* fail; 0, with the value found in *expected, if it was not made; negative with
\* errno if only the wake failed.
NotifyContract ==
    \A t \in Threads : pc[t] = "notified" /\ api[t] = "int" =>
        IF max[t] = 0
        THEN ret[t] = 0 /\ observed[t] = NULL /\ errno[t] = "entry"
        ELSE \/ /\ ret[t] \in 1..INT_MAX
                /\ observed[t] = NULL /\ errno[t] = "entry"
             \/ /\ ret[t] = 0 /\ errno[t] = "entry"
                /\ observed[t] \in Values \ {expected[t]}
             \/ ret[t] < 0 /\ observed[t] = NULL /\ errno[t] = "EWAKE"

AllWaitPC == WaitPC \cup {"time"}

\* On either route a wait whose value has changed ends, unless the value changes
\* back first.  ~faulty leaves out the behaviours in which native waits and wakes
\* may fail: a failed wake leaves its waiters asleep.
AllWaitsEnd ==
    \A t \in Threads :
        (~faulty /\ pc[t] \in AllWaitPC /\ Changed(t))
            ~> (pc[t] \in Quiescent \/ ~Changed(t))

\* A wait with a duration ends, whatever the values, the notifies and the errors
\* of the kernel.
TimedWaitEnds ==
    \A t \in Threads :
        (pc[t] \in AllWaitPC /\ deadline[t] # "none") ~> (pc[t] \in Quiescent)

\* A notify returns, on either route.
AllNotifiesEnd ==
    \A t \in Threads : (pc[t] \in {"nlock", "nwake"}) ~> (pc[t] = "notified")
===============================================================================
