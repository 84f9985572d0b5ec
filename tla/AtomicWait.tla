------------------------------ MODULE AtomicWait ------------------------------
(***************************************************************************)
(* What atomic_wait and atomic_notify promise their callers, whatever the  *)
(* backend and the width (atomic_wait.h): no table, no proxy, no kernel.   *)
(*                                                                         *)
(* A wait ends because the object held another value than the one waited   *)
(* on, at a moment inside the call; because its deadline is over; or with  *)
(* an error.  It may go to sleep only on a value that is still there, or   *)
(* while a notify that will reach it is under way.  A notify wakes its     *)
(* limit of the sleepers, or all of them, or reports that it could not.    *)
(* Sleep may end for no reason.                                            *)
(***************************************************************************)
EXTENDS Integers, FiniteSets

CONSTANTS
    Threads, Objects, Values, NULL,
    MaxLimit        \* largest limit a notify can have

VARIABLES
    value,      \* the atomics
    phase,      \* of each thread
    object,     \* the argument of its call, NULL outside one
    expected,   \* value a waiter waits on
    deadline,   \* "none", "ahead" or "past"
    observed,   \* value that ended the wait
    limit       \* of a notify under way

vars == <<value, phase, object, expected, deadline, observed, limit>>

\* A wait is over in one of these.
Over == {"changed", "timedout", "failed"}

\* "misfired": after a notify that failed.
Free(t) == phase[t] \in Over \cup {"idle", "misfired"}

Asleep(o) == {t \in Threads : phase[t] = "asleep" /\ object[t] = o}

Notifying(o) == {t \in Threads : phase[t] = "notifying" /\ object[t] = o}

Init ==
    /\ value \in [Objects -> Values]
    /\ phase = [t \in Threads |-> "idle"]
    /\ object = [t \in Threads |-> NULL]
    /\ expected = [t \in Threads |-> NULL]
    /\ deadline = [t \in Threads |-> "none"]
    /\ observed = [t \in Threads |-> NULL]
    /\ limit = [t \in Threads |-> 0]

-------------------------------------------------------------------------------
\* What a call under way is about.
Argument(t, ph, o, e, d, m) ==
    /\ phase' = [phase EXCEPT ![t] = ph]
    /\ object' = [object EXCEPT ![t] = o]
    /\ expected' = [expected EXCEPT ![t] = e]
    /\ deadline' = [deadline EXCEPT ![t] = d]
    /\ limit' = [limit EXCEPT ![t] = m]
    /\ observed' = [observed EXCEPT ![t] = NULL]

BeginWait(t, o, e, d) ==
    /\ Free(t)
    /\ Argument(t, "awake", o, e, d, 0)
    /\ UNCHANGED value

\* The object may change together with the start of a notify.
BeginNotify(t, o, m) ==
    /\ Free(t)
    /\ Argument(t, "notifying", o, NULL, "none", m)
    /\ \E v \in Values : value' = [value EXCEPT ![o] = v]

\* A call that had no effect, or the caller moving on.
Forget(t) ==
    /\ Free(t)
    /\ Argument(t, "idle", NULL, NULL, "none", 0)
    /\ UNCHANGED value

Observe(t) ==
    /\ phase[t] = "awake"
    /\ value[object[t]] # expected[t]
    /\ observed' = [observed EXCEPT ![t] = value[object[t]]]
    /\ phase' = [phase EXCEPT ![t] = "changed"]
    /\ UNCHANGED <<value, object, expected, deadline, limit>>

Sleep(t) ==
    /\ phase[t] = "awake"
    /\ value[object[t]] = expected[t] \/ Notifying(object[t]) # {}
    /\ phase' = [phase EXCEPT ![t] = "asleep"]
    /\ UNCHANGED <<value, object, expected, deadline, observed, limit>>

Stir(t) ==
    /\ phase[t] = "asleep"
    /\ phase' = [phase EXCEPT ![t] = "awake"]
    /\ UNCHANGED <<value, object, expected, deadline, observed, limit>>

\* A failing primitive may end a sleep, too.
GiveUp(t) ==
    /\ phase[t] \in {"awake", "asleep"}
    /\ \/ phase' = [phase EXCEPT ![t] = "failed"]
       \/ /\ phase[t] = "awake"
          /\ deadline[t] = "past"
          /\ phase' = [phase EXCEPT ![t] = "timedout"]
    /\ UNCHANGED <<value, object, expected, deadline, observed, limit>>

DeadlinePasses(t) ==
    /\ deadline[t] = "ahead"
    /\ deadline' = [deadline EXCEPT ![t] = "past"]
    /\ UNCHANGED <<value, phase, object, expected, observed, limit>>

\* The notify returns.
EndNotify(t) ==
    /\ phase[t] = "notifying"
    /\ \E s \in SUBSET Asleep(object[t]) :
          /\ \/ s = Asleep(object[t])
             \/ Cardinality(s) >= limit[t]
          /\ phase' = [u \in Threads |-> IF u = t THEN "idle"
                                         ELSE IF u \in s THEN "awake"
                                         ELSE phase[u]]
    /\ object' = [object EXCEPT ![t] = NULL]
    /\ limit' = [limit EXCEPT ![t] = 0]
    /\ UNCHANGED <<value, expected, deadline, observed>>

Misfire(t) ==
    /\ phase[t] = "notifying"
    /\ phase' = [phase EXCEPT ![t] = "misfired"]
    /\ object' = [object EXCEPT ![t] = NULL]
    /\ limit' = [limit EXCEPT ![t] = 0]
    /\ UNCHANGED <<value, expected, deadline, observed>>

Next ==
    \E t \in Threads :
        \/ \E o \in Objects, e \in Values, d \in {"none", "ahead", "past"} :
              BeginWait(t, o, e, d)
        \/ \E o \in Objects, m \in 0..MaxLimit : BeginNotify(t, o, m)
        \/ Forget(t)
        \/ Observe(t)
        \/ Sleep(t)
        \/ Stir(t)
        \/ GiveUp(t)
        \/ DeadlinePasses(t)
        \/ EndNotify(t)
        \/ Misfire(t)

Spec == Init /\ [][Next]_vars
===============================================================================
