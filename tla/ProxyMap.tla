------------------------------- MODULE ProxyMap -------------------------------
(***************************************************************************)
(* What the hash table of proxies promises its callers, atomic_wait_generic*)
(* and atomic_notify_generic: a map from objects to reference-counted      *)
(* proxies.  WaitNotify is written against this map (its table and         *)
(* use_count); HashTable implements it.                                    *)
(***************************************************************************)
EXTENDS Integers

CONSTANTS Keys, Proxies, NULL

VARIABLES
    table,          \* object -> its proxy, or NULL
    use_count,      \* proxy -> references handed out
    busy,           \* a call of find_or_create is under way
    key, increment, \* arguments of the last call
    result          \* what the last call that returned gave back

mapVars == <<table, use_count, busy, key, increment, result>>

Init ==
    /\ table = [k \in Keys |-> NULL]
    /\ use_count = [p \in Proxies |-> 0]
    /\ busy = FALSE
    /\ key = NULL
    /\ increment = FALSE
    /\ result = NULL

\* A waiter registers: it gets the proxy of k, an old or a fresh one.
Acquire(k) ==
    \/ /\ table[k] # NULL
       /\ use_count' = [use_count EXCEPT ![table[k]] = @ + 1]
       /\ result' = table[k]
       /\ UNCHANGED table
    \/ /\ table[k] = NULL
       /\ \E p \in Proxies \ {table[j] : j \in Keys} :
             /\ table' = [table EXCEPT ![k] = p]
             /\ use_count' = [use_count EXCEPT ![p] = 1]
             /\ result' = p

\* Out of memory, or out of table; also for an object that has a proxy, since the
\* table may grow first.
AcquireFails == result' = NULL /\ UNCHANGED <<table, use_count>>

\* A notifier finds the proxy of k exactly when k has one.  It cannot fail.
Lookup(k) == result' = table[k] /\ UNCHANGED <<table, use_count>>

\* What find_or_create(k, inc) does to the map and returns.
Answer(k, inc) ==
    \/ inc /\ (Acquire(k) \/ AcquireFails)
    \/ ~inc /\ Lookup(k)

\* A call that takes its time, or is answered at once.
Call(k, inc) ==
    /\ ~busy
    /\ key' = k
    /\ increment' = inc
    /\ \/ busy' = TRUE /\ UNCHANGED <<table, use_count, result>>
       \/ busy' = FALSE /\ Answer(k, inc)

\* It returns, with the answer to its own arguments.
Return ==
    /\ busy
    /\ busy' = FALSE
    /\ Answer(key, increment)
    /\ UNCHANGED <<key, increment>>

\* A waiter leaves; the last one takes the entry with it.
Drop(k) ==
    /\ ~busy
    /\ table[k] # NULL
    /\ use_count' = [use_count EXCEPT ![table[k]] = @ - 1]
    /\ table' = IF use_count[table[k]] = 1
                THEN [table EXCEPT ![k] = NULL] ELSE table
    /\ UNCHANGED <<busy, key, increment, result>>

Next ==
    \/ \E k \in Keys, inc \in BOOLEAN : Call(k, inc)
    \/ \E k \in Keys : Drop(k)
    \/ Return

Spec == Init /\ [][Next]_mapVars
===============================================================================
