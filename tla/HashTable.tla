------------------------------- MODULE HashTable -------------------------------
(***************************************************************************)
(* The open-addressing table of proxies of atomic_wait_common.ipp.ipp.     *)
(* Every operation runs under the table lock, so one is in progress at a   *)
(* time; the variables pc, key and increment are its program counter and   *)
(* arguments.  A probe and a removal are one step each; growth is stepped, *)
(* one old bucket at a time, because each bucket it moves probes the new   *)
(* table afresh.                                                           *)
(***************************************************************************)
EXTENDS Integers, FiniteSets

CONSTANTS
    Keys,           \* addresses of the atomics
    Proxies,        \* memory for proxy_waiter_t nodes
    NULL,
    DELETED,        \* the tombstone key
    hash_func,      \* key -> hash
    BUCKETS_INITIAL,
    BUCKETS_MAX,
    AllocMayFail,   \* calloc and the init of a proxy may fail
    MaxUse          \* bound: references to one proxy

\* No odd divisor but 1: what 1024 and 1024 * 1024 have in common.
PowerOfTwo(n) == \A d, q \in 1..n : d * q = n => d = 1 \/ d % 2 = 0

ASSUME HashTableAssumption ==
    /\ NULL \notin Keys \cup Proxies
    /\ DELETED \notin Keys \cup {NULL}
    /\ hash_func \in [Keys -> Nat]
    /\ BUCKETS_INITIAL \in Nat \ {0} /\ PowerOfTwo(BUCKETS_INITIAL)
    /\ BUCKETS_MAX \in Nat \ {0} /\ PowerOfTwo(BUCKETS_MAX)
    /\ AllocMayFail \in BOOLEAN
    /\ MaxUse \in Nat

VARIABLES
    buckets,        \* NULL until the first call, then slot -> [key, proxy]
    bucket_count,
    count,          \* live buckets
    use_count,      \* proxy -> references
    home,           \* proxy -> the object its holders know it by
    pc,             \* "idle", "find" or "rehash"
    key, increment, \* arguments of find_or_create
    new_buckets,    \* the table hash_table_grow fills
    cursor,         \* next old bucket to move
    result          \* what find_or_create returned

arguments == <<key, increment>>
growth == <<new_buckets, cursor>>
vars == <<buckets, bucket_count, count, use_count, home, pc, arguments, growth,
          result>>

Empty == [key |-> NULL, proxy |-> NULL]
\* Mutant: a removed slot is cleared.
NoTombstone == Empty

Tombstone == [key |-> DELETED, proxy |-> NULL]
EmptyTable(n) == [i \in 0..(n - 1) |-> Empty]

\* zero-initialised; increment is set by the first call.
Init ==
    /\ buckets = EmptyTable(0)
    /\ bucket_count = 0
    /\ count = 0
    /\ use_count = [p \in Proxies |-> 0]
    /\ home = [p \in Proxies |-> NULL]
    /\ pc = "idle"
    /\ key = NULL
    /\ increment = FALSE
    /\ new_buckets = EmptyTable(0)
    /\ cursor = 0
    /\ result = NULL

-------------------------------------------------------------------------------
(* Probing *)

\* The slot triangular probing visits at step n in a table of size slots.
Slot(k, n, size) == (hash_func[k] + ((n * (n + 1)) \div 2)) % size

KeyAt(k, n) == buckets[Slot(k, n, bucket_count)].key

Steps == 0..(bucket_count - 1)

\* Mutant: the probe runs past k.
StopsPastKey(k, n) ==
    /\ n \in Steps
    /\ KeyAt(k, n) \in {k, NULL}
    /\ \A m \in 0..(n - 1) : KeyAt(k, m) # NULL

\* The probe for k stops at step n, at k itself or at a slot never used.
StopsAt(k, n) ==
    /\ n \in Steps
    /\ KeyAt(k, n) \in {k, NULL}
    /\ \A m \in 0..(n - 1) : KeyAt(k, m) \notin {k, NULL}

\* It visits every step and finds neither.
Exhausted(k) == \A n \in Steps : KeyAt(k, n) \notin {k, NULL}

\* An insert that stops at step n goes to the first tombstone it passed.
InsertsAt(k, n, m) ==
    /\ m \in 0..n
    /\ m = n \/ KeyAt(k, m) = DELETED
    /\ \A j \in 0..(m - 1) : KeyAt(k, j) # DELETED

Live(b) == b.key \notin {NULL, DELETED}

\* 3/4 load, in the code's unsigned arithmetic.
LoadLimit == (bucket_count \div 4) * 3

-------------------------------------------------------------------------------
(* hash_table_find_or_create *)

Return(r) == pc' = "idle" /\ result' = r

\* The entry, with the lazy allocation of the table: if that fails,
\* bucket_count is set all the same.
Begin(k, inc) ==
    /\ pc = "idle"
    /\ key' = k
    /\ increment' = inc
    /\ \/ /\ buckets # EmptyTable(0)
          /\ pc' = "find"
          /\ UNCHANGED <<buckets, bucket_count, result>>
       \/ /\ buckets = EmptyTable(0)
          /\ bucket_count' = BUCKETS_INITIAL
          /\ \/ /\ buckets' = EmptyTable(BUCKETS_INITIAL)
                /\ pc' = "find"
                /\ UNCHANGED result
             \/ /\ AllocMayFail
                /\ Return(NULL)
                /\ UNCHANGED buckets
    /\ UNCHANGED <<count, use_count, home, growth>>

\* Growth comes first: at 3/4 load before a lookup that would insert, and after
\* a probe that found no end for any lookup.
MustGrow == (increment /\ count >= LoadLimit) \/ Exhausted(key)

Find ==
    /\ pc = "find"
    /\ ~MustGrow
    /\ \E n \in Steps :
          /\ StopsAt(key, n)
          /\ KeyAt(key, n) = key
          /\ LET p == buckets[Slot(key, n, bucket_count)].proxy
             IN  /\ Return(p)
                 /\ use_count' = IF increment
                                 THEN [use_count EXCEPT ![p] = @ + 1]
                                 ELSE use_count
    /\ UNCHANGED <<buckets, bucket_count, count, home, arguments, growth>>

\* Mutant: a lookup takes a removed entry for the end of the path.
FindNothingAtTombstone ==
    /\ pc = "find"
    /\ ~MustGrow
    /\ ~increment
    /\ \E n \in Steps :
          /\ KeyAt(key, n) \in {NULL, DELETED}
          /\ \A m \in 0..n : KeyAt(key, m) # key
    /\ Return(NULL)
    /\ UNCHANGED <<buckets, bucket_count, count, use_count, home, arguments,
                   growth>>

FindNothing ==
    /\ pc = "find"
    /\ ~MustGrow
    /\ ~increment
    /\ \E n \in Steps : StopsAt(key, n) /\ KeyAt(key, n) = NULL
    /\ Return(NULL)
    /\ UNCHANGED <<buckets, bucket_count, count, use_count, home, arguments,
                   growth>>

Create ==
    /\ pc = "find"
    /\ ~MustGrow
    /\ increment
    /\ \E n, m \in Steps, p \in Proxies :
          /\ StopsAt(key, n)
          /\ KeyAt(key, n) = NULL
          /\ InsertsAt(key, n, m)
          /\ use_count[p] = 0
          /\ buckets' = [buckets EXCEPT ![Slot(key, m, bucket_count)] =
                            [key |-> key, proxy |-> p]]
          /\ use_count' = [use_count EXCEPT ![p] = 1]
          /\ home' = [home EXCEPT ![p] = key]
          /\ Return(p)
    /\ count' = count + 1
    /\ UNCHANGED <<bucket_count, arguments, growth>>

CreateFails ==
    /\ AllocMayFail
    /\ pc = "find"
    /\ ~MustGrow
    /\ increment
    /\ \E n \in Steps : StopsAt(key, n) /\ KeyAt(key, n) = NULL
    /\ Return(NULL)
    /\ UNCHANGED <<buckets, bucket_count, count, use_count, home, arguments,
                   growth>>

-------------------------------------------------------------------------------
(* hash_table_grow *)

NewCount ==
    IF bucket_count * 2 > BUCKETS_MAX THEN BUCKETS_MAX ELSE bucket_count * 2

Grow ==
    /\ pc = "find"
    /\ MustGrow
    /\ NewCount > bucket_count
    /\ new_buckets' = EmptyTable(NewCount)
    /\ cursor' = 0
    /\ pc' = "rehash"
    /\ UNCHANGED <<buckets, bucket_count, count, use_count, home, arguments,
                   result>>

\* At the maximum size, or out of memory: find_or_create returns NULL.
GrowFails ==
    /\ pc = "find"
    /\ MustGrow
    /\ NewCount <= bucket_count \/ AllocMayFail
    /\ Return(NULL)
    /\ UNCHANGED <<buckets, bucket_count, count, use_count, home, arguments,
                   growth>>

\* Mutant: the rehash does not probe.
PlacedAtHash(b, n) == n = 0 /\ new_buckets[Slot(b.key, n, NewCount)].key = NULL

\* Bucket b goes to the first free slot on its path in the new table, at step n.
PlacedAt(b, n) ==
    /\ n \in 0..(NewCount - 1)
    /\ new_buckets[Slot(b.key, n, NewCount)].key = NULL
    /\ \A m \in 0..(n - 1) : new_buckets[Slot(b.key, m, NewCount)].key # NULL

CanPlace(b) == \E n \in 0..(NewCount - 1) : PlacedAt(b, n)

\* A live bucket with no free slot ends the call, and the old table stays.
Move ==
    LET b == buckets[cursor] IN
    /\ pc = "rehash"
    /\ cursor < bucket_count
    /\ IF Live(b) /\ ~CanPlace(b)
       THEN Return(NULL) /\ UNCHANGED growth
       ELSE /\ cursor' = cursor + 1
            /\ \/ /\ Live(b)
                  /\ \E n \in 0..(NewCount - 1) :
                        /\ PlacedAt(b, n)
                        /\ new_buckets' = [new_buckets EXCEPT
                                              ![Slot(b.key, n, NewCount)] = b]
               \/ /\ ~Live(b)
                  /\ UNCHANGED new_buckets
            /\ UNCHANGED <<pc, result>>
    /\ UNCHANGED <<buckets, bucket_count, count, use_count, home, arguments>>

\* Mutant: the new size is not recorded.
SwapKeepsSize ==
    /\ pc = "rehash"
    /\ cursor = bucket_count
    /\ buckets' = new_buckets
    /\ new_buckets' = EmptyTable(0)
    /\ cursor' = 0
    /\ pc' = "find"
    /\ UNCHANGED <<bucket_count, count, use_count, home, arguments, result>>

Swap ==
    /\ pc = "rehash"
    /\ cursor = bucket_count
    /\ buckets' = new_buckets
    /\ bucket_count' = NewCount
    /\ new_buckets' = EmptyTable(0)
    /\ cursor' = 0
    /\ pc' = "find"
    /\ UNCHANGED <<count, use_count, home, arguments, result>>

-------------------------------------------------------------------------------
(* The tail of atomic_wait_generic: --use_count, and hash_table_remove_item *)

\* Mutant: removed one reference early.
NearlyLast(p) == use_count[p] <= 2

LastReference(p) == use_count[p] = 1

\* Mutant: count is not decremented.
RemoveUncounted(p) ==
    /\ \E n \in Steps :
          /\ KeyAt(home[p], n) = home[p]
          /\ buckets' = [buckets EXCEPT
                            ![Slot(home[p], n, bucket_count)] = Tombstone]
    /\ home' = [home EXCEPT ![p] = NULL]
    /\ UNCHANGED count

\* hash_table_remove_item finds the key and frees its proxy.
Remove(p) ==
    /\ \E n \in Steps :
          /\ KeyAt(home[p], n) = home[p]
          /\ buckets' = [buckets EXCEPT
                            ![Slot(home[p], n, bucket_count)] = Tombstone]
    /\ home' = [home EXCEPT ![p] = NULL]
    /\ count' = count - 1

Drop(p) ==
    /\ pc = "idle"
    /\ use_count[p] > 0
    /\ use_count' = [use_count EXCEPT ![p] = @ - 1]
    /\ \/ LastReference(p) /\ Remove(p)
       \/ /\ LastReference(p) =>
                \A n \in Steps : KeyAt(home[p], n) # home[p]
          /\ UNCHANGED <<buckets, count, home>>
    /\ UNCHANGED <<bucket_count, pc, arguments, growth, result>>

-------------------------------------------------------------------------------
\* The steps of a call in progress.
Step ==
    \/ Find \/ FindNothing \/ Create \/ CreateFails
    \/ Grow \/ GrowFails \/ Move \/ Swap

Next ==
    \/ \E k \in Keys, inc \in BOOLEAN :
          /\ inc => \A p \in Proxies : home[p] = k => use_count[p] < MaxUse
          /\ Begin(k, inc)
    \/ \E p \in Proxies : Drop(p)
    \/ Step

Spec == Init /\ [][Next]_vars

-------------------------------------------------------------------------------
(* Properties *)

Bucket == [key : Keys \cup {NULL, DELETED}, proxy : Proxies \cup {NULL}]

\* The shape of the table.
TypeOK ==
    /\ bucket_count \in Nat
    /\ buckets \in [0..(bucket_count - 1) -> Bucket] \cup {EmptyTable(0)}
    /\ count \in Nat
    /\ use_count \in [Proxies -> Nat]
    /\ home \in [Proxies -> Keys \cup {NULL}]
    /\ pc \in {"idle", "find", "rehash"}
    /\ key \in Keys \cup {NULL}
    /\ increment \in BOOLEAN
    /\ cursor \in 0..bucket_count
    /\ pc = "rehash" => new_buckets \in [0..(NewCount - 1) -> Bucket]
    /\ result \in Proxies \cup {NULL}

Slots == DOMAIN buckets

\* A key that is in the table is where its probe finds it: no NULL slot cuts its
\* path, whatever was removed or inserted since.
Findable ==
    \A i \in Slots : Live(buckets[i]) =>
        \E n \in Steps :
            /\ Slot(buckets[i].key, n, bucket_count) = i
            /\ StopsAt(buckets[i].key, n)

\* No object has two entries, so a waiter and a notifier meet on one proxy.
NoDuplicateKey ==
    \A i, j \in Slots :
        Live(buckets[i]) /\ buckets[i].key = buckets[j].key => i = j

\* count drives growth: it is the number of live buckets through insertion,
\* tombstone reuse, removal and rehash.
CountExact == count = Cardinality({i \in Slots : Live(buckets[i])})

\* A proxy with references is the entry of the object they were taken on, and
\* an entry has references.
EntriesReferenced ==
    /\ \A i \in Slots : Live(buckets[i]) =>
          /\ use_count[buckets[i].proxy] > 0
          /\ home[buckets[i].proxy] = buckets[i].key
    /\ \A p \in Proxies : use_count[p] > 0 =>
          \E i \in Slots : buckets[i] = [key |-> home[p], proxy |-> p]

\* The comment in hash_table_grow: the branch that gives a rehash up is never
\* taken, since triangular probing reaches a free slot of the doubled table.
RehashPlaces ==
    pc = "rehash" /\ cursor < bucket_count /\ Live(buckets[cursor]) =>
        CanPlace(buckets[cursor])

\* The sizes the table has yet to go through, and within one of them the buckets
\* yet to move.
Rank ==
    (BUCKETS_MAX - bucket_count) * (BUCKETS_MAX + 2)
        - (IF pc = "rehash" THEN 1 + cursor ELSE 0)

\* The retry loop of find_or_create ends: every step of a call returns or brings
\* it closer to a table that cannot grow, where the next one returns.
CallProgress ==
    [][pc # "idle" => pc' = "idle" \/ (Rank' < Rank /\ Rank' >= 0)]_vars

\* The comment on tombstones: a removed slot is reused by the next insert.  So
\* an insert that cannot grow the table is refused only at 3/4 load.
TombstonesReused ==
    pc = "find" /\ increment /\ MustGrow /\ NewCount <= bucket_count
        => count >= LoadLimit

\* The table is the map that the wait and notify paths rely on: a call returns
\* what the map holds for its own key and kind, a lookup of a key that has a
\* waiter finds it, and nothing but a call or a release changes the map.
Entry(k) == {i \in Slots : buckets[i].key = k}
ProxyOf(k) ==
    IF Entry(k) = {} THEN NULL ELSE buckets[CHOOSE i \in Entry(k) : TRUE].proxy

Map == INSTANCE ProxyMap
           WITH table <- [k \in Keys |-> ProxyOf(k)], busy <- pc # "idle"

MapSpec == Map!Spec
===============================================================================
