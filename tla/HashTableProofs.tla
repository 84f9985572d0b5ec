---------------------------- MODULE HashTableProofs ----------------------------
(***************************************************************************)
(* Proofs about HashTable, for every set of keys and proxies, every hash   *)
(* function and every initial and maximal size that is a power of two: the *)
(* table keeps its invariants, a rehash never fails to place a bucket, a   *)
(* call makes progress, and the table implements the map of ProxyMap.      *)
(***************************************************************************)
EXTENDS ProbingProofs

(* A table tab of size buckets: the old one and the one a growth fills *)

\* The probe for the key of bucket i comes to it, with no free slot before.
OnPath(tab, size, i) ==
    \E n \in 0..(size - 1) :
        /\ Slot(tab[i].key, n, size) = i
        /\ \A m \in 0..(n - 1) :
              tab[Slot(tab[i].key, m, size)].key \notin {tab[i].key, NULL}

TableOK(tab, size) ==
    /\ size \in Nat \ {0}
    /\ tab \in [0..(size - 1) -> Bucket]
    /\ \A i \in 0..(size - 1) : Live(tab[i]) =>
          /\ tab[i].proxy \in Proxies
          /\ OnPath(tab, size, i)
    /\ \A i, j \in 0..(size - 1) :
          Live(tab[i]) /\ tab[i].key = tab[j].key => i = j

\* Key k has no entry.
Absent(tab, size, k) == \A i \in 0..(size - 1) : tab[i].key # k

\* The path of k is occupied up to step n, where it is free or a removed entry.
FreeOnPath(tab, size, k, n) ==
    /\ n \in 0..(size - 1)
    /\ ~Live(tab[Slot(k, n, size)])
    /\ \A m \in 0..(n - 1) : Live(tab[Slot(k, m, size)])

\* The path of k comes to a slot never used.
ReachesFree(tab, size, k) ==
    \E n \in 0..(size - 1) :
        /\ tab[Slot(k, n, size)].key = NULL
        /\ \A m \in 0..(n - 1) : tab[Slot(k, m, size)].key # NULL

LiveSlots(tab) == {i \in DOMAIN tab : Live(tab[i])}

\* Table new has n live buckets more than table tab.
More(new, tab, n) == Cardinality(LiveSlots(new)) = Cardinality(LiveSlots(tab)) + n

\* The live buckets a growth has moved so far.
Moved == {i \in 0..(cursor - 1) : Live(buckets[i])}

\* The table is there for every call that got past the lazy allocation.
AllocatedOK ==
    \/ /\ buckets = EmptyTable(0)
       /\ pc = "idle"
       /\ cursor = 0
    \/ /\ TableOK(buckets, bucket_count)
       /\ PowerOfTwo(bucket_count)

CallOK == pc # "idle" => key \in Keys

HomesOK == \A p \in Proxies : use_count[p] > 0 => home[p] \in Keys

\* The new table holds the buckets moved so far, and nothing else.
RehashOK ==
    pc = "rehash" =>
        /\ NewCount > bucket_count
        /\ TableOK(new_buckets, NewCount)
        /\ \A j \in 0..(NewCount - 1) :
              /\ new_buckets[j].key # DELETED
              /\ Live(new_buckets[j]) => \E i \in Moved : buckets[i] = new_buckets[j]
        /\ \A i \in Moved :
              \E j \in 0..(NewCount - 1) : new_buckets[j] = buckets[i]
        /\ Cardinality(LiveSlots(new_buckets)) = Cardinality(Moved)

\* The inductive invariant.
Inv ==
    /\ TypeOK
    /\ AllocatedOK
    /\ CallOK
    /\ CountExact
    /\ EntriesReferenced
    /\ HomesOK
    /\ RehashOK

-------------------------------------------------------------------------------
(* Tables *)

\* An empty table is one, and has no live bucket.
LEMMA EmptyTableOK ==
    ASSUME NEW size \in Nat \ {0}
    PROVE  /\ TableOK(EmptyTable(size), size)
           /\ LiveSlots(EmptyTable(size)) = {}
           /\ \A i \in 0..(size - 1) : EmptyTable(size)[i] = Empty
    BY DEF TableOK, EmptyTable, Empty, Bucket, Live, LiveSlots

\* The table before its allocation has no slot, unlike any other.
LEMMA NoTable ==
    /\ DOMAIN EmptyTable(0) = {}
    /\ \A size \in Nat \ {0} : \A tab \in [0..(size - 1) -> Bucket] :
          tab # EmptyTable(0)
<1>1. DOMAIN EmptyTable(0) = {}
    BY DEF EmptyTable
<1>2. ASSUME NEW size \in Nat \ {0}, NEW tab \in [0..(size - 1) -> Bucket]
      PROVE  tab # EmptyTable(0)
    BY <1>1
<1> QED
    BY <1>1, <1>2

\* The live buckets of a table can be counted.
LEMMA LiveSlotsFinite ==
    ASSUME NEW size \in Nat \ {0}, NEW tab \in [0..(size - 1) -> Bucket]
    PROVE  /\ IsFiniteSet(LiveSlots(tab))
           /\ Cardinality(LiveSlots(tab)) \in Nat
           /\ LiveSlots(tab) \subseteq 0..(size - 1)
<1>1. IsFiniteSet(0..(size - 1))
    BY FS_Interval
<1>2. LiveSlots(tab) \subseteq 0..(size - 1)
    BY DEF LiveSlots
<1> QED
    BY <1>1, <1>2, FS_Subset, FS_CardinalityType

\* An entry goes to a slot that is free or removed, at the end of a path of
\* occupied slots: it can be found there, and so can all the others.
LEMMA InsertKeepsTable ==
    ASSUME NEW tab, NEW size, TableOK(tab, size),
           NEW k \in Keys, NEW p \in Proxies, NEW n,
           Absent(tab, size, k), FreeOnPath(tab, size, k, n),
           NEW s, s = Slot(k, n, size),
           NEW new, new = [tab EXCEPT ![s] = [key |-> k, proxy |-> p]]
    PROVE  /\ TableOK(new, size)
           /\ More(new, tab, 1)
<1> DEFINE b == [key |-> k, proxy |-> p]
<1> USE DEF TableOK, Absent, FreeOnPath
<1>1. s \in 0..(size - 1)
    BY SlotInTable
<1>2. /\ b \in Bucket /\ Live(b)
      /\ new \in [0..(size - 1) -> Bucket]
    BY <1>1, HashTableAssumption DEF Bucket, Live
<1>3. \A i \in 0..(size - 1) : new[i] = IF i = s THEN b ELSE tab[i]
    BY <1>1
<1>4. OnPath(new, size, s)
    <2>1. ASSUME NEW m \in 0..(n - 1)
          PROVE  new[Slot(k, m, size)].key \notin {k, NULL}
        <3>1. Slot(k, m, size) \in 0..(size - 1)
            <4>1. m \in Nat /\ size \in Nat \ {0}
                OBVIOUS
            <4> QED
                BY <4>1, SlotInTable, Zenon
        <3> QED
            BY <1>3, <3>1 DEF Live
    <2> QED
        BY <1>1, <1>3, <2>1 DEF OnPath
<1>5. ASSUME NEW i \in 0..(size - 1), Live(new[i]), i # s
      PROVE  OnPath(new, size, i)
    <2>1. new[i] = tab[i] /\ tab[i].key \in Keys /\ tab[i].key # k
        BY <1>3, <1>5 DEF Bucket, Live
    <2>2. PICK m \in 0..(size - 1) :
              /\ Slot(tab[i].key, m, size) = i
              /\ \A j \in 0..(m - 1) :
                    tab[Slot(tab[i].key, j, size)].key \notin {tab[i].key, NULL}
        BY <1>5, <2>1 DEF OnPath
    <2>3. ASSUME NEW j \in 0..(m - 1)
          PROVE  new[Slot(tab[i].key, j, size)].key \notin {tab[i].key, NULL}
        <3>1. Slot(tab[i].key, j, size) \in 0..(size - 1)
            <4>1. j \in Nat /\ size \in Nat \ {0}
                OBVIOUS
            <4> QED
                BY <2>1, <4>1, SlotInTable, Zenon
        <3> QED
            BY <1>3, <2>1, <2>2, <3>1, HashTableAssumption
    <2> QED
        BY <2>1, <2>2, <2>3 DEF OnPath
<1>6. \A i \in 0..(size - 1) : Live(new[i]) => new[i].proxy \in Proxies
    BY <1>3
<1>7. \A i, j \in 0..(size - 1) :
          Live(new[i]) /\ new[i].key = new[j].key => i = j
    BY <1>3
<1>8. TableOK(new, size)
    BY <1>2, <1>4, <1>5, <1>6, <1>7
<1>9. LiveSlots(new) = LiveSlots(tab) \cup {s} /\ s \notin LiveSlots(tab)
    BY <1>1, <1>2, <1>3 DEF LiveSlots
<1>10. More(new, tab, 1)
    BY <1>9, LiveSlotsFinite, FS_AddElement DEF More
<1> QED
    BY <1>8, <1>10

\* A tombstone in place of an entry cuts no path.
LEMMA RemoveKeepsTable ==
    ASSUME NEW tab, NEW size, TableOK(tab, size),
           NEW s \in 0..(size - 1), Live(tab[s]),
           NEW new, new = [tab EXCEPT ![s] = Tombstone]
    PROVE  /\ TableOK(new, size)
           /\ More(new, tab, -1)
<1> USE DEF TableOK
<1>1. Tombstone \in Bucket /\ ~Live(Tombstone) /\ Tombstone.key = DELETED
    BY DEF Tombstone, Bucket, Live
<1>2. /\ new \in [0..(size - 1) -> Bucket]
      /\ \A i \in 0..(size - 1) : new[i] = IF i = s THEN Tombstone ELSE tab[i]
    BY <1>1
<1>3. ASSUME NEW i \in 0..(size - 1), Live(new[i])
      PROVE  OnPath(new, size, i) /\ new[i].proxy \in Proxies
    <2>1. new[i] = tab[i] /\ tab[i].key \in Keys /\ i # s
        BY <1>1, <1>2, <1>3 DEF Bucket, Live
    <2>2. PICK m \in 0..(size - 1) :
              /\ Slot(tab[i].key, m, size) = i
              /\ \A j \in 0..(m - 1) :
                    tab[Slot(tab[i].key, j, size)].key \notin {tab[i].key, NULL}
        BY <1>3, <2>1 DEF OnPath
    <2>3. ASSUME NEW j \in 0..(m - 1)
          PROVE  new[Slot(tab[i].key, j, size)].key \notin {tab[i].key, NULL}
        <3>1. Slot(tab[i].key, j, size) \in 0..(size - 1)
            <4>1. j \in Nat /\ size \in Nat \ {0}
                OBVIOUS
            <4> QED
                BY <2>1, <4>1, SlotInTable, Zenon
        <3> QED
            BY <1>1, <1>2, <2>1, <2>2, <3>1, HashTableAssumption
    <2> QED
        BY <1>3, <2>1, <2>2, <2>3 DEF OnPath
<1>4. \A i, j \in 0..(size - 1) :
          Live(new[i]) /\ new[i].key = new[j].key => i = j
    BY <1>1, <1>2 DEF Live
<1>5. LiveSlots(new) = LiveSlots(tab) \ {s} /\ s \in LiveSlots(tab)
    BY <1>1, <1>2 DEF LiveSlots
<1>6. More(new, tab, -1)
    <2>1. IsFiniteSet(LiveSlots(tab)) /\ Cardinality(LiveSlots(tab)) \in Nat
        BY LiveSlotsFinite
    <2> QED
        BY <1>5, <2>1, FS_RemoveElement DEF More
<1> QED
    BY <1>2, <1>3, <1>4, <1>5, <1>6

\* A table with a slot never used gives every probe its end.
LEMMA FreeSlotFound ==
    ASSUME NEW tab, NEW size, TableOK(tab, size), PowerOfTwo(size),
           NEW i \in 0..(size - 1), tab[i].key = NULL, NEW k \in Keys
    PROVE  ReachesFree(tab, size, k)
<1> DEFINE Ends == {n \in 0..(size - 1) : tab[Slot(k, n, size)].key = NULL}
<1>1. Ends # {}
    <2>1. PICK n \in 0..(size - 1) : Slot(k, n, size) = i
        BY ProbeVisitsEverySlot, Zenon DEF TableOK
    <2> QED
        BY <2>1
<1>2. Ends \subseteq Nat
    OBVIOUS
<1>3. PICK n \in Ends : \A m \in Ends : n <= m
    <2> HIDE DEF Ends
    <2> QED
        BY <1>1, <1>2, Minimum
<1>4. \A m \in 0..(n - 1) : m \in 0..(size - 1) /\ m \notin Ends
    <2> SUFFICES ASSUME NEW m \in 0..(n - 1)
                 PROVE  m \in 0..(size - 1) /\ m \notin Ends
        OBVIOUS
    <2>1. n \in 0..(size - 1) /\ size \in Nat
        BY DEF TableOK
    <2>2. m \in 0..(size - 1) /\ ~(n <= m)
        BY <2>1
    <2> QED
        BY <1>3, <2>2
<1> QED
    BY <1>3, <1>4 DEF ReachesFree

-------------------------------------------------------------------------------
(* Inv is inductive *)

\* A probe that ends at a slot never used has passed every place its key could be.
LEMMA NotInTable ==
    ASSUME TableOK(buckets, bucket_count), NEW k \in Keys, NEW n,
           StopsAt(k, n), KeyAt(k, n) = NULL
    PROVE  Absent(buckets, bucket_count, k)
<1> SUFFICES ASSUME NEW i \in 0..(bucket_count - 1), buckets[i].key = k
             PROVE  FALSE
    BY DEF Absent
<1>1. Live(buckets[i])
    BY HashTableAssumption DEF Live
<1>2. PICK m \in 0..(bucket_count - 1) :
          /\ Slot(k, m, bucket_count) = i
          /\ \A j \in 0..(m - 1) :
                buckets[Slot(k, j, bucket_count)].key \notin {k, NULL}
    BY <1>1 DEF TableOK, OnPath
<1>3. n \in 0..(bucket_count - 1) /\ bucket_count \in Nat
    BY DEF StopsAt, Steps, TableOK
<1>4. m < n \/ m = n \/ n < m
    BY <1>3
<1>5. CASE m < n
    <2>1. m \in 0..(n - 1)
        BY <1>3, <1>5
    <2> QED
        BY <1>2, <2>1 DEF StopsAt, KeyAt
<1>6. CASE m = n
    BY <1>2, <1>6, HashTableAssumption DEF KeyAt
<1>7. CASE n < m
    <2>1. n \in 0..(m - 1)
        BY <1>3, <1>7
    <2> QED
        BY <1>2, <2>1 DEF KeyAt
<1> QED
    BY <1>4, <1>5, <1>6, <1>7

\* A step within a call finds the table there.
LEMMA TableThere ==
    ASSUME Inv, pc # "idle"
    PROVE  /\ TableOK(buckets, bucket_count)
           /\ PowerOfTwo(bucket_count)
           /\ buckets \in [0..(bucket_count - 1) -> Bucket]
           /\ bucket_count \in Nat \ {0}
           /\ key \in Keys
    BY DEF Inv, AllocatedOK, CallOK, TableOK

\* The size a growth asks for.
LEMMA NewCountOK ==
    ASSUME Inv, pc # "idle"
    PROVE  /\ NewCount \in Nat
           /\ NewCount > bucket_count => NewCount <= BUCKETS_MAX
           /\ PowerOfTwo(NewCount)
<1>1. bucket_count \in Nat \ {0} /\ PowerOfTwo(bucket_count)
    BY TableThere
<1>2. PowerOfTwo(2 * bucket_count)
    BY <1>1, Double
<1>3. 2 * bucket_count = bucket_count * 2
    BY <1>1
<1> QED
    BY <1>1, <1>2, <1>3, HashTableAssumption DEF NewCount

\* The zeroed table.
LEMMA InitInv == Init => Inv
<1> SUFFICES ASSUME Init PROVE Inv
    OBVIOUS
<1> USE DEF Init
<1>1. DOMAIN buckets = {}
    BY NoTable
<1>2. TypeOK
    <2>1. use_count \in [Proxies -> Nat] /\ home \in [Proxies -> Keys \cup {NULL}]
        OBVIOUS
    <2>2. increment \in BOOLEAN
        OBVIOUS
    <2>3. bucket_count \in Nat /\ count \in Nat /\ cursor \in 0..bucket_count
        OBVIOUS
    <2>4. buckets \in [0..(bucket_count - 1) -> Bucket] \cup {EmptyTable(0)}
        OBVIOUS
    <2> QED
        BY <2>1, <2>2, <2>3, <2>4 DEF TypeOK
<1>3. CountExact
    BY <1>1, FS_EmptySet DEF CountExact, Slots
<1>4. EntriesReferenced /\ HomesOK
    BY <1>1 DEF EntriesReferenced, Slots, HomesOK
<1>5. AllocatedOK /\ CallOK /\ RehashOK
    BY DEF AllocatedOK, CallOK, RehashOK
<1> QED
    BY <1>2, <1>3, <1>4, <1>5 DEF Inv

\* A call that returns NULL leaves the table as it was.
LEMMA GivingUpPreservesInv ==
    ASSUME Inv, Return(NULL),
           UNCHANGED <<buckets, bucket_count, count, use_count, home, key,
                       increment, new_buckets, cursor>>
    PROVE  Inv'
<1> USE DEF Inv, Return
<1>1. TypeOK'
    BY DEF TypeOK, NewCount
<1>2. AllocatedOK'
    BY DEF AllocatedOK, TableOK, OnPath
<1>3. CountExact' /\ EntriesReferenced'
    BY DEF CountExact, EntriesReferenced, Slots
<1> QED
    BY <1>1, <1>2, <1>3 DEF CallOK, HomesOK, RehashOK

\* The lazy allocation gives an empty table, or leaves none.
LEMMA BeginPreservesInv ==
    ASSUME Inv, NEW k \in Keys, NEW inc \in BOOLEAN, Begin(k, inc)
    PROVE  Inv'
<1> USE DEF Inv, Begin, growth
<1>1. CASE buckets # EmptyTable(0)
    <2>1. /\ pc' = "find" /\ key' = k /\ increment' = inc
          /\ UNCHANGED <<buckets, bucket_count, result, count, use_count, home,
                         new_buckets, cursor>>
        BY <1>1
    <2>2. TypeOK'
        BY <2>1 DEF TypeOK
    <2>3. AllocatedOK'
        BY <1>1, <2>1 DEF AllocatedOK, TableOK, OnPath
    <2>4. CountExact' /\ EntriesReferenced'
        BY <2>1 DEF CountExact, EntriesReferenced, Slots
    <2> QED
        BY <2>1, <2>2, <2>3, <2>4 DEF CallOK, HomesOK, RehashOK
<1>2. CASE buckets = EmptyTable(0)
    <2>1. /\ bucket_count' = BUCKETS_INITIAL /\ key' = k /\ increment' = inc
          /\ cursor = 0 /\ count = 0
          /\ UNCHANGED <<count, use_count, home, new_buckets, cursor>>
          /\ \A p \in Proxies : use_count[p] = 0
        <3>1. DOMAIN buckets = {}
            BY <1>2, NoTable
        <3>2. count = 0
            BY <3>1, FS_EmptySet DEF CountExact, Slots
        <3>3. \A p \in Proxies : use_count[p] = 0
            BY <3>1 DEF EntriesReferenced, Slots, TypeOK
        <3>4. cursor = 0
            BY <1>2, NoTable DEF AllocatedOK, TableOK
        <3> QED
            BY <1>2, <3>2, <3>3, <3>4
    <2>2. CASE buckets' = EmptyTable(BUCKETS_INITIAL) /\ pc' = "find" /\ UNCHANGED result
        <3>1. /\ TableOK(buckets', bucket_count')
              /\ LiveSlots(buckets') = {}
              /\ \A i \in DOMAIN buckets' : buckets'[i] = Empty
            BY <2>1, <2>2, EmptyTableOK, HashTableAssumption DEF TableOK
        <3>2. TypeOK'
            BY <2>1, <2>2, <3>1, HashTableAssumption DEF TypeOK, TableOK
        <3>3. CountExact'
            BY <2>1, <3>1, FS_EmptySet DEF CountExact, LiveSlots, Slots
        <3>4. EntriesReferenced'
            BY <2>1, <3>1 DEF EntriesReferenced, Slots, Empty, Live
        <3> QED
            BY <2>1, <2>2, <3>1, <3>2, <3>3, <3>4, HashTableAssumption
            DEF AllocatedOK, CallOK, HomesOK, RehashOK
    <2>3. CASE Return(NULL) /\ UNCHANGED buckets
        <3>1. TypeOK'
            BY <1>2, <2>1, <2>3, HashTableAssumption DEF TypeOK, Return
        <3>2. CountExact' /\ EntriesReferenced'
            BY <2>1, <2>3 DEF CountExact, EntriesReferenced, Slots
        <3> QED
            BY <1>2, <2>1, <2>3, <3>1, <3>2
            DEF AllocatedOK, CallOK, HomesOK, RehashOK, Return
    <2> QED
        BY <1>2, <2>2, <2>3
<1> QED
    BY <1>1, <1>2

\* A hit adds a reference to an entry that has some.
LEMMA FindPreservesInv ==
    ASSUME Inv, Find
    PROVE  Inv'
<1> USE DEF Inv
<1>1. PICK n \in Steps :
          /\ StopsAt(key, n)
          /\ KeyAt(key, n) = key
          /\ LET p == buckets[Slot(key, n, bucket_count)].proxy
             IN  /\ Return(p)
                 /\ use_count' = IF increment
                                 THEN [use_count EXCEPT ![p] = @ + 1]
                                 ELSE use_count
    BY DEF Find
<1>2. pc = "find" /\ UNCHANGED <<buckets, bucket_count, count, home, key,
                                 increment, new_buckets, cursor>>
    BY DEF Find, arguments, growth
<1>3. PICK i \in 0..(bucket_count - 1) :
          i = Slot(key, n, bucket_count) /\ buckets[i].key = key
    <2>1. n \in Nat /\ bucket_count \in Nat \ {0} /\ key \in Keys
        BY <1>2, TableThere DEF Steps
    <2>2. Slot(key, n, bucket_count) \in 0..(bucket_count - 1)
        BY <2>1, SlotInTable, Zenon
    <2> QED
        BY <1>1, <2>2 DEF KeyAt
<1>4. Live(buckets[i]) /\ buckets[i].proxy \in Proxies
    BY <1>2, <1>3, TableThere, HashTableAssumption DEF Live, TableOK
<1>5. /\ pc' = "idle" /\ result' \in Proxies
      /\ use_count' \in [Proxies -> Nat]
      /\ \A p \in Proxies : use_count'[p] > 0 <=> use_count[p] > 0
    <2>1. use_count[buckets[i].proxy] > 0
        BY <1>2, <1>4, TableThere DEF EntriesReferenced, Slots
    <2> QED
        BY <1>1, <1>3, <1>4, <2>1 DEF Return, TypeOK
<1>6. TypeOK'
    BY <1>2, <1>5 DEF TypeOK
<1>7. EntriesReferenced'
    BY <1>2, <1>5, TableThere DEF EntriesReferenced, Slots, TableOK
<1> QED
    BY <1>2, <1>5, <1>6, <1>7
    DEF AllocatedOK, CallOK, CountExact, Slots, HomesOK, RehashOK

\* A miss that inserts: a slot on the path, a proxy nobody refers to.
LEMMA CreatePreservesInv ==
    ASSUME Inv, Create
    PROVE  Inv'
<1> USE DEF Inv
<1>1. PICK n \in Steps, m \in Steps, p \in Proxies :
          /\ StopsAt(key, n)
          /\ KeyAt(key, n) = NULL
          /\ InsertsAt(key, n, m)
          /\ use_count[p] = 0
          /\ buckets' = [buckets EXCEPT ![Slot(key, m, bucket_count)] =
                            [key |-> key, proxy |-> p]]
          /\ use_count' = [use_count EXCEPT ![p] = 1]
          /\ home' = [home EXCEPT ![p] = key]
          /\ pc' = "idle" /\ result' = p
    BY DEF Create, Return
<1>2. /\ pc = "find" /\ count' = count + 1
      /\ UNCHANGED <<bucket_count, key, increment, new_buckets, cursor>>
    BY DEF Create, arguments, growth
<1>3. /\ TableOK(buckets, bucket_count) /\ bucket_count \in Nat \ {0}
      /\ DOMAIN buckets = 0..(bucket_count - 1)
      /\ PowerOfTwo(bucket_count) /\ key \in Keys
    BY <1>2, TableThere
<1>4. Absent(buckets, bucket_count, key)
    BY <1>1, <1>3, NotInTable
<1> DEFINE b == [key |-> key, proxy |-> p]
<1>s. PICK s : /\ s = Slot(key, m, bucket_count)
               /\ buckets' = [buckets EXCEPT ![s] = [key |-> key, proxy |-> p]]
    BY <1>1
<1>5. ~Live(buckets[s]) /\ FreeOnPath(buckets, bucket_count, key, m)
    <2>1. ~Live(buckets[s])
        BY <1>1, <1>s DEF InsertsAt, KeyAt, Live
    <2>2. ASSUME NEW j \in 0..(m - 1)
          PROVE  Live(buckets[Slot(key, j, bucket_count)])
        <3>1. j \in 0..(n - 1)
            BY <1>1, <1>3 DEF InsertsAt, Steps
        <3> QED
            BY <1>1, <3>1 DEF InsertsAt, StopsAt, KeyAt, Live
    <2> QED
        BY <1>s, <2>1, <2>2 DEF FreeOnPath, Steps
<1>6. TableOK(buckets', bucket_count) /\ More(buckets', buckets, 1)
    <2>1. /\ TableOK(buckets, bucket_count)
          /\ Absent(buckets, bucket_count, key)
          /\ FreeOnPath(buckets, bucket_count, key, m)
          /\ key \in Keys
        BY <1>3, <1>4, <1>5
    <2> QED
        BY <1>s, <2>1, InsertKeepsTable, Zenon
<1>7. /\ s \in 0..(bucket_count - 1)
      /\ DOMAIN buckets' = 0..(bucket_count - 1)
      /\ \A i \in 0..(bucket_count - 1) :
            buckets'[i] = IF i = s THEN b ELSE buckets[i]
    <2>1. m \in Nat
        BY DEF Steps
    <2>2. s \in 0..(bucket_count - 1)
        BY <1>s, <1>3, <2>1, SlotInTable, Zenon
    <2> QED
        BY <1>s, <1>3, <2>2
<1>8. CountExact'
    <2>1. count = Cardinality(LiveSlots(buckets))
        BY DEF CountExact, LiveSlots, Slots
    <2> QED
        BY <1>2, <1>6, <2>1 DEF CountExact, More, LiveSlots, Slots
<1>9. TypeOK'
    <2>1. buckets' \in [0..(bucket_count' - 1) -> Bucket] /\ count' \in Nat
        BY <1>2, <1>6 DEF TableOK, TypeOK
    <2> QED
        BY <1>1, <1>2, <1>3, <2>1 DEF TypeOK
<1>10. \A i \in 0..(bucket_count - 1) : Live(buckets[i]) => buckets[i].proxy # p
    BY <1>1, <1>3 DEF EntriesReferenced, Slots
<1>11. EntriesReferenced'
    <2>1. ASSUME NEW i \in 0..(bucket_count - 1), Live(buckets'[i])
          PROVE  /\ use_count'[buckets'[i].proxy] > 0
                 /\ home'[buckets'[i].proxy] = buckets'[i].key
        <3>1. CASE i = s
            BY <1>1, <1>7, <3>1 DEF TypeOK
        <3>2. CASE i # s
            <4>1. buckets'[i] = buckets[i] /\ Live(buckets[i])
                BY <1>7, <2>1, <3>2
            <4>2. buckets[i].proxy \in Proxies \ {p}
                BY <1>3, <1>10, <4>1 DEF TableOK
            <4>3. /\ use_count[buckets[i].proxy] > 0
                  /\ home[buckets[i].proxy] = buckets[i].key
                BY <1>3, <4>1 DEF EntriesReferenced, Slots
            <4> QED
                BY <1>1, <4>1, <4>2, <4>3 DEF TypeOK
        <3> QED
            BY <3>1, <3>2
    <2>2. ASSUME NEW q \in Proxies, use_count'[q] > 0
          PROVE  \E i \in 0..(bucket_count - 1) :
                     buckets'[i] = [key |-> home'[q], proxy |-> q]
        <3>1. CASE q = p
            BY <1>1, <1>7, <3>1 DEF TypeOK
        <3>2. CASE q # p
            <4>1. use_count[q] > 0 /\ home'[q] = home[q]
                BY <1>1, <2>2, <3>2 DEF TypeOK
            <4>2. PICK i \in 0..(bucket_count - 1) :
                      buckets[i] = [key |-> home[q], proxy |-> q]
                BY <1>3, <4>1 DEF EntriesReferenced, Slots
            <4>3. Live(buckets[i])
                BY <4>1, <4>2, HashTableAssumption DEF HomesOK, Live
            <4>4. i # s
                BY <1>5, <4>3
            <4> QED
                BY <1>7, <4>1, <4>2, <4>4
        <3> QED
            BY <3>1, <3>2
    <2> QED
        BY <1>7, <2>1, <2>2 DEF EntriesReferenced, Slots
<1>12. HomesOK'
    BY <1>1, <1>3 DEF HomesOK, TypeOK
<1> QED
    BY <1>1, <1>2, <1>3, <1>6, <1>8, <1>9, <1>11, <1>12
    DEF AllocatedOK, CallOK, RehashOK

\* A referenced proxy has its entry, where the probe of hash_table_remove_item
\* finds it.
LEMMA EntryThere ==
    ASSUME Inv, NEW p \in Proxies, use_count[p] > 0
    PROVE  /\ TableOK(buckets, bucket_count)
           /\ PowerOfTwo(bucket_count)
           /\ home[p] \in Keys
           /\ \E i \in 0..(bucket_count - 1) :
                 /\ buckets[i] = [key |-> home[p], proxy |-> p]
                 /\ Live(buckets[i])
                 /\ \E n \in Steps : Slot(home[p], n, bucket_count) = i
                 /\ \A j \in 0..(bucket_count - 1) :
                       buckets[j].key = home[p] => j = i
<1> USE DEF Inv
<1>1. PICK i \in DOMAIN buckets : buckets[i] = [key |-> home[p], proxy |-> p]
    BY DEF EntriesReferenced, Slots
<1>2. TableOK(buckets, bucket_count) /\ PowerOfTwo(bucket_count)
    BY <1>1, NoTable DEF AllocatedOK
<1>3. home[p] \in Keys /\ buckets[i].key = home[p] /\ Live(buckets[i])
    BY <1>1, HashTableAssumption DEF HomesOK, Live
<1>4. i \in 0..(bucket_count - 1)
    BY <1>2 DEF TableOK
<1>5. \E n \in Steps : Slot(home[p], n, bucket_count) = i
    BY <1>2, <1>3, <1>4 DEF TableOK, OnPath, Steps
<1>6. \A j \in 0..(bucket_count - 1) : buckets[j].key = home[p] => j = i
    BY <1>2, <1>3, <1>4 DEF TableOK
<1> QED
    BY <1>1, <1>2, <1>3, <1>4, <1>5, <1>6

\* The tail of a wait: the last reference removes the entry.
LEMMA DropPreservesInv ==
    ASSUME Inv, NEW p \in Proxies, Drop(p)
    PROVE  Inv'
<1> USE DEF Inv
<1>1. /\ pc = "idle" /\ use_count[p] > 0
      /\ use_count' = [use_count EXCEPT ![p] = @ - 1]
      /\ UNCHANGED <<bucket_count, pc, key, increment, new_buckets, cursor, result>>
    BY DEF Drop, arguments, growth
<1>2. TableOK(buckets, bucket_count) /\ PowerOfTwo(bucket_count)
    BY <1>1, EntryThere
<1>3. PICK i \in 0..(bucket_count - 1) :
          /\ buckets[i] = [key |-> home[p], proxy |-> p]
          /\ Live(buckets[i])
          /\ \E n \in Steps : Slot(home[p], n, bucket_count) = i
          /\ \A j \in 0..(bucket_count - 1) : buckets[j].key = home[p] => j = i
    BY <1>1, EntryThere
<1>4. DOMAIN buckets = 0..(bucket_count - 1) /\ home[p] \in Keys
    BY <1>1, <1>2, EntryThere DEF TableOK
<1>5. use_count \in [Proxies -> Nat] /\ use_count' \in [Proxies -> Nat]
    BY <1>1 DEF TypeOK
<1>6. CASE use_count[p] = 1
    <2>1. Remove(p)
        BY <1>3, <1>6 DEF Drop, LastReference, KeyAt
    <2>2. PICK n \in Steps :
              /\ KeyAt(home[p], n) = home[p]
              /\ buckets' = [buckets EXCEPT
                                ![Slot(home[p], n, bucket_count)] = Tombstone]
        BY <2>1 DEF Remove
    <2>3. Slot(home[p], n, bucket_count) = i
        <3>1. n \in Nat /\ bucket_count \in Nat \ {0}
            BY <1>2 DEF Steps, TableOK
        <3>2. Slot(home[p], n, bucket_count) \in 0..(bucket_count - 1)
            BY <1>4, <3>1, SlotInTable, Zenon
        <3> QED
            BY <1>3, <2>2, <3>2 DEF KeyAt
    <2>4. buckets' = [buckets EXCEPT ![i] = Tombstone]
        BY <2>2, <2>3
    <2>5. home' = [home EXCEPT ![p] = NULL] /\ count' = count - 1
        BY <2>1 DEF Remove
    <2>6. TableOK(buckets', bucket_count) /\ More(buckets', buckets, -1)
        BY <1>2, <1>3, <2>4, RemoveKeepsTable, Zenon
    <2>7. CountExact' /\ count' \in Nat
        <3>1. count = Cardinality(LiveSlots(buckets))
            BY DEF CountExact, LiveSlots, Slots
        <3>2. Cardinality(LiveSlots(buckets')) \in Nat
            BY <2>6, LiveSlotsFinite DEF TableOK
        <3>3. count' = Cardinality(LiveSlots(buckets'))
            BY <2>5, <2>6, <3>1 DEF More, TypeOK
        <3> QED
            BY <3>2, <3>3 DEF CountExact, LiveSlots, Slots
    <2>8. \A j \in 0..(bucket_count - 1) :
              buckets'[j] = IF j = i THEN Tombstone ELSE buckets[j]
        BY <1>4, <2>4
    <2>9. TypeOK'
        <3>1. buckets' \in [0..(bucket_count' - 1) -> Bucket]
            BY <1>1, <2>6 DEF TableOK
        <3> QED
            BY <1>1, <1>5, <2>5, <2>7, <3>1 DEF TypeOK
    <2>10. ASSUME NEW j \in 0..(bucket_count - 1), Live(buckets'[j])
           PROVE  /\ use_count'[buckets'[j].proxy] > 0
                  /\ home'[buckets'[j].proxy] = buckets'[j].key
        <3>1. j # i /\ buckets'[j] = buckets[j] /\ Live(buckets[j])
            BY <2>8, <2>10 DEF Tombstone, Live
        <3>2. /\ buckets[j].proxy \in Proxies
              /\ use_count[buckets[j].proxy] > 0
              /\ home[buckets[j].proxy] = buckets[j].key
            BY <1>2, <1>4, <3>1 DEF TableOK, EntriesReferenced, Slots
        <3>3. buckets[j].proxy # p
            BY <1>3, <3>1, <3>2
        <3> QED
            BY <1>1, <1>5, <2>5, <3>1, <3>2, <3>3 DEF TypeOK
    <2>11. ASSUME NEW q \in Proxies, use_count'[q] > 0
           PROVE  \E j \in 0..(bucket_count - 1) :
                      buckets'[j] = [key |-> home'[q], proxy |-> q]
        <3>1. q # p /\ use_count[q] > 0 /\ home'[q] = home[q]
            BY <1>1, <1>5, <1>6, <2>5, <2>11 DEF TypeOK
        <3>2. PICK j \in 0..(bucket_count - 1) :
                  buckets[j] = [key |-> home[q], proxy |-> q]
            BY <1>4, <3>1 DEF EntriesReferenced, Slots
        <3>3. j # i
            BY <1>3, <3>1, <3>2
        <3> QED
            BY <2>8, <3>1, <3>2, <3>3
    <2>12. EntriesReferenced'
        <3>1. DOMAIN buckets' = 0..(bucket_count - 1)
            BY <2>6 DEF TableOK
        <3> QED
            BY <2>10, <2>11, <3>1 DEF EntriesReferenced, Slots
    <2>13. HomesOK'
        BY <1>1, <1>5, <1>6, <2>5 DEF HomesOK, TypeOK
    <2> QED
        BY <1>1, <1>2, <2>6, <2>7, <2>9, <2>12, <2>13
        DEF AllocatedOK, CallOK, RehashOK
<1>7. CASE use_count[p] # 1
    <2>1. UNCHANGED <<buckets, count, home>>
        BY <1>7 DEF Drop, LastReference
    <2>2. \A q \in Proxies : use_count'[q] > 0 <=> use_count[q] > 0
        BY <1>1, <1>5, <1>7
    <2>3. TypeOK'
        BY <1>1, <1>5, <2>1 DEF TypeOK
    <2>4. EntriesReferenced'
        BY <1>2, <1>4, <2>1, <2>2 DEF EntriesReferenced, Slots, TableOK
    <2> QED
        BY <1>1, <1>2, <2>1, <2>2, <2>3, <2>4
        DEF AllocatedOK, CallOK, CountExact, Slots, HomesOK, RehashOK
<1> QED
    BY <1>6, <1>7

\* A growth starts with an empty table, larger than the old one.
LEMMA GrowPreservesInv ==
    ASSUME Inv, Grow
    PROVE  Inv'
<1> USE DEF Inv
<1>1. /\ pc = "find" /\ pc' = "rehash" /\ NewCount > bucket_count
      /\ new_buckets' = EmptyTable(NewCount) /\ cursor' = 0
      /\ UNCHANGED <<buckets, bucket_count, count, use_count, home, key,
                     increment, result>>
    BY DEF Grow, arguments
<1>2. /\ TableOK(buckets, bucket_count) /\ bucket_count \in Nat \ {0}
      /\ NewCount \in Nat \ {0} /\ NewCount' = NewCount
    BY <1>1, TableThere, NewCountOK DEF NewCount
<1>3. /\ TableOK(new_buckets', NewCount)
      /\ LiveSlots(new_buckets') = {}
      /\ \A j \in 0..(NewCount - 1) : new_buckets'[j] = Empty
    BY <1>1, <1>2, EmptyTableOK
<1>4. Moved' = {}
    BY <1>1 DEF Moved
<1>5. RehashOK'
    <2>1. \A j \in 0..(NewCount - 1) :
              new_buckets'[j].key # DELETED /\ ~Live(new_buckets'[j])
        BY <1>3, HashTableAssumption DEF Empty, Live
    <2> QED
        BY <1>1, <1>2, <1>3, <1>4, <2>1 DEF RehashOK
<1>6. TypeOK'
    BY <1>1, <1>2, <1>3 DEF TypeOK, TableOK
<1>7. CountExact' /\ EntriesReferenced'
    BY <1>1 DEF CountExact, EntriesReferenced, Slots
<1> QED
    BY <1>1, <1>5, <1>6, <1>7 DEF AllocatedOK, CallOK, HomesOK

\* What a growth has moved is part of the old table.
LEMMA MovedFinite ==
    ASSUME Inv, pc = "rehash"
    PROVE  /\ IsFiniteSet(Moved)
           /\ Cardinality(Moved) \in Nat
           /\ Cardinality(Moved) <= cursor
<1>1. cursor \in Nat
    BY DEF Inv, TypeOK
<1>2. IsFiniteSet(0..(cursor - 1)) /\ Cardinality(0..(cursor - 1)) = cursor
    BY <1>1, FS_Interval
<1>3. Moved \subseteq 0..(cursor - 1)
    BY DEF Moved
<1> QED
    BY <1>2, <1>3, FS_Subset, FS_CardinalityType

\* A live bucket goes to the end of its path in the new table, which has no entry
\* for its key yet.
LEMMA MovePreservesInv ==
    ASSUME Inv, Move
    PROVE  Inv'
<1> USE DEF Inv
<1> DEFINE b == buckets[cursor]
<1>1. /\ pc = "rehash" /\ cursor < bucket_count
      /\ UNCHANGED <<buckets, bucket_count, count, use_count, home, key, increment>>
    BY DEF Move, arguments
<1>2. /\ TableOK(buckets, bucket_count) /\ PowerOfTwo(bucket_count)
      /\ bucket_count \in Nat \ {0}
      /\ cursor \in 0..(bucket_count - 1) /\ b \in Bucket
      /\ NewCount \in Nat \ {0} /\ NewCount' = NewCount
    <2>1. cursor \in 0..(bucket_count - 1)
        BY <1>1, TableThere DEF TypeOK
    <2> QED
        BY <1>1, <2>1, TableThere, NewCountOK DEF NewCount, RehashOK
<1>3. CASE Live(b) /\ ~CanPlace(b)
    BY <1>1, <1>3, GivingUpPreservesInv DEF Move, growth
<1>4. CASE ~Live(b)
    <2>1. /\ cursor' = cursor + 1
          /\ UNCHANGED <<new_buckets, pc, result>>
        BY <1>4 DEF Move
    <2>2. Moved' = Moved
        BY <1>1, <1>2, <1>4, <2>1 DEF Moved
    <2>3. RehashOK'
        BY <1>1, <1>2, <2>1, <2>2 DEF RehashOK
    <2>4. TypeOK'
        BY <1>1, <1>2, <2>1 DEF TypeOK
    <2>5. CountExact' /\ EntriesReferenced'
        BY <1>1 DEF CountExact, EntriesReferenced, Slots
    <2> QED
        BY <1>1, <1>2, <2>1, <2>3, <2>4, <2>5 DEF AllocatedOK, CallOK, HomesOK
<1>5. CASE Live(b) /\ CanPlace(b)
    <2>1. /\ cursor' = cursor + 1
          /\ UNCHANGED <<pc, result>>
        BY <1>5 DEF Move
    <2>2. PICK n \in 0..(NewCount - 1) :
              /\ PlacedAt(b, n)
              /\ new_buckets' = [new_buckets EXCEPT ![Slot(b.key, n, NewCount)] = b]
        BY <1>5 DEF Move
    <2>3. /\ b.key \in Keys /\ b.proxy \in Proxies
          /\ b = [key |-> b.key, proxy |-> b.proxy]
        BY <1>2, <1>5 DEF TableOK, Bucket, Live
    <2>4. Absent(new_buckets, NewCount, b.key)
        <3> SUFFICES ASSUME NEW j \in 0..(NewCount - 1), new_buckets[j].key = b.key
                     PROVE  FALSE
            BY DEF Absent
        <3>1. Live(new_buckets[j])
            BY <1>5 DEF Live
        <3>2. PICK i \in Moved : buckets[i] = new_buckets[j]
            BY <1>1, <3>1 DEF RehashOK
        <3>3. i \in 0..(bucket_count - 1) /\ i # cursor
            BY <1>2 DEF Moved
        <3> QED
            BY <1>2, <1>5, <3>2, <3>3 DEF TableOK
    <2>5. FreeOnPath(new_buckets, NewCount, b.key, n)
        <3>1. ASSUME NEW m \in 0..(n - 1)
              PROVE  Live(new_buckets[Slot(b.key, m, NewCount)])
            <4>1. m \in Nat
                OBVIOUS
            <4>2. Slot(b.key, m, NewCount) \in 0..(NewCount - 1)
                BY <1>2, <2>3, <4>1, SlotInTable, Zenon
            <4> QED
                BY <1>1, <2>2, <4>2 DEF RehashOK, PlacedAt, Live
        <3> QED
            BY <2>2, <3>1 DEF FreeOnPath, PlacedAt, Live
    <2>6. PICK s : /\ s = Slot(b.key, n, NewCount)
                   /\ new_buckets' = [new_buckets EXCEPT ![s] =
                                         [key |-> b.key, proxy |-> b.proxy]]
        BY <2>2, <2>3
    <2>7. TableOK(new_buckets, NewCount)
        BY <1>1 DEF RehashOK
    <2>8. TableOK(new_buckets', NewCount) /\ More(new_buckets', new_buckets, 1)
        <3> HIDE DEF b
        <3> QED
            BY <2>3, <2>4, <2>5, <2>6, <2>7, InsertKeepsTable, Zenon
    <2>9. /\ s \in 0..(NewCount - 1) /\ ~Live(new_buckets[s])
          /\ \A j \in 0..(NewCount - 1) :
                new_buckets'[j] = IF j = s THEN b ELSE new_buckets[j]
        <3>1. n \in Nat
            OBVIOUS
        <3>2. s \in 0..(NewCount - 1)
            BY <1>2, <2>3, <2>6, <3>1, SlotInTable, Zenon
        <3> QED
            BY <2>2, <2>5, <2>6, <2>7, <3>2 DEF TableOK, FreeOnPath
    <2>10. Moved' = Moved \cup {cursor} /\ cursor \notin Moved
        BY <1>1, <1>2, <1>5, <2>1 DEF Moved
    <2>11. Cardinality(Moved') = Cardinality(Moved) + 1
        BY <1>1, <2>10, MovedFinite, FS_AddElement
    <2>12. RehashOK'
        <3>1. Cardinality(LiveSlots(new_buckets')) = Cardinality(Moved')
            BY <1>1, <2>8, <2>11 DEF RehashOK, More
        <3>2. ASSUME NEW j \in 0..(NewCount - 1)
              PROVE  /\ new_buckets'[j].key # DELETED
                     /\ Live(new_buckets'[j]) =>
                           \E i \in Moved' : buckets[i] = new_buckets'[j]
            BY <1>1, <1>5, <2>9, <2>10 DEF RehashOK, Live
        <3>3. ASSUME NEW i \in Moved'
              PROVE  \E j \in 0..(NewCount - 1) : new_buckets'[j] = buckets[i]
            <4>1. CASE i = cursor
                BY <2>9, <4>1
            <4>2. CASE i # cursor
                <5>1. i \in Moved
                    BY <2>10, <4>2
                <5>2. PICK j \in 0..(NewCount - 1) : new_buckets[j] = buckets[i]
                    BY <1>1, <5>1 DEF RehashOK
                <5>3. j # s
                    BY <2>9, <5>1, <5>2 DEF Moved
                <5> QED
                    BY <2>9, <5>2, <5>3
            <4> QED
                BY <4>1, <4>2
        <3> QED
            BY <1>1, <1>2, <2>8, <3>1, <3>2, <3>3 DEF RehashOK
    <2>13. TypeOK'
        BY <1>1, <1>2, <2>1, <2>8 DEF TypeOK, TableOK
    <2>14. CountExact' /\ EntriesReferenced'
        BY <1>1 DEF CountExact, EntriesReferenced, Slots
    <2> QED
        BY <1>1, <1>2, <2>1, <2>12, <2>13, <2>14 DEF AllocatedOK, CallOK, HomesOK
<1> QED
    BY <1>3, <1>4, <1>5

\* Once every bucket has moved, the new table has the entries of the old one.
LEMMA AllMoved ==
    ASSUME Inv, pc = "rehash", cursor = bucket_count
    PROVE  /\ TableOK(new_buckets, NewCount)
           /\ \A j \in 0..(NewCount - 1) : Live(new_buckets[j]) =>
                 \E i \in 0..(bucket_count - 1) : buckets[i] = new_buckets[j]
           /\ \A i \in 0..(bucket_count - 1) : Live(buckets[i]) =>
                 \E j \in 0..(NewCount - 1) : new_buckets[j] = buckets[i]
           /\ count = Cardinality(LiveSlots(new_buckets))
<1> USE DEF Inv
<1>1. DOMAIN buckets = 0..(bucket_count - 1)
    BY TableThere
<1>2. Moved = LiveSlots(buckets)
    BY <1>1 DEF Moved, LiveSlots
<1> QED
    BY <1>1, <1>2 DEF RehashOK, CountExact, LiveSlots, Slots

\* The new table takes over.
LEMMA SwapPreservesInv ==
    ASSUME Inv, Swap
    PROVE  Inv'
<1> USE DEF Inv
<1>1. /\ pc = "rehash" /\ cursor = bucket_count /\ pc' = "find" /\ cursor' = 0
      /\ buckets' = new_buckets /\ bucket_count' = NewCount
      /\ UNCHANGED <<count, use_count, home, key, increment, result>>
    BY DEF Swap, arguments
<1>2. /\ TableOK(new_buckets, NewCount)
      /\ DOMAIN new_buckets = 0..(NewCount - 1)
      /\ \A j \in 0..(NewCount - 1) : Live(new_buckets[j]) =>
            \E i \in 0..(bucket_count - 1) : buckets[i] = new_buckets[j]
      /\ \A i \in 0..(bucket_count - 1) : Live(buckets[i]) =>
            \E j \in 0..(NewCount - 1) : new_buckets[j] = buckets[i]
      /\ count = Cardinality(LiveSlots(new_buckets))
    BY <1>1, AllMoved DEF TableOK
<1>3. DOMAIN buckets = 0..(bucket_count - 1)
    BY <1>1, TableThere
<1>4. AllocatedOK'
    BY <1>1, <1>2, NewCountOK DEF AllocatedOK
<1>5. CountExact'
    BY <1>1, <1>2 DEF CountExact, LiveSlots, Slots
<1>6. EntriesReferenced'
    <2>1. ASSUME NEW j \in 0..(NewCount - 1), Live(new_buckets[j])
          PROVE  /\ use_count[new_buckets[j].proxy] > 0
                 /\ home[new_buckets[j].proxy] = new_buckets[j].key
        <3>1. PICK i \in 0..(bucket_count - 1) : buckets[i] = new_buckets[j]
            BY <1>2, <2>1
        <3> QED
            BY <1>3, <2>1, <3>1 DEF EntriesReferenced, Slots
    <2>2. ASSUME NEW p \in Proxies, use_count[p] > 0
          PROVE  \E j \in 0..(NewCount - 1) :
                     new_buckets[j] = [key |-> home[p], proxy |-> p]
        <3>1. PICK i \in 0..(bucket_count - 1) :
                  buckets[i] = [key |-> home[p], proxy |-> p]
            BY <1>3, <2>2 DEF EntriesReferenced, Slots
        <3>2. Live(buckets[i])
            BY <2>2, <3>1, HashTableAssumption DEF HomesOK, Live
        <3> QED
            BY <1>2, <3>1, <3>2
    <2> QED
        BY <1>1, <1>2, <2>1, <2>2 DEF EntriesReferenced, Slots
<1>7. TypeOK'
    BY <1>1, <1>2 DEF TypeOK, TableOK
<1> QED
    BY <1>1, <1>4, <1>5, <1>6, <1>7 DEF CallOK, HomesOK, RehashOK

\* Every step keeps Inv.
LEMMA NextPreservesInv == Inv /\ [Next]_vars => Inv'
<1> SUFFICES ASSUME Inv, [Next]_vars PROVE Inv'
    OBVIOUS
<1>1. ASSUME NEW k \in Keys, NEW inc \in BOOLEAN, Begin(k, inc) PROVE Inv'
    BY <1>1, BeginPreservesInv
<1>2. ASSUME NEW p \in Proxies, Drop(p) PROVE Inv'
    BY <1>2, DropPreservesInv
<1>3. ASSUME FindNothing \/ CreateFails \/ GrowFails PROVE Inv'
    BY <1>3, GivingUpPreservesInv
    DEF FindNothing, CreateFails, GrowFails, arguments, growth
<1>4. ASSUME UNCHANGED vars PROVE Inv'
    <2>1. UNCHANGED <<buckets, bucket_count, count, use_count, home, pc, key,
                      increment, new_buckets, cursor, result>>
        BY <1>4 DEF vars, arguments, growth
    <2>2. TypeOK' /\ RehashOK'
        BY <2>1 DEF Inv, TypeOK, RehashOK, NewCount, Moved
    <2> QED
        BY <2>1, <2>2
        DEF Inv, AllocatedOK, CallOK, CountExact, EntriesReferenced, Slots, HomesOK
<1> QED
    BY <1>1, <1>2, <1>3, <1>4, FindPreservesInv, CreatePreservesInv,
       GrowPreservesInv, MovePreservesInv, SwapPreservesInv
    DEF Next, Step

\* Inv is an invariant of the specification.
LEMMA InvHolds == Spec => []Inv
    BY InitInv, NextPreservesInv, PTL DEF Spec

-------------------------------------------------------------------------------
(* The invariants the runs check *)

\* The table always has its types: count never falls below zero, and no step
\* leaves a table of another size than bucket_count.
THEOREM TypeCorrect == Spec => []TypeOK
<1>1. Inv => TypeOK
    BY DEF Inv
<1> QED
    BY <1>1, InvHolds, PTL

\* However entries were inserted, removed, reused and rehashed, the probe for a
\* key comes to its entry before it comes to a slot never used.
THEOREM EntriesFound == Spec => []Findable
<1>1. Inv => Findable
    <2> SUFFICES ASSUME Inv, NEW i \in DOMAIN buckets, Live(buckets[i])
                 PROVE  \E n \in Steps :
                            /\ Slot(buckets[i].key, n, bucket_count) = i
                            /\ StopsAt(buckets[i].key, n)
        BY DEF Findable, Slots
    <2>1. TableOK(buckets, bucket_count)
        BY NoTable DEF Inv, AllocatedOK
    <2>2. i \in 0..(bucket_count - 1)
        BY <2>1 DEF TableOK
    <2>3. OnPath(buckets, bucket_count, i)
        BY <2>1, <2>2 DEF TableOK
    <2> QED
        BY <2>3 DEF OnPath, StopsAt, KeyAt, Steps
<1> QED
    BY <1>1, InvHolds, PTL

\* No object ever has two entries.
THEOREM KeysUnique == Spec => []NoDuplicateKey
<1>1. Inv => NoDuplicateKey
    BY NoTable DEF Inv, AllocatedOK, TableOK, NoDuplicateKey, Slots
<1> QED
    BY <1>1, InvHolds, PTL

\* count is the number of live buckets.
THEOREM CountCorrect == Spec => []CountExact
<1>1. Inv => CountExact
    BY DEF Inv
<1> QED
    BY <1>1, InvHolds, PTL

\* Entries and references go together: a proxy with references can be found, and
\* one without is not in the table.
THEOREM ReferencesCorrect == Spec => []EntriesReferenced
<1>1. Inv => EntriesReferenced
    BY DEF Inv
<1> QED
    BY <1>1, InvHolds, PTL

\* A bucket that has yet to move finds a place: the new table is larger than what
\* it holds, and triangular probing reaches its free slots.
LEMMA PlaceFound == Inv => RehashPlaces
<1> SUFFICES ASSUME Inv, pc = "rehash", cursor < bucket_count,
                    Live(buckets[cursor])
             PROVE  CanPlace(buckets[cursor])
    BY DEF RehashPlaces
<1>1. /\ bucket_count \in Nat \ {0} /\ cursor \in Nat
      /\ NewCount \in Nat /\ PowerOfTwo(NewCount) /\ NewCount > bucket_count
      /\ TableOK(new_buckets, NewCount)
      /\ Cardinality(LiveSlots(new_buckets)) <= cursor
    BY TableThere, NewCountOK, MovedFinite DEF Inv, RehashOK, TypeOK
<1>2. buckets[cursor].key \in Keys
    <2>1. cursor \in 0..(bucket_count - 1)
        BY <1>1
    <2> QED
        BY <2>1, TableThere DEF Bucket, Live
<1>3. PICK j \in 0..(NewCount - 1) : ~Live(new_buckets[j])
    <2>1. Cardinality(0..(NewCount - 1)) = NewCount
        BY <1>1, FS_Interval
    <2>2. LiveSlots(new_buckets) # 0..(NewCount - 1)
        BY <1>1, <2>1
    <2>3. LiveSlots(new_buckets) \subseteq 0..(NewCount - 1)
        BY <1>1 DEF TableOK, LiveSlots
    <2> QED
        BY <1>1, <2>2, <2>3 DEF TableOK, LiveSlots
<1>4. new_buckets[j].key = NULL
    BY <1>3 DEF Inv, RehashOK, Live
<1>5. ReachesFree(new_buckets, NewCount, buckets[cursor].key)
    BY <1>1, <1>2, <1>3, <1>4, FreeSlotFound, Zenon
<1> QED
    BY <1>5 DEF CanPlace, PlacedAt, ReachesFree

\* The branch of hash_table_grow that gives a rehash up is dead: the doubled
\* table has a free slot and triangular probing reaches it.
THEOREM RehashNeverFails == Spec => []RehashPlaces
    BY PlaceFound, InvHolds, PTL

-------------------------------------------------------------------------------
(* Calls end *)

\* One size less is worth w steps, and none is worth none.
LEMMA SizesCount ==
    ASSUME NEW w \in Nat, NEW d \in Nat, NEW e \in Nat, e < d
    PROVE  /\ d * w \in Nat /\ e * w \in Nat
           /\ e * w + w <= d * w
<1>1. PICK f \in Nat : d = (e + 1) + f
    <2>1. d - (e + 1) \in Nat /\ d = (e + 1) + (d - (e + 1))
        OBVIOUS
    <2> QED
        BY <2>1
<1>2. /\ d * w = (e + 1) * w + f * w
      /\ (e + 1) * w = e * w + w
    BY <1>1
<1>3. e * w \in Nat /\ f * w \in Nat
    OBVIOUS
<1> QED
    BY <1>2, <1>3

\* While a table can grow, the sizes to come are worth more steps than a rehash
\* takes.
LEMMA GrowthCounts ==
    ASSUME Inv, pc # "idle", NewCount > bucket_count
    PROVE  /\ BUCKETS_MAX \in Nat
           /\ bucket_count \in Nat \ {0} /\ bucket_count < BUCKETS_MAX
           /\ NewCount \in Nat /\ NewCount <= BUCKETS_MAX
           /\ (BUCKETS_MAX - bucket_count) * (BUCKETS_MAX + 2) \in Nat
           /\ (BUCKETS_MAX - NewCount) * (BUCKETS_MAX + 2) \in Nat
           /\ (BUCKETS_MAX - NewCount) * (BUCKETS_MAX + 2) + (BUCKETS_MAX + 2)
                <= (BUCKETS_MAX - bucket_count) * (BUCKETS_MAX + 2)
<1>1. /\ BUCKETS_MAX \in Nat
      /\ bucket_count \in Nat \ {0} /\ bucket_count < BUCKETS_MAX
      /\ NewCount \in Nat /\ NewCount <= BUCKETS_MAX
    BY TableThere, NewCountOK, HashTableAssumption
<1>2. PICK w \in Nat, d \in Nat, e \in Nat :
          /\ w = BUCKETS_MAX + 2
          /\ d = BUCKETS_MAX - bucket_count
          /\ e = BUCKETS_MAX - NewCount
    BY <1>1
<1>3. e < d
    BY <1>1, <1>2
<1>4. d * w \in Nat /\ e * w \in Nat /\ e * w + w <= d * w
    BY <1>3, SizesCount
<1> QED
    BY <1>1, <1>2, <1>4

\* Every step of find_or_create returns or brings the call closer to a table of
\* the maximal size: its retry loop after a growth cannot run for ever.
THEOREM CallsProgress == Spec => CallProgress
<1> DEFINE Progress == pc # "idle" => pc' = "idle" \/ (Rank' < Rank /\ Rank' >= 0)
<1>1. Inv /\ [Next]_vars => [Progress]_vars
    <2> SUFFICES ASSUME Inv, Next, pc # "idle", pc' # "idle"
                 PROVE  Rank' < Rank /\ Rank' >= 0
        OBVIOUS
    <2>1. Grow \/ Move \/ Swap
        BY DEF Next, Step, Begin, Drop, Find, FindNothing, Create, CreateFails,
               GrowFails, Return
    <2>2. CASE Grow
        BY <2>2, GrowthCounts DEF Grow, Rank
    <2>3. CASE Move
        <3>1. /\ pc = "rehash" /\ pc' = "rehash"
              /\ cursor < bucket_count /\ cursor' = cursor + 1
              /\ UNCHANGED bucket_count
            BY <2>3 DEF Move, Return
        <3>2. NewCount > bucket_count /\ cursor \in Nat
            BY <3>1 DEF Inv, RehashOK, TypeOK
        <3> QED
            BY <3>1, <3>2, GrowthCounts DEF Rank
    <2>4. CASE Swap
        <3>1. /\ pc = "rehash" /\ pc' = "find"
              /\ cursor = bucket_count /\ bucket_count' = NewCount
            BY <2>4 DEF Swap
        <3>2. NewCount > bucket_count
            BY <3>1 DEF Inv, RehashOK
        <3> QED
            BY <3>1, <3>2, GrowthCounts DEF Rank
    <2> QED
        BY <2>1, <2>2, <2>3, <2>4
<1> QED
    BY <1>1, InvHolds, PTL DEF Spec, CallProgress

-------------------------------------------------------------------------------
(* The table implements ProxyMap *)

\* ProxyOf, for any table.
Held(tab, k) ==
    LET E == {i \in DOMAIN tab : tab[i].key = k}
    IN  IF E = {} THEN NULL ELSE tab[CHOOSE i \in E : TRUE].proxy

Maps(tab) == [k \in Keys |-> Held(tab, k)]

\* A key without an entry holds NULL.
LEMMA HeldNone ==
    ASSUME NEW tab, NEW k, \A i \in DOMAIN tab : tab[i].key # k
    PROVE  Held(tab, k) = NULL
    BY DEF Held

\* In a table without duplicates it is the proxy of the entry.
LEMMA HeldIs ==
    ASSUME NEW size, NEW tab, TableOK(tab, size),
           NEW i \in 0..(size - 1), tab[i].key \in Keys
    PROVE  Held(tab, tab[i].key) = tab[i].proxy
<1>1. Live(tab[i]) /\ DOMAIN tab = 0..(size - 1)
    BY HashTableAssumption DEF Live, TableOK
<1> DEFINE E == {j \in DOMAIN tab : tab[j].key = tab[i].key}
<1>2. E = {i}
    BY <1>1 DEF TableOK
<1>3. Held(tab, tab[i].key) = IF E = {} THEN NULL ELSE tab[CHOOSE j \in E : TRUE].proxy
    BY DEF Held
<1> HIDE DEF E
<1>4. (CHOOSE j \in E : TRUE) = i
    BY <1>2
<1> QED
    BY <1>2, <1>3, <1>4

\* What ProxyMap sees of the state.
LEMMA TableIs ==
    /\ [k \in Keys |-> ProxyOf(k)] = Maps(buckets)
    /\ [k \in Keys |-> ProxyOf(k)]' = Maps(buckets')
    BY DEF Maps, Held, ProxyOf, Entry, Slots

\* A table with no entry maps no key.
LEMMA MapsNothing ==
    ASSUME NEW tab, \A i \in DOMAIN tab : tab[i].key \notin Keys
    PROVE  Maps(tab) = [k \in Keys |-> NULL]
<1>1. \A k \in Keys : Held(tab, k) = NULL
    BY HeldNone
<1> QED
    BY <1>1 DEF Maps

\* Two tables with the same entries are the same map.
LEMMA SameEntriesSameMap ==
    ASSUME NEW size, NEW tab, TableOK(tab, size),
           NEW n, NEW new, TableOK(new, n),
           \A i \in 0..(size - 1) : Live(tab[i]) =>
               \E j \in 0..(n - 1) : new[j] = tab[i],
           \A j \in 0..(n - 1) : Live(new[j]) =>
               \E i \in 0..(size - 1) : tab[i] = new[j]
    PROVE  Maps(new) = Maps(tab)
<1>1. DOMAIN tab = 0..(size - 1) /\ DOMAIN new = 0..(n - 1)
    BY DEF TableOK
<1>2. ASSUME NEW k \in Keys
      PROVE  Held(new, k) = Held(tab, k)
    <2>1. CASE \E i \in 0..(size - 1) : tab[i].key = k
        <3>1. PICK i \in 0..(size - 1) : tab[i].key = k
            BY <2>1
        <3>2. Live(tab[i])
            BY <3>1, HashTableAssumption DEF Live
        <3>3. PICK j \in 0..(n - 1) : new[j] = tab[i]
            BY <3>2
        <3>4. Held(tab, k) = tab[i].proxy
            BY <3>1, HeldIs
        <3>5. Held(new, k) = new[j].proxy
            BY <3>1, <3>3, HeldIs
        <3> QED
            BY <3>3, <3>4, <3>5
    <2>2. CASE \A i \in 0..(size - 1) : tab[i].key # k
        <3>1. \A j \in 0..(n - 1) : new[j].key # k
            BY <2>2, HashTableAssumption DEF Live
        <3>2. /\ \A i \in DOMAIN tab : tab[i].key # k
              /\ \A i \in DOMAIN new : new[i].key # k
            BY <1>1, <2>2, <3>1
        <3>3. Held(tab, k) = NULL /\ Held(new, k) = NULL
            BY <3>2, HeldNone
        <3> QED
            BY <3>3
    <2> QED
        BY <2>1, <2>2
<1> QED
    BY <1>2 DEF Maps

\* Writing slot s, which held the key k or none, changes the map at k only.
LEMMA WriteMaps ==
    ASSUME NEW size, NEW tab, TableOK(tab, size),
           NEW new, TableOK(new, size), NEW s \in 0..(size - 1), NEW k \in Keys,
           \A j \in 0..(size - 1) : j # s => new[j] = tab[j],
           tab[s].key \notin Keys \ {k}, new[s].key \notin Keys \ {k}
    PROVE  Maps(new) = [Maps(tab) EXCEPT ![k] = Held(new, k)]
<1>1. DOMAIN tab = 0..(size - 1) /\ DOMAIN new = 0..(size - 1)
    BY DEF TableOK
<1>2. ASSUME NEW j \in Keys \ {k}
      PROVE  Held(new, j) = Held(tab, j)
    <2>1. CASE \E i \in 0..(size - 1) : tab[i].key = j
        <3>1. PICK i \in 0..(size - 1) : tab[i].key = j
            BY <2>1
        <3>2. new[i] = tab[i]
            BY <3>1
        <3>3. Held(tab, j) = tab[i].proxy
            BY <3>1, HeldIs
        <3>4. Held(new, j) = new[i].proxy
            BY <3>1, <3>2, HeldIs
        <3> QED
            BY <3>2, <3>3, <3>4
    <2>2. CASE \A i \in 0..(size - 1) : tab[i].key # j
        <3>1. \A i \in 0..(size - 1) : new[i].key # j
            BY <2>2
        <3>2. /\ \A i \in DOMAIN tab : tab[i].key # j
              /\ \A i \in DOMAIN new : new[i].key # j
            BY <1>1, <2>2, <3>1
        <3>3. Held(tab, j) = NULL /\ Held(new, j) = NULL
            BY <3>2, HeldNone
        <3> QED
            BY <3>3
    <2> QED
        BY <2>1, <2>2
<1> QED
    BY <1>2 DEF Maps

\* The map holds no proxy without references.
LEMMA HeldReferenced ==
    ASSUME Inv, NEW k \in Keys, NEW p \in Proxies, use_count[p] = 0
    PROVE  Held(buckets, k) # p
<1> SUFFICES ASSUME Held(buckets, k) = p PROVE FALSE
    OBVIOUS
<1>1. PICK i \in DOMAIN buckets : buckets[i].key = k
    <2>1. p # NULL
        BY HashTableAssumption
    <2> QED
        BY <2>1, HeldNone
<1>2. TableOK(buckets, bucket_count) /\ i \in 0..(bucket_count - 1)
    BY <1>1, NoTable DEF Inv, AllocatedOK, TableOK
<1>3. buckets[i].proxy = p /\ Live(buckets[i])
    BY <1>1, <1>2, HeldIs, HashTableAssumption DEF Live
<1> QED
    BY <1>1, <1>3 DEF Inv, EntriesReferenced, Slots

\* The zeroed table is the empty map.
LEMMA InitMaps == Init => Map!Init
<1> SUFFICES ASSUME Init PROVE Map!Init
    OBVIOUS
<1>1. Maps(buckets) = [k \in Keys |-> NULL]
    BY NoTable, MapsNothing DEF Init
<1> QED
    BY <1>1, TableIs DEF Init, Map!Init

\* A key that a probe does not find has no entry.
LEMMA ExhaustedHoldsNone ==
    ASSUME Inv, pc # "idle", Exhausted(key)
    PROVE  Maps(buckets)[key] = NULL
<1>1. TableOK(buckets, bucket_count) /\ key \in Keys
    BY TableThere
<1>2. ASSUME NEW i \in DOMAIN buckets, buckets[i].key = key
      PROVE  FALSE
    <2>1. i \in 0..(bucket_count - 1) /\ Live(buckets[i])
        BY <1>1, <1>2, HashTableAssumption DEF TableOK, Live
    <2>2. PICK n \in 0..(bucket_count - 1) : Slot(buckets[i].key, n, bucket_count) = i
        BY <1>1, <2>1 DEF TableOK, OnPath
    <2> QED
        BY <1>2, <2>2 DEF Exhausted, Steps, KeyAt
<1> QED
    BY <1>1, <1>2, HeldNone DEF Maps

\* Nor has one whose probe ends at a slot never used.
LEMMA MissedHoldsNone ==
    ASSUME Inv, pc # "idle", NEW n, StopsAt(key, n), KeyAt(key, n) = NULL
    PROVE  Maps(buckets)[key] = NULL
<1>1. TableOK(buckets, bucket_count) /\ key \in Keys
    BY TableThere
<1>2. Absent(buckets, bucket_count, key)
    BY <1>1, NotInTable
<1>3. \A i \in DOMAIN buckets : buckets[i].key # key
    BY <1>1, <1>2 DEF Absent, TableOK
<1> QED
    BY <1>1, <1>3, HeldNone DEF Maps

\* A call that gives up: a waiter may, a notifier only on a key without an entry.
LEMMA GivingUpMaps ==
    ASSUME pc # "idle", Return(NULL), UNCHANGED <<buckets, use_count, arguments>>,
           increment \/ Maps(buckets)[key] = NULL,
           increment \in BOOLEAN
    PROVE  Map!Next
<1>1. CASE increment
    <2>1. Map!AcquireFails
        BY TableIs DEF Return, Map!AcquireFails
    <2> QED
        BY <1>1, <2>1 DEF Return, arguments, Map!Answer, Map!Return, Map!Next
<1>2. CASE ~increment
    <2>1. Map!Lookup(key)
        BY <1>2, TableIs DEF Return, Map!Lookup
    <2> QED
        BY <1>2, <2>1 DEF Return, arguments, Map!Answer, Map!Return, Map!Next
<1> QED
    BY <1>1, <1>2

\* The steps that return without a proxy.
LEMMA NothingMaps ==
    ASSUME Inv, FindNothing \/ CreateFails \/ GrowFails
    PROVE  Map!Next
<1>1. /\ pc # "idle" /\ Return(NULL) /\ increment \in BOOLEAN
      /\ UNCHANGED <<buckets, use_count, arguments>>
    BY DEF FindNothing, CreateFails, GrowFails, Inv, TypeOK
<1>2. increment \/ Maps(buckets)[key] = NULL
    <2>1. CASE FindNothing
        BY <1>1, <2>1, MissedHoldsNone DEF FindNothing
    <2>2. CASE CreateFails
        BY <2>2 DEF CreateFails
    <2>3. CASE GrowFails
        BY <1>1, <2>3, ExhaustedHoldsNone DEF GrowFails, MustGrow
    <2> QED
        BY <2>1, <2>2, <2>3
<1> QED
    BY <1>1, <1>2, GivingUpMaps

\* The entry, with the lazy allocation.
LEMMA BeginMaps ==
    ASSUME Inv, NEW k \in Keys, NEW inc \in BOOLEAN, Begin(k, inc)
    PROVE  Map!Next
<1>1. pc = "idle" /\ key' = k /\ increment' = inc /\ UNCHANGED use_count
    BY DEF Begin
<1>2. ASSUME pc' = "find", UNCHANGED result, Maps(buckets') = Maps(buckets)
      PROVE  Map!Call(k, inc)
    BY <1>1, <1>2, TableIs DEF Map!Call
<1>3. CASE UNCHANGED buckets /\ pc' = "find" /\ UNCHANGED result
    BY <1>2, <1>3 DEF Map!Next
<1>4. CASE buckets = EmptyTable(0)
    <2>1. Maps(buckets) = [j \in Keys |-> NULL]
        BY <1>4, NoTable, MapsNothing
    <2>2. CASE Return(NULL) /\ UNCHANGED buckets
        <3>1. Map!Answer(k, inc)
            BY <1>1, <2>1, <2>2, TableIs
            DEF Return, Map!Answer, Map!AcquireFails, Map!Lookup
        <3> QED
            BY <1>1, <2>2, <3>1 DEF Return, Map!Call, Map!Next
    <2>3. CASE /\ buckets' = EmptyTable(BUCKETS_INITIAL)
               /\ pc' = "find" /\ UNCHANGED result
        <3>1. \A i \in DOMAIN buckets' : buckets'[i].key \notin Keys
            BY <2>3, HashTableAssumption DEF EmptyTable, Empty
        <3>2. Maps(buckets') = [j \in Keys |-> NULL]
            BY <3>1, MapsNothing
        <3> QED
            BY <1>2, <2>1, <2>3, <3>2 DEF Map!Next
    <2> QED
        BY <1>3, <1>4, <2>2, <2>3 DEF Begin
<1> QED
    BY <1>3, <1>4 DEF Begin

\* A hit: a waiter acquires, a notifier looks up.
LEMMA FindMaps ==
    ASSUME Inv, Find
    PROVE  Map!Next
<1>1. PICK n \in Steps :
          /\ KeyAt(key, n) = key
          /\ result' = buckets[Slot(key, n, bucket_count)].proxy
          /\ use_count' = IF increment
                          THEN [use_count EXCEPT
                                   ![buckets[Slot(key, n, bucket_count)].proxy] = @ + 1]
                          ELSE use_count
    BY DEF Find, Return
<1>2. pc # "idle" /\ pc' = "idle" /\ UNCHANGED <<buckets, key, increment>>
    BY DEF Find, Return, arguments
<1>3. TableOK(buckets, bucket_count) /\ key \in Keys
    BY <1>2, TableThere
<1>4. PICK i \in 0..(bucket_count - 1) :
          i = Slot(key, n, bucket_count) /\ buckets[i].key = key
    <2>1. n \in Nat /\ bucket_count \in Nat \ {0}
        BY <1>3 DEF Steps, TableOK
    <2>2. Slot(key, n, bucket_count) \in 0..(bucket_count - 1)
        BY <1>3, <2>1, SlotInTable, Zenon
    <2> QED
        BY <1>1, <2>2 DEF KeyAt
<1>5. Held(buckets, key) = buckets[i].proxy /\ buckets[i].proxy \in Proxies
    <2>1. Held(buckets, key) = buckets[i].proxy
        BY <1>3, <1>4, HeldIs
    <2>2. buckets[i].proxy \in Proxies
        BY <1>3, <1>4, HashTableAssumption DEF TableOK, Live
    <2> QED
        BY <2>1, <2>2
<1>6. Maps(buckets)[key] = buckets[i].proxy /\ Maps(buckets)[key] # NULL
    BY <1>3, <1>5, HashTableAssumption DEF Maps
<1>7. CASE increment
    <2>1. Map!Acquire(key)
        BY <1>1, <1>2, <1>4, <1>6, <1>7, TableIs DEF Map!Acquire
    <2> QED
        BY <1>2, <1>7, <2>1 DEF Map!Answer, Map!Return, Map!Next
<1>8. CASE ~increment
    <2>1. Map!Lookup(key)
        BY <1>1, <1>2, <1>4, <1>6, <1>8, TableIs DEF Map!Lookup
    <2> QED
        BY <1>2, <1>8, <2>1 DEF Map!Answer, Map!Return, Map!Next
<1> QED
    BY <1>7, <1>8 DEF Inv, TypeOK

\* A miss that inserts gives a key that had none a proxy that no key has.
LEMMA CreateMaps ==
    ASSUME Inv, Create
    PROVE  Map!Next
<1>1. PICK n \in Steps, m \in Steps, p \in Proxies :
          /\ StopsAt(key, n)
          /\ KeyAt(key, n) = NULL
          /\ InsertsAt(key, n, m)
          /\ use_count[p] = 0
          /\ buckets' = [buckets EXCEPT ![Slot(key, m, bucket_count)] =
                            [key |-> key, proxy |-> p]]
          /\ use_count' = [use_count EXCEPT ![p] = 1]
          /\ result' = p
    BY DEF Create, Return
<1>2. /\ pc # "idle" /\ pc' = "idle" /\ increment
      /\ UNCHANGED <<bucket_count, key, increment>>
    BY DEF Create, Return, arguments
<1>3. TableOK(buckets, bucket_count) /\ key \in Keys /\ bucket_count \in Nat \ {0}
    BY <1>2, TableThere
<1>4. Maps(buckets)[key] = NULL
    BY <1>1, <1>2, MissedHoldsNone
<1>5. PICK s \in 0..(bucket_count - 1) : s = Slot(key, m, bucket_count)
    <2>1. m \in Nat
        BY <1>3 DEF Steps
    <2> QED
        BY <1>3, <2>1, SlotInTable, Zenon
<1>6. buckets[s].key \notin Keys
    <2>1. ~Live(buckets[s])
        BY <1>1, <1>5 DEF InsertsAt, KeyAt, Live
    <2> QED
        BY <2>1, HashTableAssumption DEF Live
<1>7. /\ buckets'[s] = [key |-> key, proxy |-> p]
      /\ \A j \in 0..(bucket_count - 1) : j # s => buckets'[j] = buckets[j]
    BY <1>1, <1>3, <1>5 DEF TableOK
<1>8. TableOK(buckets', bucket_count)
    <2>1. Inv' /\ DOMAIN buckets' # {}
        BY <1>1, <1>3, CreatePreservesInv DEF TableOK
    <2> QED
        BY <1>2, <2>1, NoTable DEF Inv, AllocatedOK
<1>9. Held(buckets', key) = p
    <2>1. buckets'[s].key \in Keys
        BY <1>3, <1>7
    <2>2. Held(buckets', buckets'[s].key) = buckets'[s].proxy
        BY <1>8, <2>1, HeldIs
    <2> QED
        BY <1>7, <2>2
<1>10. Maps(buckets') = [Maps(buckets) EXCEPT ![key] = p]
    <2>1. buckets[s].key \notin Keys \ {key} /\ buckets'[s].key \notin Keys \ {key}
        BY <1>6, <1>7
    <2>2. Maps(buckets') = [Maps(buckets) EXCEPT ![key] = Held(buckets', key)]
        BY <1>3, <1>7, <1>8, <2>1, WriteMaps
    <2> QED
        BY <1>9, <2>2
<1>11. p \in Proxies \ {Maps(buckets)[k] : k \in Keys}
    <2>1. \A k \in Keys : Maps(buckets)[k] # p
        BY <1>1, HeldReferenced DEF Maps
    <2> QED
        BY <2>1
<1>12. Map!Acquire(key)
    <2> DEFINE T == [k \in Keys |-> ProxyOf(k)]
    <2>1. /\ T' = [T EXCEPT ![key] = p] /\ T[key] = NULL
          /\ p \in Proxies \ {T[j] : j \in Keys}
        BY <1>4, <1>10, <1>11, TableIs
    <2> QED
        BY <1>1, <2>1, Zenon DEF Map!Acquire
<1> QED
    BY <1>2, <1>12 DEF Map!Answer, Map!Return, Map!Next

\* The new table maps what the old one did.
LEMMA SwapMaps ==
    ASSUME Inv, Swap
    PROVE  UNCHANGED Map!mapVars
<1>1. /\ pc = "rehash" /\ cursor = bucket_count /\ buckets' = new_buckets
      /\ pc' = "find" /\ UNCHANGED <<use_count, key, increment, result>>
    BY DEF Swap, arguments
<1>2. Maps(new_buckets) = Maps(buckets)
    BY <1>1, AllMoved, TableThere, SameEntriesSameMap
<1> QED
    BY <1>1, <1>2, TableIs DEF Map!mapVars

\* A waiter that leaves drops its reference on the object's proxy, and the last
\* one takes the entry out.
LEMMA DropMaps ==
    ASSUME Inv, NEW p \in Proxies, Drop(p)
    PROVE  Map!Next
<1>1. /\ use_count[p] > 0
      /\ use_count' = [use_count EXCEPT ![p] = @ - 1]
      /\ pc = "idle" /\ UNCHANGED <<bucket_count, pc, key, increment, result>>
    BY DEF Drop, arguments
<1>2. TableOK(buckets, bucket_count) /\ home[p] \in Keys
    BY <1>1, EntryThere
<1>3. PICK i \in 0..(bucket_count - 1) :
          /\ buckets[i] = [key |-> home[p], proxy |-> p]
          /\ Live(buckets[i])
          /\ \E n \in Steps : Slot(home[p], n, bucket_count) = i
          /\ \A j \in 0..(bucket_count - 1) : buckets[j].key = home[p] => j = i
    BY <1>1, EntryThere
<1>4. Maps(buckets)[home[p]] = p /\ p # NULL
    <2>1. buckets[i].key \in Keys
        BY <1>2, <1>3
    <2>2. Held(buckets, buckets[i].key) = buckets[i].proxy
        BY <1>2, <2>1, HeldIs
    <2> QED
        BY <1>2, <1>3, <2>2, HashTableAssumption DEF Maps
<1>5. Maps(buckets') = IF use_count[p] = 1
                       THEN [Maps(buckets) EXCEPT ![home[p]] = NULL]
                       ELSE Maps(buckets)
    <2>1. CASE use_count[p] # 1
        BY <2>1 DEF Drop, LastReference
    <2>2. CASE use_count[p] = 1
        <3>1. PICK n \in Steps :
                  /\ KeyAt(home[p], n) = home[p]
                  /\ buckets' = [buckets EXCEPT
                                    ![Slot(home[p], n, bucket_count)] = Tombstone]
            BY <1>3, <2>2 DEF Drop, LastReference, KeyAt, Remove
        <3>2. Slot(home[p], n, bucket_count) = i
            <4>1. n \in Nat /\ bucket_count \in Nat \ {0}
                BY <1>2 DEF Steps, TableOK
            <4>2. Slot(home[p], n, bucket_count) \in 0..(bucket_count - 1)
                BY <1>2, <4>1, SlotInTable, Zenon
            <4> QED
                BY <1>3, <3>1, <4>2 DEF KeyAt
        <3>3. /\ DOMAIN buckets' = 0..(bucket_count - 1)
              /\ buckets'[i] = Tombstone
              /\ \A j \in 0..(bucket_count - 1) : j # i => buckets'[j] = buckets[j]
            BY <1>2, <3>1, <3>2 DEF TableOK
        <3>4. TableOK(buckets', bucket_count)
            <4>1. Inv' /\ DOMAIN buckets' # {}
                BY <3>3, DropPreservesInv
            <4> QED
                BY <1>1, <4>1, NoTable DEF Inv, AllocatedOK
        <3>5. Held(buckets', home[p]) = NULL
            <4>1. \A j \in DOMAIN buckets' : buckets'[j].key # home[p]
                BY <1>2, <1>3, <3>3, HashTableAssumption DEF Tombstone
            <4> QED
                BY <4>1, HeldNone
        <3>6. /\ buckets[i].key \notin Keys \ {home[p]}
              /\ buckets'[i].key \notin Keys \ {home[p]}
            BY <1>3, <3>3, HashTableAssumption DEF Tombstone
        <3>7. Maps(buckets') = [Maps(buckets) EXCEPT ![home[p]] = Held(buckets', home[p])]
            <4>1. PICK k \in Keys : k = home[p]
                BY <1>2
            <4>2. buckets[i].key \notin Keys \ {k} /\ buckets'[i].key \notin Keys \ {k}
                BY <3>6, <4>1
            <4>3. Maps(buckets') = [Maps(buckets) EXCEPT ![k] = Held(buckets', k)]
                <5>1. /\ TableOK(buckets, bucket_count)
                      /\ \A j \in 0..(bucket_count - 1) : j # i => buckets'[j] = buckets[j]
                    BY <1>2, <3>3
                <5> QED
                    BY <3>4, <4>2, <5>1, WriteMaps, SMTT(30)
            <4> QED
                BY <4>1, <4>3
        <3> QED
            BY <2>2, <3>5, <3>7
    <2> QED
        BY <2>1, <2>2
<1>6. Map!Drop(home[p])
    BY <1>1, <1>4, <1>5, TableIs DEF Map!Drop
<1> QED
    BY <1>2, <1>6 DEF Map!Next

\* The open-addressing table implements the map its callers rely on: with probing,
\* tombstones, growth and failed allocations, a lookup returns the proxy of the
\* object it was made for exactly when that has one, a registration that proxy or
\* one no other object has, and the last reference takes the entry with it.
THEOREM TableImplementsMap == Spec => MapSpec
<1>1. Inv /\ [Next]_vars => [Map!Next]_(Map!mapVars)
    <2> SUFFICES ASSUME Inv, [Next]_vars
                 PROVE  [Map!Next]_(Map!mapVars)
        OBVIOUS
    <2>1. ASSUME NEW k \in Keys, NEW inc \in BOOLEAN, Begin(k, inc)
          PROVE  Map!Next
        BY <2>1, BeginMaps
    <2>2. ASSUME NEW p \in Proxies, Drop(p)
          PROVE  Map!Next
        BY <2>2, DropMaps
    <2>3. CASE FindNothing \/ CreateFails \/ GrowFails
        BY <2>3, NothingMaps
    <2>4. CASE Grow \/ Move
        <3>1. ~(Move /\ Live(buckets[cursor]) /\ ~CanPlace(buckets[cursor]))
            BY PlaceFound DEF Move, RehashPlaces
        <3>2. /\ pc # "idle" /\ pc' # "idle"
              /\ UNCHANGED <<buckets, use_count, key, increment, result>>
            BY <2>4, <3>1 DEF Grow, Move, arguments
        <3> QED
            BY <3>2, TableIs DEF Map!mapVars
    <2>5. CASE UNCHANGED vars
        BY <2>5, TableIs DEF vars, arguments, Map!mapVars
    <2> QED
        BY <2>1, <2>2, <2>3, <2>4, <2>5, FindMaps, CreateMaps, SwapMaps
        DEF Next, Step
<1> QED
    BY <1>1, InitMaps, InvHolds, PTL DEF Spec, MapSpec, Map!Spec
===============================================================================
