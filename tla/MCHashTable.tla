------------------------------ MODULE MCHashTable ------------------------------
(* HashTable on tables of 4, 8 and 16 buckets. *)
EXTENDS HashTable, Bitwise, TLC

\* The low four bits of hash_func, (h ^ 2166136261) * 16777619 in unsigned
\* arithmetic: all that a table of up to 16 buckets looks at.
LowBitsHash == [k \in Keys |-> (((k % 16) ^^ 5) * 3) % 16]

ProxySymmetry == Permutations(Proxies)
===============================================================================
