---------------------------- MODULE MCPthreadsProxy ----------------------------
(* PthreadsProxy on small sets of threads, objects and values. *)
EXTENDS PthreadsProxy, TLC

Symmetry == Permutations(Threads) \cup Permutations(Objects)
                \cup Permutations(Proxies)
===============================================================================
