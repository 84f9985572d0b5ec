----------------------------- MODULE MCKernelProxy -----------------------------
(* KernelProxy on small sets of threads, objects and values. *)
EXTENDS KernelProxy, TLC

ThreadSymmetry == Permutations(Threads)

Symmetry == Permutations(Threads) \cup Permutations(Objects)
                \cup Permutations(Proxies)
===============================================================================
