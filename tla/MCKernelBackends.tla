--------------------------- MODULE MCKernelBackends ---------------------------
(* KernelBackends on one object. *)
EXTENDS KernelBackends, TLC

ThreadSymmetry == Permutations(Threads)
===============================================================================
