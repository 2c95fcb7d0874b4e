-------------------------- MODULE MCExecutorCache --------------------------
(***************************************************************************)
(* Small instances of ExecutorCache for TLC.                               *)
(***************************************************************************)
EXTENDS ExecutorCache, TLC

CallerSymmetry == Permutations(Callers) \cup Permutations(Keys)
=============================================================================
