----------------------------- MODULE MCStoreLock -----------------------------
(* StoreLock with interchangeable processes. *)
EXTENDS StoreLock, TLC

ProcessSymmetry == Permutations(Process)
=============================================================================
