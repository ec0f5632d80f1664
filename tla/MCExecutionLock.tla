--------------------------- MODULE MCExecutionLock ---------------------------
(* Three tasks, each in a process of its own, on one host. *)
EXTENDS ExecutionLock, TLC

CONSTANTS t1, t2, t3, p1, p2, p3

MCProcOf == (t1 :> p1) @@ (t2 :> p2) @@ (t3 :> p3)
MCHostOf == [p \in Process |-> "h1"]

\* Tokens are interchangeable.
TokenSymmetry == Permutations(Token)
=============================================================================
