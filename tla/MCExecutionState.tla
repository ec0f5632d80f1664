-------------------------- MODULE MCExecutionState ---------------------------
(* Two processes on one host and one on another, two sessions, two nodes,
   two graph revisions and two contracts. *)
EXTENDS ExecutionState, TLC

CONSTANTS p1, p2, p3

MCHostOf == [p \in Process |-> IF p = p3 THEN "h2" ELSE "h1"]
=============================================================================
