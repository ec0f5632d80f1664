--------------------------- MODULE MCLatticeStore ---------------------------
(* LatticeStore on small instances: who runs in which process. *)
EXTENDS LatticeStore

CONSTANTS w1, w2, reader, guard, none

\* Two writers, each in its process, the first of which also reads through its
\* store; the tool guard that reads runs in the second.
MCProcOf == (w1 :> "p1") @@ (w2 :> "p2") @@ (reader :> "p1") @@ (guard :> "p2")

\* An existing graph with readers and one crash; an empty workspace, where
\* graphs are created, with two crashes and nobody reading.
MCScenarios ==
  { [beginning |-> "graph", creating |-> FALSE, readers |-> {reader, guard},
     mutations |-> 2, crashes |-> 1],
    [beginning |-> "none", creating |-> TRUE, readers |-> {},
     mutations |-> 4, crashes |-> 2] }
=============================================================================
