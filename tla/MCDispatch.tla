------------------------------ MODULE MCDispatch ------------------------------
(* Two calls run at once under three epochs, or under two of which one may   *)
(* be revoked; or one call runs, its process dies and an operation fails.    *)
EXTENDS Dispatch, TLC

MCScenarios ==
  {[calls |-> 2, epochs |-> 3, revoke |-> 0, crash |-> 0, fail |-> 0, deaths |-> 0],
   [calls |-> 2, epochs |-> 2, revoke |-> 1, crash |-> 0, fail |-> 0, deaths |-> 0],
   [calls |-> 1, epochs |-> 2, revoke |-> 0, crash |-> 1, fail |-> 1, deaths |-> 0]}
MCLiveScenarios == {[calls |-> 1, epochs |-> 2, revoke |-> 1, crash |-> 0, fail |-> 1, deaths |-> 0]}

Symmetry == Permutations(Process) \cup Permutations(Obj) \cup Permutations(Call)
=============================================================================
