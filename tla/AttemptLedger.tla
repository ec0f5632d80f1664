--------------------------- MODULE AttemptLedger ----------------------------
(***************************************************************************)
(* What execution ownership promises about attempts to run a guarded tool, *)
(* whatever sessions, processes and crashes do: one attempt is open at a   *)
(* time, the next one opens only when it has been settled, and an attempt  *)
(* is settled exactly once, by a receipt that names it.                    *)
(***************************************************************************)
EXTENDS Naturals

CONSTANT Attempt   \* attempt identities

VARIABLES open, closed
vars == <<open, closed>>

Init == open = {} /\ closed = {}

Begin(a) ==
  /\ open = {}
  /\ a \notin closed
  /\ open' = {a}
  /\ UNCHANGED closed

Settle(a) ==
  /\ open = {a}
  /\ open' = {}
  /\ closed' = closed \cup {a}

Next == \E a \in Attempt : Begin(a) \/ Settle(a)

Spec == Init /\ [][Next]_vars
=============================================================================
