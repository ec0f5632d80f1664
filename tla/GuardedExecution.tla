-------------------------- MODULE GuardedExecution --------------------------
(***************************************************************************)
(* What the dispatch of guarded tools promises, whatever calls, refreshes, *)
(* releases, crashes and restarts do in between: an attempt enters its     *)
(* body once at most, while it is the open one and when the outcome of     *)
(* every body before it is recorded; and it is settled when its own        *)
(* outcome is, and no sooner.                                              *)
(***************************************************************************)
EXTENDS Naturals

CONSTANT Attempt   \* attempt identities

VARIABLES
  open, closed,    \* the attempts of AttemptLedger
  entered,         \* the attempts whose body has been entered
  recorded         \* the attempts whose outcome is in the graph
vars == <<open, closed, entered, recorded>>

Ledger == INSTANCE AttemptLedger

Init == Ledger!Init /\ entered = {} /\ recorded = {}

Begin(a) == Ledger!Begin(a) /\ UNCHANGED <<entered, recorded>>

Enter(a) ==
  /\ open = {a}
  /\ entered \subseteq recorded
  /\ a \notin recorded
  /\ entered' = entered \cup {a}
  /\ UNCHANGED <<open, closed, recorded>>

\* A body that was not entered, or that failed, has an outcome as well.
Record(a) ==
  /\ open = {a}
  /\ a \notin recorded
  /\ recorded' = recorded \cup {a}
  /\ UNCHANGED <<open, closed, entered>>

Settle(a) == a \in recorded /\ Ledger!Settle(a) /\ UNCHANGED <<entered, recorded>>

Next == \E a \in Attempt : Begin(a) \/ Enter(a) \/ Record(a) \/ Settle(a)

Spec == Init /\ [][Next]_vars
=============================================================================
