------------------------- MODULE MCContractAdoption -------------------------
(* ContractAdoption with one delegated session. *)
EXTENDS ContractAdoption, TLC

CONSTANTS root, child, quiet, change, note

\* Every delegated input goes to the one delegated session.
MCRecipient == [m \in ChildInput |-> child]

\* Two inputs of the root and a crash; two reframes with a crash; and two
\* reframes with an operational notice and a failed fence write.
MCBudgets ==
  {[level |-> "contract", inputs |-> {quiet, change}, reframes |-> 1,
    crashes |-> 1, revocations |-> 0, faults |-> 0]}
  \cup
  {[level |-> l, inputs |-> {change, note}, reframes |-> 2,
    crashes |-> 1, revocations |-> 0, faults |-> 0] : l \in {"contract", "lattice"}}
  \cup
  {[level |-> l, inputs |-> {note}, reframes |-> 2,
    crashes |-> 1, revocations |-> 1, faults |-> 1] : l \in {"contract", "lattice"}}
=============================================================================
