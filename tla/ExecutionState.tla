--------------------------- MODULE ExecutionState ---------------------------
(***************************************************************************)
(* The durable, workspace-scoped execution ownership of                    *)
(* src/src/execution-state.ts: one state file holding a generation and at  *)
(* most one lease.  Each operation of PersistentExecutionState takes the   *)
(* cross-process lock, reads the file, decides, and commits by one rename; *)
(* here it is one atomic step.  That the lock and the rename make it one   *)
(* is the subject of module ExecutionLock.  A call the code rejects leaves *)
(* the file as it was and is a stuttering step.                            *)
(*                                                                         *)
(* A random identifier (leaseId, attemptId) is represented by the          *)
(* generation at which it was minted, which no two identifiers share.      *)
(* A lease's own generation field always equals the file's (assertLease),  *)
(* and checkpointRequired always equals dirty, so neither is kept twice.   *)
(* A process stands for a (host, pid) pair: a new process may reuse it.    *)
(***************************************************************************)
EXTENDS Integers, FiniteSets

CONSTANTS
  Process,         \* (host, pid) pairs that run the plugin in this workspace
  Host, HostOf,    \* the host of each process
  Session,         \* DSH session ids
  Root, Node,      \* root session ids and graph nodes a lease can name
  Contract,        \* (contract revision, contract digest) pairs
  GraphRevision,   \* the graph revisions callers pass
  MaxGeneration,   \* bound on the number of committed transitions
  NoLease          \* the null lease

NoAttempt == 0
Generation == 1..MaxGeneration
Basis == [root: Root, node: Node, graph: GraphRevision, contract: Contract]
Lease == [leaseId: Generation, owner: Session, basis: Basis,
          dirty: BOOLEAN, releaseWhenClean: BOOLEAN,
          pending: Generation \cup {NoAttempt}, legacy: BOOLEAN, pid: Process]
LeaseClaim == [leaseId: Generation, generation: Generation]

ASSUME HostAssumption == HostOf \in [Process -> Host]
ASSUME GraphAssumption == GraphRevision \subseteq Nat \ {0}
ASSUME BoundAssumption == MaxGeneration \in Nat
ASSUME NoLeaseAssumption == NoLease \notin Lease

VARIABLES
  generation,  \* ExecutionStateSnapshot.generation
  lease,       \* ExecutionStateSnapshot.lease
  aged,        \* now - lease.updatedAt has reached deadOwnerGraceMs
  alive,       \* which processes run
  begun,       \* history: every attempt ever begun, with the basis it began on
  settled      \* history: the attempts settled by an exact receipt

vars == <<generation, lease, aged, alive, begun, settled>>

-----------------------------------------------------------------------------
(* What the file says of an execution in flight.                           *)

Held == lease # NoLease
OpenAttempts == IF Held /\ lease.pending # NoAttempt THEN {lease.pending} ELSE {}

\* Mutant: a claim from before the lease moved is good.
AssertClaimOfAnyGeneration(p, c) ==
  /\ Held
  /\ c.leaseId = lease.leaseId
  /\ lease.pid = p

\* The part of the claim comparison that can fail once a generation and a
\* lease id fix the owner session, the root and the node.
AssertClaim(p, c) ==
  /\ Held
  /\ c.generation = generation
  /\ c.leaseId = lease.leaseId
  /\ lease.pid = p

\* Mutant: any owner but this process counts as gone.
OwnerLivenessNotProbed(p, owner) == IF owner = p THEN "alive" ELSE "dead"

OwnerLiveness(p, owner) ==
  IF HostOf[owner] # HostOf[p] THEN "unknown"
  ELSE IF owner = p \/ alive[owner] THEN "alive" ELSE "dead"

\* Mutant: only an unsettled lease binds its successor to its basis.
TakeoverAllowedRebasing(p, basis) ==
  /\ OwnerLiveness(p, lease.pid) = "dead"
  /\ aged
  /\ lease.dirty => basis = lease.basis

\* Mutant: the takeover compares everything but the graph revision.
TakeoverAllowedOnNewGraph(p, basis) ==
  /\ OwnerLiveness(p, lease.pid) = "dead"
  /\ aged
  /\ (lease.dirty \/ lease.releaseWhenClean) => basis = [lease.basis EXCEPT !.graph = basis.graph]

\* A dead owner can be replaced after the grace period, but an unsettled or
\* release-pending lease only on exactly the basis it already has.
TakeoverAllowed(p, basis) ==
  /\ OwnerLiveness(p, lease.pid) = "dead"
  /\ aged
  /\ (lease.dirty \/ lease.releaseWhenClean) => basis = lease.basis

\* Mutants: a takeover starts from a clean lease; it forgets that a v1 action
\* was never identified.
CheckedOutClean(p, s, basis) ==
  [leaseId |-> generation + 1, owner |-> s, basis |-> basis, dirty |-> FALSE,
   releaseWhenClean |-> Held /\ lease.releaseWhenClean,
   pending |-> NoAttempt, legacy |-> FALSE, pid |-> p]
CheckedOutIdentified(p, s, basis) ==
  [leaseId |-> generation + 1, owner |-> s, basis |-> basis,
   dirty |-> Held /\ lease.pending # NoAttempt,
   releaseWhenClean |-> Held /\ lease.releaseWhenClean,
   pending |-> IF Held THEN lease.pending ELSE NoAttempt,
   legacy |-> FALSE, pid |-> p]

\* The lease a checkout commits: a takeover inherits what is unsettled.
CheckedOut(p, s, basis) ==
  [leaseId |-> generation + 1, owner |-> s, basis |-> basis,
   dirty |-> Held /\ lease.dirty,
   releaseWhenClean |-> Held /\ lease.releaseWhenClean,
   pending |-> IF Held THEN lease.pending ELSE NoAttempt,
   legacy |-> Held /\ lease.legacy,
   pid |-> p]

\* Mutant: the settled attempt keeps its name on the lease.
CleanLeaseNamed(graph, release) ==
  IF release \/ lease.releaseWhenClean THEN NoLease
  ELSE [lease EXCEPT !.basis = [@ EXCEPT !.graph = graph], !.dirty = FALSE, !.legacy = FALSE]

\* What remains of the lease once nothing is unsettled any more.
CleanLease(graph, release) ==
  IF release \/ lease.releaseWhenClean THEN NoLease
  ELSE [lease EXCEPT !.basis = [@ EXCEPT !.graph = graph], !.dirty = FALSE,
                     !.pending = NoAttempt, !.legacy = FALSE]

Commit(next) ==
  /\ generation < MaxGeneration
  /\ generation' = generation + 1
  /\ lease' = next
  /\ aged' = FALSE
  /\ UNCHANGED alive

-----------------------------------------------------------------------------
(* The file may already exist in schema v1, with a clean lease or with a   *)
(* dirty one, whose missing attempt identity makes it indeterminate.       *)

V1Lease(s, p, basis, dirty) ==
  [leaseId |-> 1, owner |-> s, basis |-> basis, dirty |-> dirty,
   releaseWhenClean |-> FALSE, pending |-> NoAttempt, legacy |-> dirty, pid |-> p]

Init ==
  /\ \/ generation = 0 /\ lease = NoLease
     \/ /\ MaxGeneration >= 2
        /\ generation = 2
        /\ lease \in {V1Lease(s, p, b, d) : s \in Session, p \in Process,
                                            b \in Basis, d \in BOOLEAN}
  /\ aged = FALSE
  /\ alive \in [Process -> BOOLEAN]
  /\ begun = {}
  /\ settled = {}

\* expected is the optional compare-and-swap guard; 'any' leaves it out.
Checkout(p, s, basis, expected, any) ==
  /\ alive[p]
  /\ any \/ expected = generation
  /\ Held => TakeoverAllowed(p, basis)
  /\ Commit(CheckedOut(p, s, basis))
  /\ UNCHANGED <<begun, settled>>

\* Mutant: the dirty check is missing.
BeginExecutionAgain(p, c) ==
  /\ alive[p]
  /\ AssertClaim(p, c)
  /\ Commit([lease EXCEPT !.dirty = TRUE, !.pending = generation + 1])
  /\ begun' = begun \cup {[attempt |-> generation + 1, basis |-> lease.basis]}
  /\ UNCHANGED settled

BeginExecution(p, c) ==
  /\ alive[p]
  /\ AssertClaim(p, c)
  /\ ~lease.dirty
  /\ Commit([lease EXCEPT !.dirty = TRUE, !.pending = generation + 1])
  /\ begun' = begun \cup {[attempt |-> generation + 1, basis |-> lease.basis]}
  /\ UNCHANGED settled

\* Already requested: the code returns without writing.
RequestReleaseWhenClean(p, c) ==
  /\ alive[p]
  /\ AssertClaim(p, c)
  /\ ~lease.releaseWhenClean
  /\ Commit([lease EXCEPT !.releaseWhenClean = TRUE])
  /\ UNCHANGED <<begun, settled>>

SettleExecution(p, c, attempt, graph, release) ==
  /\ alive[p]
  /\ AssertClaim(p, c)
  /\ lease.dirty
  /\ lease.pending = attempt
  /\ graph >= lease.basis.graph
  /\ Commit(CleanLease(graph, release))
  /\ settled' = settled \cup {attempt}
  /\ UNCHANGED begun

\* Mutant: a checkpoint may take the graph revision back.
CheckpointBackwards(p, c, graph, release) ==
  /\ alive[p]
  /\ AssertClaim(p, c)
  /\ ~lease.dirty
  /\ Commit(CleanLease(graph, release))
  /\ UNCHANGED <<begun, settled>>

Checkpoint(p, c, graph, release) ==
  /\ alive[p]
  /\ AssertClaim(p, c)
  /\ ~lease.dirty
  /\ graph >= lease.basis.graph
  /\ Commit(CleanLease(graph, release))
  /\ UNCHANGED <<begun, settled>>

Release(p, c) ==
  /\ alive[p]
  /\ AssertClaim(p, c)
  /\ ~lease.dirty
  /\ Commit(NoLease)
  /\ UNCHANGED <<begun, settled>>

\* The grace period of the current lease runs out.
Age ==
  /\ Held
  /\ ~aged
  /\ aged' = TRUE
  /\ UNCHANGED <<generation, lease, alive, begun, settled>>

Crash(p) ==
  /\ alive[p]
  /\ alive' = [alive EXCEPT ![p] = FALSE]
  /\ UNCHANGED <<generation, lease, aged, begun, settled>>

\* A process with this host and pid starts (again).
Start(p) ==
  /\ ~alive[p]
  /\ alive' = [alive EXCEPT ![p] = TRUE]
  /\ UNCHANGED <<generation, lease, aged, begun, settled>>

OwnerOperation(p, c) ==
  \/ BeginExecution(p, c)
  \/ RequestReleaseWhenClean(p, c)
  \/ \E graph \in GraphRevision, release \in BOOLEAN :
       \/ \E attempt \in Generation : SettleExecution(p, c, attempt, graph, release)
       \/ Checkpoint(p, c, graph, release)
  \/ Release(p, c)

Next ==
  \/ \E p \in Process :
       \/ \E s \in Session, basis \in Basis, expected \in 0..MaxGeneration, any \in BOOLEAN :
            Checkout(p, s, basis, expected, any)
       \/ \E c \in LeaseClaim : OwnerOperation(p, c)
       \/ Crash(p)
       \/ Start(p)
  \/ Age

Spec == Init /\ [][Next]_vars
-----------------------------------------------------------------------------
(* Properties.                                                             *)

\* Every committed snapshot has the shape assertLease accepts, so that no
\* transition writes a file the next reader refuses: dirty says exactly that
\* one attempt or one legacy action is unsettled (write, normalizeSnapshot).
TypeOK ==
  /\ generation \in 0..MaxGeneration
  /\ lease \in Lease \cup {NoLease}
  /\ aged \in BOOLEAN
  /\ alive \in [Process -> BOOLEAN]
  /\ begun \subseteq [attempt: Generation, basis: Basis]
  /\ settled \subseteq Generation
  /\ Held => /\ lease.dirty <=> (lease.pending # NoAttempt \/ lease.legacy)
             /\ ~(lease.pending # NoAttempt /\ lease.legacy)

\* An attempt that was begun is settled or is the one the lease names, across
\* takeovers, release requests, checkpoints and crashes: none is forgotten,
\* and what the lease names was begun and is not settled (settleExecution,
\* and every operation that refuses or inherits a dirty lease).
NoAttemptForgotten == {r.attempt : r \in begun} \ settled = OpenAttempts

\* The root, node, graph and contract an unsettled attempt is recorded under
\* are the ones it was begun on, whoever owns the lease now: a receipt cannot
\* be matched against another basis (assertTakeoverAllowed, RC5_RELEASE.md).
PendingKeepsItsBasis ==
  \A a \in OpenAttempts : [attempt |-> a, basis |-> lease.basis] \in begun

\* A lease passes to another process only once its owner is dead, and only on
\* the owner's host: an owner that runs, or that cannot be probed from here,
\* is never replaced (assertTakeoverAllowed, assertClaim).
OwnershipMovesOnlyFromTheDead ==
  [][(Held /\ lease' # NoLease /\ lease'.pid # lease.pid) =>
       ~alive[lease.pid] /\ HostOf[lease'.pid] = HostOf[lease.pid]]_vars

\* A durable release request stays on the lease, on the same root, node,
\* graph and contract, through receipts, checkpoints and takeovers, until the
\* lease is gone (requestReleaseWhenClean, checkout, settleExecution).
ReleaseRequestHolds ==
  [][(Held /\ lease.releaseWhenClean /\ lease' # NoLease) =>
       lease'.releaseWhenClean /\ lease'.basis = lease.basis]_vars

\* A dirty v1 action is never settled by guessing: its lease stays dirty and
\* keeps its basis for ever (README.md, "remains blocked").
LegacyActionStaysBlocked ==
  [][(Held /\ lease.legacy) =>
       lease' # NoLease /\ lease'.legacy /\ lease'.dirty /\ lease'.basis = lease.basis]_vars

\* Under one lease id the graph revision never goes back.
GraphNeverMovesBack ==
  [][(Held /\ lease' # NoLease /\ lease'.leaseId = lease.leaseId) =>
       lease'.basis.graph >= lease.basis.graph]_vars

\* Whatever sessions and processes do, the attempts go through the ledger:
\* at most one open, each settled exactly once.
Ledger == INSTANCE AttemptLedger WITH Attempt <- Generation, open <- OpenAttempts, closed <- settled
LedgerIsImplemented == Ledger!Spec
=============================================================================
