----------------------------- MODULE LatticeGraph -----------------------------
(***************************************************************************)
(* The work graph: src/src/domain.ts and the lattice_* tools of            *)
(* src/src/index.ts that change it.  Sessions of one root work on one      *)
(* graph.  A tool first consumes its context receipt (the session's        *)
(* authority, the revision and the contract it was read under), then takes *)
(* the execution lease of the workspace -- on the leaf it checks out, or   *)
(* on no node, as a fence --, then commits to the graph, and every await   *)
(* between these lets the other sessions in.                               *)
(*                                                                         *)
(* Node ids are the order of creation.  Epochs and revisions are kept as   *)
(* what is asked of them: is the authority the request consumed, and the   *)
(* graph it was read from, still the current one.                          *)
(***************************************************************************)
EXTENDS Naturals, Sequences, FiniteSets

CONSTANTS
  Session,
  Root,             \* the session that may reframe; the others are delegated
  NoLease,          \* a workspace whose execution lease is null
  InitialPlans,     \* the plans lattice_open may commit: for each node its parent, or 0
  TopLevelLimit, NestedLimit,
  MaxNode,          \* bound on the nodes of a graph
  MaxContract       \* bound on the revisions of the contract

ASSUME RootAssumption == Root \in Session
ASSUME BoundAssumption == {TopLevelLimit, NestedLimit, MaxNode, MaxContract} \subseteq Nat \ {0}
ASSUME PlanAssumption ==
  \A plan \in InitialPlans :
    /\ plan \in Seq(Nat) /\ Len(plan) <= MaxNode
    /\ \A n \in DOMAIN plan : plan[n] \in 0..(n - 1)
ASSUME NoLeaseAssumption ==
  NoLease \notin [owner : Session, node : 0..MaxNode, held : BOOLEAN]

VARIABLES
  nodes,      \* the graph: parent (0 for a root), status, contract, reconcile
  contract,   \* the revision the project is bound to
  accepted,   \* the revision the controls of the sessions hold
  lease,      \* the execution lease; node 0 is a fence, held once its graph commit is done
  pc,
  request     \* what a session read and consumed before its tool commits

vars == <<nodes, contract, accepted, lease, pc, request>>

Unfinished == {"pending", "active", "blocked"}
Finished == {"complete", "archived"}
Structural == {"add", "split", "update", "archive", "reframe"}
Op == Structural \cup {"checkout", "checkpoint"}
NodeRecord ==
  [parent : 0..MaxNode, status : Unfinished \cup Finished,
   contract : 1..MaxContract, reconcile : BOOLEAN]
Request ==
  [op : Op, node : 0..MaxNode, contract : 1..MaxContract, current : BOOLEAN]

-----------------------------------------------------------------------------
(* domain.ts                                                                *)

NewNode(parent, revision) ==
  [parent |-> parent, status |-> "pending", contract |-> revision, reconcile |-> FALSE]

AllChildren(g, n) == {c \in DOMAIN g : g[c].parent = n}
NodeChildren(g, n) == {c \in AllChildren(g, n) : g[c].status # "archived"}
IsLeaf(g, n) == NodeChildren(g, n) = {}

\* The node and its ancestors: a parent is older than its children.
Lineage(g, n) ==
  LET upTo[k \in 0..Len(g)] == IF k = 0 THEN {} ELSE {k} \cup upTo[g[k].parent]
  IN upTo[n]

\* Mutant: completed work can still be changed.
MutableUnlessArchived(g, n) == n \in DOMAIN g /\ g[n].status # "archived"
Mutable(g, n) == n \in DOMAIN g /\ g[n].status \in Unfinished

HasCapacity(g, parent, requested) ==
  Cardinality(NodeChildren(g, parent)) + requested
    <= IF parent = 0 THEN TopLevelLimit ELSE NestedLimit

\* Mutant: the climb stops at the first parent.
CollapsedOnce(g, n) ==
  {a \in {g[n].parent} \ {0} : \A c \in AllChildren(g, a) : c = n \/ g[c].status = "complete"}

\* The climb of completeAndCollapse from a completed leaf ends below the first
\* ancestor with a child, archived ones included, that is not complete.
Collapsed(g, n) ==
  LET path == Lineage(g, n)
      closes(a) == \A c \in AllChildren(g, a) : c \in path \/ g[c].status = "complete"
  IN {a \in path \ {n} : \A b \in path \ {n} : b >= a => closes(b)}

CompleteAndCollapse(g, n) ==
  [k \in DOMAIN g |->
     IF k = n \/ k \in Collapsed(g, n) THEN [g[k] EXCEPT !.status = "complete"] ELSE g[k]]

\* projectStatus: blocked nodes, and unfinished nodes without a live child.
Frontier(g) ==
  {n \in DOMAIN g : \/ g[n].status = "blocked"
                    \/ g[n].status \in {"pending", "active"} /\ IsLeaf(g, n)}

LatticeWorkState(g) ==
  LET live == {n \in DOMAIN g : g[n].status # "archived"}
  IN IF \E n \in live : g[n].status \in Unfinished THEN "active"
     ELSE IF live # {} THEN "complete" ELSE "empty"

\* assertNodeReconciled
Reconciled(record, revision) == ~record.reconcile /\ record.contract = revision

-----------------------------------------------------------------------------
(* What the tools ask of the graph; a graph full to MaxNode takes no more.  *)

\* Mutant: the parent may be finished.
AcceptsChildAnywhere(n, revision, requested) ==
  Len(nodes) + requested <= MaxNode /\ HasCapacity(nodes, n, requested)
AcceptsChild(n, revision, requested) ==
  /\ Len(nodes) + requested <= MaxNode
  /\ n # 0 => Mutable(nodes, n) /\ Reconciled(nodes[n], revision)
  /\ HasCapacity(nodes, n, requested)

MaySplit(n, revision) == n # 0 /\ IsLeaf(nodes, n) /\ AcceptsChild(n, revision, 2)

MayArchive(n) == Mutable(nodes, n) /\ nodes[n].status # "active" /\ IsLeaf(nodes, n)

MayCheckout(n, revision) ==
  /\ n # 0 /\ nodes[n].status \in {"pending", "active"}
  /\ IsLeaf(nodes, n)
  /\ \A k \in Lineage(nodes, n) : Reconciled(nodes[k], revision)

\* The requests worth following: another is refused by the graph it was read
\* from, and a later graph refuses it for its revision.
Acceptable(op, n, revision) ==
  /\ op = "add" => AcceptsChild(n, revision, 1)
  /\ op = "split" => MaySplit(n, revision)
  /\ op = "update" => Mutable(nodes, n)
  /\ op = "archive" => MayArchive(n)
  /\ op = "checkout" => MayCheckout(n, revision)
  /\ op = "reframe" => n = 0 /\ contract < MaxContract

-----------------------------------------------------------------------------
NoRequest ==
  [op |-> "checkpoint", node |-> 0, contract |-> 1, current |-> FALSE]

Init ==
  /\ \E plan \in InitialPlans : nodes = [n \in DOMAIN plan |-> NewNode(plan[n], 1)]
  /\ contract = 1
  /\ accepted = 1
  /\ lease = NoLease
  /\ pc = [s \in Session |-> "idle"]
  /\ request = [s \in Session |-> NoRequest]

Goto(s, label) == pc' = [pc EXCEPT ![s] = label]
LeaseOf(s) == lease # NoLease /\ lease.owner = s
HeldBy(s) == LeaseOf(s) /\ lease.held

\* invalidateSessionAuthority over a set of sessions: their epochs move on, and
\* what they consumed cannot commit any more.
Void(requests, S) ==
  [t \in Session |-> IF t \in S /\ pc[t] # "committed" THEN NoRequest ELSE requests[t]]
\* A graph commit by s makes every revision read before it stale.
Stale(s) == [t \in Session |-> IF t = s THEN [NoRequest EXCEPT !.op = request[s].op] ELSE NoRequest]
\* Session s is done and keeps nothing of its request.
Done(requests, s) == [requests EXCEPT ![s] = NoRequest]
\* The leases of revoked sessions end; a fence or a checkout that has not
\* committed is no lease of theirs yet.
ReleaseHeld(S) == IF lease # NoLease /\ lease.held /\ lease.owner \in S THEN NoLease ELSE lease

-----------------------------------------------------------------------------
(* consumeFreshAuthorization: the contract must be the accepted one on disk *)
(* and in memory.  A reframe first revokes the authority of its root.       *)
\* Mutant: a reframe changes the contract in memory first.
PrepareAdopting(s, op, n) ==
  /\ pc[s] = "idle"
  /\ accepted = contract
  /\ n \in IF op \in {"add", "reframe"} THEN {0} \cup DOMAIN nodes ELSE DOMAIN nodes
  /\ op = "checkpoint" => HeldBy(s) /\ n = lease.node
  /\ op = "reframe" => s = Root /\ lease = NoLease
  /\ Acceptable(op, n, accepted)
  /\ request' =
       [(IF op = "reframe" THEN Void(request, Session) ELSE request) EXCEPT
          ![s] = [op |-> op, node |-> n, contract |-> accepted, current |-> TRUE]]
  /\ Goto(s, IF op = "checkpoint" THEN "ready" ELSE "prepared")
  /\ accepted' = IF op = "reframe" THEN accepted + 1 ELSE accepted
  /\ UNCHANGED <<nodes, contract, lease>>

Prepare(s, op, n) ==
  /\ pc[s] = "idle"
  /\ accepted = contract
  /\ n \in IF op \in {"add", "reframe"} THEN {0} \cup DOMAIN nodes ELSE DOMAIN nodes
  /\ op = "checkpoint" => HeldBy(s) /\ n = lease.node
  /\ op = "reframe" => s = Root /\ lease = NoLease
  /\ Acceptable(op, n, accepted)
  /\ request' =
       [(IF op = "reframe" THEN Void(request, Session) ELSE request) EXCEPT
          ![s] = [op |-> op, node |-> n, contract |-> accepted, current |-> TRUE]]
  /\ Goto(s, IF op = "checkpoint" THEN "ready" ELSE "prepared")
  /\ UNCHANGED <<nodes, contract, accepted, lease>>

\* ensureNoActiveLease and the checkout of the execution state, for a leaf or
\* as the fence of a structural change.
TakeLease(s) ==
  /\ pc[s] = "prepared"
  /\ lease = NoLease
  /\ lease' = [owner |-> s, held |-> FALSE,
               node |-> IF request[s].op = "checkout" THEN request[s].node ELSE 0]
  /\ Goto(s, "ready")
  /\ UNCHANGED <<nodes, contract, accepted, request>>

\* Mutant: a structural change takes no fence.
MayCommitUnfenced(s, op) ==
  /\ pc[s] = IF op \in Structural THEN "prepared" ELSE "ready"
  /\ request[s].op = op
  /\ request[s].current
  /\ op \notin Structural => LeaseOf(s)
  /\ op = "checkpoint" => HeldBy(s)

\* The commit point of store.mutate: the consumed epoch and the revision are
\* the current ones and the lease or fence is still owned.
MayCommit(s, op) ==
  /\ pc[s] = "ready"
  /\ request[s].op = op
  /\ request[s].current
  /\ LeaseOf(s)
  /\ op = "checkpoint" => HeldBy(s)

Commit(s, g) ==
  /\ nodes' = g
  /\ Goto(s, "committed")

Add(s) ==
  LET parent == request[s].node IN
  /\ MayCommit(s, "add")
  /\ AcceptsChild(parent, request[s].contract, 1)
  /\ Commit(s, Append(nodes, NewNode(parent, request[s].contract)))
  /\ request' = Stale(s)
  /\ UNCHANGED <<contract, accepted, lease>>

Split(s) ==
  LET parent == request[s].node
      split == [nodes EXCEPT ![parent].status = "active"] IN
  /\ MayCommit(s, "split")
  /\ MaySplit(parent, request[s].contract)
  /\ \E k \in 2..MaxNode :
       /\ AcceptsChild(parent, request[s].contract, k)
       /\ Commit(s, split \o [i \in 1..k |-> NewNode(parent, request[s].contract)])
  /\ request' = Stale(s)
  /\ UNCHANGED <<contract, accepted, lease>>

\* lattice_update binds the node to the contract and may block it.
Update(s) ==
  LET n == request[s].node IN
  /\ MayCommit(s, "update")
  /\ Mutable(nodes, n)
  /\ \E status \in {nodes[n].status, "blocked"} :
       Commit(s, [nodes EXCEPT ![n] = [@ EXCEPT !.status = status,
                    !.contract = request[s].contract, !.reconcile = FALSE]])
  /\ request' = Stale(s)
  /\ UNCHANGED <<contract, accepted, lease>>

Archive(s) ==
  /\ MayCommit(s, "archive")
  /\ MayArchive(request[s].node)
  /\ Commit(s, [nodes EXCEPT ![request[s].node].status = "archived"])
  /\ request' = Stale(s)
  /\ UNCHANGED <<contract, accepted, lease>>

\* The leaf and its ancestors become active and the lease is handed out;
\* clearWorkspace voids the receipts of the workspace.
Checkout(s) ==
  LET n == request[s].node
      path == Lineage(nodes, n) IN
  /\ MayCommit(s, "checkout")
  /\ MayCheckout(n, request[s].contract)
  /\ nodes' = [k \in DOMAIN nodes |->
                 IF k \in path /\ nodes[k].status = "pending"
                 THEN [nodes[k] EXCEPT !.status = "active"] ELSE nodes[k]]
  /\ lease' = [lease EXCEPT !.held = TRUE]
  /\ request' = [t \in Session |-> NoRequest]
  /\ Goto(s, "idle")
  /\ UNCHANGED <<contract, accepted>>

\* lattice_checkpoint with complete = false, and with complete = true.
Checkpoint(s) ==
  /\ MayCommit(s, "checkpoint")
  /\ IsLeaf(nodes, lease.node)
  /\ Mutable(nodes, lease.node)
  /\ Commit(s, nodes)
  /\ request' = Stale(s)
  /\ UNCHANGED <<contract, accepted, lease>>

Complete(s) ==
  LET n == request[s].node IN
  /\ MayCommit(s, "checkpoint")
  /\ IsLeaf(nodes, n)
  /\ Mutable(nodes, n)
  /\ Commit(s, CompleteAndCollapse(nodes, n))
  /\ request' = Stale(s)
  /\ UNCHANGED <<contract, accepted, lease>>

\* Mutant: completed work stays complete under the new contract.
ReframeUnfinished(s) ==
  /\ MayCommit(s, "reframe")
  /\ contract' = contract + 1
  /\ Commit(s, [n \in DOMAIN nodes |->
                  IF nodes[n].status \in Finished THEN nodes[n]
                  ELSE [nodes[n] EXCEPT !.reconcile = TRUE]])
  /\ request' = Stale(s)
  /\ UNCHANGED <<accepted, lease>>

\* The 'reframe-v2' commit of finalizePendingContract: the new contract has
\* been published, and all live work must be reconciled with it.
Reframe(s) ==
  /\ MayCommit(s, "reframe")
  /\ contract' = contract + 1
  /\ Commit(s, [n \in DOMAIN nodes |->
                  IF nodes[n].status = "archived" THEN nodes[n]
                  ELSE [nodes[n] EXCEPT
                          !.status = IF @ = "complete" THEN "pending" ELSE @,
                          !.reconcile = TRUE]])
  /\ request' = Stale(s)
  /\ UNCHANGED <<accepted, lease>>

\* The release of the fence, and clearWorkspace.  A reframe goes on to adopt
\* the contract in the controls of its root.
Finish(s) ==
  /\ pc[s] = "committed"
  /\ request[s].op \in Structural
  /\ lease' = IF LeaseOf(s) THEN NoLease ELSE ReleaseHeld(Session)
  /\ request' = Done(Void(request, Session), s)
  /\ Goto(s, IF request[s].op = "reframe" THEN "adopting" ELSE "idle")
  /\ UNCHANGED <<nodes, contract, accepted>>

Adopt(s) ==
  /\ pc[s] = "adopting"
  /\ accepted' = contract
  /\ request' = Void(request, Session)
  /\ lease' = ReleaseHeld(Session)
  /\ Goto(s, "idle")
  /\ UNCHANGED <<nodes, contract>>

\* checkpointCommittedGraph: the lease follows the graph, and a completed leaf
\* gives it back.
Settle(s) ==
  /\ pc[s] = "committed"
  /\ request[s].op = "checkpoint"
  /\ lease' = IF HeldBy(s) /\ nodes[lease.node].status = "complete" THEN NoLease ELSE lease
  /\ request' = Done(request, s)
  /\ Goto(s, "idle")
  /\ UNCHANGED <<nodes, contract, accepted>>

\* recordMechanicalExecution: a receipt is an entry of the graph, so its commit
\* makes every request stale.
RecordExecution(s) ==
  /\ HeldBy(s)
  /\ pc[s] # "committed"  \* lattice_checkpoint runs on a clean lease only
  /\ Mutable(nodes, lease.node)
  /\ IsLeaf(nodes, lease.node)
  /\ request' = Void(request, Session)
  /\ UNCHANGED <<nodes, contract, accepted, lease, pc>>

\* A refused or failed tool: what it took is released.
Refuse(s) ==
  /\ pc[s] \in {"prepared", "ready"}
  /\ lease' = IF LeaseOf(s) /\ ~lease.held THEN NoLease ELSE lease
  /\ request' = Done(request, s)
  /\ Goto(s, "idle")
  /\ UNCHANGED <<nodes, contract, accepted>>

\* Whatever else ends the authority of a session: input, compaction, the end
\* of the session or a handoff.
Revoke(s) ==
  /\ request' = Void(request, {s})
  /\ lease' = ReleaseHeld({s})
  /\ UNCHANGED <<nodes, contract, accepted, pc>>

Next ==
  \E s \in Session :
    \/ \E op \in Op, n \in 0..MaxNode : Prepare(s, op, n)
    \/ TakeLease(s)
    \/ Add(s)
    \/ Split(s)
    \/ Update(s)
    \/ Archive(s)
    \/ Checkout(s)
    \/ Checkpoint(s)
    \/ Complete(s)
    \/ Reframe(s)
    \/ Finish(s)
    \/ Adopt(s)
    \/ Settle(s)
    \/ RecordExecution(s)
    \/ Refuse(s)
    \/ Revoke(s)

Spec == Init /\ [][Next]_vars

-----------------------------------------------------------------------------
\* The graph, the lease and the requests have their types, and a parent is an
\* older node of the graph, so that every walk to the root ends.
TypeOK ==
  /\ nodes \in Seq(NodeRecord) /\ Len(nodes) <= MaxNode
  /\ \A n \in DOMAIN nodes : nodes[n].parent < n
  /\ contract \in 1..MaxContract
  /\ accepted \in 1..contract
  /\ lease \in [owner : Session, node : 0..MaxNode, held : BOOLEAN] \cup {NoLease}
  /\ pc \in [Session -> {"idle", "prepared", "ready", "committed", "adopting"}]
  /\ request \in [Session -> Request]

\* The leaf a session holds can be worked on and finished: until its own
\* completion is committed it is an unfinished leaf, below unfinished ancestors
\* only, and all of them are reconciled with the contract of the graph.
\* recordMechanicalExecution and lattice_checkpoint throw where this fails.
LeasedLeafIsWorkable ==
  \A s \in Session :
    HeldBy(s) /\ ~(pc[s] = "committed" /\ nodes[lease.node].status = "complete") =>
      /\ IsLeaf(nodes, lease.node)
      /\ \A k \in Lineage(nodes, lease.node) :
           nodes[k].status \in Unfinished /\ Reconciled(nodes[k], contract)

\* Nothing unfinished is left below a finished node, where no tool would reach
\* it: completing and archiving are refused over live work, and adding below
\* finished work.
FinishedMeansFinishedBelow ==
  \A n \in DOMAIN nodes :
    nodes[n].status \in Finished =>
      \A c \in AllChildren(nodes, n) :
        nodes[c].status \in (IF nodes[n].status = "complete" THEN Finished ELSE {"archived"})

\* Work counts as complete only under the contract it was accepted by: a node
\* completed, or collapsed, under an older contract is open again.
CompleteUnderTheContract ==
  \A n \in DOMAIN nodes : nodes[n].status = "complete" => Reconciled(nodes[n], contract)

\* While work is left, lattice_status shows a node to work on, unless an
\* archived child keeps a parent open whose live children are all complete.
FrontierShowsTheWork ==
  LatticeWorkState(nodes) = "active" /\ Frontier(nodes) = {} =>
    \E n \in DOMAIN nodes :
      /\ nodes[n].status \in Unfinished
      /\ \A c \in NodeChildren(nodes, n) : nodes[c].status = "complete"
      /\ \E c \in AllChildren(nodes, n) : nodes[c].status = "archived"

\* History is kept: no node disappears or moves, an archived one never returns,
\* and a complete one only under a new contract.
HistoryIsKept ==
  [][\A n \in DOMAIN nodes :
       /\ n \in DOMAIN nodes'
       /\ nodes'[n].parent = nodes[n].parent
       /\ nodes[n].status = "archived" => nodes'[n].status = "archived"
       /\ nodes[n].status = "complete" /\ nodes'[n].status # "complete" => contract' > contract]_vars
=============================================================================
