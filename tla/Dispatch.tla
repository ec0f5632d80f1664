------------------------------ MODULE Dispatch -------------------------------
(***************************************************************************)
(* The controller's handling of guarded tools in full-lattice control      *)
(* (src/src/index.ts): one session of one host process at a time, whose    *)
(* tool calls run concurrently on the event loop.  A call passes the       *)
(* guard, which consumes the one-use authorization, and the revalidation;  *)
(* the execution lease is marked dirty in the state file; the tool body    *)
(* runs; a receipt goes into the graph; and the lease is settled with it.  *)
(* Meanwhile lattice_refresh_context re-issues authority and restores the  *)
(* lease, lattice_checkout, lattice_checkpoint and the plan tools change   *)
(* lease and graph, authority is revoked, and the process may die.         *)
(*                                                                         *)
(* The state file is ExecutionState, whose operations are the actions      *)
(* used here; the commit of a graph mutation is one step (LatticeStore).   *)
(* An action is the code between two awaits.  An operation on the state    *)
(* file is called with a claim (io), takes effect later, and its caller    *)
(* sees the result later still.  The contract does not change here and     *)
(* there is no pending user input.                                         *)
(***************************************************************************)
EXTENDS Integers, FiniteSets

CONSTANTS
  Process,         \* (host, pid) pairs, all on one host
  Call,            \* guarded tool calls
  Obj,             \* in-memory lease objects
  NoObj,
  Refresh, Change, \* the running lattice_refresh_context and the running
                   \* lattice_checkout, lattice_checkpoint or plan tool
  Overlap,         \* a call may be guarded between the last check of a commit
                   \* of Change and its rename
  Kinds,           \* the tools of Change that are called
  NoLease,
  MaxGeneration, MaxRevision, MaxEpoch,  \* bounds on the state file, the graph
                                         \* and authority
  Scenarios        \* how many calls run at once, how many epochs there are,
                   \* how often authority is revoked, the process dies and an
                   \* operation fails; and how often it has died (history)

ASSUME TaskAssumption ==
  /\ Call \cap Obj = {} /\ (Call \cup Obj) \cap {Refresh, Change} = {}
  /\ Refresh # Change
  /\ NoObj \notin Obj \cup Call \cup {Refresh, Change}
ASSUME DispatchBoundAssumption == {MaxGeneration, MaxRevision, MaxEpoch} \subseteq Nat \ {0}
\* What assertLease accepts as a lease, of whatever revision and generation.
AnyBasis == [root : {0}, node : {"leaf", "fence"}, graph : Int, contract : {0}]
AnyLease == [leaseId : Nat, owner : {0}, basis : AnyBasis, dirty : BOOLEAN,
             releaseWhenClean : BOOLEAN, pending : Nat, legacy : BOOLEAN, pid : Process]
ASSUME NoLeaseAssumption == NoLease \notin AnyLease
ASSUME ScenarioAssumption ==
  Scenarios \subseteq [calls : 1..Cardinality(Call), epochs : 1..MaxEpoch,
                       revoke : Nat, crash : Nat, fail : Nat, deaths : {0}]

VARIABLES
  generation, lease, aged, alive, begun, settled,  \* the state file
  me,          \* the process that runs
  graph,       \* the lattice: revision, receipts, evidence, node status
  epoch,       \* authorizationEpochs
  auth,        \* preparedAuthorizations
  leases,      \* leases: the session's current lease object
  obj,         \* the lease objects
  begins,      \* durableExecutionBegins
  releases,    \* durableReleaseRequests of each object, and its last outcome
  latest,      \* durableReleases: the object whose release was last scheduled
  fences,      \* ownedControlFences
  io,          \* what each task asks of the state file
  call,        \* the guarded calls
  tool,        \* the two tools besides them
  ran,         \* history: the bodies entered
  budget       \* the scenario, and what is left of it

File == <<generation, lease, aged, alive, begun, settled>>
Memory == <<epoch, auth, leases, obj, begins, releases, latest, fences>>
vars == <<File, me, graph, Memory, io, call, tool, ran, budget>>

Slot == {Refresh, Change}
Task == Call \cup Obj \cup Slot

E == INSTANCE ExecutionState WITH
       Host <- {0}, HostOf <- [p \in Process |-> 0], Session <- {0}, Root <- {0},
       Node <- {"leaf", "fence"}, Contract <- {0}, GraphRevision <- 1..(MaxRevision + 1)

Basis(node, revision) == [root |-> 0, node |-> node, graph |-> revision, contract |-> 0]
-----------------------------------------------------------------------------
(* Data.                                                                   *)

None == [op |-> "none"]
NoAuth == [epoch |-> -1, revision |-> 0, shown |-> FALSE]
Snapshot == [generation |-> generation, lease |-> lease]
NoSnapshot == [generation |-> 0, lease |-> NoLease]
ClaimOf(snapshot) == [leaseId |-> snapshot.lease.leaseId, generation |-> snapshot.generation]

NewObject(snapshot, revision, replaced) ==
  [durable |-> snapshot, revision |-> revision, dirty |-> snapshot.lease.dirty,
   release |-> snapshot.lease.releaseWhenClean, basis |-> NoAuth,
   replaced |-> replaced, origin |-> 0]
NoObject == [durable |-> NoSnapshot, revision |-> 0, dirty |-> FALSE, release |-> FALSE,
             basis |-> NoAuth, replaced |-> FALSE, origin |-> 0]

NewCall == [pc |-> "new", epoch |-> 0, basis |-> NoAuth, object |-> NoObj,
            settling |-> NoObj, attempt |-> 0, admitting |-> FALSE, aborted |-> FALSE, release |-> FALSE,
            tries |-> 0]
NewTool == [pc |-> "idle", kind |-> "none", epoch |-> 0, revision |-> 0, object |-> NoObj,
            awaited |-> NoObj, seen |-> NoSnapshot, exact |-> FALSE, evidence |-> 0, release |-> FALSE, tries |-> 0]
Active(c) == call[c].pc # "new"
\* The calls whose signals an invalidation aborts.  Mutant: none.
AbortedNone == call
Aborted == [c \in Call |-> IF Active(c) THEN [call[c] EXCEPT !.aborted = TRUE] ELSE call[c]]

Claim(o) == ClaimOf(obj[o].durable)
Pending(o) == releases[o].running
Referenced == {leases, begins} \cup {call[c].object : c \in Call} \cup {call[c].settling : c \in Call}
              \cup {tool[s].object : s \in Slot}
              \cup {tool[s].awaited : s \in Slot} \cup {o \in Obj : Pending(o)}
Free == Obj \ Referenced

-----------------------------------------------------------------------------
(* The state file.  A task asks for one operation; it is granted, refused  *)
(* because of what the file says, or fails before it commits.              *)

Accepted(r) ==
  CASE r.op = "checkout" -> /\ r.expected = generation
                            /\ E!Held => E!TakeoverAllowed(me, r.basis)
    [] r.op = "begin" -> E!AssertClaim(me, r.claim) /\ ~lease.dirty
    [] r.op = "request" -> E!AssertClaim(me, r.claim)
    [] r.op = "settle" -> /\ E!AssertClaim(me, r.claim)
                          /\ lease.dirty /\ lease.pending = r.attempt
                          /\ r.revision >= lease.basis.graph
    [] r.op = "checkpoint" -> /\ E!AssertClaim(me, r.claim)
                              /\ ~lease.dirty
                              /\ r.revision >= lease.basis.graph
    [] r.op = "release" -> E!AssertClaim(me, r.claim) /\ ~lease.dirty

Operation(r) ==
  \/ r.op = "checkout" /\ E!Checkout(me, 0, r.basis, r.expected, FALSE)
  \/ r.op = "begin" /\ E!BeginExecution(me, r.claim)
  \/ r.op = "request" /\ E!RequestReleaseWhenClean(me, r.claim)
  \/ r.op = "request" /\ lease.releaseWhenClean /\ UNCHANGED File
  \/ r.op = "settle" /\ E!SettleExecution(me, r.claim, r.attempt, r.revision, r.release)
  \/ r.op = "checkpoint" /\ E!Checkpoint(me, r.claim, r.revision, r.release)
  \/ r.op = "release" /\ E!Release(me, r.claim)

Asked(t) == io[t].op \notin {"none", "done"}
Returned(t) == io[t].op = "done"
Rest == <<me, graph, Memory, call, tool, ran>>

Grant(t) ==
  /\ Asked(t)
  /\ Accepted(io[t])
  /\ Operation(io[t])
  /\ io' = [io EXCEPT ![t] = [op |-> "done", of |-> io[t].op, ok |-> TRUE, snapshot |-> Snapshot']]
  /\ UNCHANGED <<Rest, budget>>

Refuse(t) ==
  /\ Asked(t)
  /\ ~Accepted(io[t])
  /\ io' = [io EXCEPT ![t] = [op |-> "done", of |-> io[t].op, ok |-> FALSE]]
  /\ UNCHANGED <<File, Rest, budget>>

FailOperation(t) ==
  /\ Asked(t)
  /\ budget.fail > 0
  /\ budget' = [budget EXCEPT !.fail = @ - 1]
  /\ io' = [io EXCEPT ![t] = [op |-> "done", of |-> io[t].op, ok |-> FALSE]]
  /\ UNCHANGED <<File, Rest>>

-----------------------------------------------------------------------------
(* Releasing a lease.                                                      *)

\* What scheduleLeaseRelease asks first; nothing if the dirty lease is marked.
ReleaseRequest(object) ==
  IF ~object.durable.lease.releaseWhenClean
  THEN [op |-> "request", claim |-> ClaimOf(object.durable)]
  ELSE IF object.dirty THEN None
  ELSE [op |-> "release", claim |-> ClaimOf(object.durable)]

\* scheduleLeaseRelease(key, o), with the current object and the objects and
\* requests as they are then.
Schedule(current, o, objects, requests) ==
  IF current = o /\ ~Pending(o)
  THEN /\ obj' = [objects EXCEPT ![o].release = TRUE]
       /\ io' = [requests EXCEPT ![o] = ReleaseRequest(objects[o])]
       /\ releases' = [releases EXCEPT ![o] = [running |-> ReleaseRequest(objects[o]) # None, ok |-> TRUE]]
       /\ latest' = o
  ELSE /\ obj' = IF current = o THEN [objects EXCEPT ![o].release = TRUE] ELSE objects
       /\ io' = requests
       /\ UNCHANGED <<releases, latest>>

\* Mutant: a release that failed is never over.
FinishedIfOk(o, ok) ==
  /\ io' = [io EXCEPT ![o] = None]
  /\ releases' = [releases EXCEPT ![o] = [running |-> ~ok, ok |-> ok]]
  /\ latest' = IF latest = o /\ ok THEN NoObj ELSE latest
Finished(o, ok) ==
  /\ io' = [io EXCEPT ![o] = None]
  /\ releases' = [releases EXCEPT ![o] = [running |-> FALSE, ok |-> ok]]
  /\ latest' = IF latest = o THEN NoObj ELSE latest

ReleaseReturns(o) ==
  /\ Returned(o)
  /\ \/ /\ io[o].ok /\ io[o].of = "request"
        /\ obj' = [obj EXCEPT ![o].durable = io[o].snapshot]
        /\ IF obj[o].dirty THEN Finished(o, TRUE)
           ELSE /\ io' = [io EXCEPT ![o] = [op |-> "release", claim |-> ClaimOf(io[o].snapshot)]]
                /\ UNCHANGED <<releases, latest>>
        /\ UNCHANGED leases
     \/ /\ io[o].ok /\ io[o].of = "release"
        /\ leases' = IF leases = o THEN NoObj ELSE leases
        /\ Finished(o, TRUE)
        /\ UNCHANGED obj
     \/ /\ ~io[o].ok
        /\ Finished(o, FALSE)
        /\ UNCHANGED <<leases, obj>>
  /\ UNCHANGED <<File, me, graph, epoch, auth, begins, fences, call, tool, ran, budget>>

-----------------------------------------------------------------------------
\* invalidateSessionAuthority takes the authority of the session away.
\* Mutant: the epoch stays.
EndEpochNot == UNCHANGED epoch /\ auth' = NoAuth
EndEpoch == epoch' = epoch + 1 /\ auth' = NoAuth

(* Authority is revoked: a message, a disposed agent, a session that       *)
(* resumes, the native plan mode; or the visible context is replaced.      *)

Revoke(replaced) ==
  /\ alive[me]
  /\ budget.revoke > 0 /\ epoch < budget.epochs
  /\ budget' = [budget EXCEPT !.revoke = @ - 1]
  /\ EndEpoch
  /\ call' = Aborted
  /\ IF leases = NoObj THEN UNCHANGED <<obj, io, releases, latest>>
     ELSE LET cleared == [obj EXCEPT ![leases].basis = NoAuth,
                                     ![leases].replaced = @ \/ replaced,
                                     ![leases].release = @ \/ ~replaced]
          IN IF replaced \/ begins = leases
             THEN obj' = cleared /\ UNCHANGED <<io, releases, latest>>
             ELSE Schedule(leases, leases, cleared, io)
  /\ UNCHANGED <<File, me, graph, leases, begins, fences, tool, ran>>

-----------------------------------------------------------------------------
(* A guarded call.                                                         *)

\* mutationBasisGuard: the revision authority was issued on is the graph's.
\* Mutant: it is not compared.
CurrentAlways(revision) == TRUE
Current(revision) == revision = graph.revision

\* tools/guard: the epoch is consumed before anything is validated.
Guard(c) ==
  /\ alive[me]
  /\ Cardinality({d \in Call : Active(d)}) < budget.calls
  /\ call[c].pc = "new" /\ leases # NoObj /\ epoch < budget.epochs
  /\ EndEpoch
  /\ Overlap \/ tool[Change].pc # "publish"
  /\ LET o == obj[leases]
         fit == ~o.replaced /\ ~o.dirty /\ o.basis # NoAuth /\ o.basis.epoch = epoch
                /\ Current(o.basis.revision)
     IN call' = [Aborted EXCEPT ![c] =
                   IF fit THEN [NewCall EXCEPT !.pc = "prepared", !.epoch = epoch', !.basis = o.basis]
                   ELSE NewCall]
  /\ obj' = [obj EXCEPT ![leases].basis = NoAuth]
  /\ UNCHANGED <<File, me, graph, leases, begins, releases, latest, fences, io, tool, ran, budget>>

Revalidated(c) ==
  /\ call[c].epoch = epoch
  /\ leases # NoObj
  /\ LET o == obj[leases]
     IN /\ ~o.dirty /\ ~o.replaced
        /\ E!AssertClaim(me, Claim(leases))
        /\ ~lease.dirty
        /\ lease.basis.graph = o.revision
  /\ Current(call[c].basis.revision)

\* tools/execute up to the durable begin.
Execute(c) ==
  /\ call[c].pc = "prepared"
  /\ IF Revalidated(c)
     THEN /\ begins' = leases
          /\ io' = [io EXCEPT ![c] = [op |-> "begin", claim |-> Claim(leases)]]
          /\ call' = [call EXCEPT ![c].pc = "begin", ![c].object = leases]
     ELSE /\ call' = [call EXCEPT ![c] = NewCall]
          /\ UNCHANGED <<begins, io>>
  /\ UNCHANGED <<File, me, graph, epoch, auth, leases, obj, releases, latest, fences, tool, ran, budget>>

BeginsWithout(o) == IF begins = o THEN NoObj ELSE begins

Begun(c, o, freed) ==
  LET attempt == io[c].snapshot.lease.pending
      dirty == [obj EXCEPT ![o].durable = io[c].snapshot, ![o].origin = attempt,
                           ![o].dirty = TRUE, ![o].basis = NoAuth]
      next == [call EXCEPT ![c].attempt = attempt]
  IN IF obj[o].release
     THEN /\ Schedule(leases, o, dirty, freed)
          /\ call' = [next EXCEPT ![c].pc = "marking"]
          /\ UNCHANGED begins
     ELSE /\ obj' = dirty
          /\ io' = freed
          /\ call' = [next EXCEPT ![c].pc = IF call[c].aborted THEN "record" ELSE "enter"]
          /\ begins' = BeginsWithout(o)
          /\ UNCHANGED <<releases, latest>>

\* Mutant: the call goes on when the state file refuses it.
NotBegunEnters(c, o, freed) ==
  /\ io' = freed
  /\ call' = [call EXCEPT ![c].pc = "enter"]
  /\ begins' = BeginsWithout(o)
  /\ UNCHANGED <<obj, releases, latest>>

NotBegun(c, o, freed) ==
  IF obj[o].dirty
  THEN /\ io' = freed
       /\ call' = [call EXCEPT ![c].pc = "record", ![c].admitting = TRUE]
       /\ UNCHANGED <<obj, releases, latest, begins>>
  ELSE IF obj[o].release /\ leases = o
  THEN /\ Schedule(leases, o, obj, freed)
       /\ call' = [call EXCEPT ![c].pc = "refused"]
       /\ UNCHANGED begins
  ELSE /\ io' = freed
       /\ call' = [call EXCEPT ![c] = NewCall]
       /\ begins' = BeginsWithout(o)
       /\ UNCHANGED <<obj, releases, latest>>

BeginReturns(c) ==
  /\ call[c].pc = "begin" /\ Returned(c)
  /\ LET freed == [io EXCEPT ![c] = None]
     IN IF io[c].ok THEN Begun(c, call[c].object, freed) ELSE NotBegun(c, call[c].object, freed)
  /\ UNCHANGED <<File, me, graph, epoch, auth, leases, fences, tool, ran, budget>>

\* The release asked for while the call was being admitted has been marked,
\* or could not be: then the call ends with an error receipt.
MarkReturns(c) ==
  /\ call[c].pc \in {"marking", "refused"}
  /\ ~Pending(call[c].object)
  /\ \/ /\ call[c].pc = "refused"
        /\ begins' = BeginsWithout(call[c].object)
        /\ call' = [call EXCEPT ![c] = NewCall]
     \/ /\ call[c].pc = "marking" /\ releases[call[c].object].ok
        /\ begins' = BeginsWithout(call[c].object)
        /\ call' = [call EXCEPT ![c].pc = IF call[c].aborted THEN "record" ELSE "enter"]
     \/ /\ call[c].pc = "marking" /\ ~releases[call[c].object].ok
        /\ call' = [call EXCEPT ![c].pc = "record", ![c].admitting = TRUE]
        /\ UNCHANGED begins
  /\ UNCHANGED <<File, me, graph, epoch, auth, leases, obj, releases, latest, fences, io, tool, ran, budget>>

\* next(): the harness enters the body unless the call's signal is aborted; a
\* middleware may also return without entering it.
Enter(c) ==
  /\ call[c].pc = "enter"
  /\ \/ /\ ~call[c].aborted
        /\ call' = [call EXCEPT ![c].pc = "body"]
        /\ ran' = ran \cup {[life |-> budget.crash, epoch |-> call[c].epoch, attempt |-> call[c].attempt]}
     \/ /\ call' = [call EXCEPT ![c].pc = "record"]
        /\ UNCHANGED ran
  /\ UNCHANGED <<File, me, graph, Memory, io, tool, budget>>

Leave(c) ==
  /\ call[c].pc = "body"
  /\ call' = [call EXCEPT ![c].pc = "record"]
  /\ UNCHANGED <<File, me, graph, Memory, io, tool, ran, budget>>

\* tools/result, and the finally of the admission when it ends the call.
End(c) ==
  /\ call' = [call EXCEPT ![c] = NewCall]
  /\ begins' = IF call[c].admitting THEN BeginsWithout(call[c].object) ELSE begins

\* recordMechanicalExecution: the lease that is settled is the session's
\* current one, whatever object the call began with.
Record(c) ==
  /\ call[c].pc = "record"
  /\ IF leases # NoObj /\ obj[leases].dirty
     THEN call' = [call EXCEPT ![c].pc = "receipt", ![c].settling = leases] /\ UNCHANGED begins
     ELSE End(c)
  /\ UNCHANGED <<File, me, graph, epoch, auth, leases, obj, releases, latest, fences, io, tool, ran, budget>>

ReleaseAsked(o) == obj[o].release \/ obj[o].durable.lease.releaseWhenClean

\* Without a receipt the lease stays dirty.  Mutant: it is settled even so.
ReceiptLostSettles(c) == call' = [call EXCEPT ![c].pc = "receipted"] /\ UNCHANGED begins
ReceiptLost(c) == End(c)

\* The receipt of the pending execution, which carries the release asked for.
MakeReceipt(c) ==
  LET o == call[c].settling
  IN /\ call[c].pc = "receipt"
     /\ ~Pending(o)
     /\ IF call[c].attempt # 0 /\ obj[o].durable.lease.pending = call[c].attempt
        THEN /\ call' = [call EXCEPT ![c].pc = "write", ![c].release = ReleaseAsked(o)]
             /\ UNCHANGED begins
        ELSE End(c)
     /\ UNCHANGED <<File, me, graph, epoch, auth, leases, obj, releases, latest, fences, io, tool, ran, budget>>

\* Its commit, in the store's lock and up to the last check of ownership.
WriteReceipt(c) ==
  LET o == call[c].settling
  IN /\ call[c].pc = "write"
     /\ graph.writer = NoObj
     /\ IF /\ graph.revision = obj[o].revision /\ graph.done = 0
           /\ \A r \in graph.receipts : r.attempt # call[c].attempt
           /\ E!AssertClaim(me, Claim(o))
        THEN /\ graph' = [graph EXCEPT !.writer = c]
             /\ call' = [call EXCEPT ![c].pc = "publish"]
             /\ UNCHANGED begins
        ELSE ReceiptLost(c) /\ UNCHANGED graph
     /\ UNCHANGED <<File, me, epoch, auth, leases, obj, releases, latest, fences, io, tool, ran, budget>>

PublishReceipt(c) ==
  /\ call[c].pc = "publish"
  /\ \/ /\ graph.revision < MaxRevision
        /\ graph' = [graph EXCEPT !.writer = NoObj, !.revision = @ + 1,
                       !.receipts = @ \cup {[attempt |-> call[c].attempt, release |-> call[c].release,
                                             revision |-> graph.revision + 1]}]
        /\ call' = [call EXCEPT ![c].pc = "receipted"]
        /\ UNCHANGED <<begins, budget>>
     \/ /\ budget.fail > 0
        /\ budget' = [budget EXCEPT !.fail = @ - 1]
        /\ graph' = [graph EXCEPT !.writer = NoObj]
        /\ ReceiptLost(c)
  /\ UNCHANGED <<File, me, epoch, auth, leases, obj, releases, latest, fences, io, tool, ran>>

SettleRequest(c) ==
  [op |-> "settle", claim |-> Claim(call[c].settling), attempt |-> call[c].attempt,
   revision |-> obj[call[c].settling].revision + 1, release |-> ReleaseAsked(call[c].settling)]

Settle(c) ==
  /\ call[c].pc = "receipted"
  /\ ~Pending(call[c].settling)
  /\ io' = [io EXCEPT ![c] = SettleRequest(c)]
  /\ call' = [call EXCEPT ![c].pc = "settling"]
  /\ UNCHANGED <<File, me, graph, Memory, tool, ran, budget>>

SettleReturns(c) ==
  LET o == call[c].settling
      r == io[c]
      freed == [io EXCEPT ![c] = None]
      clean == [obj EXCEPT ![o].revision = @ + 1, ![o].dirty = FALSE, ![o].basis = NoAuth, ![o].origin = 0]
  IN /\ call[c].pc = "settling" /\ Returned(c)
     /\ \/ /\ ~r.ok
           /\ End(c)
           /\ io' = freed
           /\ UNCHANGED <<obj, leases, releases, latest>>
        \/ /\ r.ok /\ r.snapshot.lease = NoLease
           /\ obj' = clean
           /\ leases' = IF leases = o THEN NoObj ELSE leases
           /\ End(c)
           /\ io' = freed
           /\ UNCHANGED <<releases, latest>>
        \/ /\ r.ok /\ r.snapshot.lease # NoLease
           /\ UNCHANGED leases
           /\ LET kept == [clean EXCEPT ![o].durable = r.snapshot]
              IN IF obj[o].release /\ leases = o
                 THEN /\ Schedule(leases, o, kept, freed)
                      /\ call' = [call EXCEPT ![c].pc = "converging", ![c].tries = 1]
                      /\ UNCHANGED begins
                 ELSE obj' = kept /\ io' = freed /\ End(c) /\ UNCHANGED <<releases, latest>>
     /\ UNCHANGED <<File, me, graph, epoch, auth, fences, tool, ran, budget>>

\* convergeRequestedLeaseRelease: the release is tried once more.
Converge(c) ==
  LET o == call[c].settling
  IN /\ call[c].pc = "converging"
     /\ ~Pending(o)
     /\ IF call[c].tries < 2 /\ leases = o
        THEN /\ Schedule(leases, o, obj, io)
             /\ call' = [call EXCEPT ![c].tries = 2]
             /\ UNCHANGED begins
        ELSE End(c) /\ UNCHANGED <<obj, io, releases, latest>>
     /\ UNCHANGED <<File, me, graph, epoch, auth, leases, fences, tool, ran, budget>>

-----------------------------------------------------------------------------
(* lattice_refresh_context and restoreDurableLease.                        *)

R == tool[Refresh]
OthersR == <<File, me, graph, epoch, auth, begins, releases, latest, call, ran, budget>>

RefreshStart ==
  /\ alive[me]
  /\ R.pc = "idle"
  /\ tool' = [tool EXCEPT ![Refresh] = [NewTool EXCEPT !.pc = "peeked", !.epoch = epoch,
                                                       !.revision = graph.revision]]
  /\ UNCHANGED <<OthersR, leases, obj, fences, io>>

RestoreStart ==
  /\ R.pc = "peeked"
  /\ tool' = [tool EXCEPT ![Refresh].pc = "waiting", ![Refresh].object = leases, ![Refresh].awaited = latest]
  /\ UNCHANGED <<OthersR, leases, obj, fences, io>>

RestoreRead ==
  /\ R.pc = "waiting"
  /\ R.awaited # NoObj => ~Pending(R.awaited)
  /\ tool' = IF R.awaited = NoObj \/ releases[R.awaited].ok
             THEN [tool EXCEPT ![Refresh].pc = "read", ![Refresh].seen = Snapshot, ![Refresh].awaited = NoObj]
             ELSE [tool EXCEPT ![Refresh] = NewTool]
  /\ UNCHANGED <<OthersR, leases, obj, fences, io>>

\* The lease this process has in memory is the one the file held: then its
\* execution, if any, is its own.
Exact ==
  /\ R.object # NoObj
  /\ obj[R.object].durable = R.seen
  /\ R.seen.lease.dirty => R.seen.lease.pending # 0 /\ obj[R.object].origin = R.seen.lease.pending

\* The graph that restores was read before the state file was.
Receipt(d) == {r \in graph.receipts : r.attempt = d.lease.pending /\ r.revision <= R.revision}
Evidence == {e \in graph.evidence : e.at >= R.seen.generation /\ e.revision <= R.revision}
Completed == graph.done # 0 /\ graph.done <= R.revision

RefreshFails ==
  /\ tool' = [tool EXCEPT ![Refresh] = NewTool]
  /\ io' = [io EXCEPT ![Refresh] = None]
  /\ UNCHANGED <<leases, obj, fences>>

Ask(request, exact, pc) ==
  /\ io' = [io EXCEPT ![Refresh] = request]
  /\ tool' = [tool EXCEPT ![Refresh].pc = pc, ![Refresh].exact = exact]
  /\ UNCHANGED <<leases, obj, fences>>

\* restoreDurableLease returns with this lease object, or none.
RestoredTo(current) ==
  /\ leases' = current
  /\ tool' = [tool EXCEPT ![Refresh].pc = "restored"]
  /\ io' = [io EXCEPT ![Refresh] = None]

Forgotten == IF R.object # NoObj THEN NoObj ELSE leases

AskRelease(d, exact) == Ask([op |-> "release", claim |-> ClaimOf(d)], exact, "releasing")

\* Graph and lease agree: the lease is released or continued.
Continue(d, exact) ==
  IF ~d.lease.dirty /\ (d.lease.releaseWhenClean \/ (R.seen.lease.pid # me /\ ~exact))
  THEN AskRelease(d, exact)
  ELSE \E o \in Free :
         /\ obj' = [obj EXCEPT ![o] = NewObject(d, R.revision, TRUE)]
         /\ RestoredTo(o)
         /\ UNCHANGED fences

\* Graph and lease are compared: either crash window is closed by what it left.
Reconcile(d, exact) ==
  LET delta == R.revision - d.lease.basis.graph
      localRelease == exact /\ obj[R.object].release
  IN CASE d.lease.basis.node = "fence" -> AskRelease(d, exact)
       [] d.lease.basis.node # "fence" /\ delta = 0 -> Continue(d, exact)
       [] d.lease.basis.node # "fence" /\ delta = -1 /\ ~d.lease.dirty -> AskRelease(d, exact)
       [] d.lease.basis.node # "fence" /\ delta = 1 /\ d.lease.dirty /\ Receipt(d) # {} ->
            Ask([op |-> "settle", claim |-> ClaimOf(d), attempt |-> d.lease.pending,
                 revision |-> R.revision,
                 release |-> \/ Completed \/ d.lease.releaseWhenClean \/ localRelease \/ ~exact
                             \/ \E r \in Receipt(d) : r.release], exact, "settling")
       [] d.lease.basis.node # "fence" /\ delta = 1 /\ ~d.lease.dirty /\ Evidence # {} ->
            Ask([op |-> "checkpoint", claim |-> ClaimOf(d), revision |-> R.revision,
                 release |-> Completed \/ d.lease.releaseWhenClean \/ localRelease], exact, "settling")
       [] OTHER -> RefreshFails

\* The lease is this session's in this process; a control fence has an owner
\* session of its own.  Mutant: it does not.
OwnLeaseOfAnySession(found) == found.pid = me
OwnLease(found) == found.pid = me /\ found.basis.node # "fence"

RestoreFound ==
  /\ R.pc = "read"
  /\ LET seen == R.seen
     IN CASE seen.lease = NoLease -> RestoredTo(Forgotten) /\ UNCHANGED <<obj, fences>>
          [] seen.lease # NoLease /\ seen.lease.leaseId \in fences -> RefreshFails
          [] seen.lease # NoLease /\ seen.lease.leaseId \notin fences /\ OwnLease(seen.lease) ->
               IF E!AssertClaim(me, ClaimOf(seen)) THEN Reconcile(seen, Exact) ELSE RefreshFails
          [] OTHER -> Ask([op |-> "checkout", basis |-> seen.lease.basis, expected |-> seen.generation],
                          FALSE, "takeover")
  /\ UNCHANGED OthersR

RestoreReturns ==
  /\ R.pc \in {"takeover", "settling", "releasing"} /\ Returned(Refresh)
  /\ LET r == io[Refresh]
     IN \/ ~r.ok /\ RefreshFails
        \/ r.ok /\ R.pc = "takeover" /\ Reconcile(r.snapshot, Exact)
        \/ r.ok /\ R.pc = "settling" /\ r.snapshot.lease # NoLease /\ Continue(r.snapshot, R.exact)
        \/ /\ r.ok /\ R.pc # "takeover" /\ r.snapshot.lease = NoLease
           /\ RestoredTo(Forgotten)
           /\ fences' = fences \ {R.seen.lease.leaseId}
           /\ UNCHANGED obj
  /\ UNCHANGED OthersR

\* issueCurrentReceipt and the tool's end: authority is issued for the lease
\* there is now, unless the epoch changed meanwhile.
RefreshEnds ==
  /\ R.pc = "restored"
  /\ LET receipt == [epoch |-> epoch, revision |-> R.revision, shown |-> FALSE]
     IN IF R.epoch = epoch
        THEN /\ auth' = receipt
             /\ obj' = IF leases = NoObj THEN obj
                       ELSE [obj EXCEPT ![leases].basis = receipt, ![leases].replaced = FALSE]
        ELSE UNCHANGED <<auth, obj>>
  /\ tool' = [tool EXCEPT ![Refresh] = NewTool]
  /\ UNCHANGED <<File, me, graph, epoch, leases, begins, releases, latest, fences, io, call, ran, budget>>

\* The turn ends: the model has seen the receipts issued in it.
EndTurn ==
  /\ alive[me]
  /\ \A c \in Call : ~Active(c)
  /\ \A s \in Slot : tool[s].pc = "idle"
  /\ auth # NoAuth /\ ~auth.shown
  /\ auth' = [auth EXCEPT !.shown = TRUE]
  /\ UNCHANGED <<File, me, graph, epoch, leases, obj, begins, releases, latest, fences, io, call, tool, ran, budget>>

-----------------------------------------------------------------------------
(* lattice_checkout, lattice_checkpoint, and the tools that change the plan *)
(* (lattice_add, _split, _update, _archive, _adopt_context), which hold a   *)
(* control fence in place of a lease.                                       *)

T == tool[Change]
OthersT == <<File, me, leases, begins, ran>>
ChangeEnds == tool' = [tool EXCEPT ![Change] = NewTool]
Checkpointing == T.kind \in {"checkpoint", "complete"}

\* consumeFreshAuthorization: the receipt is consumed, then validated.
Consume(kind) ==
  /\ alive[me]
  /\ T.pc = "idle" /\ epoch < budget.epochs
  /\ auth # NoAuth /\ auth.shown
  /\ kind \in {"checkpoint", "complete"} => leases # NoObj /\ ~obj[leases].dirty
  /\ EndEpoch
  /\ call' = Aborted
  /\ obj' = IF leases = NoObj THEN obj ELSE [obj EXCEPT ![leases].basis = NoAuth]
  /\ tool' = IF auth.epoch = epoch /\ auth.revision = graph.revision
             THEN [tool EXCEPT ![Change] =
                     [NewTool EXCEPT !.pc = IF kind \in {"checkpoint", "complete"} THEN "change" ELSE "consumed",
                                     !.kind = kind, !.epoch = epoch', !.revision = graph.revision,
                                     !.object = IF kind \in {"checkpoint", "complete"} THEN leases ELSE NoObj]]
             ELSE tool
  /\ UNCHANGED <<OthersT, graph, releases, latest, fences, io, budget>>

\* ensureNoActiveLease, then the reservation of the leaf or the plan.
Reserve ==
  /\ T.pc = "consumed"
  /\ latest = NoObj
  /\ IF T.epoch = epoch /\ leases = NoObj /\ lease = NoLease
     THEN /\ io' = [io EXCEPT ![Change] =
                      [op |-> "checkout", expected |-> generation,
                       basis |-> IF T.kind = "plan" THEN Basis("fence", T.revision)
                                 ELSE Basis("leaf", T.revision + 1)]]
          /\ tool' = [tool EXCEPT ![Change].pc = "reserving"]
     ELSE ChangeEnds /\ UNCHANGED io
  /\ UNCHANGED <<OthersT, graph, epoch, auth, obj, releases, latest, fences, call, budget>>

\* ownedControlFences.
FencesWith(snapshot) == IF T.kind = "plan" THEN fences \cup {snapshot.lease.leaseId} ELSE fences

ReserveReturns ==
  /\ T.pc = "reserving" /\ Returned(Change)
  /\ IF io[Change].ok
     THEN /\ tool' = [tool EXCEPT ![Change].pc = "change", ![Change].seen = io[Change].snapshot]
          /\ fences' = FencesWith(io[Change].snapshot)
     ELSE ChangeEnds /\ UNCHANGED fences
  /\ io' = [io EXCEPT ![Change] = None]
  /\ UNCHANGED <<OthersT, graph, epoch, auth, obj, releases, latest, call, budget>>

ChangeClaim == IF Checkpointing THEN Claim(T.object) ELSE ClaimOf(T.seen)

\* The mutation is refused: a reservation is given back.
Abandon ==
  IF Checkpointing THEN ChangeEnds /\ UNCHANGED io
  ELSE /\ io' = [io EXCEPT ![Change] = [op |-> "release", claim |-> ClaimOf(T.seen)]]
       /\ tool' = [tool EXCEPT ![Change].pc = "undoing"]

\* The callback of store.mutate, in the store's lock.
WriteChange ==
  /\ T.pc = "change"
  /\ graph.writer = NoObj
  /\ IF T.epoch = epoch /\ graph.revision = T.revision /\ (Checkpointing => graph.done = 0)
     THEN /\ graph' = [graph EXCEPT !.writer = Change]
          /\ tool' = [tool EXCEPT ![Change].pc = "written", ![Change].evidence = generation]
          /\ UNCHANGED io
     ELSE Abandon /\ UNCHANGED graph
  /\ UNCHANGED <<OthersT, epoch, auth, obj, releases, latest, fences, call, budget>>

\* beforeCommit.
CheckChange ==
  /\ T.pc = "written"
  /\ IF T.epoch = epoch /\ E!AssertClaim(me, ChangeClaim)
     THEN tool' = [tool EXCEPT ![Change].pc = "publish"] /\ UNCHANGED <<io, graph>>
     ELSE Abandon /\ graph' = [graph EXCEPT !.writer = NoObj]
  /\ UNCHANGED <<OthersT, epoch, auth, obj, releases, latest, fences, call, budget>>

\* A checkpoint's evidence, in the commit of the checkpoint.  Mutant: a
\* completion has none.
NewEvidenceOfProgress ==
  IF T.kind = "checkpoint" THEN graph.evidence \cup {[at |-> T.evidence, revision |-> graph.revision + 1]}
  ELSE graph.evidence
NewEvidence ==
  IF Checkpointing THEN graph.evidence \cup {[at |-> T.evidence, revision |-> graph.revision + 1]}
  ELSE graph.evidence

PublishChange ==
  /\ T.pc = "publish"
  /\ \/ /\ graph.revision < MaxRevision
        /\ graph' = [graph EXCEPT
             !.writer = NoObj,
             !.revision = @ + 1,
             !.evidence = NewEvidence,
             !.done = IF T.kind = "complete" THEN graph.revision + 1 ELSE IF T.kind = "checkout" THEN 0 ELSE @]
        /\ tool' = [tool EXCEPT ![Change].pc = "published"]
        /\ UNCHANGED <<io, budget>>
     \/ /\ budget.fail > 0
        /\ budget' = [budget EXCEPT !.fail = @ - 1]
        /\ graph' = [graph EXCEPT !.writer = NoObj]
        /\ Abandon
  /\ UNCHANGED <<OthersT, epoch, auth, obj, releases, latest, fences, call>>

\* clearWorkspace, and the lease of the leaf checked out.
CheckedOut ==
  /\ T.pc = "published" /\ T.kind = "checkout"
  /\ EndEpoch
  /\ call' = Aborted
  /\ \E o \in Free :
       /\ LET objects == [obj EXCEPT ![o] = NewObject(T.seen, T.revision + 1, FALSE)]
          IN IF leases = NoObj \/ begins = leases
             THEN obj' = objects /\ UNCHANGED <<io, releases, latest>>
             ELSE Schedule(leases, leases, objects, io)
       /\ leases' = o
  /\ ChangeEnds
  /\ UNCHANGED <<File, me, begins, ran, graph, fences, budget>>

PlanChanged ==
  /\ T.pc = "published" /\ T.kind = "plan"
  /\ Abandon
  /\ UNCHANGED <<OthersT, graph, epoch, auth, obj, releases, latest, fences, call, budget>>

Undone ==
  /\ T.pc = "undoing" /\ Returned(Change)
  /\ fences' = IF io[Change].ok THEN fences \ {T.seen.lease.leaseId} ELSE fences
  /\ io' = [io EXCEPT ![Change] = None]
  /\ ChangeEnds
  /\ UNCHANGED <<OthersT, graph, epoch, auth, obj, releases, latest, call, budget>>

\* checkpointCommittedGraph: three tries, each on what the file holds by then.
AskCheckpoint(snapshot, release) ==
  /\ io' = [io EXCEPT ![Change] = [op |-> "checkpoint", claim |-> ClaimOf(snapshot),
                                   revision |-> T.revision + 1, release |-> release]]
  /\ tool' = [tool EXCEPT ![Change].pc = "closing", ![Change].seen = snapshot,
                          ![Change].release = release, ![Change].tries = @ + 1]

CheckpointCommitted ==
  /\ T.pc = "published" /\ Checkpointing
  /\ AskCheckpoint(obj[T.object].durable, T.kind = "complete" \/ ReleaseAsked(T.object))
  /\ UNCHANGED <<OthersT, graph, epoch, auth, obj, releases, latest, fences, call, budget>>

\* The lease object is replaced by one on the checkpointed lease.
Close(snapshot) ==
  IF snapshot.lease = NoLease
  THEN leases' = NoObj /\ ChangeEnds /\ io' = [io EXCEPT ![Change] = None] /\ UNCHANGED <<obj, releases, latest>>
  ELSE \E o \in Free :
         LET kept == [obj EXCEPT ![o] = [obj[T.object] EXCEPT !.durable = snapshot, !.revision = T.revision + 1,
                                                              !.dirty = FALSE, !.basis = NoAuth, !.origin = 0]]
             freed == [io EXCEPT ![Change] = None]
         IN /\ leases' = o
            /\ IF obj[T.object].release
               THEN /\ Schedule(o, o, kept, freed)
                    /\ tool' = [tool EXCEPT ![Change].pc = "converging", ![Change].object = o, ![Change].tries = 1]
               ELSE obj' = kept /\ io' = freed /\ ChangeEnds /\ UNCHANGED <<releases, latest>>

CheckpointReturns ==
  /\ T.pc \in {"closing", "closingRelease"} /\ Returned(Change)
  /\ IF io[Change].ok THEN Close(io[Change].snapshot)
     ELSE /\ UNCHANGED <<leases, obj, releases, latest>>
          /\ IF T.pc = "closing"
             THEN io' = [io EXCEPT ![Change] = None] /\ tool' = [tool EXCEPT ![Change].pc = "reread"]
             ELSE IF T.tries < 3 THEN AskCheckpoint(T.seen, T.release)
             ELSE ChangeEnds /\ io' = [io EXCEPT ![Change] = None]
  /\ UNCHANGED <<File, me, begins, ran, graph, epoch, auth, fences, call, budget>>

Reread ==
  /\ T.pc = "reread"
  /\ LET release == T.release \/ ReleaseAsked(T.object) \/ (E!Held /\ lease.releaseWhenClean)
     IN IF lease = NoLease THEN Close(Snapshot)
        ELSE IF \/ lease.leaseId # T.seen.lease.leaseId \/ lease.dirty
                \/ lease.basis.graph > T.revision + 1
        THEN ChangeEnds /\ UNCHANGED <<io, leases, obj, releases, latest>>
        ELSE IF lease.basis.graph < T.revision + 1
        THEN /\ IF T.tries < 3 THEN AskCheckpoint(Snapshot, release) ELSE ChangeEnds /\ UNCHANGED io
             /\ UNCHANGED <<leases, obj, releases, latest>>
        ELSE IF ~release THEN Close(Snapshot)
        ELSE /\ io' = [io EXCEPT ![Change] = [op |-> "release", claim |-> ClaimOf(Snapshot)]]
             /\ tool' = [tool EXCEPT ![Change].pc = "closingRelease", ![Change].seen = Snapshot,
                                     ![Change].release = release]
             /\ UNCHANGED <<leases, obj, releases, latest>>
  /\ UNCHANGED <<File, me, begins, ran, graph, epoch, auth, fences, call, budget>>

ConvergeChange ==
  /\ T.pc = "converging"
  /\ ~Pending(T.object)
  /\ IF T.tries < 2 /\ leases = T.object
     THEN /\ Schedule(leases, T.object, obj, io)
          /\ tool' = [tool EXCEPT ![Change].tries = 2]
     ELSE ChangeEnds /\ UNCHANGED <<obj, io, releases, latest>>
  /\ UNCHANGED <<OthersT, graph, epoch, auth, fences, call, budget>>

-----------------------------------------------------------------------------
(* The process dies, with all that it keeps in memory, and starts again.   *)

NoMemory ==
  /\ epoch' = 0 /\ auth' = NoAuth
  /\ leases' = NoObj /\ obj' = [o \in Obj |-> NoObject] /\ begins' = NoObj
  /\ releases' = [o \in Obj |-> [running |-> FALSE, ok |-> TRUE]] /\ latest' = NoObj
  /\ fences' = {}
  /\ io' = [t \in Task |-> None]
  /\ call' = [c \in Call |-> NewCall]
  /\ tool' = [s \in Slot |-> NewTool]

Crash ==
  /\ budget.crash > 0
  /\ budget' = [budget EXCEPT !.crash = @ - 1, !.deaths = @ + 1]
  /\ E!Crash(me)
  /\ NoMemory
  /\ graph' = [graph EXCEPT !.writer = NoObj]
  /\ UNCHANGED <<me, ran>>

Restart(p) ==
  /\ ~alive[me]
  /\ E!Start(p)
  /\ me' = p
  /\ UNCHANGED <<graph, Memory, io, call, tool, ran, budget>>

GraceEnds ==
  /\ E!Age
  /\ UNCHANGED <<me, graph, Memory, io, call, tool, ran, budget>>

-----------------------------------------------------------------------------
\* The workspace has a graph; its leaf is free, or checked out by a process.
Init ==
  /\ me \in Process
  /\ alive = [p \in Process |-> p = me]
  /\ aged = FALSE /\ begun = {} /\ settled = {}
  /\ graph = [revision |-> 1, receipts |-> {}, evidence |-> {}, done |-> 0, writer |-> NoObj]
  /\ \/ /\ generation = 0 /\ lease = NoLease
        /\ leases = NoObj
        /\ obj = [o \in Obj |-> NoObject]
     \/ /\ generation = 1
        /\ lease = [leaseId |-> 1, owner |-> 0, basis |-> Basis("leaf", 1), dirty |-> FALSE,
                    releaseWhenClean |-> FALSE, pending |-> 0, legacy |-> FALSE, pid |-> me]
        /\ leases \in Obj
        /\ obj = [o \in Obj |-> IF o = leases THEN NewObject(Snapshot, 1, FALSE) ELSE NoObject]
  /\ epoch = 0 /\ auth = NoAuth /\ begins = NoObj /\ latest = NoObj /\ fences = {}
  /\ releases = [o \in Obj |-> [running |-> FALSE, ok |-> TRUE]]
  /\ io = [t \in Task |-> None]
  /\ call = [c \in Call |-> NewCall]
  /\ tool = [s \in Slot |-> NewTool]
  /\ ran = {}
  /\ budget \in Scenarios

CallStep(c) ==
  \/ Execute(c) \/ BeginReturns(c) \/ MarkReturns(c) \/ Enter(c) \/ Leave(c) \/ Record(c)
  \/ MakeReceipt(c) \/ WriteReceipt(c) \/ PublishReceipt(c) \/ Settle(c) \/ SettleReturns(c) \/ Converge(c)

RefreshStep == RestoreStart \/ RestoreRead \/ RestoreFound \/ RestoreReturns \/ RefreshEnds

ChangeStep ==
  \/ Reserve \/ ReserveReturns \/ WriteChange \/ CheckChange \/ PublishChange \/ CheckedOut
  \/ PlanChanged \/ Undone \/ CheckpointCommitted \/ CheckpointReturns \/ Reread \/ ConvergeChange

Next ==
  \/ \E t \in Task : Grant(t) \/ Refuse(t) \/ FailOperation(t)
  \/ \E o \in Obj : ReleaseReturns(o)
  \/ \E replaced \in BOOLEAN : Revoke(replaced)
  \/ \E c \in Call : Guard(c) \/ CallStep(c)
  \/ RefreshStart \/ RefreshStep \/ EndTurn
  \/ \E kind \in Kinds : Consume(kind)
  \/ ChangeStep
  \/ Crash \/ GraceEnds
  \/ \E p \in Process : Restart(p)

Spec == Init /\ [][Next]_vars

\* The event loop runs what is ready, and operations on files end.
FairSpec ==
  /\ Spec
  /\ \A t \in Task : WF_vars(Grant(t) \/ Refuse(t))
  /\ \A o \in Obj : WF_vars(ReleaseReturns(o))
  /\ \A c \in Call : WF_vars(CallStep(c))
  /\ WF_vars(RefreshStep)
  /\ WF_vars(ChangeStep)
-----------------------------------------------------------------------------
(* Properties.                                                             *)

\* The types; whoever writes the graph holds the store's lock, and a lease
\* object is the session's own, or awaited, or nobody's.
TypeOK ==
  /\ E!TypeOK
  /\ me \in Process
  /\ graph.revision \in 1..MaxRevision /\ graph.done \in 0..MaxRevision
  /\ graph.writer \in Call \cup {Change, NoObj}
  /\ graph.writer \in Call => call[graph.writer].pc = "publish"
  /\ graph.writer = Change => tool[Change].pc \in {"written", "publish"}
  /\ epoch \in 0..(MaxEpoch + 1) /\ (auth # NoAuth => auth.epoch = epoch)
  /\ {leases, begins, latest} \subseteq Obj \cup {NoObj}
  /\ fences \subseteq 1..MaxGeneration
  /\ \A o \in Obj : releases[o].running <=> io[o] # None
  /\ \A c \in Call : Asked(c) => call[c].pc \in {"begin", "settling"}
  /\ Asked(Refresh) => tool[Refresh].pc \in {"takeover", "settling", "releasing"}
  /\ Asked(Change) => tool[Change].pc \in {"reserving", "undoing", "closing", "closingRelease"}

\* A body runs only while the state file names its own attempt, whatever
\* refreshes, releases and other calls do meanwhile (beginExecution,
\* recordMechanicalExecution, restoreDurableLease).
BodyRunsUnderItsAttempt ==
  \A c \in Call : call[c].pc = "body" => E!Held /\ lease.pending = call[c].attempt

\* The graph a body was authorized on does not move while it runs.
BodyRunsOnItsGraph ==
  \A c \in Call : call[c].pc = "body" => graph.revision = call[c].basis.revision

\* One authorization epoch lets one body run at most (README.md, "parallel or
\* retried mutations cannot reuse it").
AuthorityIsUsedOnce ==
  \A a, b \in ran : a.life = b.life /\ a.epoch = b.epoch => a = b

\* No body runs before the outcome of every body that was entered earlier is
\* in the graph, also across failures and restarts (recordMechanicalExecution,
\* restoreDurableLease).  BodiesAreGuarded has it at the entry of a body.
EarlierBodiesAreRecorded ==
  \A c \in Call : call[c].pc = "body" =>
    \A body \in ran : \/ body.attempt = call[c].attempt
                      \/ \E r \in graph.receipts : r.attempt = body.attempt

\* Whatever the order of steps, failures and crashes, the graph is at most one
\* commit away from the lease in the file, and a commit ahead of it carries
\* what explains it: the attempt's receipt or the checkpoint's evidence
\* (restoreDurableLease throws on everything else, for ever).
LeaseFollowsGraph ==
  E!Held /\ lease.basis.node = "leaf" =>
    \/ graph.revision = lease.basis.graph
    \/ graph.revision = lease.basis.graph - 1 /\ ~lease.dirty
    \/ /\ graph.revision = lease.basis.graph + 1 /\ lease.dirty
       /\ \E r \in graph.receipts : r.attempt = lease.pending
    \/ /\ graph.revision = lease.basis.graph + 1 /\ ~lease.dirty
       /\ \E e \in graph.evidence : e.revision = graph.revision

\* What the first process that dies during a checkpoint leaves can be
\* recovered: evidence one revision ahead of the state file settles the lease
\* (docs/RC5_RELEASE.md), and recovery wants it to be as recent as the file.
\* A release marked in between renews the file and is excepted; so is what a
\* later death leaves, after a takeover has renewed it (see the README).
CheckpointIsRecoverable ==
  /\ budget.deaths = 1 /\ \A p \in Process : ~alive[p]
  /\ E!Held /\ lease.basis.node = "leaf" /\ ~lease.dirty /\ ~lease.releaseWhenClean
  /\ graph.revision = lease.basis.graph + 1
  => \E e \in graph.evidence : e.revision = graph.revision /\ e.at >= generation

\* Authority revoked before the body is entered keeps it from being entered.
RevokedAuthorityEntersNoBody ==
  [][\A c \in Call : (call[c].pc # "body" /\ call'[c].pc = "body") => call[c].epoch = epoch]_vars

\* A change of the plan is committed while the state file holds its fence:
\* nothing that restores or releases leases meanwhile takes it away
\* (mutateWithStructuralFence, ownedControlFences).
PlanChangesUnderItsFence ==
  [][(PublishChange /\ T.kind = "plan" /\ graph'.revision # graph.revision)
       => E!Held /\ lease.leaseId = T.seen.lease.leaseId]_vars

\* Every guarded call and every lattice tool ends: what they await of each
\* other, of scheduled releases and of the store's lock comes.
EveryToolEnds ==
  /\ \A c \in Call : Active(c) ~> ~Active(c)
  /\ \A s \in Slot : tool[s].pc # "idle" ~> tool[s].pc = "idle"

\* Whatever calls, refreshes, releases, failures and crashes do, the bodies of
\* guarded tools go through GuardedExecution: each under an attempt of its own,
\* one at a time and after the outcome of the one before is in the graph
\* (beginExecution, recordMechanicalExecution, settleExecution).
Guarded == INSTANCE GuardedExecution WITH
             Attempt <- E!Generation, open <- E!OpenAttempts, closed <- settled,
             entered <- {body.attempt : body \in ran},
             recorded <- {r.attempt : r \in graph.receipts}
BodiesAreGuarded == Guarded!Spec
=============================================================================
