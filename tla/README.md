# Verification of dsh-plan-lattice

TLA+ models of the parts of dsh-plan-lattice that are hard to test, the TLC
runs that check them and the theorems TLAPS proves about them. The reference
is the code under `src/src/`. `PROJECT.json` maps every definition that models
code to the lines it stands for.

## 1. The system

The plugin lives in the host process of an agent harness. Per workspace it
keeps a *lattice* (a tree of plan nodes with a revision), a confirmed
*contract*, and an *execution lease* that says which session of which process
may run mutating tools, on which node and on which graph and contract. Several
host processes may open one workspace; they share nothing but files. Inside a
process everything runs on one event loop, and interleaves at each `await`.

| Part | Source | State | Operations | Hard behaviour |
|---|---|---|---|---|
| Execution ownership | `execution-state.ts` | `state.json`: generation, at most one lease (owner, node, bases, dirty, pending attempt, release request) | checkout, beginExecution, requestReleaseWhenClean, settleExecution, checkpoint, release | takeover from dead owners, stale claims, pid reuse, v1 files |
| Execution-state lock | `execution-state.ts` | `.lock`, `.recover-<token>.lock`, temporary files | withLock, acquireLock, tryReclaimDeadLock, atomicWrite | crashes at every file access, failed directory syncs, power loss |
| Graph store | `store.ts` | snapshot, ledger, version (the commit marker), history, a cache per process | create, mutate, read, peek, readLatticeStateSync | lock-free readers, torn appends, compaction, rejected commits, pending creations |
| Graph store lock | `store.ts` | `.lock`, `.lock.recovery` | acquire, release, recoverDeadLockSync | recoverers racing each other and new owners |
| Graph domain | `domain.ts`, the plan tools of `index.ts` | nodes and statuses | add, split, update, archive, checkout, checkpoint and complete (with the collapse of parents), reframe | status rules through the tree; two sessions on one graph |
| Dispatch | `index.ts` (`tools/guard`, `tools/execute`, `prepareProtectedDispatch`, `revalidatePreparedDispatch`, `recordMechanicalExecution`, `restoreDurableLease`) | in-memory lease, control of each session, prepared dispatches; mechanical receipts in the graph | guard, revalidate, begin, body, receipt, settle, restart | revocation between guard and body, crashes between durable steps, release requests while a call runs |
| Contract, framing, input review | `index.ts` (`lattice_*intake`, `lattice_reframe`, `lattice_*input_review`), `contract.ts`, `contract-anchor.ts`, `input-review.ts` | `CONTRACT.md`, `contract.json`, anchor; pending input markers | persistContract, verifyContract, prepare and commit a review, reframe | writes of several files, input that arrives meanwhile |
| Delegated input fences | `delegated-input-fence.ts` | records and references per workspace and session | record, verify, clear | dangling references, readers against clearing |
| Delegation binding, trust anchors | `delegation-binding.ts`, `native-*-anchor.ts` | write-once files per session | read, persist | a second writer with other content |
| Mutation context | `mutation-context.ts`, `context.ts` | none (digests) | verify targets, structural view | |
| Router, intake, gap analysis, invariants, continuity, shell allowlist | `router*.ts`, `intake.ts`, `critical-gaps.ts`, `task-invariants.ts`, `native-continuity.ts`, `shell-readonly.ts` | none | pure text functions | none that interleaves |
| Evaluation, demos, studies | `eval/`, `demo/`, `prospective/`, `scripts/` | — | — | not part of the running system |

How they interact: the controller (`index.ts`) calls the graph store for
every plan operation and passes a `beforeCommit` callback that re-checks
authority at the commit point; it calls execution ownership before and after
each guarded tool and compares the graph revision in the lease with the store's;
it writes contract and anchor when the user confirms a framing, and fences
execution (`acquireControlFence`) while it reconciles the graph. The harness
calls back on events: messages inserted, tools called, agents disposed.

What makes each part correct is stated as the properties in section 3. `hazards` in
`PROJECT.json` lists what a test would hardly reach, at its line.

## 2. Modules

| Module | Models | Notes |
|---|---|---|
| `AttemptLedger` | abstract promise of execution ownership | one attempt open at a time, each settled once |
| `ExecutionState` | operations of `PersistentExecutionState` | one action per operation, each one atomic transition of the file |
| `ExecutionStateProofs` | theorems about `ExecutionState` | TLAPS |
| `ExecutionLock` | the lock and the commit under those operations | one action per file access |
| `ExecutionLockProofs` | theorems about `ExecutionLock` | TLAPS |
| `LatticeStore` | `create`, `mutate`, `load`, `readLatticeStateSync` | one action per await or synchronous file access |
| `LatticeStoreProofs` | theorems about `LatticeStore` | TLAPS |
| `StoreLock` | the writer lock under `LatticeStore` | one action per file access |
| `StoreLockProofs` | theorems about `StoreLock` | TLAPS |
| `GuardedExecution` | abstract promise of the dispatch | extends `AttemptLedger` by the bodies entered and the outcomes recorded |
| `Dispatch` | guarded tools, refresh and recovery, checkout, checkpoint and plan changes in `index.ts` | composes `ExecutionState`; one action per stretch of code between two awaits |
| `DispatchShape` | what the proofs about `Dispatch` share: its inductive type and protocol, the six kinds of step, the epochs | TLAPS |
| `DispatchProofs` | theorems about `Dispatch` | TLAPS |
| `LatticeGraph` | the tree of nodes and the tools that change it | several sessions on one graph; one action per stretch between two awaits |
| `LatticeGraphProofs` | theorems about `LatticeGraph`, with lemmas on lineages and changes of status | TLAPS |
| `ContractAdoption` | input, its review, reframe and its files, delegated input fences, restart | composes the controller with `contract.ts`, `contract-anchor.ts`, `input-review.ts`, `delegated-input-fence.ts` |
| `ContractAdoptionProofs` | theorems about `ContractAdoption` | TLAPS |
| `MC*` | instances of the above for TLC | process placement, symmetry |

**ExecutionState.** `generation` and `lease` are the two fields of
`state.json`. A rejected call changes nothing and is a stuttering step. Random
ids (`leaseId`, `attemptId`) are the generation they were minted at: the code
never reuses either. `aged` stands for the comparison of `updatedAt` with
`deadOwnerGraceMs`. `begun` and `settled` are history. `Init` includes a v1
file, clean or dirty, at generation 2 (v1 files are normalised on read).

**ExecutionLock.** A transition reads a version and may commit the next; what
it decides is `ExecutionState`. A file change is visible at once and durable
after a directory sync; `disk` is what a power loss can bring back. A change
and its sync are one step whose other outcome is the error. Tokens are
recycled once no file and no task refers to them, because a UUID is never
seen twice by anyone who could compare it.

**LatticeStore.** A graph is the sequence of the mutations in it. The cached
object is tracked (`cache[p].by`) because `mutate` changes it in place before
the commit. `Materialize` follows `materializeLedger` line by line, with the
early stop at the committed revision, the uncommitted tail, the overlap with a
newer snapshot and the legacy mode without a version file. The lock here is
atomic and is left behind by a dead process; its own protocol is `StoreLock`.
Histories: `committed` is what the last version rename published, `rejected`
the mutations that failed before theirs.

**StoreLock.** Each process is one task, as recovery is synchronous code. A
dead process stays dead: a restart is a new pid.

**Dispatch.** One session in full-lattice control, in one live host process at
a time (`me`). The state file is `ExecutionState`, by `E == INSTANCE`: a task
asks for an operation with the claim it holds (`io[t]`), `Grant` performs the
operation of `ExecutionState`, `Refuse` is its rejection and `FailOperation` an
error before the commit; the caller sees the result in a later step. A commit
of the graph is one step (`LatticeStore`), after the callback and
`beforeCommit` have run in the store's lock; the rename is a step of its own,
because it is awaited. `graph` keeps the revision, the receipts, the checkpoint
evidence and whether the leaf is complete.

| In the model | In `index.ts` |
|---|---|
| `epoch`, `auth` | `authorizationEpochs`, `preparedAuthorizations` |
| `leases`, `obj` | the session's entry of `leases` and the lease objects, which keep their identity after they are replaced |
| `begins`, `releases`, `latest`, `fences` | `durableExecutionBegins`, `durableReleaseRequests`, `durableReleases`, `ownedControlFences` |
| `call[c]`: prepared, begin, marking, enter, body, record, receipt, write, publish, receipted, settling, converging | a guarded call from `tools/guard` through `tools/execute` and `recordMechanicalExecution` |
| `tool[Refresh]` | `lattice_refresh_context`, `issueCurrentReceipt`, `restoreDurableLease` |
| `tool[Change]` | `lattice_checkout`, `lattice_checkpoint`, and with kind `plan` the tools behind `mutateWithStructuralFence` |
| `Revoke` | `invalidateSessionAuthority` from messages, disposal, resume, plan mode and context replacement |

`ran` records the bodies entered. Two tools of the kind `Change` do not overlap,
nor do two refreshes. `EndTurn` is the harness: the model can pass the id of a
receipt only after the turn in which it was issued. Guarded calls and a `Change` may
run side by side; `Overlap` says whether a call may be guarded even between the last
check of a change's commit (`index.ts:6511`) and the rename that publishes it.

**LatticeGraph.** A node id is its place in `nodes`, in the order of creation.
A tool runs in three steps, each between two awaits: `Prepare`
(`consumeFreshAuthorization`), `TakeLease` (a checkout, or the fence of
`mutateWithStructuralFence`), and the commit of its own, after which `Finish`
or `Settle` gives the fence back. Epochs and revisions are one flag: whether
the authority consumed and the graph read are still the current ones
(`request[s].current`). A request that the graph it was read from would refuse is
not followed. `RecordExecution` is the receipt of a guarded tool, which is a
commit of the same graph. The contract of the graph changes with `Reframe`;
`accepted` is what the controls of the sessions hold until `Adopt`.

**ContractAdoption.** The task has an accepted contract. A contract is its
revision: the tools that publish exclude each other, and an attempt that left a
trace is never repeated at its revision. Times are places in the root's log.

| In the model | In the code |
|---|---|
| `anchor`, `document`, `record` | the anchor under the trust root, `CONTRACT.md`, `contract.json` |
| `graph` | `project.contractRevision` of the lattice |
| `log`, `received` | human messages and review markers of the root's session; human messages of delegated sessions |
| `inbox`, `staged` | accepted messages not in a log; `undurableUserInputs` |
| `fence`, `writes` | references under the trust root (`Dangling` without their record); `durableFenceWrites` |
| `control`, `auth` | `controls` (contract, `reframePending`); mutation basis, refresh and prepared dispatch of each session |
| `review`, `deferred` | `preparedInputReviews`; the marker of `deferInputReviewMarker` |
| `tool` | the contract tool of the root between two of its awaits; `live` is false once its epoch has passed |
| `Insert`, `Deliver` | `agent/inbox/inserted`, `session/event` |
| `BeginReview` … `EndCommit`, `MarkerFollows` | `lattice_review_input`, `lattice_commit_input_review` |
| `CallReframe` … `Frame`, `Finalize` … `Adopt` | `lattice_reframe` from its call to the capture of its epoch, with `consumeFreshAuthorization` and `ensureNoActiveLease` on a lattice; `finalizePendingContract`, `persistConfirmedContract`, `clearAfterContractAdoption` |
| `Crash`, `Restart` | the process dies; `installControl` |

## 3. Properties and runs

| Run | Question | Result |
|---|---|---|
| `ExecutionState` | attempts, bases, release requests, ownership and revisions through every order of operations, crashes and restarts; refinement of `AttemptLedger` | holds |
| `ExecutionLock` | one owner, serial transitions, no decision on a state that can be lost | holds |
| `ExecutionLockRecoveryCrash` | a dead owner's lock is reclaimed, with a crash of the recoverer | violated: `.recover-<token>.lock` is never removed |
| `LatticeStore` | recoverability, linearizable reads, rejected mutations stay out, commits lose nothing; on an existing graph and from an empty workspace with aborted and crashed creations | holds |
| `StoreLock` | one running writer at a time, dead processes in the recovery included | holds |
| `StoreLockRecoveryCrash` | the same with two live recoverers besides a dead owner and a dead recoverer | violated: two writers |
| `Dispatch` | calls, refreshes, checkouts, checkpoints and plan changes, with two calls at once, also under a revocation, or with a death of the process: bodies run under their own attempt, on the graph they were authorized on, once per authority, never on revoked authority; refinement of `GuardedExecution` (one body per attempt, after the outcome of earlier ones is recorded); a plan changes only under its fence; lease and graph never part by more than one explained commit, and a checkpoint that reached only the graph can be proved | holds |
| `DispatchLive` | every call and tool ends | holds |
| `LatticeGraph` | the leased leaf can be worked on and finished whatever the other session does; nothing unfinished is hidden below finished work; work is complete only under the current contract; the frontier shows what is left; history is kept | holds |
| `ContractAdoption` | every message is answered before guarded work, fences block it and are cleared only by a contract that took them up, a torn publication stays fenced and can be replaced after a restart | holds |
| `ContractChanged` | input reviewed as changing the contract blocks until a reframe | violated: a restart forgets it |
| `ContractDelegated` | `FenceClearedOnlyByAdoption` with delegated input at any step | violated: input that arrives during the last awaits of a reframe loses its fence |

The violated runs are the `findings` of `PROJECT.json`, each with the sentence
of a document, comment or test it disagrees with.

### What the passing runs assume

Each of these is a constant or a scenario of a configuration; without it the
run named is violated by what the code does.

* `LatticeStore`: the existing graph has a version file. On a graph without one
  `materializeLedger` applies every ledger line, so a mutation that failed after
  its append becomes part of the graph (`FailedStaysOut`).
* `LatticeStore`: where graphs are created nobody reads. A read that begins before
  the pending marker of a creation and ends after its abort finds no version file
  both times and returns the staged graph as a version-less one
  (`ReadsAreCommitted`).
* `LatticeStore`: every process reads and mutates through one store, and
  `ReadsAreCommitted` judges all reads but one kind. While a mutation of the process
  is between its change of the cached object and its last step, `load` answers from
  that object, before the commit (`Changing`). Without this exception the run is
  violated, though `store.ts:672` says "readers never expose revisions beyond this
  marker"; what `store.ts:716` promises, that a mutation which failed leaves no
  "half-committed in-memory graph", is judged and holds.
* `Dispatch`: no call is guarded between the last check of a checkout's, checkpoint's
  or plan change's commit (`mutationBasisGuard`, `index.ts:6511`) and the rename that
  publishes it (`Overlap = FALSE`). Nothing in the code excludes it: a call guarded
  there, on a refreshed authority, sees the graph of its authorization move under its
  body. With `Overlap = TRUE` this violates `BodyRunsOnItsGraph` and
  `LeaseFollowsGraph`. In every other order calls and a `Change` share turns: a call
  guarded earlier in a change ends its epoch, and the last check abandons the change.
* `Dispatch`: `CheckpointIsRecoverable` speaks of what the first death leaves
  (`budget.deaths = 1`). The takeover of a dead owner's lease commits a new `updatedAt`
  (`index.ts:3437`) before the checkpoint is settled; a second death in between leaves
  a lease newer than its evidence, and recovery throws, although `index.ts:3504` calls
  the old timestamp "the proof boundary even when a dead owner is taken over". A
  release request marked while the checkpoint is committed does the same, and the
  property excepts it.
* `ContractAdoption`: no delegated input arrives in two windows of a reframe, in which
  the code compares no epoch from before with one from after (`Windows = {}`).
  `"framing"`: what `lattice_reframe` says is fixed when it is called, and it captures
  its epoch at `index.ts:6070`, after the awaits of `workspaceFor` (5992) and, on a
  lattice, of `ensureNoActiveLease` (6035). (An input during
  `consumeFreshAuthorization`, 6026, is refused: it compares epochs at 3896.)
  `"release"`: after the last check, at 4889 or, on a lattice, 4937. In either, the
  input is fenced under the old revision and the fence is cleared at 4955 by a contract
  that never saw it, so `FenceClearedOnlyByAdoption` is violated. `ContractDelegated`
  opens the second; with `Windows = {"framing"}` in its place TLC finds the first one's
  trace too: the input is inserted, `CallReframe`, the input is delivered and its fence
  recorded while the tool awaits, `BeginReframe`, and the publication clears the fence.
* `ExecutionLock` says nothing of progress. A lock is reclaimed after one crash
  and never after a second one at the wrong moment (`MaxCrash` in
  `ExecutionLockRecoveryCrash.cfg`).

Other behaviour of the code a reader should know, which no property judges:

* Authority revoked while the anchor of a reframe is being written leaves the
  anchor one revision ahead of what the process holds; every later
  `lattice_reframe` is refused (`index.ts:4829`) until a restart reads the anchor.
* `deferInputReviewMarker` deletes all staged inputs of the root, also one
  accepted after the last check of the review; the message is pending again once it
  is in the log.
* If the reference of a fence is linked and the sync after it fails, the record is
  removed and the reference dangles: every later load fails, which blocks and stays
  blocked. A crash between a delegated message reaching its log and its fence being
  linked loses the fence.
* An archived child keeps its parent open when all live children are complete
  (`domain.ts:234` counts all children; the comment at 218 says "non-archived", and a
  test in `domain.test.ts` expects what the code does). The parent is then no
  frontier node (`FrontierShowsTheWork` excepts this).

### Bounds

* `ExecutionState`: three (host, pid) pairs, two of them on one host, two nodes
  and graph revisions, six committed transitions. Checkout, begin, takeover,
  settle, and a second checkout and begin fit into six transitions.
* `ExecutionLock`: three tasks in three processes, four tokens (interchangeable),
  two committed transitions, two crashes or power losses. Three tasks are one
  owner and two recoverers; the second crash hits a recoverer.
* `LatticeStore`: two processes, in each a writer and a reader (one of `load`, one of
  `readLatticeStateSync`), two mutations, one crash,
  `snapshotEvery = 2`: an uncommitted tail, its normalisation, a commit and a
  compaction occur in one behaviour, with a reader open across all of them; and four
  mutations or creations with two crashes in an empty workspace, so that a
  pending bundle is found, discarded and its discarding interrupted.
* `StoreLock`: three processes with three acquisitions each and two deaths;
  four processes in the violated run, the smallest number that shows it.
* `Dispatch`: five generations of the state file (two begins and their
  settlements after a checkout, or a begin, a crash, a takeover, a settlement
  and a release), seven in `DispatchLive`, so that nothing waits for a bound; three
  graph revisions. A scenario bounds the rest: two calls and three authorizations; two
  calls, two authorizations and a revocation; or one call, two authorizations, a
  crash and a failing operation. The faults that need two calls need no crash, and
  those of a crash need one call; the theorems of `DispatchProofs` are about every
  combination. Two lease objects are alive at a time: the session's and the one a
  call or a tool still holds. Plan changes are the only `Change` of
  `DispatchLive`, as a checkout needs an object of its own.
* `LatticeGraph`: the root and one delegated session, four nodes, two revisions of
  the contract, from the bootstrap plan of `lattice_open` (a root and a leaf) and from
  a plan without nodes, with a limit of one top-level node and two children: a collapse
  through two levels, a split of a leaf another session wants, an archived
  sibling and a reframe over completed work all fit.
* `ContractAdoption`: one delegated session, two inputs of the root (one that is
  recognised as material) and one of the delegated session, three revisions. The
  budgets: two root inputs, a reframe and a crash; a material and a delegated input, two
  reframes and a crash; a delegated input, two reframes, a crash, an operational
  notice and a failing fence write. Two reframes are what it takes to replace a
  torn publication.

The time of a commit is its generation: the milliseconds that `recordedAt` and
`updatedAt` compare are ordered as the commits are.

### Fairness

`ExecutionLockRecoveryCrash` assumes it: weak fairness of each running task's next
step (the event loop resumes an awaited file operation; a caller whose
operation timed out calls again) and of the grace period running out. Nothing
makes a process or the machine fail, or start again. `DispatchLive` assumes
weak fairness of each operation asked of the state file, of each call, refresh
and change that has begun (a tool body returns) and of the continuation of a
release; nothing makes a tool start.

## 4. Proofs

Every theorem holds for all values of the constants that satisfy the named
assumptions of its module: any number of processes, sessions, tasks, tokens, nodes,
messages, contracts and faults. A safety invariant is seldom inductive alone; each
module defines `IInv`, the conjunction that is, proves `Init => IInv`, one lemma per
action or group of actions, and concludes with PTL. TLC checked each `IInv` first.

| Module | Theorems | Properties |
|---|---|---|
| `ExecutionStateProofs` | 8 | all of the run `ExecutionState` |
| `ExecutionLockProofs` | 3 | `HolderKeepsTheLock`, `TransitionsAreSerial`, `UnlockedStateIsDurable` |
| `StoreLockProofs` | 2 | `OwnerKeepsTheLock`, `RemovesOnlyTheDead`, if nobody dies in the recovery |
| `LatticeGraphProofs` | 6 | all of the run `LatticeGraph` |
| `ContractAdoptionProofs` | 7 | `TypeOK`, `AnchorLeads`, `InterruptedReframeStaysFenced`, `RestartAllowsReframe`, `EveryInputIsAnswered`; `FencesBlock` if nothing arrives in the window `"release"`; `FenceClearedOnlyByAdoption` if `Windows = {}` |
| `LatticeStoreProofs` | 4 | `Recoverable`, `CommitsExtendTheLog`; `FailedStaysOut` if no scenario begins with a v1 ledger; `ReadsAreCommitted` if the graph exists when reads start |
| `DispatchProofs` | 10 | all of the run `Dispatch`: `AuthorityIsUsedOnce`, `RevokedAuthorityEntersNoBody`, `BodyRunsUnderItsAttempt`, `PlanChangesUnderItsFence`, the refinement `BodiesAreGuarded` and its consequence `EarlierBodiesAreRecorded`; `TypeOK`, `BodyRunsOnItsGraph`, `LeaseFollowsGraph` and `CheckpointIsRecoverable` if `Overlap = FALSE` |

**ExecutionState.** `IInv` adds `MintedBefore`: every identifier in the file or in
the history is a generation already passed. With it a new attempt is a new one, so
that `NoAttemptForgotten` (an equality of sets) survives `BeginExecution`, and
`SettleExecution` removes exactly one attempt. The action properties follow from
`TypeOK` and two facts: an operation other than a takeover keeps process, owner and
lease id (`LeaseStep`), and a takeover inherits what is unsettled
(`CheckedOutType`, `TakeoverKeepsOpenBasis`). `LedgerImplemented` maps the open
attempt to `open` and the settled ones to `closed`; every operation but begin and
settle is a stutter.

**ExecutionLock.** A recovery file has one owner (`OneRecoverer`), and from its
recheck to its removal nobody holds the lock (`ReclaimsTheDead`): a task that could
hold it would be alive (`OnlyTheLivingRun`), and a dead owner's lock is the only
entry there is (`OneEntry`). `DurableBeforeUnlock` says that every point from which
the lock can be removed lies after a sync, so that failed syncs keep the lock.

**StoreLock.** The theorems assume `NobodyDiesRecovering`, which is what
`StoreLockRecoveryCrash` lacks: no process dies between linking
`.lock.recovery` and unlinking it. Then a recovery lock belongs to a live process
(`HolderRuns`), nobody takes it over, and one process at a time inspects and removes
`.lock`. All other deaths are allowed.

**LatticeGraph.** `RequestsHold` says what a request that may still commit was read
from (this graph, this contract) and that it holds the lease or the fence; so nobody
changes the graph under a leased leaf. `OpenAbove` is what makes the climb of
`completeAndCollapse` right: an open parent has a child that is not complete. Facts
about the ancestors of a node, a recursive function, are proved from a least or a
greatest counterexample (`LeastOf`, `GreatestOf`), which stands in for the
induction theorems the prover cannot instantiate. For the frontier, the youngest
unfinished node is the witness.

**ContractAdoption.** `ToolFollowsFiles` says how far anchor, document, record and
graph have come at each step of a reframe, and `TornIsFenced` that the control is
fenced wherever they disagree. For the fences: what is fenced or being recorded is
also staged, or fences every control; the contract in the making takes it up while
its tool is live; and after the last check the writes have drained, so that clearing
finds them all. The last needs the window `"release"` shut (`"release" \notin
Windows`), and that the contract takes up what waits needs both shut: otherwise
`FenceClearedOnlyByAdoption` is violated (section 3). For the
messages: each contract answers what was said up to the place it was reviewed at,
each marker what was said up to its boundary, and the rest is pending, in the log or
in the inbox. With that, `TypeOK` is inductive once the fences being
recorded, the marker on its way and the contract in the making are typed too
(`CarriedShapes`).

**LatticeStore.** `Materialize` is a function of the lines read so far, so what it
yields follows from a least counterexample: over the lines from revision `a` on, the
graph after `i` lines is the committed graph up to `Upto(a, s, n, i)`, and the tail is
never looked at. `FileInv` says for each place of `create` and `mutate` what the
version file, the ledger and the snapshot hold beside what the histories say was
committed; only the holder of the lock is at such a place (`Exclusive`), so a step of
one writer is compared with its own place alone (`WriterStep`). A crash or a failed
write leaves files that still satisfy `FilesSay`, which is why it is the inductive
form of `Recoverable`. The condition of `FailedMutationsStayOut` is one the code needs.
A v1 ledger has no commit marker: a line whose `mutate` failed after the append counts
when the next `load` reads it, so the theorem starts from graphs with a marker
(`NoLegacy`). `ReadsReturnCommits` is about readers of all processes. `CacheHas` says
that a cached object is the graph committed as its generation, or its process is in
the midst of a mutation that changes it (`Changing`); what ends such a mutation,
failure included, drops or replaces the object (`WriterCache`).

**Dispatch.** `Shape` is inductive alone: the shapes of claims, tools and operations,
the protocol between a tool and the state file (`Protocol`: a result is there only
for who asked), and `LiveObjects`. `StepKinds` then reduces every step of the 60 odd
actions to one of six kinds (a grant of the state file, a refusal or failure of it, a
step of a call, the guard's check of a call, a crash, and `Beside` for whatever leaves
file and calls alone), so that each later invariant is proved once per kind. `Epochs`: an epoch handed to a call is spent
when its body is entered and no call has the same, which gives `AuthorityUsedOnce`
and `RevokedAuthority` in all lives of the process. `FileInv` and `Attempts`: an
attempt in the file belongs to the one call between its begin and its settlement, and
only that call settles it; this is what keeps refreshes, releases and takeovers from
taking the lease away under a body. `GraphInv`: a receipt is written before the
attempt that it records is settled, and a change that may still commit (`Sure`: its
authority is current, or it is at its rename) has no active call beside it; a call
guarded before the last check ends the epoch, so that the change is given up. `FenceInv` dates what is in memory: every transition
of the state file raises its generation, and the process writes one file at a time, so
that no snapshot and no claim is newer than the file. While a plan tool holds the
newest one (`Mine`) all others are older (`FenceHeld`): no other claim is accepted, the
owner is alive, so nobody may take the fence over, and what the tool commits in that
state is committed under its fence (`PlanUnderItsFence`).

`BodiesGuarded` is the refinement of `GuardedExecution`: the grant of a begin is
`Begin`, entering a body `Enter`, the receipt in the graph `Record`, the grant of a
settlement `Settle`, and every other step, a takeover and a crash included, a
stutter. An attempt that was begun and has no receipt is the open one
(`UnrecordedIsOpen`), so whatever body was entered before is recorded; that the
attempt has entered no body yet is the one fact it adds (`Unentered`).

`LeaseInv` is what `LeaseFollows` needs: whatever is as recent as the file agrees
with its lease. That is an object, a result not yet heard, a request, and the
snapshot a refresh or a change restores from; what is older is refused, since a
claim names a generation. The file's own lease is then compared with the graph by the
place of the one call or tool that may have written the graph ahead of it
(`Settlings`, `Changing`). Each step that is no grant is reduced to what it does to
objects and requests (`Effects`), so that the parts of `LeaseInv` are proved once for
all of them. What it says of an object holds as long as the file follows it
(`Recent`), also when a call overtakes the change that the object was made for.
`Overlap = FALSE` is needed for the last window of a commit alone: a call guarded in
it violates `LeaseFollowsGraph` (section 3). `DispatchTypeCorrect` adds `Bounded` to
`LeaseInv`.
`CheckpointRecovered` adds `FirstDeath`: until the first process dies it owns the
lease, so nothing renews the file but its own operations, and the evidence that a
checkpoint writes ahead of the file is dated when it is written; after the death the
file rests, until a takeover, which a living process makes. It holds for any number
of deaths, because the property is about the first.

Of the constants the proofs assume `TaskAssumption`, `NoLeaseAssumption`,
`ScenarioAssumption` and, for the bounds, `DispatchBoundAssumption`.

Only model-checked: the liveness properties, which need fairness and `ENABLED`. The
properties of the four violated runs are false of the code; the theorems that name
one of them say under which assumption it holds.

## 5. What is abstracted

Texts, digests and formats are identities; a digest comparison is an equality.
Validation of file formats is modelled where the code writes the files itself:
`TypeOK` of `ExecutionState` is `assertLease`. Disk-full and permission errors
are failures of the step at hand. Directory syncs and power loss are modelled
for the execution state only; in `Dispatch` an operation that fails has not
committed (errors after the rename, which keep the lock, are `ExecutionLock`'s).
Of a mutation basis `Dispatch` keeps the graph revision and the epoch; targets,
host preconditions, tool definitions and arguments do not change in it, no user
input is pending, and the contract stays the same.

`ContractAdoption` starts from an accepted contract and has one contract tool of
the root at a time (the turn of an agent; `intakeInProgress` for reframes). Guarded
tools are those of the contract phase; on a lattice they are `Dispatch`, and what
the three models share is the epoch a step revokes. The steps inside the
recording of one fence are one action. `LatticeGraph` leaves out titles, criteria,
evidence, the leaf assigned to a delegated session, and crashes.

## 6. Not modelled

* The initial intake, the automatic native mode with its delegation bindings and
  anchors, and the v1 legacy mode: they run before, or instead of, the contract whose
  changes `ContractAdoption` follows.
* Router, classifier, intake questions, gap analysis, invariants, continuity summary,
  shell allowlist: pure functions of text, whose correctness is a matter of wording.
* `eval/`, `demo/`, `prospective/` and `scripts/`: six sevenths of the repository's
  lines are benchmark drivers, fixtures and dated copies of them. They are no part
  of the plugin, keep no state it reads, and run once; modelling them would say
  nothing of the system. The share of all lines that is modelled stays small for this
  reason; of the plugin itself (12 000 lines) the state-changing half is in a module.

## 7. Plan

1. The initial intake and the native mode, with `DelegationBinding` (write-once files
   keyed by session).
2. Refinement: the lock-level operations implement the atomic transitions of
   `ExecutionState`; `Dispatch` asks the state file for nothing but its operations,
   on bases that file can have.
