----------------------------- MODULE LatticeStore -----------------------------
(***************************************************************************)
(* The durable graph store of src/src/store.ts: a snapshot, a ledger of    *)
(* deltas and a version file that is the commit marker, written by tasks   *)
(* that hold the writer lock, and read without it.  Every await of create, *)
(* mutate, load and readLatticeStateSync is a step; a process can die, and *)
(* a write can fail, between any two of them.                              *)
(*                                                                         *)
(* A graph is the sequence of the mutations in it, the creation first, so  *)
(* that its revision is its length.  The ledger is a sequence of entries;  *)
(* an append that was cut short leaves a torn one.  Here the writer lock   *)
(* is a lock, that a dead owner leaves behind: its own recovery is module  *)
(* StoreLock.  history.jsonl is appended next to the ledger and never read *)
(* back: a failure to append it is one of the failures of that step.       *)
(***************************************************************************)
EXTENDS Integers, Sequences, SequencesExt

CONSTANTS
  Writer,            \* tasks that create or mutate the graph
  Reader,            \* tasks that read it through LatticeStore.load
  SyncReader,        \* tool guards, that use readLatticeStateSync
  Process, ProcOf,   \* processes, and the process of each task
  NoFile,            \* a file that does not exist
  SnapshotEvery,     \* StoreOptions.snapshotEvery
  MaxMutation,       \* bound on the mutations ever attempted
  Scenarios          \* what a behaviour may be like, see Scenario

Task == Writer \cup Reader \cup SyncReader

ASSUME TaskAssumption ==
  /\ ProcOf \in [Task -> Process]
  /\ Writer \cap (Reader \cup SyncReader) = {} /\ Reader \cap SyncReader = {}
ASSUME LockAssumption == {"free", "dead"} \cap Process = {}
ASSUME BoundAssumption == SnapshotEvery \in Nat \ {0} /\ MaxMutation \in Nat

\* What is on disk first, whether writers may create a graph, the tasks that
\* read, and bounds on the mutations ever attempted and on process crashes.
Scenario == [beginning : {"none", "legacy", "graph"}, creating : BOOLEAN,
             readers : SUBSET (Reader \cup SyncReader),
             mutations : 0..MaxMutation, crashes : Nat]
ASSUME ScenarioAssumption == \A s \in Scenarios : s \in Scenario

VARIABLES
  version, snapshot, ledger,  \* the files
  lock,       \* the writer lock: "free", "dead", or the process that owns it
  cache,      \* LatticeStore.cache, for each process
  committed,  \* history: the graph as of the last commit
  rejected,   \* history: mutations that failed before their commit point
  mutations,  \* how many mutations were attempted
  scenario,   \* what this behaviour is like; crashes are counted down
  pc,         \* where each task is
  base,       \* the graph a writer works on
  kept,       \* the ledger lines a writer found committed
  seen,       \* the version, ledger and snapshot a reader has read
  since,      \* the revision that was committed when a read began
  got         \* what a read returned, the empty graph standing for undefined

files == <<version, snapshot, ledger>>
history == <<committed, rejected, mutations>>
writing == <<base, kept>>
reading == <<seen, since, got>>
vars == <<files, lock, cache, history, scenario, pc, writing, reading>>

Pending == 0                          \* PENDING_CREATE_VERSION
Torn == [revision |-> 0, id |-> 0]    \* a ledger line that does not parse
NoCache == [generation |-> NoFile, graph |-> <<>>, by |-> NoFile]
Nothing == [version |-> NoFile, ledger |-> NoFile, snapshot |-> NoFile]

\* A line of the ledger, and what no file contains.
Line == [revision : Nat, id : Nat]
ASSUME FileAssumption == NoFile \notin Nat /\ NoFile \notin Seq(Nat) /\ NoFile \notin Seq(Line)

-----------------------------------------------------------------------------
(* materializeLedger                                                       *)

Lines(led) == IF led = NoFile THEN <<>> ELSE led

\* One ledger line, when a version file names the committed revision.  After
\* that revision is reached nothing is looked at, not even a torn line.
ApplyCommitted(revision, snapshotRevision, m, entry) ==
  IF ~m.ok \/ Len(m.graph) = revision THEN m
  ELSE IF entry = Torn THEN [m EXCEPT !.ok = FALSE]
  ELSE IF entry.revision <= snapshotRevision THEN m
  ELSE IF entry.revision > revision THEN [m EXCEPT !.tail = TRUE]
  ELSE IF m.tail \/ entry.revision # Len(m.graph) + 1 THEN [m EXCEPT !.ok = FALSE]
  ELSE [m EXCEPT !.graph = Append(@, entry.id), !.kept = Append(@, entry)]

\* One ledger line of a graph that never had a version file: all of them count.
ApplyLegacy(m, entry) ==
  IF ~m.ok \/ entry.revision # Len(m.graph) + 1 THEN [m EXCEPT !.ok = FALSE]
  ELSE [m EXCEPT !.graph = Append(@, entry.id), !.kept = Append(@, entry)]

\* One ledger line, when the version file names revision ver or is missing.
ApplyLine(ver, snap, m, entry) ==
  IF ver = NoFile THEN ApplyLegacy(m, entry) ELSE ApplyCommitted(ver, Len(snap), m, entry)

Materialize(ver, led, snap) ==
  LET start == [ok |-> snap # NoFile /\ ver # Pending, tail |-> FALSE,
                graph |-> IF snap = NoFile THEN <<>> ELSE snap, kept |-> <<>>]
      lines == Lines(led)
      after[i \in 0..Len(lines)] ==
        IF i = 0 THEN start ELSE ApplyLine(ver, snap, after[i - 1], lines[i])
      result == after[Len(lines)]
  IN IF ~start.ok THEN start
     ELSE [result EXCEPT !.ok = @ /\ (ver # NoFile => Len(result.graph) = ver)]

-----------------------------------------------------------------------------
Proc(t) == ProcOf[t]
Goto(t, label) == pc' = [pc EXCEPT ![t] = label]

\* A finished writer forgets what it worked with.
Leave(t) ==
  /\ Goto(t, "idle")
  /\ base' = [base EXCEPT ![t] = <<>>]
  /\ kept' = [kept EXCEPT ![t] = 0]
  /\ UNCHANGED reading

DropCache(p) == cache' = [cache EXCEPT ![p] = NoCache]
SetCache(p, generation, graph, by) ==
  cache' = [cache EXCEPT ![p] = [generation |-> generation, graph |-> graph, by |-> by]]

\* The error paths of create and mutate: the cache is dropped, and the lock
\* is released, unless a visible rename could not be confirmed.  Mutant: the
\* object that the mutation changed stays in the cache.
ThrowCached(t) ==
  /\ Goto(t, "release")
  /\ UNCHANGED <<cache, writing, reading, lock>>
Throw(t) ==
  /\ DropCache(Proc(t))
  /\ Goto(t, "release")
  /\ UNCHANGED <<writing, reading, lock>>
ThrowRetaining(t) ==
  /\ DropCache(Proc(t))
  /\ Leave(t)
  /\ UNCHANGED lock

\* The mutation or creation a writer works on fails before its commit point.
Reject(t) ==
  /\ rejected' = rejected \cup {Last(base[t])}
  /\ UNCHANGED <<committed, mutations>>

\* An atomicWrite of a file whose new content the caller has set: confirmed,
\* or visible with its directory sync failing.
Renamed(t, next) ==
  \/ Goto(t, next) /\ UNCHANGED <<lock, cache, writing, reading>>
  \/ ThrowRetaining(t)

Init ==
  /\ scenario \in Scenarios
  /\ version = IF scenario.beginning = "graph" THEN 1 ELSE NoFile
  /\ snapshot = IF scenario.beginning = "none" THEN NoFile ELSE <<0>>
  /\ ledger = IF scenario.beginning = "none" THEN NoFile ELSE <<>>
  /\ committed = IF scenario.beginning = "none" THEN <<>> ELSE <<0>>
  /\ lock = "free"
  /\ cache = [p \in Process |-> NoCache]
  /\ rejected = {}
  /\ mutations = 0
  /\ pc = [t \in Task |-> "idle"]
  /\ base = [t \in Task |-> <<>>]
  /\ kept = [t \in Task |-> 0]
  /\ seen = [t \in Task |-> Nothing]
  /\ since = [t \in Task |-> 0]
  /\ got = [t \in Task |-> NoFile]

-----------------------------------------------------------------------------
(* The writer lock: acquire, recoverDeadLockSync, release.                 *)

Call(t) ==
  /\ pc[t] = "idle"
  /\ Goto(t, "acquire")
  /\ UNCHANGED <<files, lock, cache, history, scenario, writing, reading>>

Acquire(t) ==
  /\ pc[t] = "acquire"
  /\ lock = "free"
  /\ lock' = Proc(t)
  /\ Goto(t, "load") \/ (scenario.creating /\ Goto(t, "createCheck"))
  /\ UNCHANGED <<files, cache, history, scenario, writing, reading>>

\* Mutant: a lock is broken whoever owns it.
AcquireRecoverAny(t) ==
  /\ pc[t] = "acquire"
  /\ lock # "free"
  /\ lock' = "free"
  /\ UNCHANGED <<files, cache, history, scenario, pc, writing, reading>>

AcquireRecover(t) ==
  /\ pc[t] = "acquire"
  /\ lock = "dead"
  /\ lock' = "free"
  /\ UNCHANGED <<files, cache, history, scenario, pc, writing, reading>>

AcquireTimeOut(t) ==
  /\ pc[t] = "acquire"
  /\ lock # "free"
  /\ Goto(t, "idle")
  /\ UNCHANGED <<files, lock, cache, history, scenario, writing, reading>>

Release(t) ==
  /\ pc[t] = "release"
  /\ lock' = "free"
  /\ Leave(t)
  /\ UNCHANGED <<files, cache, history, scenario>>

-----------------------------------------------------------------------------
(* mutate                                                                  *)

\* load(workspace, fresh): under the lock no file changes meanwhile.  The graph
\* it returns, and that the mutation will change, is the one it cached.
MutateLoad(t) ==
  /\ pc[t] = "load"
  /\ LET m == Materialize(version, ledger, snapshot) IN
     \/ /\ m.ok
        /\ base' = [base EXCEPT ![t] = m.graph]
        /\ kept' = [kept EXCEPT ![t] = Len(m.kept)]
        /\ SetCache(Proc(t), version, m.graph, t)
        /\ Goto(t, IF m.kept = Lines(ledger) THEN "apply" ELSE "normalize")
        /\ UNCHANGED <<lock, reading>>
     \/ ~m.ok /\ Throw(t)
  /\ UNCHANGED <<files, history, scenario>>

\* Mutant: an uncommitted tail stays where it is.
MutateNormalizeSkipped(t) ==
  /\ pc[t] = "normalize"
  /\ Goto(t, "apply")
  /\ UNCHANGED <<files, lock, cache, history, scenario, writing, reading>>

\* The uncommitted tail goes before anything is appended.
MutateNormalize(t) ==
  /\ pc[t] = "normalize"
  /\ \/ /\ ledger' = Materialize(version, ledger, snapshot).kept
        /\ Renamed(t, "apply")
     \/ UNCHANGED ledger /\ Throw(t)
  /\ UNCHANGED <<version, snapshot, history, scenario>>

\* The mutation changes the loaded graph in place, the cached object included.
MutateApply(t) ==
  /\ pc[t] = "apply"
  /\ mutations < scenario.mutations
  /\ mutations' = mutations + 1
  /\ base' = [base EXCEPT ![t] = Append(@, mutations')]
  /\ IF cache[Proc(t)].by = t THEN SetCache(Proc(t), cache[Proc(t)].generation, base'[t], t)
     ELSE UNCHANGED cache
  /\ Goto(t, "append")
  /\ UNCHANGED <<files, lock, committed, rejected, scenario, kept, reading>>

\* The mutation is refused by the domain rules.
MutateRefuse(t) ==
  /\ pc[t] = "apply"
  /\ Throw(t)
  /\ UNCHANGED <<files, history, scenario>>

Entry(t) == [revision |-> Len(base[t]), id |-> Last(base[t])]

MutateAppend(t) ==
  /\ pc[t] = "append"
  /\ \/ /\ ledger' = Append(Lines(ledger), Entry(t))
        /\ Goto(t, "commit")
        /\ UNCHANGED <<lock, cache, history, writing, reading>>
     \/ /\ ledger' \in {ledger, Append(Lines(ledger), Torn), Append(Lines(ledger), Entry(t))}
        /\ Reject(t)
        /\ Throw(t)
  /\ UNCHANGED <<version, snapshot, scenario>>

\* Mutant: the marker is renamed before the authority is looked at.
MutateCommitFirst(t) ==
  /\ pc[t] = "commit"
  /\ version' = Len(base[t])
  /\ \/ /\ committed' = base[t]
        /\ UNCHANGED <<rejected, mutations>>
        /\ Renamed(t, "publish")
     \/ Reject(t) /\ Throw(t)
  /\ UNCHANGED <<snapshot, ledger, scenario>>

\* beforeCommit, then the rename of the version file: the commit point.
MutateCommit(t) ==
  /\ pc[t] = "commit"
  /\ \/ /\ version' = Len(base[t])
        /\ committed' = base[t]
        /\ UNCHANGED <<rejected, mutations>>
        /\ Renamed(t, "publish")
     \/ /\ UNCHANGED version
        /\ Reject(t)
        /\ Throw(t)
  /\ UNCHANGED <<snapshot, ledger, scenario>>

MutatePublish(t) ==
  /\ pc[t] = "publish"
  /\ SetCache(Proc(t), version, base[t], NoFile)
  /\ Goto(t, IF kept[t] + 1 >= SnapshotEvery THEN "compact" ELSE "release")
  /\ UNCHANGED <<files, lock, history, scenario, writing, reading>>

\* Compaction is post-commit: a failure of it is swallowed, with the cache.
MutateCompact(t) ==
  /\ pc[t] = "compact"
  /\ \/ /\ snapshot' = base[t]
        /\ Goto(t, "truncate")
        /\ UNCHANGED cache
     \/ /\ snapshot' \in {snapshot, base[t]}
        /\ Goto(t, "release")
        /\ DropCache(Proc(t))
  /\ UNCHANGED <<version, ledger, lock, history, scenario, writing, reading>>

MutateTruncate(t) ==
  /\ pc[t] = "truncate"
  /\ \/ /\ ledger' = <<>>
        /\ SetCache(Proc(t), version, base[t], NoFile)
     \/ /\ ledger' \in {ledger, <<>>}
        /\ DropCache(Proc(t))
  /\ Goto(t, "release")
  /\ UNCHANGED <<version, snapshot, lock, history, scenario, writing, reading>>

-----------------------------------------------------------------------------
(* create.  A pending bundle, found or its own, is removed file by file.   *)

CreateCheck(t) ==
  /\ pc[t] = "createCheck"
  /\ \/ version = Pending /\ Goto(t, "removeSnapshot") /\ UNCHANGED <<lock, cache, writing, reading>>
     \/ version = NoFile /\ snapshot = NoFile /\ Goto(t, "mark") /\ UNCHANGED <<lock, cache, writing, reading>>
     \/ version # Pending /\ (version # NoFile \/ snapshot # NoFile) /\ Throw(t)
  /\ UNCHANGED <<files, history, scenario>>

\* A removal goes through, or fails before or after the file is gone.
RemoveSnapshot(t) ==
  /\ pc[t] = "removeSnapshot"
  /\ \/ snapshot' = NoFile /\ Goto(t, "removeLedger") /\ UNCHANGED <<lock, cache, writing, reading>>
     \/ snapshot' \in {snapshot, NoFile} /\ Throw(t)
  /\ UNCHANGED <<version, ledger, history, scenario>>

RemoveLedger(t) ==
  /\ pc[t] = "removeLedger"
  /\ \/ ledger' = NoFile /\ Goto(t, "removeVersion") /\ UNCHANGED <<lock, cache, writing, reading>>
     \/ ledger' \in {ledger, NoFile} /\ Throw(t)
  /\ UNCHANGED <<version, snapshot, history, scenario>>

\* After a bundle that was found a creation goes on; after its own it ends.
RemoveVersion(t) ==
  /\ pc[t] = "removeVersion"
  /\ \/ /\ version' = NoFile
        /\ Goto(t, IF base[t] = <<>> THEN "mark" ELSE "release")
        /\ UNCHANGED <<lock, cache, writing, reading>>
     \/ version' \in {version, NoFile} /\ Throw(t)
  /\ UNCHANGED <<snapshot, ledger, history, scenario>>

\* An unreadable generation is published before any byte of the graph.
CreateMark(t) ==
  /\ pc[t] = "mark"
  /\ \/ /\ mutations < scenario.mutations
        /\ mutations' = mutations + 1
        /\ version' = Pending
        /\ \/ /\ base' = [base EXCEPT ![t] = <<mutations'>>]
              /\ Goto(t, "stageSnapshot")
              /\ UNCHANGED <<lock, cache, kept, reading>>
           \/ ThrowRetaining(t)
     \/ UNCHANGED <<version, mutations>> /\ Throw(t)
  /\ UNCHANGED <<snapshot, ledger, committed, rejected, scenario>>

\* An error while the pending marker stands removes the bundle.
Abort(t) ==
  /\ Reject(t)
  /\ DropCache(Proc(t))
  /\ Goto(t, "removeSnapshot")
  /\ UNCHANGED <<lock, writing, reading>>

CreateStageSnapshot(t) ==
  /\ pc[t] = "stageSnapshot"
  /\ \/ snapshot' = base[t] /\ Renamed(t, "stageLedger") /\ UNCHANGED history
     \/ UNCHANGED snapshot /\ Abort(t)
  /\ UNCHANGED <<version, ledger, scenario>>

CreateStageLedger(t) ==
  /\ pc[t] = "stageLedger"
  /\ \/ ledger' = <<>> /\ Renamed(t, "createCommit") /\ UNCHANGED history
     \/ ledger' \in {ledger, <<>>} /\ Abort(t)
  /\ UNCHANGED <<version, snapshot, scenario>>

\* A directory sync that fails after this rename is tried once more.
CreateCommit(t) ==
  /\ pc[t] = "createCommit"
  /\ \/ /\ version' = Len(base[t])
        /\ committed' = base[t]
        /\ \/ /\ SetCache(Proc(t), version', base[t], NoFile)
              /\ Goto(t, "release")
              /\ UNCHANGED <<lock, writing, reading>>
           \/ ThrowRetaining(t)
        /\ UNCHANGED <<rejected, mutations>>
     \/ UNCHANGED version /\ Abort(t)
  /\ UNCHANGED <<snapshot, ledger, scenario>>

-----------------------------------------------------------------------------
(* Reads: load(workspace) behind read, and readLatticeStateSync.           *)

See(t, file, content) == seen' = [seen EXCEPT ![t][file] = content]

\* A read ends with a graph, or with an error.
Answer(t, graph) ==
  /\ got' = [got EXCEPT ![t] = graph]
  /\ seen' = [seen EXCEPT ![t] = Nothing]
  /\ Goto(t, "idle")
  /\ UNCHANGED since
Fail(t, start) ==
  /\ seen' = [seen EXCEPT ![t] = Nothing]
  /\ Goto(t, start) \/ Goto(t, "idle")    \* another attempt, or the last one
  /\ UNCHANGED <<since, got>>

ReadCall(t) ==
  /\ pc[t] = "idle" /\ t \in scenario.readers
  /\ since' = [since EXCEPT ![t] = Len(committed)]
  /\ got' = [got EXCEPT ![t] = NoFile]
  /\ Goto(t, IF t \in Reader THEN "readVersion" ELSE "readLock")
  /\ UNCHANGED <<files, lock, cache, history, scenario, writing, seen>>

\* The guard gives up on a live writer and recovers the lock of a dead one.
SyncReadLock(t) ==
  /\ pc[t] = "readLock"
  /\ \/ /\ lock \in {"free", "dead"}
        /\ lock' = "free"
        /\ Goto(t, "readVersion")
        /\ UNCHANGED reading
     \/ /\ lock # "free"
        /\ UNCHANGED lock
        /\ Fail(t, "readLock")
  /\ UNCHANGED <<files, cache, history, scenario, writing>>

ReadVersion(t) ==
  /\ pc[t] = "readVersion"
  /\ IF t \in Reader /\ version # NoFile /\ cache[Proc(t)].generation = version
     THEN Answer(t, cache[Proc(t)].graph)
     ELSE See(t, "version", version) /\ Goto(t, "readLedger") /\ UNCHANGED <<since, got>>
  /\ UNCHANGED <<files, lock, cache, history, scenario, writing>>

ReadLedger(t) ==
  /\ pc[t] = "readLedger"
  /\ See(t, "ledger", ledger)
  /\ Goto(t, "readSnapshot")
  /\ UNCHANGED <<files, lock, cache, history, scenario, writing, since, got>>

ReadSnapshot(t) ==
  /\ pc[t] = "readSnapshot"
  /\ See(t, "snapshot", snapshot)
  /\ Goto(t, "readAgain")
  /\ UNCHANGED <<files, lock, cache, history, scenario, writing, since, got>>

\* What was read makes a graph, or the absence of one.
Absent(s) == s.version = NoFile /\ s.ledger = NoFile /\ s.snapshot = NoFile
Seen(t) == Materialize(seen[t].version, seen[t].ledger, seen[t].snapshot)
Readable(t) == Absent(seen[t]) \/ Seen(t).ok

ReadAgain(t) ==
  /\ t \in Reader
  /\ pc[t] = "readAgain"
  /\ \/ /\ version = seen[t].version
        /\ Readable(t)
        /\ Answer(t, Seen(t).graph)
        /\ IF Absent(seen[t]) THEN UNCHANGED cache
           ELSE SetCache(Proc(t), version, Seen(t).graph, NoFile)
     \/ /\ version # seen[t].version \/ ~Readable(t)
        /\ Fail(t, "readVersion")
        /\ UNCHANGED cache
  /\ UNCHANGED <<files, lock, history, scenario, writing>>

SyncReadAgain(t) ==
  /\ t \in SyncReader
  /\ pc[t] = "readAgain"
  /\ \/ version = seen[t].version /\ Goto(t, "readUnlocked") /\ UNCHANGED reading
     \/ version # seen[t].version /\ Fail(t, "readLock")
  /\ UNCHANGED <<files, lock, cache, history, scenario, writing>>

SyncReadUnlocked(t) ==
  /\ pc[t] = "readUnlocked"
  /\ \/ lock = "free" /\ Readable(t) /\ Answer(t, Seen(t).graph)
     \/ (lock # "free" \/ ~Readable(t)) /\ Fail(t, "readLock")
  /\ UNCHANGED <<files, lock, cache, history, scenario, writing>>

-----------------------------------------------------------------------------
\* A process dies: with it its tasks, its cache and, in time, its lock.  An
\* append in flight leaves nothing, a torn line or the whole line.
Crash(p) ==
  LET gone == {t \in Task : Proc(t) = p}
      lost == {t \in gone : pc[t] \in {"append", "commit", "stageSnapshot", "stageLedger", "createCommit"}}
      appending == {t \in gone : pc[t] = "append"}
  IN /\ scenario.crashes > 0
     /\ scenario' = [scenario EXCEPT !.crashes = @ - 1]
     /\ ledger' \in {ledger} \cup UNION {{Append(Lines(ledger), Torn), Append(Lines(ledger), Entry(t))} : t \in appending}
     /\ rejected' = rejected \cup {Last(base[t]) : t \in lost}
     /\ pc' = [t \in Task |-> IF t \in gone THEN "idle" ELSE pc[t]]
     /\ base' = [t \in Task |-> IF t \in gone THEN <<>> ELSE base[t]]
     /\ kept' = [t \in Task |-> IF t \in gone THEN 0 ELSE kept[t]]
     /\ seen' = [t \in Task |-> IF t \in gone THEN Nothing ELSE seen[t]]
     /\ since' = [t \in Task |-> IF t \in gone THEN 0 ELSE since[t]]
     /\ got' = [t \in Task |-> IF t \in gone THEN NoFile ELSE got[t]]
     /\ lock' = IF lock = p THEN "dead" ELSE lock
     /\ DropCache(p)
     /\ UNCHANGED <<version, snapshot, committed, mutations>>

\* A synchronous read blocks the event loop of its process.
Blocked(t) == \E g \in SyncReader \ {t} : Proc(g) = Proc(t) /\ pc[g] # "idle"

Locking(t) == Call(t) \/ Acquire(t) \/ AcquireRecover(t) \/ AcquireTimeOut(t) \/ Release(t)
Mutate(t) ==
  \/ MutateLoad(t) \/ MutateNormalize(t) \/ MutateApply(t) \/ MutateRefuse(t)
  \/ MutateAppend(t) \/ MutateCommit(t) \/ MutatePublish(t)
  \/ MutateCompact(t) \/ MutateTruncate(t)
Create(t) ==
  \/ CreateCheck(t) \/ RemoveSnapshot(t) \/ RemoveLedger(t) \/ RemoveVersion(t)
  \/ CreateMark(t) \/ CreateStageSnapshot(t) \/ CreateStageLedger(t) \/ CreateCommit(t)
Read(t) ==
  \/ ReadCall(t) \/ SyncReadLock(t) \/ ReadVersion(t) \/ ReadLedger(t) \/ ReadSnapshot(t)
  \/ ReadAgain(t) \/ SyncReadAgain(t) \/ SyncReadUnlocked(t)

Next ==
  \/ \E t \in Writer : ~Blocked(t) /\ (Locking(t) \/ Mutate(t) \/ Create(t))
  \/ \E t \in Reader \cup SyncReader : ~Blocked(t) /\ Read(t)
  \/ \E p \in Process : Crash(p)

Spec == Init /\ [][Next]_vars

-----------------------------------------------------------------------------
\* Whatever has happened and wherever it stopped, the three files say exactly
\* the last committed graph: an appended tail, a half-done compaction and a
\* torn line change nothing (the comments of mutate and materializeLedger).
Recoverable ==
  version \notin {NoFile, Pending} =>
    LET m == Materialize(version, ledger, snapshot) IN m.ok /\ m.graph = committed

\* The cached object of process p is changed in place by a mutation that is not
\* published yet.
Changing(p) == \E w \in Writer :
  Proc(w) = p /\ cache[p].by = w /\ pc[w] \in {"append", "commit", "publish"}

\* A read returns the graph as it was committed at some moment between its
\* first step and its last: never a revision that was not committed, not even
\* of a mutation that failed in the same process ("rather than exposing a
\* half-committed in-memory graph", mutate), and never one older than what was
\* committed before the read began.  Excepted are the answers a process takes
\* from its cached object while its own mutation is changing that object
\* (load, mutate): they may hold the mutation before it commits.
ReadsAreCommitted ==
  [][\A t \in Reader \cup SyncReader :
       /\ got[t] = NoFile /\ got'[t] # NoFile
       /\ ~(pc[t] = "readVersion" /\ Changing(Proc(t)))
       => IsPrefix(got'[t], committed) /\ Len(got'[t]) >= since[t]]_vars

\* A mutation or a creation that failed, or whose process died, before its
\* version was renamed never becomes part of the graph, not even when a later
\* mutation commits on top of what the failed one left in the ledger.
FailedStaysOut == \A i \in DOMAIN committed : committed[i] \notin rejected

\* A commit adds to the committed graph and loses nothing of it: no writer
\* works on a graph that another one has changed since it was loaded.
CommitsExtendTheLog == [][IsPrefix(committed, committed')]_vars
=============================================================================
