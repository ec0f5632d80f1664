---------------------------- MODULE ExecutionLock ----------------------------
(***************************************************************************)
(* The cross-process lock of src/src/execution-state.ts and the transition *)
(* it protects, file operation by file operation: withLock, acquireLock,   *)
(* tryReclaimDeadLock, createExclusiveDurableFile, durableRemove and       *)
(* atomicWrite.  state.json, .lock and the .recover-<token>.lock files are *)
(* entries of one directory; an entry that changed is visible at once and  *)
(* survives a power loss for certain only after a directory sync.          *)
(*                                                                         *)
(* What a transition decides is module ExecutionState; here a transition   *)
(* reads the version of the state file and may commit the next one.        *)
(* Creating or removing a file and the sync that follows are one step,     *)
(* with the failed sync (which throws) as its other outcome.  A token is a *)
(* random UUID: one that no file and no task refers to any more stands for *)
(* a new one.                                                              *)
(***************************************************************************)
EXTENDS Integers, FiniteSets

CONSTANTS
  Task,              \* concurrent calls of the operations, any number a process
  Process, ProcOf,   \* (host, pid) pairs, and the process of each task
  Host, HostOf,      \* the host of each process
  Token, NoToken,    \* lock tokens
  MaxVersion,        \* bound on committed transitions
  MaxCrash,          \* bound on process crashes and power losses
  IOFaults           \* whether directory syncs can fail

ASSUME TaskAssumption == ProcOf \in [Task -> Process]
ASSUME HostAssumption == HostOf \in [Process -> Host]
ASSUME TokenAssumption == NoToken \notin Token
ASSUME BoundAssumption == MaxVersion \in Nat /\ MaxCrash \in Nat
ASSUME FaultAssumption == IOFaults \in BOOLEAN

VARIABLES
  version,    \* content of state.json: how many transitions it holds
  lock,       \* the record [token, owner] in .lock: none, or one
  recovery,   \* tokens that have a .recover file
  disk,       \* the three entries above as of the last directory sync
  aged,       \* the record in .lock is older than deadOwnerGraceMs
  alive,      \* which processes run
  crashes,    \* how often a process or the machine went down
  pc,         \* where each task is
  token,      \* the token a task works with: its own, or the one it observed
  snapshot    \* the version a task read under the lock

files == <<version, lock, recovery>>
world == <<aged, alive, crashes>>
locals == <<token, snapshot>>
vars == <<files, disk, world, pc, locals>>

Locked == {"read", "rename", "confirm", "release", "unlock"}

-----------------------------------------------------------------------------
Running(t) == alive[ProcOf[t]]

Dead(t, owner) ==
  HostOf[owner] = HostOf[ProcOf[t]] /\ owner # ProcOf[t] /\ ~alive[owner]

\* Mutant: a lock is reclaimed for its age alone.
ReclaimableByAge(t, r) == r \in lock /\ aged

Reclaimable(t, r) == r \in lock /\ Dead(t, r.owner) /\ aged

InUse(k) ==
  \/ \E r \in lock \cup disk.lock : r.token = k
  \/ k \in recovery \cup disk.recovery
  \/ \E t \in Task : token[t] = k

\* A task that leaves the lock or the recovery forgets what it worked with.
Goto(t, label) ==
  /\ pc' = [pc EXCEPT ![t] = label]
  /\ IF label \in {"idle", "retry"}
     THEN /\ token' = [token EXCEPT ![t] = NoToken]
          /\ snapshot' = [snapshot EXCEPT ![t] = 0]
     ELSE UNCHANGED locals

\* The directory sync that ends a file operation: it succeeds and the task
\* goes on, or it fails and the task throws.
SyncThen(t, next, thrown) ==
  \/ /\ disk' = [version |-> version', lock |-> lock', recovery |-> recovery']
     /\ Goto(t, next)
  \/ /\ IOFaults
     /\ UNCHANGED disk
     /\ Goto(t, thrown)

Init ==
  /\ version = 0
  /\ lock = {}
  /\ recovery = {}
  /\ disk = [version |-> 0, lock |-> {}, recovery |-> {}]
  /\ aged = FALSE
  /\ alive = [p \in Process |-> TRUE]
  /\ crashes = 0
  /\ pc = [t \in Task |-> "idle"]
  /\ token = [t \in Task |-> NoToken]
  /\ snapshot = [t \in Task |-> 0]

-----------------------------------------------------------------------------
(* acquireLock                                                             *)

Call(t) ==
  /\ pc[t] = "idle"
  /\ Goto(t, "acquire")
  /\ UNCHANGED <<files, disk, world>>

\* link of the candidate succeeds.  If the sync then fails the call throws and
\* leaves .lock behind.
Acquire(t) ==
  /\ pc[t] = "acquire"
  /\ lock = {}
  /\ \E k \in Token :
       /\ ~InUse(k)
       /\ lock' = {[token |-> k, owner |-> ProcOf[t]]}
       /\ aged' = FALSE
       /\ UNCHANGED <<version, recovery, alive, crashes, snapshot>>
       /\ \/ /\ disk' = [version |-> version, lock |-> lock', recovery |-> recovery]
             /\ pc' = [pc EXCEPT ![t] = "read"]
             /\ token' = [token EXCEPT ![t] = k]
          \/ /\ IOFaults
             /\ pc' = [pc EXCEPT ![t] = "idle"]
             /\ UNCHANGED <<disk, token>>

\* link fails with EEXIST; removing the candidate syncs the directory too.
AcquireBusy(t) ==
  /\ pc[t] = "acquire"
  /\ lock # {}
  /\ UNCHANGED <<files, world>>
  /\ SyncThen(t, "inspect", "idle")

\* readLock, then the liveness and grace checks in the same turn.
InspectOwner(t) ==
  /\ pc[t] = "inspect"
  /\ \/ \E r \in lock :
          /\ Reclaimable(t, r)
          /\ pc' = [pc EXCEPT ![t] = "recover"]
          /\ token' = [token EXCEPT ![t] = r.token]
     \/ /\ \A r \in lock : ~Reclaimable(t, r)
        /\ pc' = [pc EXCEPT ![t] = "retry"]
        /\ UNCHANGED token
  /\ UNCHANGED <<files, disk, world, snapshot>>

\* The deadline is looked at once per attempt: sleep and try again, or throw
\* LOCK_TIMEOUT.
RetryOrTimeOut(t) ==
  /\ pc[t] = "retry"
  /\ Goto(t, "acquire") \/ Goto(t, "idle")
  /\ UNCHANGED <<files, disk, world>>

-----------------------------------------------------------------------------
(* The transition: readSnapshot, update, atomicWrite, then release.        *)

\* The transition is decided on what was read: commit, or reject.
ReadSnapshot(t) ==
  /\ pc[t] = "read"
  /\ \/ /\ version < MaxVersion
        /\ pc' = [pc EXCEPT ![t] = "rename"]
        /\ snapshot' = [snapshot EXCEPT ![t] = version]
     \/ /\ pc' = [pc EXCEPT ![t] = "release"]
        /\ UNCHANGED snapshot
  /\ UNCHANGED <<files, disk, world, token>>

RenameState(t) ==
  /\ pc[t] = "rename"
  /\ version' = snapshot[t] + 1
  /\ Goto(t, "confirm")
  /\ UNCHANGED <<lock, recovery, disk, world>>

\* Mutant: an unconfirmed rename releases the lock like a confirmed one.
ConfirmDurabilityOptional(t) ==
  /\ pc[t] = "confirm"
  /\ UNCHANGED <<files, world>>
  /\ SyncThen(t, "release", "release")

\* All directorySyncAttempts fail: PostRenameDurabilityError, .lock is kept.
ConfirmDurability(t) ==
  /\ pc[t] = "confirm"
  /\ UNCHANGED <<files, world>>
  /\ SyncThen(t, "release", "idle")

\* The lock must still be the caller's, else the release throws.
CheckToken(t) ==
  /\ pc[t] = "release"
  /\ Goto(t, IF \E r \in lock : r.token = token[t] THEN "unlock" ELSE "idle")
  /\ UNCHANGED <<files, disk, world>>

Unlock(t) ==
  /\ pc[t] = "unlock"
  /\ lock' = {}
  /\ UNCHANGED <<version, recovery, world>>
  /\ SyncThen(t, "idle", "idle")

-----------------------------------------------------------------------------
(* tryReclaimDeadLock                                                      *)

\* Whoever finds the file there already leaves the recovery to its creator.
CreateRecovery(t) ==
  /\ pc[t] = "recover"
  /\ recovery' = recovery \cup {token[t]}
  /\ UNCHANGED <<version, lock, world>>
  /\ SyncThen(t, IF token[t] \in recovery THEN "retry" ELSE "recheck", "idle")

\* Mutant: the recoverer trusts what it saw before it had the recovery file.
RecheckOwnerNever(t) ==
  /\ pc[t] = "recheck"
  /\ Goto(t, "reconfirm")
  /\ UNCHANGED <<files, disk, world>>

RecheckOwner(t) ==
  /\ pc[t] = "recheck"
  /\ Goto(t, IF \E r \in lock : r.token = token[t] /\ Reclaimable(t, r)
             THEN "reconfirm" ELSE "unrecover")
  /\ UNCHANGED <<files, disk, world>>

\* The dead owner may have renamed state.json without confirming it.
ReconfirmDurability(t) ==
  /\ pc[t] = "reconfirm"
  /\ UNCHANGED <<files, world>>
  /\ SyncThen(t, "reclaim", "unrecoverThrow")

RemoveDeadLock(t) ==
  /\ pc[t] = "reclaim"
  /\ lock' = {}
  /\ UNCHANGED <<version, recovery, world>>
  /\ SyncThen(t, "unrecover", "unrecoverThrow")

\* finally: the recovery file goes; an earlier error is thrown again.
RemoveRecovery(t) ==
  /\ pc[t] \in {"unrecover", "unrecoverThrow"}
  /\ recovery' = recovery \ {token[t]}
  /\ UNCHANGED <<version, lock, world>>
  /\ SyncThen(t, IF pc[t] = "unrecover" THEN "retry" ELSE "idle", "idle")

-----------------------------------------------------------------------------
(* The world: time, processes that die and start, power that fails.        *)

Age ==
  /\ lock # {}
  /\ ~aged
  /\ aged' = TRUE
  /\ UNCHANGED <<files, disk, alive, crashes, pc, locals>>

\* The tasks of processes that went down are gone with what they held in memory.
GoDown(down) ==
  /\ crashes < MaxCrash
  /\ crashes' = crashes + 1
  /\ alive' = [p \in Process |-> alive[p] /\ p \notin down]
  /\ pc' = [t \in Task |-> IF ProcOf[t] \in down THEN "idle" ELSE pc[t]]
  /\ token' = [t \in Task |-> IF ProcOf[t] \in down THEN NoToken ELSE token[t]]
  /\ snapshot' = [t \in Task |-> IF ProcOf[t] \in down THEN 0 ELSE snapshot[t]]

Crash(p) ==
  /\ alive[p]
  /\ GoDown({p})
  /\ UNCHANGED <<files, disk, aged>>

\* The machine goes down: every entry changed since the last sync is the old
\* one or the new one.
PowerLoss ==
  /\ GoDown(Process)
  /\ version' \in {version, disk.version}
  /\ lock' \in {lock, disk.lock}
  /\ \E kept \in SUBSET (recovery \cup disk.recovery) :
       /\ recovery \cap disk.recovery \subseteq kept
       /\ recovery' = kept
  /\ disk' = [version |-> version', lock |-> lock', recovery |-> recovery']
  /\ aged' = FALSE

\* A process with this host and pid starts (again).
Start(p) ==
  /\ ~alive[p]
  /\ alive' = [alive EXCEPT ![p] = TRUE]
  /\ UNCHANGED <<files, disk, aged, crashes, pc, locals>>

-----------------------------------------------------------------------------
Step(t) ==
  /\ Running(t)
  /\ \/ Call(t)
     \/ Acquire(t) \/ AcquireBusy(t) \/ InspectOwner(t) \/ RetryOrTimeOut(t)
     \/ ReadSnapshot(t) \/ RenameState(t) \/ ConfirmDurability(t)
     \/ CheckToken(t) \/ Unlock(t)
     \/ CreateRecovery(t) \/ RecheckOwner(t) \/ ReconfirmDurability(t)
     \/ RemoveDeadLock(t) \/ RemoveRecovery(t)

Next ==
  \/ \E t \in Task : Step(t)
  \/ Age
  \/ \E p \in Process : Crash(p) \/ Start(p)
  \/ PowerLoss

Spec == Init /\ [][Next]_vars

\* Running tasks go on, callers keep calling, and time passes.  Nothing makes
\* a process or the machine fail, or start again.
FairSpec == Spec /\ WF_vars(Age) /\ \A t \in Task : WF_vars(Step(t))

-----------------------------------------------------------------------------
(* Properties.                                                             *)

\* From the moment it has created .lock until it removes it, a task that runs
\* finds its own token there, so that at most one task is in between: no
\* recovery, however its steps interleave with other recoveries, acquisitions
\* and failures, takes the lock of a live owner (tryReclaimDeadLock; the error
\* "lock ownership changed before release" is never thrown).
HolderKeepsTheLock ==
  \A t \in Task : pc[t] \in Locked =>
    lock = {[token |-> token[t], owner |-> ProcOf[t]]}

\* A committed transition replaces exactly the version it was decided on, so
\* that each operation of ExecutionState is one atomic step (the class comment
\* of PersistentExecutionState).
TransitionsAreSerial == \A t \in Task : pc[t] = "rename" => snapshot[t] = version

\* Nobody reads under the lock, and decides upon, a state file that a power
\* loss could take back: when .lock is absent, the visible file is durable
\* (PostRenameDurabilityError retains the lock, the reclaimer confirms first).
UnlockedStateIsDurable == lock = {} => version = disk.version

\* A lock whose owner is dead is reclaimed as long as a process on the owner's
\* host runs and asks for it (docs/RC5_RELEASE.md: an unconfirmed rename
\* retains its fence "so a definitely dead owner can recover it").
DeadOwnersLockIsReclaimed ==
  \A k \in Token, p \in Process :
    lock = {[token |-> k, owner |-> p]} ~>
      \/ lock # {[token |-> k, owner |-> p]}
      \/ alive[p]
      \/ \A q \in Process : HostOf[q] = HostOf[p] => ~alive[q]
=============================================================================
