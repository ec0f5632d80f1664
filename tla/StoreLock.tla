------------------------------ MODULE StoreLock ------------------------------
(***************************************************************************)
(* The writer lock of src/src/store.ts, file access by file access: .lock  *)
(* is made by linking a complete candidate file, names its owner, and is   *)
(* removed by its owner or, once that process is dead, by a task that      *)
(* holds the second lock .lock.recovery.  Recovery is synchronous code:    *)
(* the processes interleave inside it, the tasks of one process do not, so *)
(* each process is one task here.  A process that died stays dead; a       *)
(* restart is another process, because liveness is asked of a pid.         *)
(***************************************************************************)
EXTENDS Naturals

CONSTANTS
  Process,
  NoLock,     \* a lock file that does not exist
  MaxCall,    \* bound on the acquisitions each process attempts
  MaxCrash    \* bound on process deaths

ASSUME NoLockAssumption == NoLock \notin [pid : Process, n : 1..MaxCall]
ASSUME BoundAssumption == MaxCall \in Nat /\ MaxCrash \in Nat

VARIABLES
  lock, recovery,   \* the two files: NoLock, or [pid, n]
  alive,            \* the processes that run
  crashes,
  pc,
  calls,            \* how often a process has called acquire; with its pid, its ownerToken
  attempt,          \* the loop counter of acquireRecoverySync
  observed,         \* `observed` of recoverDeadLockSync
  observedHolder    \* `observed` of acquireRecoverySync

local == <<calls, attempt, observed, observedHolder>>
vars == <<lock, recovery, alive, crashes, pc, local>>

\* The metadata a process writes; n tells its acquisitions apart.
Mine(p) == [pid |-> p, n |-> calls[p]]
\* Mutant: whoever has held a lock for long is taken for dead.
DefinitelyDeadByAge(metadata) == metadata # NoLock

\* lockMetadata and processIsDefinitelyDead: an absent file names nobody.
DefinitelyDead(metadata) == metadata # NoLock /\ metadata.pid \notin alive

Goto(p, label) == pc' = [pc EXCEPT ![p] = label]

Init ==
  /\ lock = NoLock
  /\ recovery = NoLock
  /\ alive = Process
  /\ crashes = 0
  /\ pc = [p \in Process |-> "idle"]
  /\ calls = [p \in Process |-> 0]
  /\ attempt = [p \in Process |-> 0]
  /\ observed = [p \in Process |-> NoLock]
  /\ observedHolder = [p \in Process |-> NoLock]

-----------------------------------------------------------------------------
(* acquire, and the release function it returns.                           *)

Call(p) ==
  /\ pc[p] = "idle"
  /\ calls[p] < MaxCall
  /\ calls' = [calls EXCEPT ![p] = @ + 1]
  /\ Goto(p, "link")
  /\ UNCHANGED <<lock, recovery, alive, crashes, attempt, observed, observedHolder>>

Link(p) ==
  /\ pc[p] = "link"
  /\ \/ lock = NoLock /\ lock' = Mine(p) /\ Goto(p, "owner")
     \/ lock # NoLock /\ Goto(p, "observe") /\ UNCHANGED lock
  /\ UNCHANGED <<recovery, alive, crashes, local>>

TimeOut(p) ==
  /\ pc[p] = "link"
  /\ lock # NoLock
  /\ Goto(p, "idle")
  /\ UNCHANGED <<lock, recovery, alive, crashes, local>>

Release(p) ==
  /\ pc[p] = "owner"
  /\ Goto(p, IF lock = Mine(p) THEN "unlink" ELSE "idle")
  /\ UNCHANGED <<lock, recovery, alive, crashes, local>>

Unlink(p) ==
  /\ pc[p] = "unlink"
  /\ lock' = NoLock
  /\ Goto(p, "idle")
  /\ UNCHANGED <<recovery, alive, crashes, local>>

-----------------------------------------------------------------------------
(* recoverDeadLockSync                                                     *)

\* recoverDeadLockSync returns; the loop of acquire tries to link again.
Return(p) ==
  /\ Goto(p, "link")
  /\ observed' = [observed EXCEPT ![p] = NoLock]
  /\ observedHolder' = [observedHolder EXCEPT ![p] = NoLock]
  /\ attempt' = [attempt EXCEPT ![p] = 0]
  /\ UNCHANGED calls

Observe(p) ==
  /\ pc[p] = "observe"
  /\ \/ /\ DefinitelyDead(lock)
        /\ observed' = [observed EXCEPT ![p] = lock]
        /\ attempt' = [attempt EXCEPT ![p] = 1]
        /\ Goto(p, "linkRecovery")
        /\ UNCHANGED <<calls, observedHolder>>
     \/ ~DefinitelyDead(lock) /\ Return(p)
  /\ UNCHANGED <<lock, recovery, alive, crashes>>

\* acquireRecoverySync links its candidate, or looks at who holds the file.
LinkRecovery(p) ==
  /\ pc[p] = "linkRecovery"
  /\ \/ recovery = NoLock /\ recovery' = Mine(p) /\ Goto(p, "check")
     \/ recovery # NoLock /\ Goto(p, "holder") /\ UNCHANGED recovery
  /\ UNCHANGED <<lock, alive, crashes, local>>

\* A recovery lock whose holder is not definitely dead ends the recovery.
Holder(p) ==
  /\ pc[p] = "holder"
  /\ \/ DefinitelyDead(recovery) /\ Goto(p, "observeHolder") /\ UNCHANGED local
     \/ ~DefinitelyDead(recovery) /\ Return(p)
  /\ UNCHANGED <<lock, recovery, alive, crashes>>

\* The file is read twice more; who holds it is not looked at again.
ObserveHolder(p) ==
  /\ pc[p] = "observeHolder"
  /\ observedHolder' = [observedHolder EXCEPT ![p] = recovery]
  /\ Goto(p, "compareHolder")
  /\ UNCHANGED <<lock, recovery, alive, crashes, calls, attempt, observed>>

NextAttempt(p) ==
  \/ /\ attempt[p] = 1
     /\ attempt' = [attempt EXCEPT ![p] = 2]
     /\ Goto(p, "linkRecovery")
     /\ UNCHANGED <<calls, observed, observedHolder>>
  \/ attempt[p] = 2 /\ Return(p)

CompareHolder(p) ==
  /\ pc[p] = "compareHolder"
  /\ \/ recovery = observedHolder[p] /\ Goto(p, "removeHolder") /\ UNCHANGED local
     \/ recovery # observedHolder[p] /\ NextAttempt(p)
  /\ UNCHANGED <<lock, recovery, alive, crashes>>

RemoveHolder(p) ==
  /\ pc[p] = "removeHolder"
  /\ recovery' = NoLock
  /\ NextAttempt(p)
  /\ UNCHANGED <<lock, alive, crashes>>

\* Mutant: under the recovery lock, .lock is not read again.
CheckNothing(p) ==
  /\ pc[p] = "check"
  /\ Goto(p, "remove")
  /\ UNCHANGED <<lock, recovery, alive, crashes, local>>

\* The directory sync that follows the check can fail: then nothing is removed.
Check(p) ==
  /\ pc[p] = "check"
  /\ \/ lock = observed[p] /\ DefinitelyDead(lock) /\ Goto(p, "remove")
     \/ Goto(p, "releaseRecovery")
  /\ UNCHANGED <<lock, recovery, alive, crashes, local>>

Remove(p) ==
  /\ pc[p] = "remove"
  /\ lock' = NoLock
  /\ Goto(p, "releaseRecovery")
  /\ UNCHANGED <<recovery, alive, crashes, local>>

ReleaseRecovery(p) ==
  /\ pc[p] = "releaseRecovery"
  /\ IF recovery = Mine(p) THEN Goto(p, "unlinkRecovery") /\ UNCHANGED local ELSE Return(p)
  /\ UNCHANGED <<lock, recovery, alive, crashes>>

UnlinkRecovery(p) ==
  /\ pc[p] = "unlinkRecovery"
  /\ recovery' = NoLock
  /\ Return(p)
  /\ UNCHANGED <<lock, alive, crashes>>

-----------------------------------------------------------------------------
\* A process dies; the files it made stay.
Crash(p) ==
  /\ crashes < MaxCrash
  /\ crashes' = crashes + 1
  /\ alive' = alive \ {p}
  /\ Goto(p, "dead")
  /\ observed' = [observed EXCEPT ![p] = NoLock]
  /\ observedHolder' = [observedHolder EXCEPT ![p] = NoLock]
  /\ attempt' = [attempt EXCEPT ![p] = 0]
  /\ UNCHANGED <<lock, recovery, calls>>

Acquiring(p) == Call(p) \/ Link(p) \/ TimeOut(p) \/ Release(p) \/ Unlink(p)
Recovering(p) ==
  \/ Observe(p) \/ LinkRecovery(p) \/ Holder(p) \/ ObserveHolder(p) \/ CompareHolder(p)
  \/ RemoveHolder(p) \/ Check(p) \/ Remove(p) \/ ReleaseRecovery(p) \/ UnlinkRecovery(p)

Next == \E p \in alive : Acquiring(p) \/ Recovering(p) \/ Crash(p)

Spec == Init /\ [][Next]_vars

-----------------------------------------------------------------------------
Owning == {"owner", "unlink"}

\* The task that writes the graph is the one .lock names, for as long as it
\* runs: two processes never write at once (docs/RC5_RELEASE.md, "Durable
\* ownership serializes cooperating Plan Lattice runtimes in one workspace").
OwnerKeepsTheLock == \A p \in alive : pc[p] \in Owning => lock = Mine(p)

\* A recoverer that is about to remove .lock removes the dead owner's file it
\* observed, not one that has been linked since.
RemovesOnlyTheDead == \A p \in alive : pc[p] = "remove" => lock = observed[p] /\ DefinitelyDead(lock)
=============================================================================
