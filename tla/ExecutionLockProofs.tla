-------------------------- MODULE ExecutionLockProofs --------------------------
(***************************************************************************)
(* Theorems about ExecutionLock, for every number of tasks, processes,     *)
(* hosts and tokens, every number of crashes and power losses, and with    *)
(* directory syncs that fail: the lock is its holder's, transitions are    *)
(* serial, and a state file that may be lost stays under the lock.         *)
(*                                                                         *)
(* What carries them is the recovery file: one task works on the lock of a *)
(* dead owner, and between its recheck and the removal nobody holds it.    *)
(***************************************************************************)
EXTENDS ExecutionLock, TLAPS

\* Where a task owns a recovery file, and where it may still remove the lock.
Recovering == {"recheck", "reconfirm", "reclaim", "unrecover", "unrecoverThrow"}
Reclaiming == {"reconfirm", "reclaim"}

Shapes ==
  /\ DOMAIN pc = Task /\ DOMAIN token = Task /\ DOMAIN snapshot = Task
  /\ DOMAIN alive = Process

\* A process that is down has no calls under way.
OnlyTheLivingRun == \A t \in Task : pc[t] # "idle" => Running(t)

OneHolder == \A t, u \in Task : pc[t] \in Locked /\ pc[u] \in Locked => t = u

\* A recovery file is worked on by the task that created it.
OneRecoverer ==
  /\ \A t \in Task : pc[t] \in Recovering => token[t] \in recovery
  /\ \A t, u \in Task :
       pc[t] \in Recovering /\ pc[u] \in Recovering /\ token[t] = token[u] => t = u

\* There is one .lock entry at most, in the directory and on the disk.
OneEntry ==
  /\ \A r, s \in lock : r = s
  /\ \A r, s \in disk.lock : r = s

\* What a task is about to remove is the lock it rechecked, and nobody's.
ReclaimsTheDead ==
  /\ \A r, s \in lock : r = s
  /\ \A t \in Task : pc[t] \in Reclaiming =>
       /\ \E r \in lock : r.token = token[t]
       /\ \A u \in Task : pc[u] \notin Locked

\* While a task may remove the lock, the visible state file is durable.
DurableBeforeUnlock ==
  \A t \in Task : pc[t] \in (Locked \ {"confirm"}) \cup {"reclaim"} => version = disk.version

IInv ==
  /\ Shapes /\ OnlyTheLivingRun
  /\ HolderKeepsTheLock /\ OneHolder
  /\ OneRecoverer /\ ReclaimsTheDead
  /\ TransitionsAreSerial /\ DurableBeforeUnlock /\ UnlockedStateIsDurable

-----------------------------------------------------------------------------
\* Goto moves one task; one that leaves forgets what it worked with.
LEMMA GotoMoves ==
  ASSUME Shapes, NEW t \in Task, NEW label, Goto(t, label)
  PROVE  /\ pc'[t] = label
         /\ \A u \in Task : u # t =>
              pc'[u] = pc[u] /\ token'[u] = token[u] /\ snapshot'[u] = snapshot[u]
         /\ label \notin {"idle", "retry"} => token'[t] = token[t] /\ snapshot'[t] = snapshot[t]
         /\ DOMAIN pc' = Task /\ DOMAIN token' = Task /\ DOMAIN snapshot' = Task
<1>1. CASE label \in {"idle", "retry"}
  BY <1>1 DEF Shapes, Goto
<1>2. CASE label \notin {"idle", "retry"}
  BY <1>2 DEF Shapes, Goto, locals
<1> QED BY <1>1, <1>2

LEMMA InitIInv == Init => IInv /\ OneEntry
BY DEF Init, IInv, OneEntry, Shapes, OnlyTheLivingRun, HolderKeepsTheLock, OneHolder, OneRecoverer,
       ReclaimsTheDead, TransitionsAreSerial, DurableBeforeUnlock, UnlockedStateIsDurable,
       Locked, Recovering, Reclaiming

-----------------------------------------------------------------------------
\* Tasks that neither hold the lock nor recover it come and go.
LEMMA OutsideKeeps ==
  ASSUME IInv, NEW t \in Task, Running(t), UNCHANGED <<files, alive>>,
         disk' = disk \/ disk'.version = version,
         DOMAIN pc' = Task, DOMAIN token' = Task, DOMAIN snapshot' = Task,
         \A u \in Task : u # t =>
           pc'[u] = pc[u] /\ token'[u] = token[u] /\ snapshot'[u] = snapshot[u],
         pc'[t] \notin Locked \cup Recovering
  PROVE  IInv'
<1>1. Shapes'
  BY DEF IInv, Shapes
<1>2. OnlyTheLivingRun'
  BY DEF IInv, OnlyTheLivingRun, Running
<1>3. HolderKeepsTheLock' /\ OneHolder'
  BY DEF IInv, HolderKeepsTheLock, OneHolder, files
<1>4. OneRecoverer' /\ ReclaimsTheDead'
  BY DEF IInv, OneRecoverer, ReclaimsTheDead, Recovering, Reclaiming, files
<1>5. TransitionsAreSerial' /\ DurableBeforeUnlock' /\ UnlockedStateIsDurable'
  BY DEF IInv, TransitionsAreSerial, DurableBeforeUnlock, UnlockedStateIsDurable,
         Locked, Recovering, files
<1> QED BY <1>1, <1>2, <1>3, <1>4, <1>5 DEF IInv

LEMMA WaitingKeeps ==
  ASSUME IInv, NEW t \in Task, Running(t),
         Call(t) \/ AcquireBusy(t) \/ InspectOwner(t) \/ RetryOrTimeOut(t)
  PROVE  IInv'
<1>1. Shapes
  BY DEF IInv
<1>2. UNCHANGED <<files, alive>> /\ (disk' = disk \/ disk'.version = version)
  BY DEF Call, AcquireBusy, InspectOwner, RetryOrTimeOut, SyncThen, files, world
<1>3. CASE InspectOwner(t)
  <2>1. /\ DOMAIN pc' = Task /\ DOMAIN token' = Task /\ DOMAIN snapshot' = Task
        /\ \A u \in Task : u # t =>
             pc'[u] = pc[u] /\ token'[u] = token[u] /\ snapshot'[u] = snapshot[u]
        /\ pc'[t] \notin Locked \cup Recovering
    BY <1>1, <1>3 DEF Shapes, InspectOwner, Locked, Recovering
  <2> QED BY <1>2, <2>1, OutsideKeeps
<1>4. CASE Call(t) \/ AcquireBusy(t) \/ RetryOrTimeOut(t)
  <2>1. PICK label \in {"acquire", "inspect", "idle"} : Goto(t, label)
    BY <1>4 DEF Call, AcquireBusy, RetryOrTimeOut, SyncThen
  <2>2. label \notin Locked \cup Recovering
    BY DEF Locked, Recovering
  <2> QED BY <1>1, <1>2, <2>1, <2>2, GotoMoves, OutsideKeeps
<1> QED BY <1>3, <1>4

\* The lock is created where none was, over a durable state file.
LEMMA AcquireKeeps ==
  ASSUME IInv, NEW t \in Task, Running(t), Acquire(t)
  PROVE  IInv'
<1>1. PICK k \in Token : lock' = {[token |-> k, owner |-> ProcOf[t]]}
                         /\ \/ pc' = [pc EXCEPT ![t] = "read"] /\ token' = [token EXCEPT ![t] = k]
                               /\ disk'.version = version
                            \/ pc' = [pc EXCEPT ![t] = "idle"] /\ UNCHANGED <<disk, token>>
  BY DEF Acquire
<1>2. lock = {} /\ UNCHANGED <<version, recovery, alive, snapshot>> /\ pc[t] = "acquire"
  BY DEF Acquire
<1>3. \A u \in Task : pc[u] \notin Locked \cup Reclaiming
  BY <1>2 DEF IInv, HolderKeepsTheLock, ReclaimsTheDead
<1>4. Shapes' /\ OnlyTheLivingRun'
  BY <1>1, <1>2 DEF IInv, Shapes, OnlyTheLivingRun, Running
<1>5. HolderKeepsTheLock' /\ OneHolder'
  BY <1>1, <1>3 DEF IInv, Shapes, HolderKeepsTheLock, OneHolder, Locked
<1>6. OneRecoverer'
  BY <1>1, <1>2 DEF IInv, Shapes, OneRecoverer, Recovering
<1>7. ReclaimsTheDead'
  BY <1>1, <1>3 DEF IInv, Shapes, ReclaimsTheDead, Reclaiming
<1>8. version = disk.version
  BY <1>2 DEF IInv, UnlockedStateIsDurable
<1>9. TransitionsAreSerial' /\ DurableBeforeUnlock' /\ UnlockedStateIsDurable'
  BY <1>1, <1>2, <1>3, <1>8 DEF IInv, Shapes, TransitionsAreSerial, DurableBeforeUnlock,
     UnlockedStateIsDurable, Locked, Reclaiming
<1> QED BY <1>4, <1>5, <1>6, <1>7, <1>9 DEF IInv

\* Under the lock the state file is read, replaced and confirmed.
LEMMA TransitionKeeps ==
  ASSUME IInv, NEW t \in Task, Running(t),
         ReadSnapshot(t) \/ RenameState(t) \/ ConfirmDurability(t) \/ CheckToken(t)
  PROVE  IInv'
<1>1. UNCHANGED <<lock, recovery, alive>> /\ pc[t] \in Locked
  BY DEF ReadSnapshot, RenameState, ConfirmDurability, CheckToken, files, world, Locked
<1>2. \A u \in Task : pc[u] \in Locked => u = t
  BY <1>1 DEF IInv, OneHolder
<1>3. lock # {} /\ \A u \in Task : pc[u] \notin Reclaiming
  BY <1>1 DEF IInv, HolderKeepsTheLock, ReclaimsTheDead
<1>4. /\ pc'[t] \in Locked \cup {"idle"} /\ (pc'[t] # "idle" => token'[t] = token[t])
      /\ \A u \in Task : u # t =>
           pc'[u] = pc[u] /\ token'[u] = token[u] /\ snapshot'[u] = snapshot[u]
      /\ DOMAIN pc' = Task /\ DOMAIN token' = Task /\ DOMAIN snapshot' = Task
  <2>1. CASE ReadSnapshot(t)
    BY <2>1 DEF IInv, Shapes, ReadSnapshot, Locked
  <2>2. CASE RenameState(t) \/ ConfirmDurability(t) \/ CheckToken(t)
    <3>1. PICK label \in {"confirm", "release", "unlock", "idle"} : Goto(t, label)
      BY <2>2 DEF RenameState, ConfirmDurability, CheckToken, SyncThen
    <3>2. label \in Locked \cup {"idle"} /\ label # "retry"
      BY DEF Locked
    <3> QED BY <3>1, <3>2, GotoMoves DEF IInv
  <2> QED BY <2>1, <2>2
<1>5. Shapes' /\ OnlyTheLivingRun'
  BY <1>1, <1>4 DEF IInv, Shapes, OnlyTheLivingRun, Running
<1>6. HolderKeepsTheLock' /\ OneHolder'
  BY <1>1, <1>2, <1>4 DEF IInv, HolderKeepsTheLock, OneHolder, Locked
<1>7. OneRecoverer'
  BY <1>1, <1>4 DEF IInv, OneRecoverer, Recovering, Locked
<1>8. ReclaimsTheDead'
  BY <1>1, <1>3, <1>4 DEF IInv, ReclaimsTheDead, Reclaiming, Locked
<1>9. TransitionsAreSerial'
  <2>1. \A u \in Task : pc'[u] = "rename" => u = t
    BY <1>2, <1>4 DEF Locked
  <2>2. pc'[t] = "rename" => snapshot'[t] = version /\ version' = version
    BY DEF IInv, Shapes, ReadSnapshot, RenameState, ConfirmDurability, CheckToken,
           SyncThen, Goto, files
  <2> QED BY <2>1, <2>2 DEF TransitionsAreSerial
<1>10. DurableBeforeUnlock'
  <2>1. \A u \in Task : pc'[u] \in (Locked \ {"confirm"}) \cup {"reclaim"} => u = t
    BY <1>2, <1>3, <1>4 DEF Locked, Reclaiming
  <2>2. pc'[t] \in (Locked \ {"confirm"}) => version' = disk'.version
    BY DEF IInv, Shapes, DurableBeforeUnlock, ReadSnapshot, RenameState,
           ConfirmDurability, CheckToken, SyncThen, Goto, files, Locked
  <2>3. pc'[t] # "reclaim"
    BY <1>4 DEF Locked
  <2> QED BY <2>1, <2>2, <2>3 DEF DurableBeforeUnlock
<1>11. UnlockedStateIsDurable'
  BY <1>1, <1>3 DEF UnlockedStateIsDurable
<1> QED BY <1>5, <1>6, <1>7, <1>8, <1>9, <1>10, <1>11 DEF IInv

\* The holder removes its own lock.
LEMMA UnlockKeeps ==
  ASSUME IInv, NEW t \in Task, Running(t), Unlock(t)
  PROVE  IInv'
<1>1. UNCHANGED <<version, recovery, alive>> /\ pc[t] = "unlock" /\ lock' = {}
      /\ Goto(t, "idle") /\ (disk' = disk \/ disk'.version = version)
  BY DEF Unlock, SyncThen, world
<1>2. pc'[t] = "idle" /\ DOMAIN pc' = Task /\ DOMAIN token' = Task /\ DOMAIN snapshot' = Task
      /\ \A u \in Task : u # t =>
           pc'[u] = pc[u] /\ token'[u] = token[u] /\ snapshot'[u] = snapshot[u]
  BY <1>1, GotoMoves DEF IInv
<1>3. \A u \in Task : pc'[u] \notin Locked \cup Reclaiming
  BY <1>1, <1>2 DEF IInv, OneHolder, ReclaimsTheDead, Locked, Reclaiming
<1>4. version = disk.version
  BY <1>1 DEF IInv, DurableBeforeUnlock, Locked
<1>5. Shapes' /\ OnlyTheLivingRun'
  BY <1>1, <1>2 DEF IInv, Shapes, OnlyTheLivingRun, Running
<1>6. HolderKeepsTheLock' /\ OneHolder' /\ ReclaimsTheDead'
  BY <1>1, <1>3 DEF HolderKeepsTheLock, OneHolder, ReclaimsTheDead
<1>7. OneRecoverer'
  BY <1>1, <1>2 DEF IInv, OneRecoverer, Recovering
<1>8. TransitionsAreSerial' /\ DurableBeforeUnlock'
  BY <1>3 DEF TransitionsAreSerial, DurableBeforeUnlock, Locked, Reclaiming
<1>9. UnlockedStateIsDurable'
  BY <1>1, <1>4 DEF UnlockedStateIsDurable
<1> QED BY <1>5, <1>6, <1>7, <1>8, <1>9 DEF IInv

\* A recovery file is created once; whoever created it rechecks the lock.
LEMMA RecoveryKeeps ==
  ASSUME IInv, NEW t \in Task, Running(t),
         CreateRecovery(t) \/ RecheckOwner(t) \/ ReconfirmDurability(t) \/ RemoveRecovery(t)
  PROVE  IInv'
<1>1. UNCHANGED <<version, lock, alive>> /\ (disk' = disk \/ disk'.version = version)
      /\ pc[t] \in Recovering \cup {"recover"}
  BY DEF CreateRecovery, RecheckOwner, ReconfirmDurability, RemoveRecovery, SyncThen,
         files, world, Recovering
<1>2. PICK label \in Recovering \cup {"retry", "idle"} : Goto(t, label)
  BY DEF CreateRecovery, RecheckOwner, ReconfirmDurability, RemoveRecovery, SyncThen, Recovering
<1>3. /\ pc'[t] = label /\ (label \in Recovering => token'[t] = token[t])
      /\ \A u \in Task : u # t =>
           pc'[u] = pc[u] /\ token'[u] = token[u] /\ snapshot'[u] = snapshot[u]
      /\ DOMAIN pc' = Task /\ DOMAIN token' = Task /\ DOMAIN snapshot' = Task
  BY <1>2, GotoMoves DEF IInv, Recovering
<1>4. \A u \in Task : pc'[u] \in Locked => u # t /\ pc[u] \in Locked
  BY <1>3 DEF Locked, Recovering
<1>5. Shapes' /\ OnlyTheLivingRun'
  BY <1>1, <1>3 DEF IInv, Shapes, OnlyTheLivingRun, Running
<1>6. HolderKeepsTheLock' /\ OneHolder'
  BY <1>1, <1>3, <1>4 DEF IInv, HolderKeepsTheLock, OneHolder
<1>7. OneRecoverer'
  <2>1. CASE CreateRecovery(t)
    <3>1. pc[t] = "recover" /\ recovery' = recovery \cup {token[t]}
          /\ label \in (IF token[t] \in recovery THEN {"retry", "idle"} ELSE {"recheck", "idle"})
      BY <1>3, <2>1 DEF CreateRecovery, SyncThen, IInv, Shapes, Goto
    <3>2. ASSUME pc'[t] \in Recovering PROVE token[t] \notin recovery
      BY <1>3, <3>1, <3>2 DEF Recovering
    <3> QED BY <1>3, <3>1, <3>2 DEF IInv, OneRecoverer
  <2>2. CASE RecheckOwner(t) \/ ReconfirmDurability(t)
    <3>1. recovery' = recovery /\ pc[t] \in Recovering
      BY <2>2 DEF RecheckOwner, ReconfirmDurability, files, Recovering
    <3> QED BY <1>3, <3>1 DEF IInv, OneRecoverer
  <2>3. CASE RemoveRecovery(t)
    <3>1. recovery' = recovery \ {token[t]} /\ pc[t] \in Recovering
      BY <2>3 DEF RemoveRecovery, Recovering
    <3>2. pc'[t] \in {"retry", "idle"}
      BY <2>3 DEF RemoveRecovery, SyncThen, Goto, IInv, Shapes
    <3> QED BY <1>3, <3>1, <3>2 DEF IInv, OneRecoverer, Recovering
  <2> QED BY <2>1, <2>2, <2>3
<1>8. ReclaimsTheDead'
  <2>1. CASE pc'[t] \in Reclaiming /\ pc[t] \notin Reclaiming
    <3>1. RecheckOwner(t) /\ \E r \in lock : r.token = token[t] /\ Reclaimable(t, r)
      BY <1>2, <1>3, <2>1 DEF CreateRecovery, RecheckOwner, ReconfirmDurability,
         RemoveRecovery, SyncThen, Goto, IInv, Shapes, Reclaiming
    <3>2. PICK r \in lock : r.token = token[t] /\ ~alive[r.owner]
      BY <3>1 DEF Reclaimable, Dead
    <3>3. \A u \in Task : pc[u] \notin Locked
      <4> SUFFICES ASSUME NEW u \in Task, pc[u] \in Locked PROVE FALSE
        OBVIOUS
      <4>1. r.owner = ProcOf[u]
        BY <3>2 DEF IInv, HolderKeepsTheLock
      <4>2. alive[ProcOf[u]]
        BY DEF IInv, OnlyTheLivingRun, Running, Locked
      <4> QED BY <3>2, <4>1, <4>2
    <3>4. token'[t] = token[t]
      BY <1>3, <2>1 DEF Reclaiming, Recovering
    <3> QED BY <1>1, <1>3, <1>4, <3>2, <3>3, <3>4 DEF IInv, ReclaimsTheDead
  <2>2. CASE pc'[t] \in Reclaiming => pc[t] \in Reclaiming
    BY <1>1, <1>3, <1>4, <2>2 DEF IInv, ReclaimsTheDead, Reclaiming, Recovering
  <2> QED BY <2>1, <2>2
<1>9. TransitionsAreSerial'
  BY <1>1, <1>3 DEF IInv, TransitionsAreSerial, Recovering
<1>10. DurableBeforeUnlock'
  <2>1. pc'[t] = "reclaim" => version = disk'.version
    BY DEF IInv, Shapes, CreateRecovery, RecheckOwner, ReconfirmDurability,
           RemoveRecovery, SyncThen, Goto, files
  <2> QED BY <1>1, <1>3, <1>4, <2>1 DEF IInv, DurableBeforeUnlock
<1>11. UnlockedStateIsDurable'
  BY <1>1 DEF IInv, UnlockedStateIsDurable
<1> QED BY <1>5, <1>6, <1>7, <1>8, <1>9, <1>10, <1>11 DEF IInv

\* The lock that is removed is nobody's, and the state file confirmed.
LEMMA RemoveDeadLockKeeps ==
  ASSUME IInv, NEW t \in Task, Running(t), RemoveDeadLock(t)
  PROVE  IInv'
<1>1. UNCHANGED <<version, recovery, alive>> /\ pc[t] = "reclaim" /\ lock' = {}
      /\ (disk' = disk \/ disk'.version = version)
  BY DEF RemoveDeadLock, SyncThen, world
<1>2. PICK label \in {"unrecover", "unrecoverThrow"} : Goto(t, label)
  BY DEF RemoveDeadLock, SyncThen
<1>3. /\ pc'[t] = label /\ token'[t] = token[t]
      /\ \A u \in Task : u # t =>
           pc'[u] = pc[u] /\ token'[u] = token[u] /\ snapshot'[u] = snapshot[u]
      /\ DOMAIN pc' = Task /\ DOMAIN token' = Task /\ DOMAIN snapshot' = Task
  BY <1>2, GotoMoves DEF IInv
<1>4. \A u \in Task : pc'[u] \notin Locked
  BY <1>1, <1>3 DEF IInv, ReclaimsTheDead, Locked, Reclaiming
<1>5. \A u \in Task : pc'[u] \notin Reclaiming
  <2> SUFFICES ASSUME NEW u \in Task, u # t, pc[u] \in Reclaiming PROVE FALSE
    BY <1>3 DEF Reclaiming
  <2>1. token[u] = token[t]
    BY <1>1 DEF IInv, ReclaimsTheDead, Reclaiming
  <2> QED BY <1>1, <2>1 DEF IInv, OneRecoverer, Recovering, Reclaiming
<1>6. version = disk.version
  BY <1>1 DEF IInv, DurableBeforeUnlock
<1>7. Shapes' /\ OnlyTheLivingRun'
  BY <1>1, <1>3 DEF IInv, Shapes, OnlyTheLivingRun, Running
<1>8. HolderKeepsTheLock' /\ OneHolder' /\ ReclaimsTheDead'
  BY <1>1, <1>4, <1>5 DEF HolderKeepsTheLock, OneHolder, ReclaimsTheDead
<1>9. OneRecoverer'
  BY <1>1, <1>3 DEF IInv, OneRecoverer, Recovering
<1>10. TransitionsAreSerial' /\ DurableBeforeUnlock'
  BY <1>4, <1>5 DEF TransitionsAreSerial, DurableBeforeUnlock, Locked, Reclaiming
<1>11. UnlockedStateIsDurable'
  BY <1>1, <1>6 DEF UnlockedStateIsDurable
<1> QED BY <1>7, <1>8, <1>9, <1>10, <1>11 DEF IInv

\* Whoever goes down holds nothing any more; a power loss ends everyone.
LEMMA WorldKeeps ==
  ASSUME IInv, OneEntry, Age \/ (\E p \in Process : Crash(p) \/ Start(p)) \/ PowerLoss
  PROVE  IInv'
<1>1. CASE Age
  BY <1>1 DEF Age, IInv, Shapes, OnlyTheLivingRun, Running, HolderKeepsTheLock, OneHolder,
     OneRecoverer, ReclaimsTheDead, TransitionsAreSerial, DurableBeforeUnlock,
     UnlockedStateIsDurable, files, locals
<1>2. ASSUME NEW p \in Process, Start(p) PROVE IInv'
  <2>1. UNCHANGED <<files, disk, pc, locals>> /\ alive' = [alive EXCEPT ![p] = TRUE]
    BY <1>2 DEF Start
  <2>2. Shapes' /\ OnlyTheLivingRun'
    BY <2>1 DEF IInv, Shapes, OnlyTheLivingRun, Running, locals
  <2> QED BY <2>1, <2>2 DEF IInv, HolderKeepsTheLock, OneHolder, OneRecoverer,
          ReclaimsTheDead, TransitionsAreSerial, DurableBeforeUnlock,
          UnlockedStateIsDurable, files, locals
<1>3. ASSUME NEW p \in Process, Crash(p) PROVE IInv'
  <2>1. UNCHANGED <<files, disk>> /\ GoDown({p})
    BY <1>3 DEF Crash
  <2>2. /\ DOMAIN pc' = Task /\ DOMAIN token' = Task /\ DOMAIN snapshot' = Task
        /\ DOMAIN alive' = Process
        /\ \A u \in Task : pc'[u] # "idle" =>
             /\ pc'[u] = pc[u] /\ token'[u] = token[u] /\ snapshot'[u] = snapshot[u]
             /\ ProcOf[u] # p
        /\ \A q \in Process : q # p => (alive'[q] <=> alive[q])
    BY <2>1 DEF GoDown, IInv, Shapes
  <2>3. Shapes' /\ OnlyTheLivingRun'
    BY <2>2, TaskAssumption DEF IInv, Shapes, OnlyTheLivingRun, Running
  <2>4. HolderKeepsTheLock' /\ OneHolder'
    BY <2>1, <2>2 DEF IInv, HolderKeepsTheLock, OneHolder, Locked, files
  <2>5. OneRecoverer'
    BY <2>1, <2>2 DEF IInv, OneRecoverer, Recovering, files
  <2>6. ReclaimsTheDead'
    BY <2>1, <2>2 DEF IInv, ReclaimsTheDead, Reclaiming, Locked, files
  <2>7. TransitionsAreSerial' /\ DurableBeforeUnlock' /\ UnlockedStateIsDurable'
    BY <2>1, <2>2 DEF IInv, TransitionsAreSerial, DurableBeforeUnlock,
       UnlockedStateIsDurable, Locked, files
  <2> QED BY <2>3, <2>4, <2>5, <2>6, <2>7 DEF IInv
<1>4. CASE PowerLoss
  <2>1. \A u \in Task : pc'[u] = "idle"
    BY <1>4, TaskAssumption DEF PowerLoss, GoDown
  <2>2. Shapes'
    BY <1>4 DEF PowerLoss, GoDown, IInv, Shapes
  <2>3. version' = disk'.version /\ \A r, s \in lock' : r = s
    BY <1>4 DEF PowerLoss, OneEntry
  <2> QED BY <2>1, <2>2, <2>3 DEF IInv, OnlyTheLivingRun, HolderKeepsTheLock, OneHolder,
          OneRecoverer, ReclaimsTheDead, TransitionsAreSerial, DurableBeforeUnlock,
          UnlockedStateIsDurable, Locked, Recovering, Reclaiming
<1> QED BY <1>1, <1>2, <1>3, <1>4

\* Entries are created where none was, removed, or what the last sync left.
LEMMA NextOneEntry == OneEntry /\ [Next]_vars => OneEntry'
<1> SUFFICES ASSUME OneEntry, [Next]_vars PROVE OneEntry'
  OBVIOUS
<1>1. \A r, s \in lock' : r = s
  <2>1. ASSUME NEW t \in Task, Step(t) PROVE lock' = lock \/ \E r : lock' \subseteq {r}
    BY <2>1 DEF Step, Call, Acquire, AcquireBusy, InspectOwner, RetryOrTimeOut,
       ReadSnapshot, RenameState, ConfirmDurability, CheckToken, Unlock, CreateRecovery,
       RecheckOwner, ReconfirmDurability, RemoveDeadLock, RemoveRecovery, files
  <2>2. CASE Age \/ (\E p \in Process : Crash(p) \/ Start(p)) \/ UNCHANGED vars
    BY <2>2 DEF Age, Crash, Start, vars, files, OneEntry
  <2>3. CASE PowerLoss
    BY <2>3 DEF PowerLoss, OneEntry
  <2> QED BY <2>1, <2>2, <2>3 DEF Next, OneEntry
<1>2. disk' = disk \/ disk'.lock = lock'
  <2>1. ASSUME NEW t \in Task, Step(t) PROVE disk' = disk \/ disk'.lock = lock'
    BY <2>1 DEF Step, Call, Acquire, AcquireBusy, InspectOwner, RetryOrTimeOut,
       ReadSnapshot, RenameState, ConfirmDurability, CheckToken, Unlock, CreateRecovery,
       RecheckOwner, ReconfirmDurability, RemoveDeadLock, RemoveRecovery, SyncThen, files
  <2>2. CASE Age \/ (\E p \in Process : Crash(p) \/ Start(p)) \/ UNCHANGED vars
    BY <2>2 DEF Age, Crash, Start, vars
  <2>3. CASE PowerLoss
    <3>1. disk' = [version |-> version', lock |-> lock', recovery |-> recovery']
      BY <2>3 DEF PowerLoss
    <3> QED BY <3>1
  <2> QED BY <2>1, <2>2, <2>3 DEF Next
<1> QED BY <1>1, <1>2 DEF OneEntry

\* Every step keeps the invariant.
LEMMA NextIInv == IInv /\ OneEntry /\ [Next]_vars => IInv'
<1> SUFFICES ASSUME IInv, OneEntry, [Next]_vars PROVE IInv'
  OBVIOUS
<1>1. ASSUME NEW t \in Task, Step(t) PROVE IInv'
  <2>1. Running(t)
    BY <1>1 DEF Step
  <2>2. CASE Call(t) \/ AcquireBusy(t) \/ InspectOwner(t) \/ RetryOrTimeOut(t)
    BY <2>1, <2>2, WaitingKeeps
  <2>3. CASE Acquire(t)
    BY <2>1, <2>3, AcquireKeeps
  <2>4. CASE ReadSnapshot(t) \/ RenameState(t) \/ ConfirmDurability(t) \/ CheckToken(t)
    BY <2>1, <2>4, TransitionKeeps
  <2>5. CASE Unlock(t)
    BY <2>1, <2>5, UnlockKeeps
  <2>6. CASE CreateRecovery(t) \/ RecheckOwner(t) \/ ReconfirmDurability(t) \/ RemoveRecovery(t)
    BY <2>1, <2>6, RecoveryKeeps
  <2>7. CASE RemoveDeadLock(t)
    BY <2>1, <2>7, RemoveDeadLockKeeps
  <2> QED BY <1>1, <2>2, <2>3, <2>4, <2>5, <2>6, <2>7 DEF Step
<1>2. CASE Age \/ (\E p \in Process : Crash(p) \/ Start(p)) \/ PowerLoss
  BY <1>2, WorldKeeps
<1>3. CASE UNCHANGED vars
  BY <1>3 DEF vars, files, world, locals, IInv, Shapes, OnlyTheLivingRun, Running,
     HolderKeepsTheLock, OneHolder, OneRecoverer, ReclaimsTheDead, TransitionsAreSerial,
     DurableBeforeUnlock, UnlockedStateIsDurable
<1> QED BY <1>1, <1>2, <1>3 DEF Next

-----------------------------------------------------------------------------
(* The theorems.                                                            *)

\* A task finds its own token in .lock from the moment it has created it until
\* it removes it: no recovery takes the lock of a live owner.
THEOREM LockIsTheHolders == Spec => []HolderKeepsTheLock
<1>1. IInv => HolderKeepsTheLock
  BY DEF IInv
<1> QED BY <1>1, InitIInv, NextIInv, NextOneEntry, PTL DEF Spec

\* A committed transition replaces exactly the version it was decided on.
THEOREM TransitionsSerial == Spec => []TransitionsAreSerial
<1>1. IInv => TransitionsAreSerial
  BY DEF IInv
<1> QED BY <1>1, InitIInv, NextIInv, NextOneEntry, PTL DEF Spec

\* When .lock is absent, a power loss cannot take the visible state file back.
THEOREM UnlockedIsDurable == Spec => []UnlockedStateIsDurable
<1>1. IInv => UnlockedStateIsDurable
  BY DEF IInv
<1> QED BY <1>1, InitIInv, NextIInv, NextOneEntry, PTL DEF Spec
=============================================================================
