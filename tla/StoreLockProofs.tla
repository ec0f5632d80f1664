---------------------------- MODULE StoreLockProofs ----------------------------
(***************************************************************************)
(* Theorems about StoreLock, for every number of processes, acquisitions   *)
(* and deaths, as long as nobody dies holding .lock.recovery: the writer   *)
(* lock is its owner's, and only a dead owner's lock is removed.  Where a  *)
(* recoverer dies with that file, two live processes can own the lock      *)
(* (StoreLockRecoveryCrash.cfg).                                           *)
(*                                                                         *)
(* A recovery lock whose holder runs is never taken from it, so that one   *)
(* process at a time looks at .lock and removes it.                        *)
(***************************************************************************)
EXTENDS StoreLock, TLAPS

\* Where a process holds the recovery lock.
Exclusive == {"check", "remove", "releaseRecovery", "unlinkRecovery"}
Resting == {"idle", "dead"}
Point ==
  Resting \cup Exclusive
    \cup {"link", "owner", "unlink", "observe", "linkRecovery", "holder"}

\* Processes are at a point of their acquisition; nobody takes a recovery lock
\* over.
Shapes ==
  /\ pc \in [Process -> Point]
  /\ calls \in [Process -> 0..MaxCall]
  /\ \A p \in Process : pc[p] \notin Resting => calls[p] \in 1..MaxCall
  /\ DOMAIN attempt = Process /\ DOMAIN observed = Process /\ DOMAIN observedHolder = Process

\* The assumption of the theorems: no recoverer dies between linking
\* .lock.recovery and unlinking it.
NobodyDiesRecovering == [][\A p \in alive : pc[p] \in Exclusive => ~Crash(p)]_vars

\* The holder of the recovery lock runs, and is in its recovery.
HolderRuns ==
  /\ alive \subseteq Process
  /\ recovery # NoLock => recovery.pid \in alive /\ pc[recovery.pid] \in Exclusive

\* Whoever looks at .lock, or removes it, holds the recovery lock.
OneRecoverer == \A p \in alive : pc[p] \in Exclusive => recovery = Mine(p)

IInv ==
  /\ Shapes /\ HolderRuns
  /\ OneRecoverer /\ OwnerKeepsTheLock /\ RemovesOnlyTheDead

-----------------------------------------------------------------------------
\* What a process writes into a lock file names it.
LEMMA MineNames ==
  ASSUME Shapes, NEW p \in Process, pc[p] \notin Resting
  PROVE  Mine(p) # NoLock /\ Mine(p).pid = p
BY NoLockAssumption DEF Shapes, Mine

LEMMA InitIInv == Init => IInv
BY BoundAssumption DEF Init, IInv, Shapes, Point, Resting, HolderRuns,
   Exclusive, OneRecoverer, OwnerKeepsTheLock, Owning, RemovesOnlyTheDead

\* A step of p that leaves the two files alone.
LEMMA QuietStep ==
  ASSUME IInv, NEW p \in alive, UNCHANGED <<lock, recovery, alive, crashes, calls>>,
         Shapes', \A q \in Process : q # p => pc'[q] = pc[q] /\ observed'[q] = observed[q],
         pc'[p] \in Exclusive <=> pc[p] \in Exclusive,
         pc'[p] \in Owning => pc[p] \in Owning,
         pc'[p] = "remove" => lock = observed'[p] /\ DefinitelyDead(lock)
  PROVE  IInv'
<1>1. alive \subseteq Process /\ \A q \in alive : Mine(q)' = Mine(q)
  BY DEF IInv, HolderRuns, Mine
<1>2. HolderRuns'
  BY <1>1 DEF IInv, HolderRuns
<1>3. OneRecoverer' /\ OwnerKeepsTheLock'
  BY <1>1 DEF IInv, OneRecoverer, OwnerKeepsTheLock
<1>4. RemovesOnlyTheDead'
  BY <1>1 DEF IInv, RemovesOnlyTheDead, DefinitelyDead
<1> QED BY <1>2, <1>3, <1>4 DEF IInv

-----------------------------------------------------------------------------
LEMMA AcquiringKeeps ==
  ASSUME IInv, NEW p \in alive, Acquiring(p)
  PROVE  IInv'
<1>1. p \in Process /\ alive \subseteq Process
  BY DEF IInv, HolderRuns
<1>2. Shapes'
  BY <1>1, MineNames, BoundAssumption DEF IInv, Shapes, Acquiring, Call, Link, TimeOut,
     Release, Unlink, Goto, local, Point, Resting
<1>3. CASE Call(p)
  <2>1. /\ UNCHANGED <<lock, recovery, alive, crashes, observed>> /\ pc[p] = "idle" /\ pc'[p] = "link"
        /\ \A q \in Process : q # p => pc'[q] = pc[q] /\ calls'[q] = calls[q]
    BY <1>1, <1>3 DEF Call, Goto, IInv, Shapes
  <2>2. HolderRuns' /\ RemovesOnlyTheDead'
    BY <1>1, <2>1 DEF IInv, HolderRuns, Exclusive,
       RemovesOnlyTheDead, DefinitelyDead
  <2>3. OneRecoverer' /\ OwnerKeepsTheLock'
    BY <1>1, <2>1 DEF IInv, OneRecoverer, OwnerKeepsTheLock, Exclusive, Owning, Mine
  <2> QED BY <1>2, <2>2, <2>3 DEF IInv
<1>4. CASE (Link(p) /\ lock # NoLock) \/ TimeOut(p) \/ Release(p)
  <2>1. /\ \/ pc[p] = "link" /\ pc'[p] \in {"observe", "idle"}
           \/ pc[p] = "owner" /\ pc'[p] \in {"unlink", "idle"}
        /\ UNCHANGED <<lock, recovery, alive, crashes, calls, observed>>
        /\ \A q \in Process : q # p => pc'[q] = pc[q]
    BY <1>1, <1>4 DEF Link, TimeOut, Release, Goto, local, IInv, Shapes
  <2> QED BY <1>2, <2>1, QuietStep DEF Exclusive, Owning
<1>5. CASE (Link(p) /\ lock = NoLock) \/ Unlink(p)
  <2>1. /\ UNCHANGED <<recovery, alive, crashes, calls, observed>>
        /\ \A q \in Process : q # p => pc'[q] = pc[q]
        /\ \/ pc'[p] = "owner" /\ lock' = Mine(p)
           \/ pc'[p] = "idle" /\ lock' = NoLock
        /\ pc[p] \in {"link", "unlink"}
        /\ lock = NoLock \/ lock = Mine(p)
    BY <1>1, <1>5 DEF Link, Unlink, Goto, local, IInv, Shapes, OwnerKeepsTheLock, Owning
  <2>2. /\ Mine(p) # NoLock /\ Mine(p).pid = p
        /\ \A q \in alive : Mine(q)' = Mine(q)
        /\ \A q \in alive : pc[q] \in Owning => Mine(q) # NoLock /\ Mine(q).pid = q
    <3>1. pc[p] \notin Resting
      BY <1>5 DEF Link, Unlink, Resting
    <3>2. \A q \in alive : pc[q] \in Owning => pc[q] \notin Resting
      BY DEF Owning, Resting
    <3> QED BY <1>1, <2>1, <3>1, <3>2, MineNames DEF IInv, Mine
  <2>3. \A q \in alive : q # p => pc[q] \notin Owning /\ pc[q] # "remove"
    BY <2>1, <2>2 DEF IInv, OwnerKeepsTheLock, RemovesOnlyTheDead, DefinitelyDead
  <2>4. HolderRuns' /\ OneRecoverer'
    BY <1>1, <2>1, <2>2 DEF IInv, HolderRuns, OneRecoverer, Exclusive
  <2>5. OwnerKeepsTheLock' /\ RemovesOnlyTheDead'
    BY <1>1, <2>1, <2>2, <2>3 DEF OwnerKeepsTheLock, RemovesOnlyTheDead, Owning
  <2> QED BY <1>2, <2>4, <2>5 DEF IInv
<1> QED BY <1>3, <1>4, <1>5 DEF Acquiring

-----------------------------------------------------------------------------
LEMMA RecoveringKeeps ==
  ASSUME IInv, NEW p \in alive, Recovering(p)
  PROVE  IInv'
<1>1. p \in Process /\ alive \subseteq Process
  BY DEF IInv, HolderRuns
<1>2. ~DefinitelyDead(recovery)
  BY DEF IInv, HolderRuns, DefinitelyDead
<1>3. pc[p] \notin {"observeHolder", "compareHolder", "removeHolder"}
  BY <1>1 DEF IInv, Shapes, Point, Resting, Exclusive
<1>4. \/ Observe(p) \/ LinkRecovery(p) \/ Holder(p) \/ Check(p) \/ Remove(p)
      \/ ReleaseRecovery(p) \/ UnlinkRecovery(p)
  BY <1>3 DEF Recovering, ObserveHolder, CompareHolder, RemoveHolder
<1>5. Shapes'
  <2>1. PICK label \in Point \ Resting : pc' = [pc EXCEPT ![p] = label]
    BY <1>2, <1>4 DEF Observe, LinkRecovery, Holder, Check, Remove, ReleaseRecovery,
       UnlinkRecovery, Return, Goto, Point, Resting, Exclusive
  <2>2. pc[p] \notin Resting /\ calls' = calls
    BY <1>2, <1>4 DEF Observe, LinkRecovery, Holder, Check, Remove, ReleaseRecovery,
       UnlinkRecovery, Return, local, Resting
  <2>3. DOMAIN attempt' = Process /\ DOMAIN observed' = Process /\ DOMAIN observedHolder' = Process
    BY <1>2, <1>4 DEF Observe, LinkRecovery, Holder, Check, Remove, ReleaseRecovery,
       UnlinkRecovery, Return, local, IInv, Shapes
  <2> QED BY <1>1, <2>1, <2>2, <2>3 DEF IInv, Shapes
<1>6. CASE Observe(p)
  <2>1. /\ pc'[p] \in {"linkRecovery", "link"}
        /\ UNCHANGED <<lock, recovery, alive, crashes, calls>>
        /\ \A q \in Process : q # p => pc'[q] = pc[q] /\ observed'[q] = observed[q]
    BY <1>1, <1>6 DEF Observe, Return, Goto, IInv, Shapes
  <2> QED BY <1>5, <1>6, <2>1, QuietStep DEF Observe, Exclusive, Owning
<1>7. CASE LinkRecovery(p) /\ recovery = NoLock
  <2>1. /\ UNCHANGED <<lock, alive, crashes, calls, observed>>
        /\ recovery' = Mine(p) /\ pc'[p] = "check" /\ pc[p] = "linkRecovery"
        /\ \A q \in Process : q # p => pc'[q] = pc[q]
    BY <1>1, <1>7 DEF LinkRecovery, Goto, local, IInv, Shapes
  <2>2. Mine(p).pid = p /\ \A q \in alive : Mine(q)' = Mine(q)
    BY <1>1, <2>1 DEF Mine
  <2>3. \A q \in alive : pc[q] \notin Exclusive
    <3> SUFFICES ASSUME NEW q \in alive, pc[q] \in Exclusive PROVE FALSE
      OBVIOUS
    <3>1. pc[q] \notin Resting
      BY DEF Exclusive, Resting
    <3> QED BY <1>1, <1>7, <3>1, MineNames DEF IInv, OneRecoverer
  <2>4. HolderRuns' /\ OneRecoverer'
    BY <1>1, <2>1, <2>2, <2>3 DEF IInv, HolderRuns, OneRecoverer, Exclusive
  <2>5. OwnerKeepsTheLock' /\ RemovesOnlyTheDead'
    BY <1>1, <2>1, <2>2 DEF IInv, OwnerKeepsTheLock, Owning, RemovesOnlyTheDead, DefinitelyDead
  <2> QED BY <1>5, <2>4, <2>5 DEF IInv
<1>8. CASE (LinkRecovery(p) /\ recovery # NoLock) \/ Holder(p) \/ Check(p)
  <2>1. /\ pc'[p] \in {"holder", "link", "remove", "releaseRecovery"}
        /\ UNCHANGED <<lock, recovery, alive, crashes, calls>>
        /\ \A q \in Process : q # p => pc'[q] = pc[q] /\ observed'[q] = observed[q]
    BY <1>1, <1>2, <1>8 DEF LinkRecovery, Holder, Check, Return, Goto, local, IInv, Shapes
  <2>2. /\ pc'[p] \in Exclusive <=> pc[p] \in Exclusive
        /\ pc'[p] = "remove" => lock = observed'[p] /\ DefinitelyDead(lock)
    BY <1>1, <1>2, <1>8 DEF LinkRecovery, Holder, Check, Return, Goto, local, IInv, Shapes,
       Exclusive
  <2> QED BY <1>5, <2>1, <2>2, QuietStep DEF Owning
<1>9. CASE Remove(p)
  <2>1. /\ UNCHANGED <<recovery, alive, crashes, calls, observed>>
        /\ lock' = NoLock /\ pc'[p] = "releaseRecovery" /\ pc[p] = "remove"
        /\ \A q \in Process : q # p => pc'[q] = pc[q]
    BY <1>1, <1>9 DEF Remove, Goto, local, IInv, Shapes
  <2>2. \A q \in alive : Mine(q)' = Mine(q) /\ Mine(q).pid = q
    BY <1>1, <2>1 DEF Mine
  <2>3. \A q \in alive : q # p => pc[q] # "remove"
    BY <2>1, <2>2 DEF IInv, OneRecoverer, Exclusive
  <2>4. \A q \in alive : pc[q] \notin Owning
    BY <2>1, <2>2 DEF IInv, OwnerKeepsTheLock, RemovesOnlyTheDead, DefinitelyDead
  <2>5. HolderRuns' /\ OneRecoverer'
    BY <1>1, <2>1, <2>2 DEF IInv, HolderRuns, OneRecoverer, Exclusive
  <2>6. OwnerKeepsTheLock' /\ RemovesOnlyTheDead'
    BY <1>1, <2>1, <2>3, <2>4 DEF OwnerKeepsTheLock, RemovesOnlyTheDead, Owning
  <2> QED BY <1>5, <2>5, <2>6 DEF IInv
<1>10. CASE ReleaseRecovery(p)
  <2>1. /\ pc'[p] = "unlinkRecovery" /\ pc[p] = "releaseRecovery"
        /\ UNCHANGED <<lock, recovery, alive, crashes, calls>>
        /\ \A q \in Process : q # p => pc'[q] = pc[q] /\ observed'[q] = observed[q]
    BY <1>1, <1>10 DEF ReleaseRecovery, Goto, local, IInv, Shapes, OneRecoverer, Exclusive
  <2> QED BY <1>5, <2>1, QuietStep DEF Exclusive, Owning
<1>11. CASE UnlinkRecovery(p)
  <2>1. /\ UNCHANGED <<lock, alive, crashes, calls>> /\ recovery' = NoLock
        /\ pc'[p] = "link" /\ pc[p] = "unlinkRecovery"
        /\ \A q \in Process : q # p => pc'[q] = pc[q] /\ observed'[q] = observed[q]
    BY <1>1, <1>11 DEF UnlinkRecovery, Return, Goto, IInv, Shapes
  <2>2. \A q \in alive : Mine(q)' = Mine(q) /\ Mine(q).pid = q
    BY <1>1, <2>1 DEF Mine
  <2>3. \A q \in alive : q # p => pc[q] \notin Exclusive
    BY <2>1, <2>2 DEF IInv, OneRecoverer, Exclusive
  <2>4. HolderRuns' /\ OneRecoverer'
    BY <1>1, <2>1, <2>3 DEF IInv, HolderRuns, OneRecoverer, Exclusive
  <2>5. OwnerKeepsTheLock' /\ RemovesOnlyTheDead'
    BY <1>1, <2>1, <2>2 DEF IInv, OwnerKeepsTheLock, Owning, RemovesOnlyTheDead, DefinitelyDead
  <2> QED BY <1>5, <2>4, <2>5 DEF IInv
<1> QED BY <1>4, <1>6, <1>7, <1>8, <1>9, <1>10, <1>11 DEF LinkRecovery

\* Whoever dies does not hold the recovery lock.
LEMMA CrashKeeps ==
  ASSUME IInv, NEW p \in alive, pc[p] \notin Exclusive, Crash(p)
  PROVE  IInv'
<1>1. alive' = alive \ {p} /\ UNCHANGED <<lock, recovery, calls>> /\ alive \subseteq Process
  BY DEF Crash, IInv, HolderRuns
<1>2. Shapes'
  BY <1>1 DEF IInv, Shapes, Crash, Goto, Point, Resting
<1>3. \A q \in alive' : /\ q \in alive /\ pc'[q] = pc[q] /\ observed'[q] = observed[q]
                        /\ Mine(q)' = Mine(q)
  BY <1>1 DEF IInv, Shapes, Crash, Goto, Mine
<1>4. HolderRuns' /\ OneRecoverer' /\ OwnerKeepsTheLock' /\ RemovesOnlyTheDead'
  BY <1>1, <1>3 DEF IInv, HolderRuns, OneRecoverer, OwnerKeepsTheLock, RemovesOnlyTheDead,
     DefinitelyDead
<1> QED BY <1>2, <1>4 DEF IInv

\* Every step keeps the invariant.
LEMMA NextIInv ==
  IInv /\ [Next]_vars /\ [\A p \in alive : pc[p] \in Exclusive => ~Crash(p)]_vars => IInv'
<1> SUFFICES ASSUME IInv, [Next]_vars,
                    [\A p \in alive : pc[p] \in Exclusive => ~Crash(p)]_vars
             PROVE IInv'
  OBVIOUS
<1>1. CASE UNCHANGED vars
  BY <1>1 DEF vars, local, IInv, Shapes, HolderRuns, OneRecoverer,
     OwnerKeepsTheLock, RemovesOnlyTheDead, Mine, DefinitelyDead
<1> QED BY <1>1, AcquiringKeeps, RecoveringKeeps, CrashKeeps DEF Next

-----------------------------------------------------------------------------
(* The theorems.                                                            *)

\* The process that writes the graph is the one .lock names, for as long as it
\* runs, if nobody dies holding .lock.recovery.
THEOREM WriterOwnsTheLock == Spec /\ NobodyDiesRecovering => []OwnerKeepsTheLock
<1>1. IInv => OwnerKeepsTheLock
  BY DEF IInv
<1> QED BY <1>1, InitIInv, NextIInv, PTL DEF Spec, NobodyDiesRecovering

\* What a recoverer removes is the dead owner's file it observed, if nobody
\* dies holding .lock.recovery.
THEOREM OnlyTheDeadAreRemoved == Spec /\ NobodyDiesRecovering => []RemovesOnlyTheDead
<1>1. IInv => RemovesOnlyTheDead
  BY DEF IInv
<1> QED BY <1>1, InitIInv, NextIInv, PTL DEF Spec, NobodyDiesRecovering
=============================================================================
