------------------------ MODULE ExecutionStateProofs -------------------------
(***************************************************************************)
(* Theorems about ExecutionState, for every set of processes, sessions,    *)
(* bases and graph revisions and every bound on the generation.            *)
(*                                                                         *)
(* The invariants are not inductive alone: that a new attempt is a new one *)
(* needs MintedBefore, which says that every identifier in the file or in  *)
(* the history is a generation already passed.                             *)
(***************************************************************************)
EXTENDS ExecutionState, TLAPS

MintedBefore ==
  /\ \A r \in begun : r.attempt <= generation
  /\ \A a \in settled : a <= generation
  /\ Held => lease.leaseId <= generation /\ lease.pending <= generation

IInv == TypeOK /\ MintedBefore /\ NoAttemptForgotten /\ PendingKeepsItsBasis

-----------------------------------------------------------------------------
(* Facts about the operators the actions are built from.                   *)

\* Without an unsettled action no attempt is open.
LEMMA CleanHasNoOpenAttempt ==
  ASSUME TypeOK, Held, ~lease.dirty
  PROVE  OpenAttempts = {} /\ lease.pending = NoAttempt /\ ~lease.legacy
BY DEF TypeOK, OpenAttempts, Held

\* A lease that a takeover inherits an open attempt from keeps its basis.
LEMMA TakeoverKeepsOpenBasis ==
  ASSUME TypeOK, Held, NEW p, NEW basis, TakeoverAllowed(p, basis), OpenAttempts # {}
  PROVE  basis = lease.basis
BY DEF TypeOK, OpenAttempts, Held, TakeoverAllowed

\* A transition that leaves the set of open attempts, their basis and the
\* history alone keeps the two properties of the history.
LEMMA HistoryKept ==
  ASSUME NoAttemptForgotten, PendingKeepsItsBasis,
         OpenAttempts' = OpenAttempts,
         OpenAttempts # {} => lease'.basis = lease.basis,
         UNCHANGED <<begun, settled>>
  PROVE  NoAttemptForgotten' /\ PendingKeepsItsBasis'
BY DEF NoAttemptForgotten, PendingKeepsItsBasis

\* The attempts of a history with one record more.
LEMMA AttemptsOfUnion ==
  ASSUME NEW S, NEW a, NEW b
  PROVE  {r.attempt : r \in S \cup {[attempt |-> a, basis |-> b]}}
           = {r.attempt : r \in S} \cup {a}
<1> DEFINE x == [attempt |-> a, basis |-> b]
<1>1. x.attempt = a
  OBVIOUS
<1> HIDE DEF x
<1>2. {r.attempt : r \in S \cup {x}} = {r.attempt : r \in S} \cup {a}
  BY <1>1
<1> QED BY <1>2 DEF x

\* What is left of a typed lease after everything is settled is typed and clean.
LEMMA CleanLeaseType ==
  ASSUME TypeOK, Held, NEW graph \in GraphRevision, NEW release \in BOOLEAN
  PROVE  LET next == CleanLease(graph, release) IN
         /\ next \in Lease \cup {NoLease}
         /\ next # NoLease => /\ ~next.dirty /\ next.pending = NoAttempt /\ ~next.legacy
                              /\ next.leaseId = lease.leaseId
                              /\ next.pid = lease.pid /\ ~next.releaseWhenClean
                              /\ ~lease.releaseWhenClean /\ next.basis.graph = graph
<1> DEFINE next == CleanLease(graph, release)
           nextBasis == [lease.basis EXCEPT !.graph = graph]
<1>1. CASE release \/ lease.releaseWhenClean
  BY <1>1 DEF CleanLease
<1>2. CASE ~(release \/ lease.releaseWhenClean)
  <2>1. lease \in Lease /\ lease.basis \in Basis
    BY DEF TypeOK, Held, Lease
  <2>2. nextBasis \in Basis
    BY <2>1 DEF Basis
  <2>3. next = [lease EXCEPT !.basis = nextBasis, !.dirty = FALSE,
                             !.pending = NoAttempt, !.legacy = FALSE]
    BY <1>2 DEF CleanLease
  <2>4. next \in Lease
    BY <2>1, <2>2, <2>3 DEF Lease, NoAttempt
  <2>5. next.basis = nextBasis /\ nextBasis.graph = graph
    BY <2>1, <2>3 DEF Lease, Basis
  <2> QED
    BY <1>2, <2>1, <2>3, <2>4, <2>5 DEF Lease
<1> QED BY <1>1, <1>2
-----------------------------------------------------------------------------
\* Both initial files, absent and from v1, satisfy the inductive invariant.
LEMMA InitIInv == Init => IInv
<1> SUFFICES ASSUME Init PROVE IInv
  OBVIOUS
<1>0. aged = FALSE /\ alive \in [Process -> BOOLEAN] /\ begun = {} /\ settled = {}
  BY DEF Init
<1>1. CASE generation = 0 /\ lease = NoLease
  <2>1. OpenAttempts = {} /\ ~Held
    BY <1>1 DEF OpenAttempts, Held
  <2>2. TypeOK
    <3>1. generation \in 0..MaxGeneration
      BY <1>1, BoundAssumption
    <3>2. lease \in Lease \cup {NoLease}
      BY <1>1
    <3> QED BY <1>0, <2>1, <3>1, <3>2 DEF TypeOK
  <2>3. MintedBefore
    BY <1>0, <2>1 DEF MintedBefore
  <2>4. NoAttemptForgotten /\ PendingKeepsItsBasis
    BY <1>0, <2>1 DEF NoAttemptForgotten, PendingKeepsItsBasis
  <2> QED BY <2>2, <2>3, <2>4 DEF IInv
<1>2. CASE /\ MaxGeneration >= 2
           /\ generation = 2
           /\ lease \in {V1Lease(s, p, b, d) : s \in Session, p \in Process,
                                               b \in Basis, d \in BOOLEAN}
  <2>1. PICK s \in Session, p \in Process, b \in Basis, d \in BOOLEAN :
          lease = V1Lease(s, p, b, d)
    BY <1>2
  <2>2. lease \in Lease /\ lease.pending = NoAttempt /\ lease.dirty = lease.legacy /\ lease.leaseId = 1
    BY <1>2, <2>1, BoundAssumption DEF V1Lease, Lease, Generation, NoAttempt
  <2>3. generation \in 0..MaxGeneration
    BY <1>2, BoundAssumption
  <2>4. OpenAttempts = {}
    BY <2>2 DEF OpenAttempts
  <2>5. TypeOK
    BY <1>0, <2>2, <2>3 DEF TypeOK
  <2>6. MintedBefore
    BY <1>0, <1>2, <2>2 DEF MintedBefore, NoAttempt
  <2>7. NoAttemptForgotten /\ PendingKeepsItsBasis
    BY <1>0, <2>4 DEF NoAttemptForgotten, PendingKeepsItsBasis
  <2> QED BY <2>5, <2>6, <2>7 DEF IInv
<1> QED BY <1>1, <1>2 DEF Init

\* Every operation, crash, restart and lapse of the grace period keeps it; one
\* step per action.
LEMMA NextIInv == IInv /\ [Next]_vars => IInv'
<1> SUFFICES ASSUME IInv, [Next]_vars PROVE IInv'
  OBVIOUS
<1> USE BoundAssumption
<1>types. TypeOK /\ MintedBefore /\ NoAttemptForgotten /\ PendingKeepsItsBasis
  BY DEF IInv
<1>gen. ASSUME generation < MaxGeneration
        PROVE  /\ generation \in Nat
               /\ generation + 1 \in Generation
               /\ generation + 1 \in 0..MaxGeneration
  BY <1>gen, <1>types DEF TypeOK, Generation
<1>1. ASSUME NEW p \in Process, NEW s \in Session, NEW basis \in Basis,
             NEW expected \in 0..MaxGeneration, NEW any \in BOOLEAN,
             Checkout(p, s, basis, expected, any)
      PROVE  IInv'
  <2>1. /\ generation < MaxGeneration /\ generation' = generation + 1
        /\ lease' = CheckedOut(p, s, basis) /\ aged' = FALSE
        /\ UNCHANGED <<alive, begun, settled>>
        /\ Held => TakeoverAllowed(p, basis)
    BY <1>1 DEF Checkout, Commit
  <2>2. generation \in Nat /\ generation' \in Generation /\ generation' \in 0..MaxGeneration
    BY <1>gen, <2>1
  <2>3. CASE ~Held
    <3>1. lease' = [leaseId |-> generation + 1, owner |-> s, basis |-> basis, dirty |-> FALSE,
                    releaseWhenClean |-> FALSE, pending |-> NoAttempt, legacy |-> FALSE, pid |-> p]
      BY <2>1, <2>3 DEF CheckedOut
    <3>2. lease' \in Lease
      BY <2>1, <2>2, <3>1 DEF Lease, NoAttempt
    <3>3. TypeOK'
      <4>1. ~lease'.dirty /\ lease'.pending = NoAttempt /\ ~lease'.legacy
        BY <3>1
      <4> QED BY <1>types, <2>1, <2>2, <3>2, <4>1 DEF TypeOK
    <3>4. MintedBefore'
      BY <1>types, <2>1, <2>2, <3>1 DEF MintedBefore, TypeOK, Generation, NoAttempt
    <3>5. OpenAttempts = {} /\ OpenAttempts' = {}
      BY <2>3, <3>1 DEF OpenAttempts, Held
    <3>6. NoAttemptForgotten' /\ PendingKeepsItsBasis'
      BY <1>types, <2>1, <3>5, HistoryKept
    <3> QED BY <3>3, <3>4, <3>6 DEF IInv
  <2>4. CASE Held
    <3>0. lease \in Lease
      BY <1>types, <2>4 DEF TypeOK, Held
    <3>1. lease' = [leaseId |-> generation + 1, owner |-> s, basis |-> basis,
                    dirty |-> lease.dirty, releaseWhenClean |-> lease.releaseWhenClean,
                    pending |-> lease.pending, legacy |-> lease.legacy, pid |-> p]
      BY <2>1, <2>4, <3>0 DEF CheckedOut, Lease
    <3>2. lease' \in Lease
      BY <2>1, <2>2, <3>0, <3>1 DEF Lease
    <3>3. TypeOK'
      <4>1. /\ lease'.dirty = lease.dirty /\ lease'.pending = lease.pending
            /\ lease'.legacy = lease.legacy
        BY <3>1
      <4> QED BY <1>types, <2>1, <2>2, <2>4, <3>2, <4>1 DEF TypeOK
    <3>4. MintedBefore'
      BY <1>types, <2>1, <2>2, <2>4, <3>0, <3>1
         DEF MintedBefore, TypeOK, Generation, NoAttempt, Lease
    <3>5. OpenAttempts' = OpenAttempts
      BY <2>4, <3>1, <3>2, NoLeaseAssumption DEF OpenAttempts, Held
    <3>6. OpenAttempts # {} => lease'.basis = lease.basis
      BY <1>types, <2>1, <2>4, <3>1, TakeoverKeepsOpenBasis
    <3>7. NoAttemptForgotten' /\ PendingKeepsItsBasis'
      BY <1>types, <2>1, <3>5, <3>6, HistoryKept
    <3> QED BY <3>3, <3>4, <3>7 DEF IInv
  <2> QED BY <2>3, <2>4
<1>2. ASSUME NEW p \in Process, NEW c \in LeaseClaim, BeginExecution(p, c)
      PROVE  IInv'
  <2> DEFINE attempt == generation + 1
  <2>1. /\ Held /\ ~lease.dirty
        /\ generation < MaxGeneration /\ generation' = attempt
        /\ lease' = [lease EXCEPT !.dirty = TRUE, !.pending = attempt]
        /\ aged' = FALSE /\ UNCHANGED <<alive, settled>>
        /\ begun' = begun \cup {[attempt |-> attempt, basis |-> lease.basis]}
    BY <1>2 DEF BeginExecution, Commit, AssertClaim
  <2>2. generation \in Nat /\ attempt \in Generation /\ attempt \in 0..MaxGeneration
    BY <1>gen, <2>1
  <2>3. lease \in Lease /\ lease.basis \in Basis
    BY <1>types, <2>1 DEF TypeOK, Held, Lease
  <2>4. OpenAttempts = {} /\ ~lease.legacy
    BY <1>types, <2>1, CleanHasNoOpenAttempt
  <2>5. /\ lease' \in Lease /\ lease'.dirty /\ lease'.pending = attempt /\ ~lease'.legacy
        /\ lease'.basis = lease.basis /\ lease'.leaseId = lease.leaseId
    BY <2>1, <2>2, <2>3, <2>4 DEF Lease
  <2>6. TypeOK'
    <3>1. begun' \subseteq [attempt: Generation, basis: Basis]
      BY <1>types, <2>1, <2>2, <2>3 DEF TypeOK
    <3>2. lease'.pending # NoAttempt
      BY <2>2, <2>5 DEF NoAttempt, Generation
    <3> QED BY <1>types, <2>1, <2>2, <2>5, <3>1, <3>2 DEF TypeOK
  <2>7. MintedBefore'
    BY <1>types, <2>1, <2>2, <2>3, <2>5 DEF MintedBefore, TypeOK, Generation, Lease
  <2>8. OpenAttempts' = {attempt}
    BY <2>2, <2>5, NoLeaseAssumption DEF OpenAttempts, Held, NoAttempt, Generation
  <2>9. attempt \notin settled
    BY <1>types, <2>2 DEF MintedBefore
  <2>10. {r.attempt : r \in begun'} = {r.attempt : r \in begun} \cup {attempt}
    BY <2>1, AttemptsOfUnion
  <2>11. NoAttemptForgotten'
    BY <1>types, <2>1, <2>4, <2>8, <2>9, <2>10 DEF NoAttemptForgotten
  <2>12. PendingKeepsItsBasis'
    BY <2>1, <2>5, <2>8 DEF PendingKeepsItsBasis
  <2> QED BY <2>6, <2>7, <2>11, <2>12 DEF IInv
<1>3. ASSUME NEW p \in Process, NEW c \in LeaseClaim, RequestReleaseWhenClean(p, c)
      PROVE  IInv'
  <2>1. /\ Held /\ generation < MaxGeneration /\ generation' = generation + 1
        /\ lease' = [lease EXCEPT !.releaseWhenClean = TRUE]
        /\ aged' = FALSE /\ UNCHANGED <<alive, begun, settled>>
    BY <1>3 DEF RequestReleaseWhenClean, Commit, AssertClaim
  <2>2. generation \in Nat /\ generation' \in Generation /\ generation' \in 0..MaxGeneration
    BY <1>gen, <2>1
  <2>3. lease \in Lease
    BY <1>types, <2>1 DEF TypeOK, Held
  <2>4. /\ lease' \in Lease /\ lease'.dirty = lease.dirty /\ lease'.pending = lease.pending
        /\ lease'.legacy = lease.legacy /\ lease'.basis = lease.basis /\ lease'.leaseId = lease.leaseId
    BY <2>1, <2>3 DEF Lease
  <2>5. TypeOK'
    BY <1>types, <2>1, <2>2, <2>4 DEF TypeOK, Held
  <2>6. MintedBefore'
    BY <1>types, <2>1, <2>2, <2>3, <2>4 DEF MintedBefore, TypeOK, Generation, Lease, NoAttempt
  <2>7. OpenAttempts' = OpenAttempts
    BY <2>1, <2>4, NoLeaseAssumption DEF OpenAttempts, Held
  <2>8. NoAttemptForgotten' /\ PendingKeepsItsBasis'
    BY <1>types, <2>1, <2>4, <2>7, HistoryKept
  <2> QED BY <2>5, <2>6, <2>8 DEF IInv
<1>4. ASSUME NEW p \in Process, NEW c \in LeaseClaim, NEW attempt \in Generation,
             NEW graph \in GraphRevision, NEW release \in BOOLEAN,
             SettleExecution(p, c, attempt, graph, release)
      PROVE  IInv'
  <2>1. /\ Held /\ lease.pending = attempt
        /\ generation < MaxGeneration /\ generation' = generation + 1
        /\ lease' = CleanLease(graph, release)
        /\ aged' = FALSE /\ UNCHANGED <<alive, begun>>
        /\ settled' = settled \cup {attempt}
    BY <1>4 DEF SettleExecution, Commit, AssertClaim
  <2>2. generation \in Nat /\ generation' \in Generation /\ generation' \in 0..MaxGeneration
    BY <1>gen, <2>1
  <2>3. /\ lease' \in Lease \cup {NoLease}
        /\ lease' # NoLease => /\ ~lease'.dirty /\ lease'.pending = NoAttempt /\ ~lease'.legacy
                               /\ lease'.leaseId = lease.leaseId
    BY <1>types, <2>1, CleanLeaseType
  <2>4. TypeOK'
    BY <1>types, <2>1, <2>2, <2>3 DEF TypeOK, Held
  <2>5. lease \in Lease /\ lease.leaseId <= generation /\ attempt <= generation
    BY <1>types, <2>1 DEF TypeOK, Held, MintedBefore
  <2>6. MintedBefore'
    BY <1>types, <2>1, <2>2, <2>3, <2>5 DEF MintedBefore, TypeOK, Generation, Lease, Held, NoAttempt
  <2>7. OpenAttempts = {attempt} /\ OpenAttempts' = {}
    BY <2>1, <2>3 DEF OpenAttempts, Held, NoAttempt, Generation
  <2>8. NoAttemptForgotten'
    BY <1>types, <2>1, <2>7 DEF NoAttemptForgotten
  <2>9. PendingKeepsItsBasis'
    BY <2>7 DEF PendingKeepsItsBasis
  <2> QED BY <2>4, <2>6, <2>8, <2>9 DEF IInv
<1>5. ASSUME NEW p \in Process, NEW c \in LeaseClaim, NEW graph \in GraphRevision,
             NEW release \in BOOLEAN, Checkpoint(p, c, graph, release)
      PROVE  IInv'
  <2>1. /\ Held /\ ~lease.dirty
        /\ generation < MaxGeneration /\ generation' = generation + 1
        /\ lease' = CleanLease(graph, release)
        /\ aged' = FALSE /\ UNCHANGED <<alive, begun, settled>>
    BY <1>5 DEF Checkpoint, Commit, AssertClaim
  <2>2. generation \in Nat /\ generation' \in Generation /\ generation' \in 0..MaxGeneration
    BY <1>gen, <2>1
  <2>3. /\ lease' \in Lease \cup {NoLease}
        /\ lease' # NoLease => /\ ~lease'.dirty /\ lease'.pending = NoAttempt /\ ~lease'.legacy
                               /\ lease'.leaseId = lease.leaseId
    BY <1>types, <2>1, CleanLeaseType
  <2>4. TypeOK'
    BY <1>types, <2>1, <2>2, <2>3 DEF TypeOK, Held
  <2>5. lease \in Lease /\ lease.leaseId <= generation
    BY <1>types, <2>1 DEF TypeOK, Held, MintedBefore
  <2>6. MintedBefore'
    BY <1>types, <2>1, <2>2, <2>3, <2>5 DEF MintedBefore, TypeOK, Generation, Lease, Held, NoAttempt
  <2>7. OpenAttempts = {} /\ OpenAttempts' = {}
    BY <1>types, <2>1, <2>3, CleanHasNoOpenAttempt DEF OpenAttempts, Held
  <2>8. NoAttemptForgotten' /\ PendingKeepsItsBasis'
    BY <1>types, <2>1, <2>7, HistoryKept
  <2> QED BY <2>4, <2>6, <2>8 DEF IInv
<1>release. ASSUME NEW p \in Process, NEW c \in LeaseClaim, Release(p, c)
            PROVE  IInv'
  <2>1. /\ Held /\ ~lease.dirty
        /\ generation < MaxGeneration /\ generation' = generation + 1
        /\ lease' = NoLease
        /\ aged' = FALSE /\ UNCHANGED <<alive, begun, settled>>
    BY <1>release DEF Release, Commit, AssertClaim
  <2>2. generation \in Nat /\ generation' \in 0..MaxGeneration
    BY <1>gen, <2>1
  <2>3. TypeOK'
    BY <1>types, <2>1, <2>2 DEF TypeOK, Held
  <2>4. MintedBefore'
    BY <1>types, <2>1, <2>2 DEF MintedBefore, TypeOK, Generation, Held
  <2>5. OpenAttempts = {} /\ OpenAttempts' = {}
    BY <1>types, <2>1, CleanHasNoOpenAttempt DEF OpenAttempts, Held
  <2>6. NoAttemptForgotten' /\ PendingKeepsItsBasis'
    BY <1>types, <2>1, <2>5, HistoryKept
  <2> QED BY <2>3, <2>4, <2>6 DEF IInv
<1>6. ASSUME Age \/ (\E p \in Process : Crash(p) \/ Start(p)) \/ UNCHANGED vars
      PROVE  IInv'
  <2>1. UNCHANGED <<generation, lease, begun, settled>> /\ aged' \in BOOLEAN
    BY <1>6, <1>types DEF Age, Crash, Start, vars, TypeOK
  <2>2. alive' \in [Process -> BOOLEAN]
    BY <1>6, <1>types DEF Age, Crash, Start, vars, TypeOK
  <2>3. TypeOK' /\ MintedBefore'
    BY <1>types, <2>1, <2>2 DEF TypeOK, MintedBefore, Held
  <2>4. OpenAttempts' = OpenAttempts
    BY <2>1 DEF OpenAttempts, Held
  <2>5. NoAttemptForgotten' /\ PendingKeepsItsBasis'
    BY <1>types, <2>1, <2>4, HistoryKept
  <2> QED BY <2>3, <2>5 DEF IInv
<1>7. ASSUME NEW p \in Process, NEW c \in LeaseClaim, OwnerOperation(p, c)
      PROVE  IInv'
  <2>1. CASE BeginExecution(p, c) \/ RequestReleaseWhenClean(p, c)
    BY <2>1, <1>2, <1>3
  <2>2. CASE \E graph \in GraphRevision, release \in BOOLEAN :
               \E attempt \in Generation : SettleExecution(p, c, attempt, graph, release)
    BY <2>2, <1>4
  <2>3. CASE \E graph \in GraphRevision, release \in BOOLEAN : Checkpoint(p, c, graph, release)
    BY <2>3, <1>5
  <2>4. CASE Release(p, c)
    BY <2>4, <1>release
  <2> QED BY <1>7, <2>1, <2>2, <2>3, <2>4 DEF OwnerOperation
<1> QED
  BY <1>1, <1>6, <1>7 DEF Next

\* The state file, its claims and the history keep their types, and every
\* transition writes a snapshot that assertLease accepts.
THEOREM TypeCorrect == Spec => []TypeOK
<1>1. IInv => TypeOK
  BY DEF IInv
<1> QED BY <1>1, InitIInv, NextIInv, PTL DEF Spec

\* No attempt that was begun is ever forgotten without an exact receipt.
THEOREM AttemptsAccountedFor == Spec => []NoAttemptForgotten
<1>1. IInv => NoAttemptForgotten
  BY DEF IInv
<1> QED BY <1>1, InitIInv, NextIInv, PTL DEF Spec

\* The lease records an unsettled attempt under the basis it was begun on.
THEOREM PendingBasisKept == Spec => []PendingKeepsItsBasis
<1>1. IInv => PendingKeepsItsBasis
  BY DEF IInv
<1> QED BY <1>1, InitIInv, NextIInv, PTL DEF Spec
-----------------------------------------------------------------------------
(* What a step may do to a lease.                                          *)

\* The five ways a step treats the lease it finds.
LEMMA LeaseStep ==
  ASSUME [Next]_vars, Held
  PROVE  \/ lease' = lease
         \/ \E p \in Process, s \in Session, basis \in Basis :
              /\ generation < MaxGeneration
              /\ TakeoverAllowed(p, basis)
              /\ lease' = CheckedOut(p, s, basis)
         \/ ~lease.dirty /\ lease' = [lease EXCEPT !.dirty = TRUE, !.pending = generation + 1]
         \/ lease' = [lease EXCEPT !.releaseWhenClean = TRUE]
         \/ /\ ~lease.dirty \/ lease.pending \in Generation
            /\ \/ lease' = NoLease
               \/ \E graph \in GraphRevision, release \in BOOLEAN :
                    graph >= lease.basis.graph /\ lease' = CleanLease(graph, release)
<1> DEFINE Cleaned ==
      /\ ~lease.dirty \/ lease.pending \in Generation
      /\ \/ lease' = NoLease
         \/ \E graph \in GraphRevision, release \in BOOLEAN :
              graph >= lease.basis.graph /\ lease' = CleanLease(graph, release)
<1>1. ASSUME NEW p \in Process, NEW c \in LeaseClaim, OwnerOperation(p, c)
      PROVE  \/ ~lease.dirty /\ lease' = [lease EXCEPT !.dirty = TRUE, !.pending = generation + 1]
             \/ lease' = [lease EXCEPT !.releaseWhenClean = TRUE]
             \/ Cleaned
  <2>1. CASE BeginExecution(p, c)
    BY <2>1 DEF BeginExecution, Commit
  <2>2. CASE RequestReleaseWhenClean(p, c)
    BY <2>2 DEF RequestReleaseWhenClean, Commit
  <2>3. ASSUME NEW graph \in GraphRevision, NEW release \in BOOLEAN, NEW attempt \in Generation,
               SettleExecution(p, c, attempt, graph, release)
        PROVE  Cleaned
    BY <2>3 DEF SettleExecution, Commit
  <2>4. ASSUME NEW graph \in GraphRevision, NEW release \in BOOLEAN,
               Checkpoint(p, c, graph, release)
        PROVE  Cleaned
    BY <2>4 DEF Checkpoint, Commit
  <2>5. CASE Release(p, c)
    BY <2>5 DEF Release, Commit
  <2> QED BY <1>1, <2>1, <2>2, <2>3, <2>4, <2>5 DEF OwnerOperation
<1>2. ASSUME NEW p \in Process, NEW s \in Session, NEW basis \in Basis,
             NEW expected \in 0..MaxGeneration, NEW any \in BOOLEAN,
             Checkout(p, s, basis, expected, any)
      PROVE  /\ generation < MaxGeneration
             /\ TakeoverAllowed(p, basis)
             /\ lease' = CheckedOut(p, s, basis)
  BY <1>2 DEF Checkout, Commit
<1>3. CASE Age \/ (\E p \in Process : Crash(p) \/ Start(p)) \/ UNCHANGED vars
  BY <1>3 DEF Age, Crash, Start, vars
<1> QED BY <1>1, <1>2, <1>3 DEF Next

\* A takeover commits a lease.
LEMMA CheckedOutType ==
  ASSUME TypeOK, Held, generation < MaxGeneration,
         NEW p \in Process, NEW s \in Session, NEW basis \in Basis
  PROVE  CheckedOut(p, s, basis) \in Lease
<1>1. lease \in Lease /\ generation + 1 \in Generation
  BY BoundAssumption DEF TypeOK, Held, Generation
<1>2. CheckedOut(p, s, basis) =
        [leaseId |-> generation + 1, owner |-> s, basis |-> basis,
         dirty |-> lease.dirty, releaseWhenClean |-> lease.releaseWhenClean,
         pending |-> lease.pending, legacy |-> lease.legacy, pid |-> p]
  BY <1>1 DEF CheckedOut, Lease
<1> QED BY <1>1, <1>2 DEF Lease

\* Ownership passes to another process only from a dead one on its host.
THEOREM OwnershipMoves == Spec => OwnershipMovesOnlyFromTheDead
<1>1. ASSUME TypeOK, [Next]_vars, Held, lease' # NoLease, lease'.pid # lease.pid
      PROVE  ~alive[lease.pid] /\ HostOf[lease'.pid] = HostOf[lease.pid]
  <2>1. lease \in Lease
    BY <1>1 DEF TypeOK, Held
  <2>2. ASSUME NEW p \in Process, NEW s \in Session, NEW basis \in Basis,
               TakeoverAllowed(p, basis), lease' = CheckedOut(p, s, basis)
        PROVE  ~alive[lease.pid] /\ HostOf[lease'.pid] = HostOf[lease.pid]
    BY <2>2 DEF TakeoverAllowed, OwnerLiveness, CheckedOut
  <2>3. CASE lease' = [lease EXCEPT !.dirty = TRUE, !.pending = generation + 1]
    BY <1>1, <2>1, <2>3 DEF Lease
  <2>4. CASE lease' = [lease EXCEPT !.releaseWhenClean = TRUE]
    BY <1>1, <2>1, <2>4 DEF Lease
  <2>5. ASSUME NEW graph \in GraphRevision, NEW release \in BOOLEAN,
               lease' = CleanLease(graph, release)
        PROVE  FALSE
    BY <1>1, <2>5, CleanLeaseType
  <2> QED BY <1>1, <2>2, <2>3, <2>4, <2>5, LeaseStep
<1>2. TypeOK /\ [Next]_vars =>
        [(Held /\ lease' # NoLease /\ lease'.pid # lease.pid) =>
           ~alive[lease.pid] /\ HostOf[lease'.pid] = HostOf[lease.pid]]_vars
  BY <1>1
<1> QED BY <1>2, TypeCorrect, PTL DEF Spec, OwnershipMovesOnlyFromTheDead

\* A durable release request and its basis survive until the lease is gone.
THEOREM ReleaseRequestsHold == Spec => ReleaseRequestHolds
<1>1. ASSUME TypeOK, [Next]_vars, Held, lease.releaseWhenClean, lease' # NoLease
      PROVE  lease'.releaseWhenClean /\ lease'.basis = lease.basis
  <2>1. lease \in Lease
    BY <1>1 DEF TypeOK, Held
  <2>2. ASSUME NEW p \in Process, NEW s \in Session, NEW basis \in Basis,
               TakeoverAllowed(p, basis), lease' = CheckedOut(p, s, basis)
        PROVE  lease'.releaseWhenClean /\ lease'.basis = lease.basis
    BY <1>1, <2>2 DEF TakeoverAllowed, CheckedOut
  <2>3. CASE lease' = [lease EXCEPT !.dirty = TRUE, !.pending = generation + 1]
    BY <1>1, <2>1, <2>3 DEF Lease
  <2>4. CASE lease' = [lease EXCEPT !.releaseWhenClean = TRUE]
    BY <1>1, <2>1, <2>4 DEF Lease
  <2>5. ASSUME NEW graph \in GraphRevision, NEW release \in BOOLEAN,
               lease' = CleanLease(graph, release)
        PROVE  FALSE
    BY <1>1, <2>5, CleanLeaseType
  <2> QED BY <1>1, <2>2, <2>3, <2>4, <2>5, LeaseStep
<1>2. TypeOK /\ [Next]_vars =>
        [(Held /\ lease.releaseWhenClean /\ lease' # NoLease) =>
           lease'.releaseWhenClean /\ lease'.basis = lease.basis]_vars
  BY <1>1
<1> QED BY <1>2, TypeCorrect, PTL DEF Spec, ReleaseRequestHolds

\* A dirty v1 action stays blocked on its basis for ever.
THEOREM LegacyStaysBlocked == Spec => LegacyActionStaysBlocked
<1>1. ASSUME TypeOK, [Next]_vars, Held, lease.legacy
      PROVE  lease' # NoLease /\ lease'.legacy /\ lease'.dirty /\ lease'.basis = lease.basis
  <2>1. lease \in Lease /\ lease.dirty /\ lease.pending \notin Generation
    BY <1>1 DEF TypeOK, Held, Generation, NoAttempt
  <2>2. ASSUME NEW p \in Process, NEW s \in Session, NEW basis \in Basis,
               generation < MaxGeneration, TakeoverAllowed(p, basis),
               lease' = CheckedOut(p, s, basis)
        PROVE  lease' # NoLease /\ lease'.legacy /\ lease'.dirty /\ lease'.basis = lease.basis
    <3>1. lease'.legacy /\ lease'.dirty /\ lease'.basis = lease.basis
      BY <1>1, <2>1, <2>2 DEF TakeoverAllowed, CheckedOut
    <3>2. lease' # NoLease
      BY <1>1, <2>2, CheckedOutType, NoLeaseAssumption
    <3> QED BY <3>1, <3>2
  <2>3. CASE lease' = [lease EXCEPT !.releaseWhenClean = TRUE]
    <3>1. lease' \in Lease
      BY <2>1, <2>3 DEF Lease
    <3> QED BY <1>1, <2>1, <2>3, <3>1, NoLeaseAssumption DEF Lease
  <2>4. CASE lease' = lease
    BY <1>1, <2>1, <2>4, NoLeaseAssumption
  <2> QED BY <1>1, <2>1, <2>2, <2>3, <2>4, LeaseStep
<1>2. TypeOK /\ [Next]_vars =>
        [(Held /\ lease.legacy) =>
           lease' # NoLease /\ lease'.legacy /\ lease'.dirty /\ lease'.basis = lease.basis]_vars
  BY <1>1
<1> QED BY <1>2, TypeCorrect, PTL DEF Spec, LegacyActionStaysBlocked

\* Under one lease id the graph revision never goes back.
THEOREM GraphMovesForward == Spec => GraphNeverMovesBack
<1>1. ASSUME IInv, [Next]_vars, Held, lease' # NoLease, lease'.leaseId = lease.leaseId
      PROVE  lease'.basis.graph >= lease.basis.graph
  <2>1. /\ TypeOK /\ generation \in Nat /\ lease.leaseId <= generation
        /\ lease \in Lease /\ lease.leaseId \in Nat
    BY <1>1, BoundAssumption DEF IInv, TypeOK, MintedBefore, Held, Lease, Generation
  <2>2. lease.basis.graph >= lease.basis.graph
    <3>1. lease.basis \in Basis
      BY <2>1 DEF Lease
    <3>2. lease.basis.graph \in Nat
      BY <3>1, GraphAssumption DEF Basis
    <3> QED BY <3>2
  <2>3. ASSUME NEW p \in Process, NEW s \in Session, NEW basis \in Basis,
               lease' = CheckedOut(p, s, basis)
        PROVE  FALSE
    BY <1>1, <2>1, <2>3 DEF CheckedOut
  <2>4. CASE lease' = [lease EXCEPT !.dirty = TRUE, !.pending = generation + 1]
    BY <2>1, <2>2, <2>4 DEF Lease
  <2>5. CASE lease' = [lease EXCEPT !.releaseWhenClean = TRUE]
    BY <2>1, <2>2, <2>5 DEF Lease
  <2>6. ASSUME NEW graph \in GraphRevision, NEW release \in BOOLEAN,
               graph >= lease.basis.graph, lease' = CleanLease(graph, release)
        PROVE  lease'.basis.graph >= lease.basis.graph
    BY <1>1, <2>1, <2>6, CleanLeaseType
  <2> QED BY <1>1, <2>2, <2>3, <2>4, <2>5, <2>6, LeaseStep
<1>2. IInv /\ [Next]_vars =>
        [(Held /\ lease' # NoLease /\ lease'.leaseId = lease.leaseId) =>
           lease'.basis.graph >= lease.basis.graph]_vars
  BY <1>1
<1> QED BY <1>2, InitIInv, NextIInv, PTL DEF Spec, GraphNeverMovesBack
-----------------------------------------------------------------------------
(* The attempts implement AttemptLedger.                                   *)

\* Begun, inherited or settled: what a step does to the open attempt.
LEMMA LedgerStep ==
  ASSUME IInv, [Next]_vars
  PROVE  [Ledger!Next]_Ledger!vars
<1> USE BoundAssumption
<1>types. TypeOK /\ MintedBefore /\ TypeOK'
  BY NextIInv DEF IInv
<1>1. ASSUME NEW p \in Process, NEW s \in Session, NEW basis \in Basis,
             NEW expected \in 0..MaxGeneration, NEW any \in BOOLEAN,
             Checkout(p, s, basis, expected, any)
      PROVE  UNCHANGED <<OpenAttempts, settled>>
  <2>1. lease' = CheckedOut(p, s, basis) /\ generation < MaxGeneration /\ settled' = settled
    BY <1>1 DEF Checkout, Commit
  <2>2. lease'.pending = IF Held THEN lease.pending ELSE NoAttempt
    BY <2>1 DEF CheckedOut
  <2>3. lease' \in Lease
    <3>1. CASE Held
      BY <1>types, <2>1, <3>1, CheckedOutType
    <3>2. CASE ~Held
      <4>1. generation + 1 \in Generation
        BY <1>types, <2>1 DEF TypeOK, Generation
      <4> QED BY <2>1, <3>2, <4>1 DEF CheckedOut, Lease, NoAttempt
    <3> QED BY <3>1, <3>2
  <2> QED BY <2>1, <2>2, <2>3, NoLeaseAssumption DEF OpenAttempts, Held
<1>2. ASSUME NEW p \in Process, NEW c \in LeaseClaim, BeginExecution(p, c)
      PROVE  \E a \in Generation : Ledger!Begin(a)
  <2>1. /\ Held /\ ~lease.dirty /\ generation < MaxGeneration
        /\ lease' = [lease EXCEPT !.dirty = TRUE, !.pending = generation + 1]
        /\ settled' = settled
    BY <1>2 DEF BeginExecution, Commit, AssertClaim
  <2>2. generation \in Nat /\ generation + 1 \in Generation /\ generation + 1 \notin settled
    BY <1>types, <2>1 DEF TypeOK, Generation, MintedBefore
  <2>3. lease \in Lease
    BY <1>types, <2>1 DEF TypeOK, Held
  <2>4. lease' \in Lease /\ lease'.pending = generation + 1
    BY <2>1, <2>2, <2>3 DEF Lease
  <2>5. OpenAttempts' = {generation + 1}
    BY <2>2, <2>4, NoLeaseAssumption DEF OpenAttempts, Held, NoAttempt
  <2>6. OpenAttempts = {}
    BY <1>types, <2>1, CleanHasNoOpenAttempt
  <2>7. Ledger!Begin(generation + 1)
    BY <2>1, <2>2, <2>5, <2>6 DEF Ledger!Begin
  <2> QED BY <2>2, <2>7
<1>3. ASSUME NEW p \in Process, NEW c \in LeaseClaim, RequestReleaseWhenClean(p, c)
      PROVE  UNCHANGED <<OpenAttempts, settled>>
  <2>1. Held /\ lease' = [lease EXCEPT !.releaseWhenClean = TRUE] /\ settled' = settled
    BY <1>3 DEF RequestReleaseWhenClean, Commit, AssertClaim
  <2>2. lease \in Lease
    BY <1>types, <2>1 DEF TypeOK, Held
  <2>3. lease' \in Lease /\ lease'.pending = lease.pending
    BY <2>1, <2>2 DEF Lease
  <2> QED BY <2>1, <2>3, NoLeaseAssumption DEF OpenAttempts, Held
<1>4. ASSUME NEW p \in Process, NEW c \in LeaseClaim, NEW attempt \in Generation,
             NEW graph \in GraphRevision, NEW release \in BOOLEAN,
             SettleExecution(p, c, attempt, graph, release)
      PROVE  Ledger!Settle(attempt)
  <2>1. /\ Held /\ lease.pending = attempt /\ lease' = CleanLease(graph, release)
        /\ settled' = settled \cup {attempt}
    BY <1>4 DEF SettleExecution, Commit, AssertClaim
  <2>2. lease' # NoLease => lease'.pending = NoAttempt
    BY <1>types, <2>1, CleanLeaseType
  <2>3. OpenAttempts = {attempt} /\ OpenAttempts' = {}
    BY <2>1, <2>2 DEF OpenAttempts, Held, NoAttempt, Generation
  <2> QED BY <2>1, <2>3 DEF Ledger!Settle
<1>5. ASSUME NEW p \in Process, NEW c \in LeaseClaim, NEW graph \in GraphRevision,
             NEW release \in BOOLEAN, Checkpoint(p, c, graph, release)
      PROVE  UNCHANGED <<OpenAttempts, settled>>
  <2>1. Held /\ ~lease.dirty /\ lease' = CleanLease(graph, release) /\ settled' = settled
    BY <1>5 DEF Checkpoint, Commit, AssertClaim
  <2>2. lease' # NoLease => lease'.pending = NoAttempt
    BY <1>types, <2>1, CleanLeaseType
  <2> QED BY <1>types, <2>1, <2>2, CleanHasNoOpenAttempt DEF OpenAttempts, Held
<1>6. ASSUME NEW p \in Process, NEW c \in LeaseClaim, Release(p, c)
      PROVE  UNCHANGED <<OpenAttempts, settled>>
  <2>1. Held /\ ~lease.dirty /\ lease' = NoLease /\ settled' = settled
    BY <1>6 DEF Release, Commit, AssertClaim
  <2> QED BY <1>types, <2>1, CleanHasNoOpenAttempt DEF OpenAttempts, Held
<1>7. CASE Age \/ (\E p \in Process : Crash(p) \/ Start(p)) \/ UNCHANGED vars
  <2>1. UNCHANGED <<lease, settled>>
    BY <1>7 DEF Age, Crash, Start, vars
  <2> QED BY <2>1 DEF OpenAttempts, Held, Ledger!vars
<1>8. ASSUME NEW p \in Process, NEW c \in LeaseClaim, OwnerOperation(p, c)
      PROVE  [Ledger!Next]_Ledger!vars
  <2>1. ASSUME NEW graph \in GraphRevision, NEW release \in BOOLEAN, NEW attempt \in Generation,
               SettleExecution(p, c, attempt, graph, release)
        PROVE  Ledger!Next
    BY <2>1, <1>4 DEF Ledger!Next
  <2>2. ASSUME NEW graph \in GraphRevision, NEW release \in BOOLEAN,
               Checkpoint(p, c, graph, release)
        PROVE  UNCHANGED Ledger!vars
    BY <2>2, <1>5 DEF Ledger!vars
  <2>3. CASE BeginExecution(p, c)
    BY <2>3, <1>2 DEF Ledger!Next
  <2>4. CASE RequestReleaseWhenClean(p, c) \/ Release(p, c)
    BY <2>4, <1>3, <1>6 DEF Ledger!vars
  <2> QED BY <1>8, <2>1, <2>2, <2>3, <2>4 DEF OwnerOperation
<1> QED BY <1>1, <1>7, <1>8 DEF Next, Ledger!vars

\* Across sessions, processes, crashes and takeovers the attempts implement
\* the ledger: one open at a time, each settled exactly once.
THEOREM LedgerImplemented == Spec => LedgerIsImplemented
<1>1. Init => Ledger!Init
  <2> SUFFICES ASSUME Init PROVE Ledger!Init
    OBVIOUS
  <2>1. begun = {} /\ settled = {}
    BY DEF Init
  <2>2. NoAttemptForgotten
    BY InitIInv DEF IInv
  <2>3. {r.attempt : r \in begun} = {}
    BY <2>1
  <2>4. OpenAttempts = {}
    BY <2>1, <2>2, <2>3 DEF NoAttemptForgotten
  <2> QED BY <2>1, <2>4 DEF Ledger!Init
<1>2. IInv /\ [Next]_vars => [Ledger!Next]_Ledger!vars
  BY LedgerStep
<1> QED BY <1>1, <1>2, InitIInv, NextIInv, PTL DEF Spec, LedgerIsImplemented, Ledger!Spec
=============================================================================
