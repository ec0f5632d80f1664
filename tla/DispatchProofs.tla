---------------------------- MODULE DispatchProofs ----------------------------
(***************************************************************************)
(* Theorems about Dispatch, for every number of calls, objects and         *)
(* processes and every scenario of revocations, crashes and failures.      *)
(*                                                                         *)
(* Each property has an invariant of its own on top of Shape: an epoch     *)
(* belongs to one call (Epochs); an attempt belongs to one call and is     *)
(* recorded or named by the lease (Attempts); the graph stays where an     *)
(* authorized call found it, until its receipt (GraphInv); no snapshot or  *)
(* claim in memory is as new as a plan tool's reservation (FenceInv); an   *)
(* object, a result or a claim as recent as the file agrees with its lease *)
(* (LeaseInv); the bounds of the instance (Bounded); until its first death *)
(* the process owns the lease, and what its checkpoints commit is as       *)
(* recent as the file (FirstDeath); and no call enters a body twice under  *)
(* its attempt (Unentered), which makes Dispatch a GuardedExecution.       *)
(***************************************************************************)
EXTENDS DispatchShape
-----------------------------------------------------------------------------
(* Authority: an epoch belongs to one call, and to at most one body.       *)

\* A call that is not aborted has the current epoch, and no body of its epoch ran.
Epochs ==
  /\ \A c \in Call : Active(c) => call[c].epoch <= epoch /\ (~call[c].aborted => call[c].epoch = epoch)
  /\ \A c, d \in Call : Active(c) /\ Active(d) /\ call[c].epoch = call[d].epoch => c = d
  /\ \A b \in ran : b.life \in Int /\ b.epoch \in Int /\ b.life >= budget.crash /\ (b.life = budget.crash => b.epoch <= epoch)
  /\ \A c \in Call : call[c].pc \in PreBody =>
       \A b \in ran : ~(b.life = budget.crash /\ b.epoch = call[c].epoch)
  /\ AuthorityIsUsedOnce

\* A body is entered by the step Enter and by no other, under the epoch of
\* the call, and by a call that is not aborted.
LEMMA CallRuns ==
  ASSUME Shape, NEW c \in Call, CallStep(c)
  PROVE  /\ UNCHANGED epoch /\ budget'.crash = budget.crash /\ budget'.deaths = budget.deaths
         /\ \/ ran' = ran
            \/ /\ call[c].pc = "enter" /\ ~call[c].aborted /\ call' = [call EXCEPT ![c].pc = "body"]
               /\ ran' = ran \cup {[life |-> budget.crash, epoch |-> call[c].epoch, attempt |-> call[c].attempt]}
<1>1. UNCHANGED epoch
  BY CallStepShape
<1>2. CASE Enter(c)
  BY <1>1, <1>2 DEF Enter
<1>3. CASE PublishReceipt(c)
  BY <1>1, <1>3 DEF PublishReceipt, Shape, GraphShape, AnyBudget
<1>4. CASE \/ Execute(c) \/ BeginReturns(c) \/ MarkReturns(c) \/ Leave(c) \/ Record(c)
           \/ MakeReceipt(c) \/ WriteReceipt(c) \/ Settle(c) \/ SettleReturns(c) \/ Converge(c)
  BY <1>1, <1>4 DEF Execute, BeginReturns, MarkReturns, Leave, Record, MakeReceipt, WriteReceipt, Settle,
                    SettleReturns, Converge
<1> QED
  BY <1>2, <1>3, <1>4 DEF CallStep

LEMMA EpochsCall ==
  ASSUME Shape, Epochs, NEW c \in Call, CallStep(c)
  PROVE  Epochs'
<1>1. PICK r : Move(c, r)
  BY CallStepShape
<1>2. /\ \A d \in Call : d # c => call'[d] = call[d]
      /\ call'[c] = r /\ r \in AnyCall
  BY <1>1 DEF Move, Shape, CallShape
<1>3. /\ epoch' = epoch /\ budget'.crash = budget.crash /\ epoch \in Int /\ budget.crash \in Int
  BY CallRuns DEF Shape, MemoryShape, GraphShape, AnyBudget
<1>4. r.pc # "new" => /\ call[c].pc # "new" /\ r.epoch = call[c].epoch /\ r.aborted = call[c].aborted
                      /\ r.pc \in PreBody => call[c].pc \in PreBody
  BY <1>1, NewOK DEF Move, Kept
<1>5. \A x \in Call : call[x].epoch \in Int /\ call[x].aborted \in BOOLEAN
  BY DEF Shape, CallShape, AnyCall
<1>6. \A x \in Call : Active(x)' =>
        Active(x) /\ call'[x].epoch = call[x].epoch /\ call'[x].aborted = call[x].aborted
  BY <1>2, <1>4 DEF Active
<1>7. \A x \in Call : call'[x].pc \in PreBody => call[x].pc \in PreBody /\ call'[x].epoch = call[x].epoch
  BY <1>2, <1>4 DEF PreBody
<1>8. /\ \A x \in Call : Active(x)' => call'[x].epoch <= epoch' /\ (~call'[x].aborted => call'[x].epoch = epoch')
      /\ \A x, y \in Call : Active(x)' /\ Active(y)' /\ call'[x].epoch = call'[y].epoch => x = y
  BY <1>3, <1>6 DEF Epochs
<1>9. CASE ran' = ran
  <2>1. /\ \A b \in ran' : b.life \in Int /\ b.epoch \in Int /\ b.life >= budget'.crash /\ (b.life = budget'.crash => b.epoch <= epoch')
        /\ \A x \in Call : call'[x].pc \in PreBody =>
             \A b \in ran' : ~(b.life = budget'.crash /\ b.epoch = call'[x].epoch)
        /\ AuthorityIsUsedOnce'
    BY <1>3, <1>7, <1>9 DEF Epochs, AuthorityIsUsedOnce
  <2> QED
    BY <1>8, <2>1 DEF Epochs
<1>10. CASE ran' # ran
  <2> DEFINE n == [life |-> budget.crash, epoch |-> call[c].epoch, attempt |-> call[c].attempt]
  <2>1. /\ call[c].pc = "enter" /\ call' = [call EXCEPT ![c].pc = "body"] /\ ran' = ran \cup {n}
    BY <1>10, CallRuns
  <2>2. n.life = budget.crash /\ n.epoch = call[c].epoch
    OBVIOUS
  <2> HIDE DEF n
  <2>3. call[c].pc \in PreBody /\ Active(c) /\ call'[c].pc = "body"
    BY <2>1 DEF PreBody, Active, Shape, CallShape, AnyCall
  <2>4. \A b \in ran : ~(b.life = budget.crash /\ b.epoch = n.epoch)
    BY <2>2, <2>3 DEF Epochs
  <2>5. \A b \in ran' : b.life \in Int /\ b.epoch \in Int /\ b.life >= budget'.crash /\ (b.life = budget'.crash => b.epoch <= epoch')
    BY <1>3, <1>5, <2>1, <2>2, <2>3 DEF Epochs
  <2>6. AuthorityIsUsedOnce'
    BY <2>1, <2>2, <2>4 DEF Epochs, AuthorityIsUsedOnce
  <2>7. ASSUME NEW x \in Call, call'[x].pc \in PreBody, NEW b \in ran'
        PROVE  ~(b.life = budget'.crash /\ b.epoch = call'[x].epoch)
    <3>1. x # c
      BY <2>3, <2>7 DEF PreBody
    <3>2. Active(x)
      BY <1>7, <2>7 DEF PreBody, Active
    <3>3. n.epoch # call[x].epoch
      BY <2>2, <2>3, <3>1, <3>2 DEF Epochs
    <3> QED
      BY <1>3, <1>7, <2>1, <2>7, <3>3 DEF Epochs
  <2> QED
    BY <1>8, <2>5, <2>6, <2>7 DEF Epochs
<1> QED
  BY <1>9, <1>10

\* A new epoch: every running call is aborted, and one may start.
LEMMA EpochsAborted ==
  ASSUME Shape, Epochs, epoch' = epoch + 1, UNCHANGED ran, budget'.crash = budget.crash, NEW c,
         \A d \in Call : d # c => call'[d] = Aborted[d],
         c \in Call => call'[c] = NewCall \/ call'[c].epoch = epoch'
  PROVE  Epochs'
<1>1. epoch \in Int /\ (\A x \in Call : call[x].epoch \in Int)
  BY DEF Shape, MemoryShape, CallShape, AnyCall
<1>2. \A x \in Call : x # c => /\ call'[x].pc = call[x].pc /\ call'[x].epoch = call[x].epoch
                               /\ Active(x) => call'[x].aborted
  BY AbortedFacts DEF Shape
<1>3. \A x \in Call : Active(x)' => (x # c /\ Active(x)) \/ (x = c /\ call'[x].epoch = epoch + 1)
  BY <1>2, NewOK DEF Active
<1>4. \A x \in Call : x # c /\ Active(x) => call'[x].epoch = call[x].epoch /\ call[x].epoch <= epoch
  BY <1>2 DEF Epochs
<1>5. \A x \in Call : Active(x)' => call'[x].epoch <= epoch' /\ (~call'[x].aborted => call'[x].epoch = epoch')
  BY <1>1, <1>2, <1>3, <1>4
<1>6. \A x, y \in Call : Active(x)' /\ Active(y)' /\ call'[x].epoch = call'[y].epoch => x = y
  BY <1>1, <1>3, <1>4 DEF Epochs
<1>7. /\ \A b \in ran' : b.life \in Int /\ b.epoch \in Int /\ b.life >= budget'.crash /\ (b.life = budget'.crash => b.epoch <= epoch)
      /\ AuthorityIsUsedOnce'
  BY DEF Epochs, AuthorityIsUsedOnce
<1>8. ASSUME NEW x \in Call, call'[x].pc \in PreBody, NEW b \in ran'
      PROVE  ~(b.life = budget'.crash /\ b.epoch = call'[x].epoch)
  <2>1. CASE x = c
    <3>1. call'[x].epoch = epoch + 1
      BY <1>8, <2>1, NewOK DEF PreBody
    <3> QED
      BY <1>1, <1>7, <3>1
  <2>2. CASE x # c
    BY <1>2, <1>8, <2>2 DEF Epochs
  <2> QED
    BY <2>1, <2>2
<1>9. \A b \in ran' : b.life = budget'.crash => b.epoch <= epoch'
  BY <1>1, <1>7
<1> QED
  BY <1>5, <1>6, <1>7, <1>8, <1>9 DEF Epochs

LEMMA EpochsStep ==
  ASSUME Shape, Epochs, [Next]_vars
  PROVE  Epochs'
<1>1. ASSUME UNCHANGED <<call, epoch, ran>>, budget'.crash = budget.crash PROVE Epochs'
  BY <1>1 DEF Epochs, Active, AuthorityIsUsedOnce
<1>2. ASSUME NEW t \in Task, Grant(t) PROVE Epochs'
  BY <1>1, <1>2 DEF Grant, Rest, Memory
<1>3. ASSUME NEW t \in Task, Refuse(t) \/ FailOperation(t) PROVE Epochs'
  BY <1>1, <1>3 DEF Refuse, FailOperation, Rest, Memory, Shape, GraphShape, AnyBudget
<1>4. ASSUME NEW c \in Call, Guard(c) PROVE Epochs'
  <2>1. PICK r \in AnyCall : /\ call' = [Aborted EXCEPT ![c] = r]
                             /\ r = NewCall \/ (r.pc = "prepared" /\ r.epoch = epoch')
    BY <1>4, GuardShape
  <2>2. /\ \A d \in Call : d # c => call'[d] = Aborted[d]
        /\ call'[c] = r
    BY <2>1, AbortedFacts DEF Shape
  <2>3. epoch' = epoch + 1 /\ UNCHANGED ran /\ budget'.crash = budget.crash
    BY <1>4 DEF Guard, EndEpoch
  <2> QED
    BY <2>1, <2>2, <2>3, EpochsAborted
<1>5. CASE Crash
  <2>1. /\ budget.crash \in Nat /\ budget'.crash = budget.crash - 1 /\ UNCHANGED ran
    BY <1>5 DEF Crash, Shape, GraphShape, AnyBudget
  <2>2. \A c \in Call : call'[c].pc = "new"
    BY <1>5, NewOK DEF Crash, NoMemory
  <2>3. \A b \in ran' : b.life \in Int /\ b.epoch \in Int /\ b.life >= budget'.crash /\ b.life # budget'.crash
    BY <2>1 DEF Epochs
  <2> QED
    BY <2>1, <2>2, <2>3 DEF Epochs, Active, PreBody, AuthorityIsUsedOnce
<1>6. CASE Beside
  <2>1. CASE call' = Aborted /\ epoch' = epoch + 1
    <3>1. PICK c : c \notin Call
      BY Tasks
    <3> QED
      BY <1>6, <2>1, <3>1, EpochsAborted DEF Beside
  <2>2. CASE call' = call /\ epoch' = epoch
    BY <1>1, <1>6, <2>2 DEF Beside
  <2> QED
    BY <1>6, <2>1, <2>2 DEF Beside
<1> QED
  BY <1>2, <1>3, <1>4, <1>5, <1>6, EpochsCall, StepKinds

LEMMA InitEpochs ==
  ASSUME Init
  PROVE  Epochs
<1>1. \A c \in Call : call[c].pc = "new"
  BY NewOK DEF Init
<1>2. ran = {}
  BY DEF Init
<1> QED
  BY <1>1, <1>2 DEF Epochs, Active, PreBody, AuthorityIsUsedOnce

\* One epoch of authority lets one body run at most: the guard consumes it
\* before it awaits anything, so neither a parallel nor a retried call can be
\* admitted on it (tools/guard, README.md "cannot reuse it").
THEOREM AuthorityUsedOnce == Spec => []AuthorityIsUsedOnce
<1>1. Init => Shape /\ Epochs
  BY InitShape, InitEpochs
<1>2. Shape /\ Epochs /\ [Next]_vars => Shape' /\ Epochs'
  BY ShapeStep, EpochsStep
<1>3. Epochs => AuthorityIsUsedOnce
  BY DEF Epochs
<1> QED
  BY <1>1, <1>2, <1>3, PTL DEF Spec

\* Authority revoked at any step before the body keeps the body from being
\* entered: the call's signal is aborted with the epoch (tools/execute,
\* invalidateSessionAuthority).
THEOREM RevokedAuthority == Spec => RevokedAuthorityEntersNoBody
<1> DEFINE Inv == Shape /\ Epochs
<1>1. Init => Inv
  BY InitShape, InitEpochs
<1>2. Inv /\ [Next]_vars => Inv'
  BY ShapeStep, EpochsStep
<1>3. Inv /\ [Next]_vars => [\A c \in Call : (call[c].pc # "body" /\ call'[c].pc = "body") => call[c].epoch = epoch]_vars
  <2> SUFFICES ASSUME Inv, Next, NEW c \in Call, call[c].pc # "body", call'[c].pc = "body"
               PROVE  call[c].epoch = epoch
    OBVIOUS
  <2>1. CASE \E d \in Call : CallStep(d)
    <3>1. PICK d \in Call : CallStep(d)
      BY <2>1
    <3>2. PICK r : Move(d, r)
      BY <3>1, CallStepShape
    <3>3. d = c /\ r.pc = "body"
      BY <3>2 DEF Move, Shape, CallShape
    <3>4. call[c].pc = "enter"
      BY <3>2, <3>3, NewOK DEF Move, Kept
    <3>5. Enter(c)
      BY <3>1, <3>3, <3>4 DEF CallStep, Execute, BeginReturns, MarkReturns, Leave, Record, MakeReceipt, WriteReceipt,
                              PublishReceipt, Settle, SettleReturns, Converge
    <3>6. ~call[c].aborted
      <4>1. CASE call' = [call EXCEPT ![c].pc = "record"]
        BY <4>1 DEF Shape, CallShape, AnyCall
      <4> QED
        BY <3>5, <4>1 DEF Enter
    <3> QED
      BY <3>4, <3>6 DEF Epochs, Active
  <2>2. CASE \E t \in Task : Grant(t) \/ Refuse(t) \/ FailOperation(t)
    BY <2>2 DEF Grant, Refuse, FailOperation, Rest
  <2>3. CASE \E d \in Call : Guard(d)
    <3>1. PICK d \in Call : Guard(d)
      BY <2>3
    <3>2. PICK r \in AnyCall : /\ call' = [Aborted EXCEPT ![d] = r]
                               /\ r = NewCall \/ r.pc = "prepared"
      BY <3>1, GuardShape
    <3>3. call'[c] = r \/ call'[c] = Aborted[c]
      BY <3>2, AbortedFacts DEF Shape
    <3> QED
      BY <3>2, <3>3, NewOK, AbortedFacts DEF Shape
  <2>4. CASE Crash
    BY <2>4, NewOK DEF Crash, NoMemory
  <2>5. CASE Beside
    BY <2>5, AbortedFacts DEF Beside, Shape
  <2> QED
    BY <2>1, <2>2, <2>3, <2>4, <2>5, StepKinds
<1> QED
  BY <1>1, <1>2, <1>3, PTL DEF Spec, RevokedAuthorityEntersNoBody
-----------------------------------------------------------------------------
(* Attempts: what was begun is recorded or is what the lease names, and an *)
(* attempt belongs to one call.                                            *)

\* What was ever begun, and what has a receipt in the graph.
BegunAttempts == {r.attempt : r \in begun}
Recorded == {r.attempt : r \in graph.receipts}

\* The state file alone: an attempt that was begun is settled or is the open one.
FileInv ==
  /\ \A r \in begun : r.attempt \in 1..generation
  /\ BegunAttempts \ settled = E!OpenAttempts
  /\ E!Held => lease.leaseId \in 1..generation /\ ~lease.legacy /\ (lease.dirty <=> lease.pending # 0)

\* The begin of call c was granted and c has not heard of it.
Begins(c) == call[c].pc = "begin" /\ io[c].op = "done" /\ io[c].ok
\* A settled attempt has its receipt, and an attempt without one is of one call.
Attempts ==
  /\ settled \subseteq Recorded /\ Recorded \subseteq BegunAttempts
  /\ \A t \in Task : io[t].op = "settle" => io[t].attempt \in Recorded
  /\ \A b \in ran : b.attempt \in BegunAttempts
  /\ \A c \in Call :
       /\ AttemptOf(c) # 0 => AttemptOf(c) \in BegunAttempts
       /\ call[c].pc \in Settled => AttemptOf(c) \in Recorded
       /\ call[c].pc \in {"marking", "enter", "body", "write", "publish"} \/ Begins(c) => AttemptOf(c) # 0
       /\ AttemptOf(c) # 0 /\ call[c].pc \notin Settled => AttemptOf(c) \notin Recorded
       /\ \A d \in Call : c # d /\ AttemptOf(c) # 0 => AttemptOf(c) # AttemptOf(d)

LEMMA SameFile ==
  ASSUME FileInv, UNCHANGED <<generation, lease, begun, settled>>
  PROVE  FileInv'
BY DEF FileInv, BegunAttempts, E!OpenAttempts, E!Held, E!NoAttempt

LEMMA FileGrant ==
  ASSUME Shape, FileInv, Attempts, NEW t \in Task, Grant(t)
  PROVE  /\ FileInv' /\ settled' \subseteq Recorded /\ BegunAttempts \subseteq BegunAttempts'
         /\ io[t].op = "begin" => /\ lease'.pending = generation + 1 /\ lease' # NoLease
                                  /\ generation + 1 \in BegunAttempts' /\ generation + 1 \notin BegunAttempts
<1> DEFINE r == io[t]
<1>1. /\ r.op \in Ops /\ IoOK(r)
      /\ r.op # "checkout" => lease # NoLease /\ lease \in AnyLease /\ lease.pid = me
      /\ \/ generation' = generation /\ lease' = lease /\ begun' = begun /\ settled' = settled /\ r.op = "request"
         \/ generation' = generation + 1
      /\ r.op = "checkout" => lease' = E!CheckedOut(me, 0, r.basis) /\ UNCHANGED <<begun, settled>>
      /\ r.op = "begin" => /\ lease' = [lease EXCEPT !.dirty = TRUE, !.pending = generation + 1]
                           /\ begun' = begun \cup {[attempt |-> generation + 1, basis |-> lease.basis]}
                           /\ ~lease.dirty /\ UNCHANGED settled
      /\ r.op = "request" => lease' = [lease EXCEPT !.releaseWhenClean = TRUE] /\ UNCHANGED <<begun, settled>>
      /\ r.op = "settle" => /\ lease' = E!CleanLease(r.revision, r.release)
                            /\ lease.dirty /\ lease.pending = r.attempt
                            /\ settled' = settled \cup {r.attempt} /\ UNCHANGED begun
      /\ r.op = "checkpoint" => /\ lease' = E!CleanLease(r.revision, r.release) /\ ~lease.dirty
                                /\ UNCHANGED <<begun, settled>>
      /\ r.op = "release" => lease' = NoLease /\ ~lease.dirty /\ UNCHANGED <<begun, settled>>
  BY GrantCommits DEF File
<1>2. generation \in Nat
  BY DEF Shape, FileShape
<1>3. settled \subseteq BegunAttempts /\ (\A a \in BegunAttempts : a \in 1..generation)
  BY DEF Attempts, FileInv, BegunAttempts
<1>4. CASE UNCHANGED <<generation, lease, begun, settled>> /\ r.op = "request"
  BY <1>4, SameFile DEF Attempts, BegunAttempts
<1>5. CASE generation' = generation + 1 /\ r.op = "begin"
  <2> DEFINE k == generation + 1
             n == [attempt |-> k, basis |-> lease.basis]
  <2>1. k \in Nat /\ k # 0 /\ k \notin BegunAttempts /\ k \notin settled
    BY <1>2, <1>3
  <2>2. BegunAttempts' = BegunAttempts \cup {k}
    <3>1. begun' = begun \cup {n} /\ n.attempt = k
      BY <1>1, <1>5
    <3> HIDE DEF n, k
    <3> QED
      BY <3>1 DEF BegunAttempts
  <2>3. E!OpenAttempts = {}
    BY <1>1, <1>5 DEF FileInv, E!OpenAttempts, E!Held, E!NoAttempt
  <2>4. /\ lease' = [lease EXCEPT !.dirty = TRUE, !.pending = k]
        /\ lease'.pending = k /\ lease'.dirty = TRUE /\ lease'.leaseId = lease.leaseId /\ lease'.legacy = lease.legacy
        /\ lease' # NoLease
    <3>1. /\ lease' = [lease EXCEPT !.dirty = TRUE, !.pending = k] /\ lease \in AnyLease
      BY <1>1, <1>5
    <3> HIDE DEF k
    <3>2. lease' \in AnyLease
      BY <2>1, <3>1 DEF AnyLease
    <3> QED
      BY <3>1, <3>2, NoLeaseAssumption DEF AnyLease
  <2>5. E!OpenAttempts' = {k}
    BY <2>1, <2>4 DEF E!OpenAttempts, E!Held, E!NoAttempt
  <2>6. BegunAttempts \ settled = {}
    BY <2>3 DEF FileInv
  <2>7. settled' = settled
    BY <1>1, <1>5
  <2>8. BegunAttempts' \ settled' = E!OpenAttempts'
    BY <2>1, <2>2, <2>5, <2>6, <2>7
  <2>9. \A x \in begun' : x.attempt \in 1..generation'
    <3>1. \A x \in begun' : x.attempt \in BegunAttempts'
      BY DEF BegunAttempts
    <3>2. \A a \in BegunAttempts' : a \in 1..generation'
      BY <1>2, <1>3, <1>5, <2>2
    <3> QED
      BY <3>1, <3>2
  <2>10. lease.leaseId \in 1..generation /\ ~lease.legacy
    BY <1>1, <1>5 DEF FileInv, E!Held
  <2>11. E!Held' => lease'.leaseId \in 1..generation' /\ ~lease'.legacy /\ (lease'.dirty <=> lease'.pending # 0)
    BY <1>2, <1>5, <2>1, <2>4, <2>10
  <2>12. FileInv'
    BY <2>8, <2>9, <2>11 DEF FileInv
  <2> QED
    BY <1>5, <2>1, <2>2, <2>4, <2>7, <2>12 DEF Attempts
<1>6. CASE generation' = generation + 1 /\ r.op # "begin"
  <2>1. begun' = begun /\ BegunAttempts' = BegunAttempts
    BY <1>1, <1>6 DEF Ops, BegunAttempts
  <2>2. \A x \in begun' : x.attempt \in 1..generation'
    BY <1>2, <1>6, <2>1 DEF FileInv
  <2>3. lease \in AnyLease \cup {NoLease} /\ (lease # NoLease => lease.leaseId \in 1..generation')
    BY <1>2, <1>6 DEF Shape, FileShape, FileInv, E!Held
  <2>4. /\ lease' # NoLease => /\ lease'.leaseId \in 1..generation' /\ ~lease'.legacy
                               /\ lease'.dirty <=> lease'.pending # 0
        /\ r.op # "settle" => E!OpenAttempts' = E!OpenAttempts
        /\ r.op = "settle" => E!OpenAttempts' = {} /\ E!OpenAttempts = {r.attempt}
    <3>1. CASE r.op = "checkout"
      <4>1. /\ lease'.leaseId = generation + 1 /\ lease'.legacy = (E!Held /\ lease.legacy)
            /\ lease'.dirty = (E!Held /\ lease.dirty)
            /\ lease'.pending = (IF E!Held THEN lease.pending ELSE E!NoAttempt)
        BY <1>1, <3>1 DEF E!CheckedOut
      <4>2. lease' # NoLease
        BY <3>1, GrantShape, GrantCommits DEF Grant, Shape, IoShape, IoOK, Asked, Snapshot, Ops
      <4>3. lease'.leaseId \in 1..generation'
        BY <1>2, <1>6, <4>1
      <4>4. /\ lease'.legacy <=> (E!Held /\ lease.legacy)
            /\ lease'.dirty <=> (E!Held /\ lease.dirty)
        BY <4>1
      <4>5. CASE E!Held
        <5>1. ~lease'.legacy /\ (lease'.dirty <=> lease'.pending # 0)
          BY <4>1, <4>4, <4>5 DEF FileInv
        <5>2. E!OpenAttempts' = E!OpenAttempts
          BY <4>1, <4>2, <4>5 DEF E!OpenAttempts, E!Held, E!NoAttempt
        <5> QED
          BY <3>1, <4>3, <5>1, <5>2
      <4>6. CASE ~E!Held
        <5>1. ~lease'.legacy /\ ~lease'.dirty /\ lease'.pending = 0
          BY <4>1, <4>4, <4>6 DEF E!NoAttempt
        <5>2. E!OpenAttempts' = E!OpenAttempts
          BY <4>6, <5>1 DEF E!OpenAttempts, E!Held, E!NoAttempt
        <5> QED
          BY <3>1, <4>3, <5>1, <5>2
      <4> QED
        BY <4>5, <4>6
    <3>2. CASE r.op = "request"
      <4>1. lease \in AnyLease /\ lease' = [lease EXCEPT !.releaseWhenClean = TRUE]
        BY <1>1, <3>2
      <4>2. lease'.leaseId = lease.leaseId /\ lease'.legacy = lease.legacy /\ lease'.dirty = lease.dirty
            /\ lease'.pending = lease.pending /\ lease' \in AnyLease
        BY <4>1 DEF AnyLease
      <4> QED
        BY <1>1, <2>3, <3>2, <4>2, NoLeaseAssumption DEF FileInv, E!OpenAttempts, E!Held, E!NoAttempt
    <3>3. CASE r.op \in {"settle", "checkpoint"}
      <4>1. lease \in AnyLease /\ lease # NoLease
            /\ (lease' = NoLease \/ lease' = [lease EXCEPT !.basis = [@ EXCEPT !.graph = r.revision], !.dirty = FALSE,
                                                       !.pending = E!NoAttempt, !.legacy = FALSE])
        BY <1>1, <3>3 DEF E!CleanLease
      <4>2. lease' # NoLease => /\ lease'.leaseId = lease.leaseId /\ lease'.legacy = FALSE /\ lease'.dirty = FALSE
                                /\ lease'.pending = 0
        BY <4>1 DEF AnyLease, E!NoAttempt
      <4>3. E!OpenAttempts' = {}
        BY <4>2 DEF E!OpenAttempts, E!Held, E!NoAttempt
      <4>4. r.op = "checkpoint" => E!OpenAttempts = {}
        BY <1>1, <4>1 DEF FileInv, E!OpenAttempts, E!Held, E!NoAttempt
      <4>5. r.op = "settle" => E!OpenAttempts = {r.attempt}
        BY <1>1, <4>1 DEF FileInv, E!OpenAttempts, E!Held, E!NoAttempt
      <4> QED
        BY <2>3, <3>3, <4>1, <4>2, <4>3, <4>4, <4>5
    <3>4. CASE r.op = "release"
      BY <1>1, <3>4 DEF FileInv, E!OpenAttempts, E!Held, E!NoAttempt
    <3> QED
      BY <1>1, <1>6, <3>1, <3>2, <3>3, <3>4 DEF Ops
  <2>5. settled' = (IF r.op = "settle" THEN settled \cup {r.attempt} ELSE settled)
    BY <1>1, <1>6 DEF Ops
  <2>6. BegunAttempts' \ settled' = E!OpenAttempts'
    BY <2>1, <2>4, <2>5 DEF FileInv
  <2>7. FileInv'
    BY <2>2, <2>4, <2>6 DEF FileInv, E!Held
  <2>8. settled' \subseteq Recorded
    BY <2>5 DEF Attempts
  <2> QED
    BY <1>6, <2>1, <2>7, <2>8
<1> QED
  BY <1>1, <1>4, <1>5, <1>6

\* The calls keep their attempts, and so do body, receipt and request.
LEMMA AttemptsKept ==
  ASSUME Attempts, UNCHANGED <<settled, begun, ran>>, graph'.receipts = graph.receipts,
         \A t \in Task : io'[t].op = "settle" => io'[t].attempt \in Recorded,
         \A c \in Call : \/ call'[c].pc \in {"new", "prepared"} /\ AttemptOf(c)' = 0
                         \/ /\ call'[c].pc = call[c].pc /\ AttemptOf(c)' = AttemptOf(c)
                            /\ Begins(c)' => Begins(c)
  PROVE  Attempts'
<1>1. Recorded' = Recorded /\ BegunAttempts' = BegunAttempts
  BY DEF Recorded, BegunAttempts
<1>2. \A c \in Call : AttemptOf(c)' # 0 => AttemptOf(c)' = AttemptOf(c) /\ call'[c].pc = call[c].pc
  OBVIOUS
<1>3. ASSUME NEW c \in Call
      PROVE  /\ AttemptOf(c)' # 0 => AttemptOf(c)' \in BegunAttempts'
             /\ call'[c].pc \in Settled => AttemptOf(c)' \in Recorded'
             /\ call'[c].pc \in {"marking", "enter", "body", "write", "publish"} \/ Begins(c)' => AttemptOf(c)' # 0
             /\ AttemptOf(c)' # 0 /\ call'[c].pc \notin Settled => AttemptOf(c)' \notin Recorded'
             /\ \A d \in Call : c # d /\ AttemptOf(c)' # 0 => AttemptOf(c)' # AttemptOf(d)'
  <2>1. CASE call'[c].pc \in {"new", "prepared"} /\ AttemptOf(c)' = 0
    BY <2>1 DEF Settled, Begins
  <2>2. CASE call'[c].pc = call[c].pc /\ AttemptOf(c)' = AttemptOf(c) /\ (Begins(c)' => Begins(c))
    BY <1>1, <1>2, <2>2 DEF Attempts
  <2> QED
    BY <2>1, <2>2
<1> QED
  BY <1>1, <1>3 DEF Attempts

LEMMA AttemptsGrant ==
  ASSUME Shape, FileInv, Attempts, NEW t \in Task, Grant(t)
  PROVE  FileInv' /\ Attempts'
<1> DEFINE v == [op |-> "done", of |-> io[t].op, ok |-> TRUE, snapshot |-> Snapshot']
<1>1. /\ FileInv' /\ settled' \subseteq Recorded /\ BegunAttempts \subseteq BegunAttempts'
      /\ io[t].op = "begin" => /\ lease'.pending = generation + 1 /\ lease' # NoLease
                               /\ generation + 1 \in BegunAttempts' /\ generation + 1 \notin BegunAttempts
  BY FileGrant
<1>2. UNCHANGED <<graph, call, ran>> /\ io' = [io EXCEPT ![t] = v] /\ DOMAIN io = Task /\ io[t].op \in Ops
  BY GrantCommits DEF Shape, IoShape
<1>3. /\ io'[t].op = "done" /\ io'[t].snapshot.lease = lease' /\ io'[t].ok
      /\ \A x \in Task : x # t => io'[x] = io[x]
  <2>1. v.op = "done" /\ v.snapshot.lease = lease' /\ v.ok
    BY DEF Snapshot
  <2> HIDE DEF v
  <2> QED
    BY <1>2, <2>1
<1>4. Recorded' = Recorded
  BY <1>2 DEF Recorded
<1>5. \A x \in Task : io'[x].op = "settle" => io'[x].attempt \in Recorded'
  BY <1>3, <1>4 DEF Attempts
<1>6. \A b \in ran' : b.attempt \in BegunAttempts'
  BY <1>1, <1>2 DEF Attempts
<1>7. \A c \in Call : c # t => AttemptOf(c)' = AttemptOf(c) /\ (Begins(c)' <=> Begins(c))
  BY <1>2, <1>3, Tasks DEF AttemptOf, Begins
<1>8. generation \in Nat /\ generation + 1 # 0
  BY DEF Shape, FileShape
<1>9. t \in Call => \/ call[t].pc # "begin" /\ AttemptOf(t)' = AttemptOf(t) /\ ~Begins(t)'
                    \/ call[t].pc = "begin" /\ AttemptOf(t)' = generation + 1
  <2>1. t \in Call /\ call[t].pc = "begin" => io[t].op = "begin"
    BY <1>2 DEF Shape, Protocol, CallAsks, OpOf, Ops
  <2>2. t \in Call /\ call[t].pc = "begin" => AttemptOf(t)' = lease'.pending
    BY <1>2, <1>3 DEF AttemptOf
  <2>3. t \in Call /\ call[t].pc # "begin" => AttemptOf(t)' = AttemptOf(t) /\ ~Begins(t)'
    BY <1>2 DEF AttemptOf, Begins
  <2> QED
    BY <1>1, <2>1, <2>2, <2>3
<1>10. CASE ~(t \in Call /\ call[t].pc = "begin")
  <2>1. \A c \in Call : AttemptOf(c)' = AttemptOf(c) /\ (Begins(c)' => Begins(c))
    BY <1>7, <1>9, <1>10
  <2> QED
    BY <1>1, <1>2, <1>4, <1>5, <1>6, <2>1 DEF Attempts
<1>11. CASE t \in Call /\ call[t].pc = "begin"
  <2>1. AttemptOf(t)' = generation + 1 /\ io[t].op = "begin"
    BY <1>2, <1>9, <1>11 DEF Shape, Protocol, CallAsks, OpOf, Ops
  <2>2. AttemptOf(t)' # 0 /\ AttemptOf(t)' \in BegunAttempts' /\ AttemptOf(t)' \notin BegunAttempts
    BY <1>1, <1>8, <2>1
  <2>3. \A c \in Call : c # t => /\ AttemptOf(c)' = AttemptOf(c) /\ (AttemptOf(c) # 0 => AttemptOf(c) \in BegunAttempts)
    BY <1>7 DEF Attempts
  <2>4. ASSUME NEW c \in Call
        PROVE  /\ AttemptOf(c)' # 0 => AttemptOf(c)' \in BegunAttempts'
               /\ call'[c].pc \in Settled => AttemptOf(c)' \in Recorded'
               /\ call'[c].pc \in {"marking", "enter", "body", "write", "publish"} \/ Begins(c)' => AttemptOf(c)' # 0
               /\ AttemptOf(c)' # 0 /\ call'[c].pc \notin Settled => AttemptOf(c)' \notin Recorded'
               /\ \A d \in Call : c # d /\ AttemptOf(c)' # 0 => AttemptOf(c)' # AttemptOf(d)'
    <3>1. CASE c = t
      <4>1. \A d \in Call : c # d => AttemptOf(c)' # AttemptOf(d)'
        BY <2>2, <2>3, <3>1
      <4> QED
        BY <1>2, <1>4, <1>11, <2>2, <3>1, <4>1 DEF Settled, Attempts
    <3>2. CASE c # t
      <4>1. \A d \in Call : c # d /\ AttemptOf(c)' # 0 => AttemptOf(c)' # AttemptOf(d)'
        <5>1. SUFFICES ASSUME NEW d \in Call, c # d, AttemptOf(c)' # 0 PROVE AttemptOf(c)' # AttemptOf(d)'
          OBVIOUS
        <5>2. CASE d = t
          BY <2>2, <2>3, <3>2, <5>1, <5>2
        <5>3. CASE d # t
          BY <2>3, <3>2, <5>1, <5>3 DEF Attempts
        <5> QED
          BY <5>2, <5>3
      <4> QED
        BY <1>1, <1>2, <1>4, <1>7, <3>2, <4>1 DEF Attempts
    <3> QED
      BY <3>1, <3>2
  <2> QED
    BY <1>1, <1>4, <1>5, <1>6, <2>4 DEF Attempts
<1> QED
  BY <1>1, <1>10, <1>11

\* A call asks in Execute and Settle only.
LEMMA CallAsksFor ==
  ASSUME Shape, NEW c \in Call, CallStep(c)
  PROVE  \/ io'[c] = io[c]
         \/ io'[c].op = "none"
         \/ Execute(c) /\ io'[c].op = "begin"
         \/ Settle(c) /\ io'[c].op = "settle" /\ io'[c].attempt = call[c].attempt
<1>0. DOMAIN io = Task /\ c \in Task
  BY Tasks DEF Shape, IoShape
<1>1. ASSUME NEW o \in Obj, NEW objects, NEW requests, DOMAIN requests = Task,
             Schedule(leases, o, objects, requests)
      PROVE  io'[c] = requests[c]
  <2>1. io' = requests \/ \E w : io' = [requests EXCEPT ![o] = w]
    BY <1>1 DEF Schedule
  <2>2. c # o
    BY Tasks
  <2> QED
    BY <1>0, <1>1, <2>1, <2>2
<1>2. [io EXCEPT ![c] = None][c].op = "none" /\ DOMAIN [io EXCEPT ![c] = None] = Task
  BY <1>0 DEF None
<1>3. /\ call[c].pc \in {"begin", "marking", "refused"} => call[c].object \in Obj
      /\ call[c].pc \in {"receipt", "write", "publish", "receipted", "settling", "converging"} => call[c].settling \in Obj
  BY DEF Shape, LiveObjects, LiveCall, Live
<1>4. CASE BeginReturns(c)
  BY <1>1, <1>2, <1>3, <1>4 DEF BeginReturns, Begun, NotBegun
<1>5. CASE SettleReturns(c)
  BY <1>1, <1>2, <1>3, <1>5 DEF SettleReturns
<1>6. CASE Converge(c)
  BY <1>0, <1>1, <1>3, <1>6 DEF Converge
<1>7. CASE Settle(c)
  BY <1>0, <1>7 DEF Settle, SettleRequest
<1>8. CASE Execute(c)
  <2>1. io' = io \/ io' = [io EXCEPT ![c] = [op |-> "begin", claim |-> Claim(leases)]]
    BY <1>8 DEF Execute
  <2> QED
    BY <1>0, <1>8, <2>1
<1> QED
  BY <1>4, <1>5, <1>6, <1>7, <1>8 DEF CallStep, MarkReturns, Enter, Leave, Record, MakeReceipt, WriteReceipt, PublishReceipt

\* What a call does to the state file, the receipts and the requests.
LEMMA CallRecords ==
  ASSUME Shape, NEW c \in Call, CallStep(c)
  PROVE  /\ UNCHANGED <<generation, lease, begun, settled>>
         /\ \/ graph'.receipts = graph.receipts
               /\ (call[c].pc = "publish" => call'[c].pc = "new") 
            \/ /\ call[c].pc = "publish" /\ call'[c].pc = "receipted"
               /\ \E x : x.attempt = call[c].attempt /\ graph'.receipts = graph.receipts \cup {x}
         /\ \A t \in Task : io'[t].op = "settle" =>
              io'[t] = io[t] \/ (t = c /\ call[c].pc = "receipted" /\ io'[c].attempt = call[c].attempt
                                 /\ graph'.receipts = graph.receipts)
<1>0. DOMAIN io = Task /\ c \in Task
  BY Tasks DEF Shape, IoShape
<1>1. UNCHANGED <<generation, lease, begun, settled>>
  BY CallStepShape DEF File
<1>2. CASE PublishReceipt(c)
  <2>1. io' = io /\ call[c].pc = "publish"
    BY <1>2 DEF PublishReceipt
  <2>2. CASE ReceiptLost(c) /\ graph' = [graph EXCEPT !.writer = NoObj]
    BY <1>1, <2>1, <2>2, NewOK DEF ReceiptLost, End, Shape, CallShape, GraphShape, AnyGraph
  <2>3. CASE call' = [call EXCEPT ![c].pc = "receipted"]
             /\ graph' = [graph EXCEPT !.writer = NoObj, !.revision = @ + 1,
                           !.receipts = @ \cup {[attempt |-> call[c].attempt, release |-> call[c].release,
                                                 revision |-> graph.revision + 1]}]
    <3> DEFINE x == [attempt |-> call[c].attempt, release |-> call[c].release, revision |-> graph.revision + 1]
    <3>1. graph'.receipts = graph.receipts \cup {x}
      BY <1>2, <2>3 DEF PublishReceipt, Shape, GraphShape, AnyGraph
    <3>2. x.attempt = call[c].attempt
      OBVIOUS
    <3>3. call'[c].pc = "receipted"
      BY <2>3 DEF Shape, CallShape, AnyCall
    <3> HIDE DEF x
    <3> QED
      BY <1>1, <2>1, <3>1, <3>2, <3>3
  <2> QED
    BY <1>2, <2>2, <2>3 DEF PublishReceipt
<1>3. CASE ~PublishReceipt(c)
  <2>1. graph'.receipts = graph.receipts /\ call[c].pc # "publish"
    BY <1>3 DEF CallStep, Execute, BeginReturns, MarkReturns, Enter, Leave, Record, MakeReceipt, WriteReceipt, Settle,
                SettleReturns, Converge, Shape, GraphShape, AnyGraph
  <2>2. ASSUME NEW t \in Task, io'[t].op = "settle", io'[t] # io[t]
        PROVE  t = c /\ call[c].pc = "receipted" /\ io'[c].attempt = call[c].attempt
    <3>1. t \notin Obj
      BY <2>2, CallStepShape DEF Shape, Protocol, OpOf
    <3>2. t = c
      BY <2>2, <3>1, CallRequests DEF OnlyAsks
    <3>6. io'[c].attempt = call[c].attempt /\ call[c].pc = "receipted"
      BY <2>2, <3>2, CallAsksFor DEF Settle
    <3> QED
      BY <3>2, <3>6
  <2> QED
    BY <1>1, <2>1, <2>2
<1> QED
  BY <1>2, <1>3

LEMMA AttemptsCall ==
  ASSUME Shape, FileInv, Attempts, NEW c \in Call, CallStep(c)
  PROVE  FileInv' /\ Attempts'
<1>1. PICK r : Move(c, r)
  BY CallStepShape
<1>2. /\ \A d \in Call : d # c => call'[d] = call[d] /\ io'[d] = io[d]
      /\ call'[c] = r /\ r \in AnyCall
  BY <1>1, CallRequests, Tasks DEF Move, Shape, CallShape, OnlyAsks
<1>3. /\ UNCHANGED <<generation, lease, begun, settled>>
      /\ \/ graph'.receipts = graph.receipts /\ (call[c].pc = "publish" => call'[c].pc = "new")
         \/ /\ call[c].pc = "publish" /\ call'[c].pc = "receipted"
            /\ \E x : x.attempt = call[c].attempt /\ graph'.receipts = graph.receipts \cup {x}
      /\ \A t \in Task : io'[t].op = "settle" =>
           io'[t] = io[t] \/ (t = c /\ call[c].pc = "receipted" /\ io'[c].attempt = call[c].attempt
                              /\ graph'.receipts = graph.receipts)
  BY CallRecords
<1>4. FileInv' /\ BegunAttempts' = BegunAttempts
  BY <1>3, SameFile DEF BegunAttempts
<1>5. \A d \in Call : d # c => call'[d].pc = call[d].pc /\ AttemptOf(d)' = AttemptOf(d) /\ (Begins(d)' <=> Begins(d))
  BY <1>2 DEF AttemptOf, Begins
<1>6. \/ call'[c].pc = "new" /\ AttemptOf(c)' = 0
      \/ Kept(c, r) /\ AttemptOf(c)' = AttemptOf(c)
  BY <1>1, <1>2, NewOK DEF Move, Kept, AttemptOf
<1>7. ~Begins(c)'
  <2>1. r.pc = "begin" => io'[c].op = "begin"
    BY <1>1, NewOK DEF Move, Kept
  <2> QED
    BY <1>2, <2>1 DEF Begins
<1>8. \/ Recorded' = Recorded /\ (call[c].pc = "publish" => call'[c].pc = "new")
      \/ /\ Recorded' = Recorded \cup {call[c].attempt} /\ call[c].pc = "publish" /\ call'[c].pc = "receipted"
  BY <1>3 DEF Recorded
<1>9. call[c].pc # "begin" => AttemptOf(c) = call[c].attempt
  BY DEF AttemptOf
<1>10. Recorded' \subseteq BegunAttempts' /\ Recorded \subseteq Recorded' /\ settled' \subseteq Recorded'
  BY <1>3, <1>4, <1>8, <1>9 DEF Attempts
<1>11. \A t \in Task : io'[t].op = "settle" => io'[t].attempt \in Recorded'
  <2>1. call[c].pc = "receipted" => call[c].attempt \in Recorded
    BY <1>9 DEF Attempts, Settled
  <2> QED
    BY <1>3, <1>10, <2>1 DEF Attempts
<1>12. \A b \in ran' : b.attempt \in BegunAttempts'
  <2>1. CASE ran' = ran
    BY <1>4, <2>1 DEF Attempts
  <2>2. CASE ran' # ran
    <3>1. /\ call[c].pc = "enter"
          /\ ran' = ran \cup {[life |-> budget.crash, epoch |-> call[c].epoch, attempt |-> call[c].attempt]}
      BY <2>2, CallRuns
    <3>2. call[c].attempt \in BegunAttempts
      BY <1>9, <3>1 DEF Attempts
    <3> QED
      BY <1>4, <3>1, <3>2 DEF Attempts
  <2> QED
    BY <2>1, <2>2
<1>13. /\ AttemptOf(c)' # 0 => AttemptOf(c)' \in BegunAttempts'
       /\ call'[c].pc \in Settled => AttemptOf(c)' \in Recorded'
       /\ call'[c].pc \in {"marking", "enter", "body", "write", "publish"} \/ Begins(c)' => AttemptOf(c)' # 0
       /\ AttemptOf(c)' # 0 /\ call'[c].pc \notin Settled => AttemptOf(c)' \notin Recorded'
  <2>1. CASE call'[c].pc = "new" /\ AttemptOf(c)' = 0
    BY <1>7, <2>1 DEF Settled
  <2>2. CASE Kept(c, r) /\ AttemptOf(c)' = AttemptOf(c)
    <3>1. AttemptOf(c)' # 0 => AttemptOf(c)' \in BegunAttempts'
      BY <1>4, <2>2 DEF Attempts
    <3>2. call'[c].pc \in Settled => AttemptOf(c)' \in Recorded'
      <4>1. call'[c].pc \in Settled => call[c].pc \in Settled \cup {"publish"}
        BY <1>2, <2>2 DEF Kept
      <4>2. call[c].pc = "publish" /\ call'[c].pc \in Settled => Recorded' = Recorded \cup {call[c].attempt}
        BY <1>3, <1>8 DEF Settled
      <4> QED
        BY <1>9, <1>10, <2>2, <4>1, <4>2 DEF Attempts
    <3>3. call'[c].pc \in {"marking", "enter", "body", "write", "publish"} => AttemptOf(c)' # 0
      <4>1. call'[c].pc \in {"marking", "enter"} => call[c].pc = "marking" \/ Begins(c)
        BY <1>2, <2>2 DEF Kept, Begins
      <4>2. call'[c].pc = "body" => call[c].pc = "enter"
        BY <1>2, <2>2 DEF Kept
      <4>3. call'[c].pc = "publish" => call[c].pc = "write"
        BY <1>2, <2>2 DEF Kept
      <4>4. call'[c].pc = "write" => AttemptOf(c)' # 0
        BY <1>2, <2>2 DEF Kept
      <4> QED
        BY <2>2, <4>1, <4>2, <4>3, <4>4 DEF Attempts
    <3>4. AttemptOf(c)' # 0 /\ call'[c].pc \notin Settled => AttemptOf(c)' \notin Recorded'
      <4>1. call'[c].pc \notin Settled => call[c].pc \notin Settled /\ Recorded' = Recorded
        BY <1>2, <1>8, <2>2 DEF Kept, Settled
      <4> QED
        BY <2>2, <4>1 DEF Attempts
    <3> QED
      BY <1>7, <3>1, <3>2, <3>3, <3>4
  <2> QED
    BY <1>6, <2>1, <2>2
<1>14. ASSUME NEW d \in Call, d # c
       PROVE  /\ AttemptOf(d)' # 0 => AttemptOf(d)' \in BegunAttempts'
              /\ call'[d].pc \in Settled => AttemptOf(d)' \in Recorded'
              /\ call'[d].pc \in {"marking", "enter", "body", "write", "publish"} \/ Begins(d)' => AttemptOf(d)' # 0
              /\ AttemptOf(d)' # 0 /\ call'[d].pc \notin Settled => AttemptOf(d)' \notin Recorded'
  <2>1. AttemptOf(d) # 0 /\ call[d].pc \notin Settled => AttemptOf(d) \notin Recorded'
    BY <1>8, <1>9, <1>14 DEF Attempts
  <2> QED
    BY <1>4, <1>5, <1>10, <1>14, <2>1 DEF Attempts
<1>15. ASSUME NEW d \in Call, NEW e \in Call, d # e, AttemptOf(d)' # 0 PROVE AttemptOf(d)' # AttemptOf(e)'
  <2>1. AttemptOf(d)' = AttemptOf(d) /\ AttemptOf(e)' \in {0, AttemptOf(e)}
    BY <1>5, <1>6, <1>15
  <2> QED
    BY <1>15, <2>1 DEF Attempts
<1> QED
  BY <1>4, <1>10, <1>11, <1>12, <1>13, <1>14, <1>15 DEF Attempts

LEMMA AttemptsStep ==
  ASSUME Shape, FileInv, Attempts, [Next]_vars
  PROVE  FileInv' /\ Attempts'
<1>1. ASSUME NEW t \in Task, Refuse(t) \/ FailOperation(t) PROVE FileInv' /\ Attempts'
  <2> DEFINE v == [op |-> "done", of |-> io[t].op, ok |-> FALSE]
  <2>1. /\ UNCHANGED <<generation, lease, begun, settled, graph, call, ran>> /\ io' = [io EXCEPT ![t] = v]
        /\ DOMAIN io = Task /\ Asked(t)
    BY <1>1 DEF Refuse, FailOperation, File, Rest, Shape, IoShape
  <2>2. v.op = "done" /\ ~v.ok
    OBVIOUS
  <2> HIDE DEF v
  <2>3. io'[t].op = "done" /\ ~io'[t].ok /\ \A x \in Task : x # t => io'[x] = io[x]
    BY <2>1, <2>2
  <2>4. \A c \in Call : AttemptOf(c)' = AttemptOf(c) /\ (Begins(c)' => Begins(c))
    BY <2>1, <2>3, Tasks DEF AttemptOf, Begins, Asked
  <2>5. \A x \in Task : io'[x].op = "settle" => io'[x].attempt \in Recorded
    BY <2>3 DEF Attempts
  <2> QED
    BY <2>1, <2>4, <2>5, SameFile, AttemptsKept
<1>2. ASSUME NEW c \in Call, Guard(c) PROVE FileInv' /\ Attempts'
  <2>1. UNCHANGED <<generation, lease, begun, settled, graph, ran, io>>
    BY <1>2 DEF Guard, File
  <2>2. PICK r \in AnyCall : /\ call' = [Aborted EXCEPT ![c] = r] /\ r.attempt = 0
                             /\ r = NewCall \/ r.pc = "prepared"
    BY <1>2, GuardShape
  <2>3. /\ \A d \in Call : d # c => call'[d].pc = call[d].pc /\ call'[d].attempt = call[d].attempt
        /\ call'[c] = r
    BY <2>2, AbortedFacts DEF Shape
  <2>4. /\ call'[c].pc \in {"new", "prepared"} /\ AttemptOf(c)' = 0
        /\ \A d \in Call : d # c => /\ call'[d].pc = call[d].pc /\ AttemptOf(d)' = AttemptOf(d)
                                    /\ Begins(d)' => Begins(d)
    BY <2>1, <2>2, <2>3, NewOK DEF AttemptOf, Begins
  <2>5. \A x \in Task : io'[x].op = "settle" => io'[x].attempt \in Recorded
    BY <2>1 DEF Attempts
  <2> QED
    BY <2>1, <2>4, <2>5, SameFile, AttemptsKept
<1>3. CASE Crash
  <2>1. UNCHANGED <<generation, lease, begun, settled, ran>> /\ graph'.receipts = graph.receipts
    BY <1>3 DEF Crash, E!Crash, Shape, GraphShape, AnyGraph
  <2>2. /\ \A c \in Call : call'[c] = NewCall
        /\ \A t \in Task : io'[t] = None
    BY <1>3 DEF Crash, NoMemory
  <2>3. \A c \in Call : call'[c].pc \in {"new", "prepared"} /\ AttemptOf(c)' = 0
    BY <2>2, NewOK DEF AttemptOf
  <2>4. \A t \in Task : io'[t].op = "settle" => io'[t].attempt \in Recorded
    BY <2>2 DEF None
  <2> QED
    BY <2>1, <2>3, <2>4, SameFile, AttemptsKept
<1>4. CASE Beside
  <2>1. UNCHANGED <<generation, lease, begun, settled, ran>> /\ graph'.receipts = graph.receipts
    BY <1>4 DEF Beside
  <2>2. \A c \in Call : /\ call'[c].pc = call[c].pc /\ AttemptOf(c)' = AttemptOf(c)
                        /\ Begins(c)' => Begins(c)
    BY <1>4, AbortedFacts DEF Beside, AttemptOf, Begins, Shape
  <2>3. ASSUME NEW t \in Task, io'[t].op = "settle" PROVE io'[t].attempt \in Recorded
    <3>1. t \notin Obj /\ t # Change
      BY <2>3, ShapeStep, Tasks DEF Shape, Protocol, OpOf
    <3>2. CASE t \in Call
      BY <1>4, <2>3, <3>2 DEF Beside, Attempts
    <3>3. CASE t = Refresh
      BY <1>4, <2>3, <3>3 DEF Beside, Attempts, Recorded
    <3> QED
      BY <3>1, <3>2, <3>3 DEF Task, Slot
  <2> QED
    BY <2>1, <2>2, <2>3, SameFile, AttemptsKept
<1> QED
  BY <1>1, <1>2, <1>3, <1>4, AttemptsGrant, AttemptsCall, StepKinds

LEMMA InitAttempts ==
  ASSUME Init
  PROVE  FileInv /\ Attempts
<1>1. begun = {} /\ settled = {} /\ ran = {} /\ graph.receipts = {}
  BY DEF Init
<1> DEFINE n == [leaseId |-> 1, owner |-> 0, basis |-> Basis("leaf", 1), dirty |-> FALSE,
                 releaseWhenClean |-> FALSE, pending |-> 0, legacy |-> FALSE, pid |-> me]
<1>0. n.leaseId = 1 /\ n.pending = 0 /\ ~n.dirty /\ ~n.legacy
  OBVIOUS
<1>00. lease = NoLease \/ (generation = 1 /\ lease = n)
  BY DEF Init
<1> HIDE DEF n
<1>2. lease = NoLease \/ (generation = 1 /\ lease.leaseId = 1 /\ lease.pending = 0 /\ ~lease.dirty /\ ~lease.legacy)
  BY <1>0, <1>00
<1>3. FileInv
  BY <1>1, <1>2 DEF FileInv, BegunAttempts, E!OpenAttempts, E!Held, E!NoAttempt
<1>4. \A c \in Call : call[c].pc = "new" /\ AttemptOf(c) = 0
  BY NewOK DEF Init, AttemptOf
<1>5. \A t \in Task : io[t].op = "none"
  BY DEF Init, None
<1>6. Attempts
  BY <1>1, <1>4, <1>5 DEF Attempts, Recorded, BegunAttempts, Settled, Begins
<1> QED
  BY <1>3, <1>6

\* What a call is about to be recorded for is what the lease names.
LEMMA UnrecordedIsPending ==
  ASSUME FileInv, Attempts, NEW c \in Call, AttemptOf(c) # 0, call[c].pc \notin Settled
  PROVE  E!Held /\ lease.pending = AttemptOf(c)
BY DEF FileInv, Attempts, E!OpenAttempts, E!Held

\* While a body runs the state file names its own attempt: no refresh, release,
\* takeover or other call settles it, replaces it or gives the lease away
\* (beginExecution, recordMechanicalExecution, restoreDurableLease).
THEOREM BodyUnderItsAttempt == Spec => []BodyRunsUnderItsAttempt
<1>1. Init => Shape /\ FileInv /\ Attempts
  BY InitShape, InitAttempts
<1>2. Shape /\ FileInv /\ Attempts /\ [Next]_vars => Shape' /\ FileInv' /\ Attempts'
  BY ShapeStep, AttemptsStep
<1>3. FileInv /\ Attempts => BodyRunsUnderItsAttempt
  <2> SUFFICES ASSUME FileInv, Attempts, NEW c \in Call, call[c].pc = "body"
               PROVE  E!Held /\ lease.pending = call[c].attempt
    BY DEF BodyRunsUnderItsAttempt
  <2>1. AttemptOf(c) = call[c].attempt /\ AttemptOf(c) # 0 /\ call[c].pc \notin Settled
    BY DEF Attempts, AttemptOf, Settled
  <2> QED
    BY <2>1, UnrecordedIsPending
<1> QED
  BY <1>1, <1>2, <1>3, PTL DEF Spec

\* When a body runs, the outcome of every body entered before it is in the graph,
\* also across failed receipts, crashes and restarts: the dirty lease of an
\* unrecorded one refuses the next begin (recordMechanicalExecution).
THEOREM EarlierBodies == Spec => []EarlierBodiesAreRecorded
<1>1. Init => Shape /\ FileInv /\ Attempts
  BY InitShape, InitAttempts
<1>2. Shape /\ FileInv /\ Attempts /\ [Next]_vars => Shape' /\ FileInv' /\ Attempts'
  BY ShapeStep, AttemptsStep
<1>3. FileInv /\ Attempts => EarlierBodiesAreRecorded
  <2> SUFFICES ASSUME FileInv, Attempts, NEW c \in Call, call[c].pc = "body", NEW b \in ran,
                      b.attempt # call[c].attempt
               PROVE  \E r \in graph.receipts : r.attempt = b.attempt
    BY DEF EarlierBodiesAreRecorded
  <2>1. AttemptOf(c) = call[c].attempt /\ AttemptOf(c) # 0 /\ call[c].pc \notin Settled
    BY DEF Attempts, AttemptOf, Settled
  <2>2. lease.pending = call[c].attempt /\ E!Held
    BY <2>1, UnrecordedIsPending
  <2>3. b.attempt \in settled
    BY <2>2 DEF FileInv, Attempts, E!OpenAttempts
  <2> QED
    BY <2>3 DEF Attempts, Recorded
<1> QED
  BY <1>1, <1>2, <1>3, PTL DEF Spec
-----------------------------------------------------------------------------
(* The graph under the bodies.  Authority that is shown was issued after   *)
(* the calls of its turn; the change it is consumed for stays Sure, and no *)
(* call is guarded, until the epoch ends or the change is committed.       *)

Unrecorded(c) == Active(c) /\ AttemptOf(c) # 0 /\ call[c].pc \notin Settled
Early == {"consumed", "reserving", "change", "written"}
Sure == T.pc = "publish" \/ (T.pc \in Early /\ T.epoch = epoch)
GraphInv ==
  /\ auth.shown => \A c \in Call : ~Active(c)
  /\ T.pc # "idle" => T.epoch <= epoch
  /\ Sure => \A c \in Call : ~Active(c)
  /\ \A c \in Call : io[c].op = "begin" =>
       /\ io[c].claim.generation <= generation
       /\ io[c].claim.generation = generation =>
            (E!Held => ~lease.dirty) /\ graph.revision = call[c].basis.revision
  /\ \A c \in Call : Unrecorded(c) => graph.revision = call[c].basis.revision

LEMMA RevisionMoves ==
  ASSUME Shape, [Next]_vars
  PROVE  \/ graph'.revision = graph.revision
         \/ \E c \in Call : PublishReceipt(c) /\ call[c].pc = "publish" /\ call'[c].pc = "receipted"
         \/ PublishChange
<1>1. ASSUME NEW c \in Call, CallStep(c)
      PROVE  \/ graph'.revision = graph.revision
             \/ PublishReceipt(c) /\ call[c].pc = "publish" /\ call'[c].pc = "receipted"
  <2>1. CASE PublishReceipt(c)
    <3>1. CASE call' = [call EXCEPT ![c].pc = "receipted"]
      BY <2>1, <3>1 DEF PublishReceipt, Shape, CallShape, AnyCall
    <3>2. CASE graph' = [graph EXCEPT !.writer = NoObj]
      BY <2>1, <3>2 DEF Shape, GraphShape, AnyGraph
    <3> QED
      BY <2>1, <3>1, <3>2 DEF PublishReceipt
  <2>2. CASE ~PublishReceipt(c)
    BY <1>1, <2>2 DEF CallStep, Execute, BeginReturns, MarkReturns, Enter, Leave, Record, MakeReceipt, WriteReceipt, Settle,
                SettleReturns, Converge, Shape, GraphShape, AnyGraph
  <2> QED
    BY <2>1, <2>2
<1>2. CASE ChangeStep
  <2>1. CASE WriteChange \/ CheckChange
    BY <2>1 DEF WriteChange, CheckChange, Shape, GraphShape, AnyGraph
  <2> QED
    BY <1>2, <2>1 DEF ChangeStep, Reserve, ReserveReturns, CheckedOut,
         PlanChanged, Undone, CheckpointCommitted, CheckpointReturns, Reread, ConvergeChange
<1>3. CASE Crash
  BY <1>3 DEF Crash, Shape, GraphShape, AnyGraph
<1>4. CASE UNCHANGED graph
  BY <1>4
<1>5. CASE \/ \E t \in Task : Grant(t) \/ Refuse(t) \/ FailOperation(t)
           \/ \E o \in Obj : ReleaseReturns(o)
           \/ \E replaced \in BOOLEAN : Revoke(replaced)
           \/ \E c \in Call : Guard(c)
           \/ EndTurn \/ (\E kind \in Kinds : Consume(kind)) \/ GraceEnds \/ (\E p \in Process : Restart(p))
           \/ UNCHANGED vars
  BY <1>4, <1>5 DEF Grant, Refuse, FailOperation, ReleaseReturns, Revoke, Guard, EndTurn, Consume, GraceEnds, Restart,
                    Rest, vars
<1>6. CASE RefreshStart \/ RefreshStep
  BY <1>4, <1>6 DEF RefreshStart, RefreshStep, RestoreStart, RestoreRead, RestoreFound, RestoreReturns, RefreshEnds, OthersR
<1> QED
  BY <1>1, <1>2, <1>3, <1>5, <1>6 DEF Next

\* The tool of Change moves in its own steps only.
LEMMA ChangeToolMoves ==
  ASSUME Shape, [Next]_vars
  PROVE  \/ T' = T
         \/ ChangeStep /\ T.pc # "idle"
         \/ \E kind \in Kinds : Consume(kind)
         \/ Crash
<1>1. CASE ChangeStep
  BY <1>1 DEF ChangeStep, Reserve, ReserveReturns, WriteChange, CheckChange, PublishChange, CheckedOut,
         PlanChanged, Undone, CheckpointCommitted, CheckpointReturns, Reread, ConvergeChange
<1>2. CASE UNCHANGED tool
  BY <1>2 DEF T
<1>3. CASE \/ \E t \in Task : Grant(t) \/ Refuse(t) \/ FailOperation(t)
           \/ \E o \in Obj : ReleaseReturns(o)
           \/ \E replaced \in BOOLEAN : Revoke(replaced)
           \/ \E c \in Call : Guard(c)
           \/ EndTurn \/ GraceEnds \/ (\E p \in Process : Restart(p))
           \/ UNCHANGED vars
  BY <1>2, <1>3 DEF Grant, Refuse, FailOperation, ReleaseReturns, Revoke, Guard, EndTurn, GraceEnds, Restart,
                    Rest, vars
<1>4. CASE \E c \in Call : CallStep(c)
  BY <1>2, <1>4, CallStepShape
<1>5. CASE RefreshStart \/ RefreshStep
  <2>1. \E r : tool' = [tool EXCEPT ![Refresh] = r] \/ tool' = tool
    <3>1. CASE RestoreFound
      BY <3>1 DEF RestoreFound, Reconcile, Continue, AskRelease, Ask, RefreshFails, RestoredTo
    <3>2. CASE RestoreReturns
      BY <3>2 DEF RestoreReturns, Reconcile, Continue, AskRelease, Ask, RefreshFails, RestoredTo
    <3> QED
      BY <1>5, <3>1, <3>2 DEF RefreshStart, RefreshStep, RestoreStart, RestoreRead, RefreshEnds
  <2> QED
    BY <2>1, Tasks DEF T, Shape, ToolShape
<1> QED
  BY <1>1, <1>3, <1>4, <1>5 DEF Next

\* The tool of Change goes on with what it has, at p.
GoesOnAt(p) == T'.pc = p /\ T'.kind = T.kind /\ T'.revision = T.revision /\ T'.object = T.object
               /\ T'.epoch = T.epoch

LEMMA ChangeGoes ==
  ASSUME Shape
  PROVE  /\ T' = tool'[Change] /\ DOMAIN io = Task
         /\ ChangeEnds => T'.pc = "idle"
         /\ \A p : tool' = [tool EXCEPT ![Change].pc = p] => GoesOnAt(p) /\ T'.seen = T.seen
         /\ \A p, s : tool' = [tool EXCEPT ![Change].pc = p, ![Change].seen = s] => GoesOnAt(p) /\ T'.seen = s
         /\ \A p, e : tool' = [tool EXCEPT ![Change].pc = p, ![Change].evidence = e] => GoesOnAt(p) /\ T'.seen = T.seen
         /\ \A p, s, b, n : tool' = [tool EXCEPT ![Change].pc = p, ![Change].seen = s,
                                                 ![Change].release = b, ![Change].tries = n] => GoesOnAt(p)
         /\ \A p, s, b : tool' = [tool EXCEPT ![Change].pc = p, ![Change].seen = s,
                                              ![Change].release = b] => GoesOnAt(p)
<1>0. T' = tool'[Change] /\ T = tool[Change] /\ T \in AnyTool /\ tool \in [Slot -> AnyTool] /\ Change \in Slot
      /\ DOMAIN io = Task
  BY ChangeOK, Tasks DEF T, Shape, IoShape
<1>1. ChangeEnds => T'.pc = "idle"
  BY <1>0 DEF ChangeEnds, NewTool
<1>2. ASSUME NEW p, tool' = [tool EXCEPT ![Change].pc = p] PROVE GoesOnAt(p) /\ T'.seen = T.seen
  BY <1>0, <1>2 DEF AnyTool, GoesOnAt
<1>3. ASSUME NEW p, NEW s, tool' = [tool EXCEPT ![Change].pc = p, ![Change].seen = s]
      PROVE  GoesOnAt(p) /\ T'.seen = s
  BY <1>0, <1>3 DEF AnyTool, GoesOnAt
<1>4. ASSUME NEW p, NEW e, tool' = [tool EXCEPT ![Change].pc = p, ![Change].evidence = e]
      PROVE  GoesOnAt(p) /\ T'.seen = T.seen
  BY <1>0, <1>4 DEF AnyTool, GoesOnAt
<1>5. ASSUME NEW p, NEW s, NEW b, NEW n,
             tool' = [tool EXCEPT ![Change].pc = p, ![Change].seen = s, ![Change].release = b, ![Change].tries = n]
      PROVE  GoesOnAt(p)
  BY <1>0, <1>5 DEF AnyTool, GoesOnAt
<1>6. ASSUME NEW p, NEW s, NEW b,
             tool' = [tool EXCEPT ![Change].pc = p, ![Change].seen = s, ![Change].release = b]
      PROVE  GoesOnAt(p)
  BY <1>0, <1>6 DEF AnyTool, GoesOnAt
<1> QED
  BY <1>0, <1>1, <1>2, <1>3, <1>4, <1>5, <1>6

\* How the tool of Change goes on; it decides to publish under its own epoch.
LEMMA ChangeOnward ==
  ASSUME Shape, ChangeStep
  PROVE  \/ T'.pc = "idle"
         \/ /\ T'.epoch = T.epoch /\ UNCHANGED epoch
            /\ \/ T.pc \in Early /\ T'.pc \in Early
               \/ T.pc = "written" /\ T.epoch = epoch /\ T'.pc = "publish"
               \/ T'.pc \notin Early \cup {"publish"}
<1> USE Tasks
<1>0. T' = tool'[Change] /\ T = tool[Change] /\ T \in AnyTool /\ tool \in [Slot -> AnyTool] /\ Change \in Slot
  BY ChangeOK DEF T
<1>1. CASE Reserve \/ ReserveReturns
  BY <1>1, ChangeGoes DEF Reserve, ReserveReturns, GoesOnAt, Early
<1>2. ASSUME Abandon, UNCHANGED epoch PROVE T'.pc = "idle" \/ (T'.epoch = T.epoch /\ T'.pc = "undoing")
  BY <1>2, ChangeGoes DEF Abandon, GoesOnAt
<1>3. CASE WriteChange \/ CheckChange \/ PublishChange \/ PlanChanged \/ Undone \/ CheckedOut
  <2>1. CASE WriteChange
    BY <1>2, <2>1, ChangeGoes DEF WriteChange, GoesOnAt, Early
  <2>2. CASE CheckChange
    BY <1>2, <2>2, ChangeGoes DEF CheckChange, GoesOnAt, Early
  <2>3. CASE PublishChange
    <3>1. UNCHANGED epoch /\ (Abandon \/ tool' = [tool EXCEPT ![Change].pc = "published"])
      BY <2>3 DEF PublishChange
    <3>2. tool' = [tool EXCEPT ![Change].pc = "published"] => T'.epoch = T.epoch /\ T'.pc = "published"
      BY ChangeGoes DEF GoesOnAt
    <3> QED
      BY <1>2, <3>1, <3>2 DEF Early
  <2>4. CASE PlanChanged \/ Undone \/ CheckedOut
    BY <1>2, <2>4, ChangeGoes DEF PlanChanged, Undone, CheckedOut, Early
  <2> QED
    BY <1>3, <2>1, <2>2, <2>3, <2>4
<1>4. ASSUME NEW x, NEW b, AskCheckpoint(x, b) PROVE T'.epoch = T.epoch /\ T'.pc = "closing"
  BY <1>4, ChangeGoes DEF AskCheckpoint, GoesOnAt
<1>5. ASSUME NEW x, Close(x) PROVE T'.pc = "idle" \/ (T'.epoch = T.epoch /\ T'.pc = "converging")
  <2>1. ASSUME NEW o, tool' = [tool EXCEPT ![Change].pc = "converging", ![Change].object = o, ![Change].tries = 1]
        PROVE  T'.epoch = T.epoch /\ T'.pc = "converging"
    BY <1>0, <2>1 DEF AnyTool
  <2> QED
    BY <1>5, <2>1, ChangeGoes DEF Close
<1>6. CASE CheckpointCommitted \/ CheckpointReturns
  <2>1. UNCHANGED epoch
    BY <1>6 DEF CheckpointCommitted, CheckpointReturns
  <2>2. \/ \E x, b : AskCheckpoint(x, b)
        \/ \E x : Close(x)
        \/ tool' = [tool EXCEPT ![Change].pc = "reread"] \/ ChangeEnds
    BY <1>6 DEF CheckpointCommitted, CheckpointReturns
  <2>3. tool' = [tool EXCEPT ![Change].pc = "reread"] => T'.epoch = T.epoch /\ T'.pc = "reread"
    BY ChangeGoes DEF GoesOnAt
  <2>4. ChangeEnds => T'.pc = "idle"
    BY ChangeGoes
  <2> QED
    BY <1>4, <1>5, <2>1, <2>2, <2>3, <2>4 DEF Early
<1>7. CASE Reread
  <2>1. UNCHANGED epoch
    BY <1>7 DEF Reread
  <2>2. \/ \E x, b : AskCheckpoint(x, b)
        \/ \E x : Close(x)
        \/ \E x, b : tool' = [tool EXCEPT ![Change].pc = "closingRelease", ![Change].seen = x, ![Change].release = b]
        \/ ChangeEnds
    BY <1>7 DEF Reread
  <2>3. ASSUME NEW x, NEW b,
               tool' = [tool EXCEPT ![Change].pc = "closingRelease", ![Change].seen = x, ![Change].release = b]
        PROVE  T'.epoch = T.epoch /\ T'.pc = "closingRelease"
    BY <1>0, <2>3 DEF AnyTool
  <2>4. ChangeEnds => T'.pc = "idle"
    BY ChangeGoes
  <2> QED
    BY <1>4, <1>5, <2>1, <2>2, <2>3, <2>4 DEF Early
<1>8. CASE ConvergeChange
  <2>1. tool' = [tool EXCEPT ![Change].tries = 2] => T'.epoch = T.epoch /\ T'.pc = T.pc
    BY <1>0 DEF AnyTool
  <2> QED
    BY <1>8, <2>1, ChangeGoes DEF ConvergeChange, Early
<1> QED
  BY <1>1, <1>3, <1>6, <1>7, <1>8 DEF ChangeStep

\* Consuming an authorization starts the tool, if it is the current one.
LEMMA ConsumeMoves ==
  ASSUME Shape, NEW kind \in Kinds, Consume(kind)
  PROVE  \/ T' = T
         \/ /\ T'.seen = NoSnapshot /\ T'.kind = kind /\ T'.epoch = epoch'
            /\ T'.pc = IF kind \in {"checkpoint", "complete"} THEN "change" ELSE "consumed"
<1> DEFINE p == IF kind \in {"checkpoint", "complete"} THEN "change" ELSE "consumed"
           o == IF kind \in {"checkpoint", "complete"} THEN leases ELSE NoObj
           e == epoch'
           n == [NewTool EXCEPT !.pc = p, !.kind = kind, !.epoch = e, !.revision = graph.revision, !.object = o]
<1>1. tool' = [tool EXCEPT ![Change] = n] \/ tool' = tool
  BY DEF Consume
<1> HIDE DEF p, o, e
<1>2. n.seen = NoSnapshot /\ n.kind = kind /\ n.pc = p /\ n.epoch = e
  BY DEF NewTool
<1> HIDE DEF n
<1>3. T' = n \/ T' = T
  BY <1>1, ChangeOK, Tasks DEF T
<1> QED
  BY <1>2, <1>3 DEF p, e

\* How authority moves: it ends with its epoch, and is shown by the turn's end.
LEMMA AuthorityMoves ==
  ASSUME Shape, [Next]_vars, ~Crash
  PROVE  /\ epoch \in Int /\ epoch' \in {epoch, epoch + 1}
         /\ epoch' # epoch => auth' = NoAuth
         /\ auth'.shown => auth' = auth \/ EndTurn
         /\ \/ auth' = auth \/ auth' = NoAuth
            \/ auth # NoAuth /\ auth'.revision = auth.revision
            \/ RefreshEnds /\ auth'.revision = R.revision
<1> USE Tasks
<1>0. epoch \in Int /\ auth \in AnyAuth /\ ~NoAuth.shown
  BY DEF Shape, MemoryShape, NoAuth
<1>1. CASE \/ \E replaced \in BOOLEAN : Revoke(replaced)
           \/ \E c \in Call : Guard(c)
           \/ \E kind \in Kinds : Consume(kind)
           \/ CheckedOut
  BY <1>0, <1>1 DEF Revoke, Guard, Consume, CheckedOut, EndEpoch
<1>2. CASE \/ \E t \in Task : Grant(t) \/ Refuse(t) \/ FailOperation(t)
           \/ \E o \in Obj : ReleaseReturns(o)
           \/ GraceEnds \/ (\E p \in Process : Restart(p)) \/ UNCHANGED vars
  BY <1>0, <1>2 DEF Grant, Refuse, FailOperation, ReleaseReturns, GraceEnds, Restart, Rest, Memory, vars
<1>3. CASE \E c \in Call : CallStep(c)
  BY <1>0, <1>3, CallStepShape
<1>4. CASE RefreshStart \/ RestoreStart \/ RestoreRead \/ RestoreFound \/ RestoreReturns
  BY <1>0, <1>4 DEF RefreshStart, RestoreStart, RestoreRead, RestoreFound, RestoreReturns, OthersR
<1>5. CASE RefreshEnds
  <2> DEFINE receipt == [epoch |-> epoch, revision |-> R.revision, shown |-> FALSE]
  <2>1. receipt.revision = R.revision /\ ~receipt.shown
    OBVIOUS
  <2>2. epoch' = epoch /\ (auth' = receipt \/ auth' = auth)
    BY <1>5 DEF RefreshEnds
  <2> HIDE DEF receipt
  <2> QED
    BY <1>0, <1>5, <2>1, <2>2
<1>6. CASE EndTurn
  BY <1>0, <1>6 DEF EndTurn, AnyAuth
<1>7. CASE ChangeStep /\ ~CheckedOut
  BY <1>0, <1>7 DEF ChangeStep, Reserve, ReserveReturns, WriteChange, CheckChange, PublishChange,
                PlanChanged, Undone, CheckpointCommitted, CheckpointReturns, Reread, ConvergeChange
<1> QED
  BY <1>1, <1>2, <1>3, <1>4, <1>5, <1>6, <1>7 DEF Next, RefreshStep

\* Every step keeps what a call is asked for, or what it is based on.
LEMMA CallsKept ==
  ASSUME Shape, [Next]_vars, NEW d \in Call
  PROVE  /\ Active(d)' => \/ Active(d) /\ call'[d].basis = call[d].basis
                          \/ Guard(d) /\ AttemptOf(d)' = 0 
         /\ Unrecorded(d)' => \/ Unrecorded(d)
                              \/ Grant(d) /\ io[d].op = "begin" /\ call'[d].basis = call[d].basis
         /\ io'[d].op = "begin" => (io'[d] = io[d] /\ call'[d].basis = call[d].basis) \/ Execute(d)
<1>0. DOMAIN io = Task /\ d \in Task
  BY Tasks DEF Shape, IoShape
<1>1. ASSUME NEW t \in Task, NEW v, UNCHANGED <<call>>, io' = [io EXCEPT ![t] = v], v.op = "done", Asked(t),
             v.ok => Grant(t)
      PROVE  /\ Active(d)' => Active(d) /\ call'[d].basis = call[d].basis
             /\ Unrecorded(d)' => \/ Unrecorded(d)
                                  \/ Grant(d) /\ io[d].op = "begin" /\ call'[d].basis = call[d].basis
             /\ io'[d].op = "begin" => io'[d] = io[d] /\ call'[d].basis = call[d].basis
  <2>1. Active(d)' => Active(d) /\ call'[d].basis = call[d].basis
    BY <1>1 DEF Active
  <2>2. CASE t # d
    <3>1. io'[d] = io[d]
      BY <1>0, <1>1, <2>2
    <3> QED
      BY <1>1, <2>1, <3>1 DEF Unrecorded, AttemptOf, Active
  <2>3. CASE t = d
    <3>1. io'[d] = v
      BY <1>0, <1>1, <2>3
    <3>2. io[d].op \notin {"none", "done"}
      BY <1>1, <2>3 DEF Asked
    <3>3. CASE v.ok /\ call[d].pc = "begin"
      <4>1. io[d].op = "begin"
        BY <3>2, <3>3 DEF Shape, Protocol, CallAsks, OpOf
      <4> QED
        BY <1>1, <2>1, <2>3, <3>1, <3>3, <4>1
    <3>4. CASE ~(v.ok /\ call[d].pc = "begin")
      <4>1. AttemptOf(d)' = AttemptOf(d)
        BY <1>1, <3>1, <3>2, <3>4 DEF AttemptOf
      <4> QED
        BY <1>1, <2>1, <3>1, <4>1 DEF Unrecorded, Active
    <3> QED
      BY <3>3, <3>4
  <2> QED
    BY <2>2, <2>3
<1>3. CASE \E t \in Task : Grant(t)
  <2>1. PICK t \in Task : Grant(t)
    BY <1>3
  <2> DEFINE v == [op |-> "done", of |-> io[t].op, ok |-> TRUE, snapshot |-> Snapshot']
  <2>2. io' = [io EXCEPT ![t] = v] /\ v.op = "done" /\ Asked(t) /\ UNCHANGED call
    BY <2>1 DEF Grant, Rest
  <2> HIDE DEF v
  <2> QED
    BY <1>1, <2>1, <2>2
<1>4. CASE \E t \in Task : Refuse(t) \/ FailOperation(t)
  <2>1. PICK t \in Task : Refuse(t) \/ FailOperation(t)
    BY <1>4
  <2> DEFINE v == [op |-> "done", of |-> io[t].op, ok |-> FALSE]
  <2>2. io' = [io EXCEPT ![t] = v] /\ v.op = "done" /\ ~v.ok /\ Asked(t) /\ UNCHANGED call
    BY <2>1 DEF Refuse, FailOperation, Rest
  <2> HIDE DEF v
  <2> QED
    BY <1>1, <2>2
<1>5. CASE \E c \in Call : CallStep(c)
  <2>1. PICK c \in Call : CallStep(c)
    BY <1>5
  <2>2. PICK r : Move(c, r)
    BY <2>1, CallStepShape
  <2>3. CASE d # c
    <3>1. call'[d] = call[d] /\ io'[d] = io[d]
      BY <2>1, <2>2, <2>3, CallRequests, Tasks DEF Move, Shape, CallShape, OnlyAsks
    <3> QED
      BY <3>1 DEF Active, Unrecorded, AttemptOf
  <2>4. CASE d = c
    <3>1. call'[d] = r
      BY <2>2, <2>4 DEF Move, Shape, CallShape
    <3>2. r.pc = "new" \/ Kept(d, r)
      BY <2>2, <2>4, NewOK DEF Move
    <3>3. Active(d)' => Active(d) /\ call'[d].basis = call[d].basis /\ AttemptOf(d)' = AttemptOf(d)
                        /\ (call'[d].pc \notin Settled => call[d].pc \notin Settled)
      BY <3>1, <3>2 DEF Kept, Active, AttemptOf
    <3>4. io'[d].op = "begin" => io'[d] = io[d] \/ Execute(d)
      BY <2>1, <2>4, CallAsksFor
    <3>5. io'[d].op = "begin" => Active(d)'
      BY <2>1, CallStepShape DEF Shape, Protocol, CallAsks, OpOf, Active
    <3> QED
      BY <3>3, <3>4, <3>5 DEF Unrecorded
  <2> QED
    BY <2>3, <2>4
<1>6. CASE \E c \in Call : Guard(c)
  <2>1. PICK c \in Call : Guard(c)
    BY <1>6
  <2>2. PICK r \in AnyCall : /\ call' = [Aborted EXCEPT ![c] = r] /\ r.attempt = 0
                             /\ r = NewCall \/ r.pc = "prepared"
    BY <2>1, GuardShape
  <2>3. io' = io /\ call[c].pc = "new"
    BY <2>1 DEF Guard
  <2>4. CASE d # c
    <3>1. call'[d] = Aborted[d]
      BY <2>2, <2>4, AbortedFacts DEF Shape
    <3> QED
      BY <2>3, <3>1, AbortedFacts DEF Shape, Active, Unrecorded, AttemptOf
  <2>5. CASE d = c
    <3>1. call'[d] = r /\ AttemptOf(d)' = 0 /\ io[d].op # "begin"
      BY <2>2, <2>3, <2>5, AbortedFacts, NewOK DEF Shape, AttemptOf, Protocol, CallAsks, OpOf
    <3> QED
      BY <2>1, <2>3, <2>5, <3>1 DEF Unrecorded
  <2> QED
    BY <2>4, <2>5
<1>7. CASE Crash
  <2>1. call'[d] = NewCall /\ io'[d] = None
    BY <1>0, <1>7 DEF Crash, NoMemory
  <2> QED
    BY <2>1, NewOK DEF Active, Unrecorded, None
<1>8. CASE Beside
  <2>1. io'[d] = io[d] /\ call'[d].pc = call[d].pc /\ call'[d].basis = call[d].basis /\ call'[d].attempt = call[d].attempt
    BY <1>8, AbortedFacts DEF Beside, Shape
  <2> QED
    BY <2>1 DEF Active, Unrecorded, AttemptOf
<1> QED
  BY <1>3, <1>4, <1>5, <1>6, <1>7, <1>8, StepKinds

LEMMA GraphStep ==
  ASSUME ~Overlap, Shape, FileInv, Attempts, GraphInv, [Next]_vars
  PROVE  GraphInv'
<1>0. generation \in Nat
  BY DEF Shape, FileShape
<1>1. /\ auth'.shown => \A c \in Call : ~Active(c)'
      /\ T'.pc # "idle" => T'.epoch <= epoch'
      /\ Sure' => \A c \in Call : ~Active(c)'
  <2>1. CASE Crash
    <3>1. T'.pc = "idle" /\ auth' = NoAuth
      BY <2>1, Tasks DEF Crash, NoMemory, T, NewTool
    <3> QED
      BY <3>1 DEF Sure, Early, NoAuth
  <2>2. CASE ~Crash
    <3>0. /\ T.epoch \in Int /\ epoch \in Int /\ epoch' \in {epoch, epoch + 1} /\ ~NoAuth.shown
          /\ auth'.shown => auth' = auth \/ EndTurn
      BY <2>2, ChangeOK, AuthorityMoves DEF NoAuth
    <3>1. ASSUME NEW c \in Call, Active(c)'
          PROVE  Active(c) \/ (epoch' = epoch + 1 /\ auth' = NoAuth /\ T.pc # "publish" /\ T' = T)
      <4>1. Guard(c) => epoch' = epoch + 1 /\ auth' = NoAuth /\ T.pc # "publish" /\ T' = T
        BY DEF Guard, EndEpoch, T
      <4> QED
        BY <3>1, <4>1, CallsKept
    <3>2. auth'.shown => \A c \in Call : ~Active(c)'
      BY <3>0, <3>1 DEF GraphInv, EndTurn
    <3>3. CASE T' = T
      BY <3>0, <3>1, <3>2, <3>3 DEF GraphInv, Sure, Early
    <3>4. CASE ChangeStep
      <4>1. T.pc # "idle"
        BY <3>4 DEF ChangeStep, Reserve, ReserveReturns, WriteChange, CheckChange, PublishChange, CheckedOut, PlanChanged,
               Undone, CheckpointCommitted, CheckpointReturns, Reread, ConvergeChange
      <4>2. T'.pc = "idle" => ~Sure'
        BY DEF Sure, Early
      <4>3. T'.pc # "idle" => T'.epoch = T.epoch /\ epoch' = epoch /\ (Sure' => Sure)
        BY <3>4, ChangeOnward DEF Sure, Early
      <4> QED
        BY <3>0, <3>1, <3>2, <4>1, <4>2, <4>3 DEF GraphInv
    <3>5. CASE T' # T /\ \E kind \in Kinds : Consume(kind)
      <4>1. auth.shown /\ T'.epoch = epoch'
        BY <3>5, ConsumeMoves DEF Consume
      <4> QED
        BY <3>0, <3>1, <3>2, <3>5, <4>1 DEF GraphInv
    <3> QED
      BY <2>2, <3>3, <3>4, <3>5, ChangeToolMoves
  <2> QED
    BY <2>1, <2>2
<1>2. ASSUME NEW d \in Call, Active(d) \/ io[d].op = "begin" PROVE ~PublishChange
  <2>1. Active(d)
    BY <1>2 DEF Active, Shape, Protocol, CallAsks, OpOf
  <2> QED
    BY <2>1 DEF GraphInv, Sure, PublishChange
<1>3. ASSUME NEW c \in Call, call[c].pc = "publish" PROVE Unrecorded(c) /\ E!Held /\ lease.dirty
  <2>1. Unrecorded(c)
    BY <1>3 DEF Unrecorded, Attempts, Settled, Active
  <2>2. E!Held /\ lease.pending # 0
    BY <2>1, UnrecordedIsPending DEF Unrecorded
  <2> QED
    BY <2>1, <2>2 DEF FileInv
<1>4. ASSUME NEW d \in Call, io'[d].op = "begin"
      PROVE  /\ io'[d].claim.generation <= generation'
             /\ io'[d].claim.generation = generation' =>
                  (E!Held' => ~lease'.dirty) /\ graph'.revision = call'[d].basis.revision
  <2>1. CASE Execute(d)
    <3>1. Revalidated(d)
      <4>1. ~Revalidated(d) => io' = io /\ OpOf(d) = "none"
        BY <2>1 DEF Execute, Shape, Protocol, CallAsks
      <4> QED
        BY <1>4, <4>1 DEF OpOf
    <3>2. io' = [io EXCEPT ![d] = [op |-> "begin", claim |-> Claim(leases)]] /\ DOMAIN io = Task
      BY <2>1, <3>1 DEF Execute, Shape, IoShape
    <3>3. io'[d].claim = Claim(leases)
      BY <3>2, Tasks
    <3>4. /\ Claim(leases).generation = generation /\ ~lease.dirty
          /\ graph.revision = call[d].basis.revision
      BY <3>1 DEF Revalidated, E!AssertClaim, Current
    <3>5. UNCHANGED <<generation, lease, graph>> /\ call'[d].basis = call[d].basis
      BY <2>1, <3>1 DEF Execute, File, Shape, CallShape, AnyCall
    <3> QED
      BY <1>0, <3>3, <3>4, <3>5
  <2>2. CASE io'[d] = io[d] /\ call'[d].basis = call[d].basis
    <3>1. /\ io[d].claim.generation <= generation
          /\ io[d].claim.generation = generation =>
               (E!Held => ~lease.dirty) /\ graph.revision = call[d].basis.revision
      BY <1>4, <2>2 DEF GraphInv
    <3>2. io[d].claim.generation \in Nat
      BY <1>4, <2>2, Tasks DEF Shape, IoShape, IoOK, Ops, AnyClaim
    <3>3. CASE \E t \in Task : Grant(t)
      <4>1. PICK t \in Task : Grant(t)
        BY <3>3
      <4>2. (generation' = generation /\ lease' = lease) \/ generation' = generation + 1
        BY <4>1, GrantCommits DEF File
      <4>3. graph' = graph
        BY <4>1 DEF Grant, Rest
      <4> QED
        BY <1>0, <2>2, <3>1, <3>2, <4>2, <4>3 DEF E!Held
    <3>4. CASE ~(\E t \in Task : Grant(t))
      <4>1. generation' = generation /\ lease' = lease
        BY <3>4, StepKinds, CallStepShape DEF Refuse, FailOperation, Guard, Crash, E!Crash, Beside, File
      <4>2. io[d].claim.generation = generation => graph'.revision = graph.revision
        BY <1>2, <1>3, <1>4, <2>2, <3>1, RevisionMoves
      <4> QED
        BY <2>2, <3>1, <4>1, <4>2 DEF E!Held
    <3> QED
      BY <3>3, <3>4
  <2> QED
    BY <1>4, <2>1, <2>2, CallsKept
<1>5. ASSUME NEW d \in Call, Unrecorded(d)' PROVE graph'.revision = call'[d].basis.revision
  <2>1. CASE Grant(d) /\ io[d].op = "begin" /\ call'[d].basis = call[d].basis
    <3>1. io[d].claim.generation = generation /\ graph' = graph
      BY <2>1, Tasks, GrantCommits DEF Grant, Rest
    <3> QED
      BY <2>1, <3>1 DEF GraphInv
  <2>2. CASE Unrecorded(d)
    <3>1. Active(d)' /\ Active(d) /\ AttemptOf(d)' # 0
      BY <1>5, <2>2 DEF Unrecorded
    <3>2. call'[d].basis = call[d].basis
      BY <3>1, CallsKept
    <3>3. graph'.revision = graph.revision
      <4>1. ASSUME NEW c \in Call, call[c].pc = "publish", call'[c].pc = "receipted" PROVE FALSE
        <5>1. c # d
          BY <1>5, <4>1 DEF Unrecorded, Settled
        <5>2. lease.pending = AttemptOf(c) /\ lease.pending = AttemptOf(d) /\ AttemptOf(c) # 0
          BY <1>3, <2>2, <4>1, UnrecordedIsPending DEF Unrecorded
        <5> QED
          BY <5>1, <5>2 DEF Attempts
      <4> QED
        BY <1>2, <3>1, <4>1, RevisionMoves
    <3> QED
      BY <2>2, <3>2, <3>3 DEF GraphInv
  <2> QED
    BY <1>5, <2>1, <2>2, CallsKept
<1> QED
  BY <1>1, <1>4, <1>5 DEF GraphInv

LEMMA InitGraph ==
  ASSUME Init
  PROVE  GraphInv
<1>1. \A c \in Call : ~Active(c) /\ io[c].op = "none"
  BY NewOK, Tasks DEF Init, Active, None
<1>2. T.pc = "idle"
  BY Tasks DEF Init, T, NewTool
<1> QED
  BY <1>1, <1>2 DEF GraphInv, Unrecorded

\* As long as no call is guarded between the last check of a change and its rename,
\* a body runs on the graph revision its authority was issued for: no receipt, plan
\* change or checkpoint is published between its authorization and its end
\* (mutationBasisGuard, revalidatePreparedDispatch).
THEOREM BodyOnItsGraph == ~Overlap /\ Spec => []BodyRunsOnItsGraph
<1> SUFFICES ASSUME ~Overlap PROVE Spec => []BodyRunsOnItsGraph
  OBVIOUS
<1>1. Init => Shape /\ FileInv /\ Attempts /\ GraphInv
  BY InitShape, InitAttempts, InitGraph
<1>2. Shape /\ FileInv /\ Attempts /\ GraphInv /\ [Next]_vars => Shape' /\ FileInv' /\ Attempts' /\ GraphInv'
  BY ShapeStep, AttemptsStep, GraphStep
<1>3. Attempts /\ GraphInv => BodyRunsOnItsGraph
  BY DEF Attempts, GraphInv, BodyRunsOnItsGraph, Unrecorded, Active, AttemptOf, Settled
<1> QED
  BY <1>1, <1>2, <1>3, PTL DEF Spec
-----------------------------------------------------------------------------
(* The fence of a plan change.  Every snapshot and every claim in memory   *)
(* is of a generation that the file has had, and what the file says now    *)
(* was written by the grant of its generation.  So as long as no other     *)
(* snapshot or claim is as new as the reservation of a plan tool (Mine),   *)
(* no operation of another task is accepted and the fence stays.           *)

\* What a task asks for, or got, is of generation g or older.
RequestOlder(r, g) ==
  /\ r.op \in Ops \ {"checkout"} => r.claim.generation <= g
  /\ r.op = "done" /\ r.ok => r.snapshot.generation <= g
Older(g) ==
  /\ \A o \in Obj : obj[o].durable.generation <= g
  /\ \A t \in Task \ {Change} : RequestOlder(io[t], g)

LEMMA NoneIsOlder ==
  ASSUME NEW g
  PROVE  RequestOlder(None, g)
BY DEF RequestOlder, None, Ops

LEMMA ClaimIsOlder ==
  ASSUME NEW g \in Nat, NEW d \in AnySnapshot, d.generation <= g, NEW op \in Ops
  PROVE  RequestOlder([op |-> op, claim |-> ClaimOf(d)], g)
BY DEF RequestOlder, ClaimOf, Ops

LEMMA ScheduledOlder ==
  ASSUME MemoryShape, NEW g \in Nat, NEW current \in SomeObj, NEW o \in Obj, NEW objects \in [Obj -> AnyObject],
         NEW requests, DOMAIN requests = Task, \A t \in Task : IoOK(requests[t]),
         objects[o].durable.lease # NoLease, Schedule(current, o, objects, requests),
         \A x \in Obj : objects[x].durable.generation <= g,
         \A t \in Task \ {Change} : RequestOlder(requests[t], g)
  PROVE  Older(g)' /\ io'[Change] = requests[Change]
<1>1. /\ \A x \in Obj : obj'[x].durable = objects[x].durable
      /\ \A t \in Task : t # o => io'[t] = requests[t]
      /\ io'[o] \in {requests[o], ReleaseRequest(objects[o])}
  BY ScheduleFacts
<1>2. RequestOlder(ReleaseRequest(objects[o]), g)
  <2>1. objects[o].durable \in AnySnapshot
    BY DEF AnyObject
  <2> QED
    BY <2>1, NoneIsOlder, ClaimIsOlder DEF ReleaseRequest, Ops
<1> QED
  BY <1>1, <1>2, Tasks DEF Older

LEMMA CallOlder ==
  ASSUME Shape, NEW g \in Nat, Older(g), NEW c \in Call, CallStep(c)
  PROVE  Older(g)' /\ io'[Change] = io[Change]
<1> USE Tasks
<1>1. /\ DOMAIN io = Task /\ obj \in [Obj -> AnyObject] /\ leases \in SomeObj /\ MemoryShape
      /\ \A x \in Obj : obj[x].durable.generation <= g
      /\ \A t \in Task : IoOK(io[t])
      /\ \A t \in Task \ {Change} : RequestOlder(io[t], g)
  BY DEF Shape, MemoryShape, ObjShape, IoShape, Older
<1> DEFINE freed == [io EXCEPT ![c] = None]
<1>2. /\ DOMAIN freed = Task /\ freed[Change] = io[Change]
      /\ \A t \in Task : IoOK(freed[t])
      /\ \A t \in Task \ {Change} : RequestOlder(freed[t], g)
  BY <1>1, NewOK, NoneIsOlder
<1> HIDE DEF freed
<1>3. ASSUME UNCHANGED obj, io' = io \/ io' = freed
      PROVE  Older(g)' /\ io'[Change] = io[Change]
  BY <1>1, <1>2, <1>3 DEF Older
<1>4. ASSUME NEW objects \in [Obj -> AnyObject], \A x \in Obj : objects[x].durable.generation <= g,
             \/ obj' = objects /\ io' = freed
             \/ \E o \in Obj : /\ objects[o].durable.lease # NoLease
                               /\ Schedule(leases, o, objects, freed) \/ Schedule(leases, o, objects, io)
      PROVE  Older(g)' /\ io'[Change] = io[Change]
  <2>1. CASE obj' = objects /\ io' = freed
    BY <1>2, <1>4, <2>1 DEF Older
  <2>2. ASSUME NEW o \in Obj, objects[o].durable.lease # NoLease,
               Schedule(leases, o, objects, freed) \/ Schedule(leases, o, objects, io)
        PROVE  Older(g)' /\ io'[Change] = io[Change]
    BY <1>1, <1>2, <1>4, <2>2, ScheduledOlder
  <2> QED
    BY <1>4, <2>1, <2>2
<1>5. CASE Execute(c)
  <2>1. CASE UNCHANGED <<io, obj>>
    BY <1>3, <2>1
  <2>2. CASE leases # NoObj /\ io' = [io EXCEPT ![c] = [op |-> "begin", claim |-> Claim(leases)]] /\ UNCHANGED obj
    <3>1. leases \in Obj /\ obj[leases].durable \in AnySnapshot /\ obj[leases].durable.generation <= g
      BY <1>1, <2>2 DEF SomeObj, AnyObject
    <3>2. RequestOlder([op |-> "begin", claim |-> Claim(leases)], g)
      BY <3>1, ClaimIsOlder DEF Claim, Ops
    <3> QED
      BY <1>1, <2>2, <3>2 DEF Older
  <2> QED
    BY <1>5, <2>1, <2>2 DEF Execute, Revalidated
<1>6. CASE BeginReturns(c)
  <2> DEFINE o == call[c].object
             s == io[c].snapshot
             n == [obj[o] EXCEPT !.durable = s, !.origin = s.lease.pending, !.dirty = TRUE, !.basis = NoAuth]
             dirty == [obj EXCEPT ![o] = n]
  <2>1. o \in Obj /\ Live(o) /\ obj[o] \in AnyObject /\ io[c].op = "done" /\ io[c].of = "begin"
    <3>1. o \in Obj /\ Live(o)
      BY <1>6 DEF BeginReturns, Shape, LiveObjects, LiveCall, Live
    <3>2. io[c].op = "done" /\ io[c].of = "begin"
      BY <1>6 DEF BeginReturns, Shape, Protocol, CallAsks, OpOf, Returned, IoShape, IoOK, Ops
    <3> QED
      BY <1>1, <3>1, <3>2
  <2>2. CASE io[c].ok
    <3>1. s \in AnySnapshot /\ s.lease \in AnyLease /\ s.lease.pending \in Nat /\ s.lease # NoLease
      <4>1. s \in AnySnapshot /\ s.lease # NoLease
        BY <1>1, <2>1, <2>2 DEF IoOK
      <4> QED
        BY <4>1 DEF AnySnapshot, AnyLease
    <3>2. s.generation <= g
      BY <1>1, <2>1, <2>2 DEF RequestOlder
    <3>3. n \in AnyObject /\ n.durable = s
      BY <2>1, <3>1, NewOK DEF AnyObject
    <3>4. \/ obj' = dirty /\ io' = freed
          \/ Schedule(leases, o, dirty, freed)
      BY <1>6, <2>1, <2>2 DEF BeginReturns, Begun, ObjShape, AnyObject, Shape, freed
    <3> HIDE DEF n
    <3>5. dirty \in [Obj -> AnyObject] /\ dirty[o].durable.lease # NoLease
          /\ \A x \in Obj : dirty[x].durable.generation <= g
      BY <1>1, <2>1, <3>1, <3>2, <3>3
    <3> HIDE DEF dirty
    <3> QED
      BY <1>4, <2>1, <3>4, <3>5
  <2>3. CASE ~io[c].ok
    <3>1. \/ obj' = obj /\ io' = freed
          \/ Schedule(leases, o, obj, freed)
      BY <1>6, <2>3 DEF BeginReturns, NotBegun, freed
    <3> QED
      BY <1>1, <1>4, <2>1, <3>1 DEF Live
  <2> QED
    BY <2>2, <2>3
<1>7. CASE MarkReturns(c) \/ Enter(c) \/ Leave(c) \/ Record(c) \/ MakeReceipt(c) \/ WriteReceipt(c) \/ PublishReceipt(c)
  BY <1>3, <1>7 DEF MarkReturns, Enter, Leave, Record, MakeReceipt, WriteReceipt, PublishReceipt, Memory
<1>8. CASE Settle(c)
  <2> DEFINE o == call[c].settling
  <2>1. o \in Obj /\ obj[o].durable \in AnySnapshot /\ obj[o].durable.generation <= g
    BY <1>1, <1>8 DEF Settle, Shape, LiveObjects, LiveCall, Live, AnyObject
  <2>2. SettleRequest(c).op = "settle" /\ SettleRequest(c).claim = ClaimOf(obj[o].durable)
    BY DEF SettleRequest, Claim
  <2>3. RequestOlder(SettleRequest(c), g)
    BY <2>1, <2>2 DEF RequestOlder, ClaimOf
  <2> QED
    BY <1>1, <1>8, <2>3 DEF Settle, Older, Memory
<1>9. CASE SettleReturns(c)
  <2> DEFINE o == call[c].settling
             s == io[c].snapshot
             m == [obj[o] EXCEPT !.revision = @ + 1, !.dirty = FALSE, !.basis = NoAuth, !.origin = 0]
             n == [m EXCEPT !.durable = s]
  <2>1. o \in Obj /\ obj[o] \in AnyObject /\ obj[o].revision \in Int /\ io[c].op = "done"
    BY <1>1, <1>9 DEF SettleReturns, Returned, Shape, LiveObjects, LiveCall, Live, AnyObject
  <2>2. m \in AnyObject /\ m.durable = obj[o].durable
    <3> DEFINE k == obj[o].revision + 1
    <3>1. k \in Int
      BY <2>1
    <3>2. m = [obj[o] EXCEPT !.revision = k, !.dirty = FALSE, !.basis = NoAuth, !.origin = 0]
      BY <2>1 DEF AnyObject
    <3> HIDE DEF k, m
    <3> QED
      BY <2>1, <3>1, <3>2, NewOK DEF AnyObject
  <2>3. io[c].ok => s \in AnySnapshot /\ s.generation <= g
    BY <1>1, <2>1 DEF IoOK, RequestOlder
  <2> HIDE DEF m
  <2>4. io[c].ok => n \in AnyObject /\ n.durable = s
    BY <2>2, <2>3 DEF AnyObject
  <2>5. \/ io' = freed /\ UNCHANGED obj
        \/ io' = freed /\ obj' = [obj EXCEPT ![o] = m]
        \/ io[c].ok /\ s.lease # NoLease /\ io' = freed /\ obj' = [obj EXCEPT ![o] = n]
        \/ io[c].ok /\ s.lease # NoLease /\ Schedule(leases, o, [obj EXCEPT ![o] = n], freed)
    BY <1>9, <2>1 DEF SettleReturns, Shape, ObjShape, AnyObject, m, freed
  <2> HIDE DEF n
  <2>6. \A x \in Obj : [obj EXCEPT ![o] = m][x].durable.generation <= g
    BY <1>1, <2>1, <2>2
  <2>7. [obj EXCEPT ![o] = m] \in [Obj -> AnyObject]
    BY <1>1, <2>2
  <2>8. CASE io[c].ok /\ s.lease # NoLease
    <3>1. /\ [obj EXCEPT ![o] = n] \in [Obj -> AnyObject]
          /\ [obj EXCEPT ![o] = n][o].durable.lease # NoLease
          /\ \A x \in Obj : [obj EXCEPT ![o] = n][x].durable.generation <= g
      BY <1>1, <2>1, <2>3, <2>4, <2>8
    <3> QED
      BY <1>3, <1>4, <2>1, <2>5, <2>6, <2>7, <3>1
  <2>9. CASE ~(io[c].ok /\ s.lease # NoLease)
    BY <1>3, <1>4, <2>5, <2>6, <2>7, <2>9
  <2> QED
    BY <2>8, <2>9
<1>10. CASE Converge(c)
  <2> DEFINE o == call[c].settling
  <2>1. o \in Obj /\ obj[o].durable.lease # NoLease
    BY <1>10 DEF Converge, Shape, LiveObjects, LiveCall, Live
  <2>2. UNCHANGED <<obj, io>> \/ Schedule(leases, o, obj, io)
    BY <1>10 DEF Converge
  <2> QED
    BY <1>1, <1>3, <1>4, <2>1, <2>2
<1> QED
  BY <1>5, <1>6, <1>7, <1>8, <1>9, <1>10 DEF CallStep

\* A refresh that read a fence asks for no more than to take it over.
LEMMA RefreshOlder ==
  ASSUME Shape, NEW g \in Nat, Older(g), RefreshStart \/ RefreshStep,
         R.pc = "read" => R.seen.generation <= g \/ R.seen.lease.basis.node = "fence"
  PROVE  Older(g)' /\ io'[Change] = io[Change]
<1> USE Tasks
<1>1. /\ DOMAIN io = Task /\ obj \in [Obj -> AnyObject] /\ R \in AnyTool /\ R.seen \in AnySnapshot
      /\ \A x \in Obj : obj[x].durable.generation <= g
      /\ \A t \in Task \ {Change} : RequestOlder(io[t], g)
      /\ leases \in SomeObj /\ R.revision \in Int
  BY DEF Shape, MemoryShape, ObjShape, IoShape, Older, ToolShape, R, AnyTool
<1>2. ASSUME NEW v, RequestOlder(v, g), io' = [io EXCEPT ![Refresh] = v],
             \A x \in Obj : obj'[x].durable.generation <= g
      PROVE  Older(g)' /\ io'[Change] = io[Change]
  BY <1>1, <1>2 DEF Older
<1>3. ASSUME UNCHANGED io, \A x \in Obj : obj'[x].durable.generation <= g
      PROVE  Older(g)' /\ io'[Change] = io[Change]
  BY <1>1, <1>3 DEF Older
<1>4. CASE RefreshFails \/ (\E f : RestoredTo(f) /\ UNCHANGED obj)
  BY <1>1, <1>2, <1>4, NoneIsOlder DEF RefreshFails, RestoredTo
<1>5. ASSUME NEW d \in AnySnapshot, d.generation <= g, d.lease # NoLease, NEW x \in BOOLEAN,
             Reconcile(d, x) \/ Continue(d, x)
      PROVE  Older(g)' /\ io'[Change] = io[Change]
  <2>1. ASSUME NEW v, AsksOn(d, x, v) PROVE Older(g)' /\ io'[Change] = io[Change]
    <3>1. RequestOlder(v, g)
      BY <1>5, <2>1 DEF AsksOn, RequestOlder, ClaimOf
    <3> QED
      BY <1>1, <1>2, <2>1, <3>1 DEF AsksOn, Ask
  <2>2. ASSUME NEW o, Restores(d, o) PROVE Older(g)' /\ io'[Change] = io[Change]
    <3> DEFINE n == NewObject(d, R.revision, TRUE)
    <3>1. n.durable = d
      BY <1>1, <1>5, NewObjectOK
    <3>2. obj' = [obj EXCEPT ![o] = n] /\ io' = [io EXCEPT ![Refresh] = None]
      BY <2>2 DEF Restores, RestoredTo
    <3> HIDE DEF n
    <3>3. \A y \in Obj : obj'[y].durable.generation <= g
      BY <1>1, <1>5, <3>1, <3>2
    <3> QED
      BY <1>2, <3>2, <3>3, NoneIsOlder
  <2> QED
    BY <1>4, <1>5, <2>1, <2>2, ReconcileDoes, ContinueDoes
<1>6. CASE RefreshStart \/ RestoreStart \/ RestoreRead
  BY <1>1, <1>3, <1>6 DEF RefreshStart, RestoreStart, RestoreRead
<1>7. CASE RestoreFound
  <2> DEFINE v == [op |-> "checkout", basis |-> R.seen.lease.basis, expected |-> R.seen.generation]
  <2>1. RequestOlder(v, g) /\ Exact \in BOOLEAN
    BY DEF RequestOlder, Ops, Exact
  <2>2. CASE R.seen.lease # NoLease /\ OwnLease(R.seen.lease) /\ Reconcile(R.seen, Exact)
    <3>1. R.seen.generation <= g
      BY <1>7, <2>2 DEF OwnLease, RestoreFound
    <3> QED
      BY <1>1, <1>5, <2>1, <2>2, <3>1
  <2>3. CASE Ask(v, FALSE, "takeover")
    BY <1>1, <1>2, <2>1, <2>3 DEF Ask
  <2> HIDE DEF v
  <2>4. \/ RefreshFails \/ (RestoredTo(Forgotten) /\ UNCHANGED obj)
        \/ R.seen.lease # NoLease /\ OwnLease(R.seen.lease) /\ Reconcile(R.seen, Exact)
        \/ Ask(v, FALSE, "takeover")
    BY <1>7 DEF RestoreFound, v
  <2> QED
    BY <1>4, <2>2, <2>3, <2>4
<1>8. CASE RestoreReturns
  <2> DEFINE d == io[Refresh].snapshot
  <2>1. /\ io[Refresh].op = "done" /\ IoOK(io[Refresh])
        /\ R.pc = "takeover" => io[Refresh].of = "checkout"
    BY <1>8 DEF RestoreReturns, Returned, Shape, IoShape, Protocol, OpOf, IoOK, Ops
  <2>2. io[Refresh].ok => d \in AnySnapshot /\ d.generation <= g /\ (R.pc = "takeover" => d.lease # NoLease)
    BY <1>1, <2>1 DEF IoOK, RequestOlder
  <2>3. Exact \in BOOLEAN /\ R.exact \in BOOLEAN
    BY <1>1 DEF Exact, AnyTool
  <2>4. \/ RefreshFails \/ (RestoredTo(Forgotten) /\ UNCHANGED obj)
        \/ io[Refresh].ok /\ d.lease # NoLease /\ (Reconcile(d, Exact) \/ Continue(d, R.exact))
    BY <1>8, <2>2 DEF RestoreReturns
  <2> QED
    BY <1>4, <1>5, <2>2, <2>3, <2>4
<1>9. CASE RefreshEnds
  <2> DEFINE receipt == [epoch |-> epoch, revision |-> R.revision, shown |-> FALSE]
             n == [obj[leases] EXCEPT !.basis = receipt, !.replaced = FALSE]
  <2>1. UNCHANGED io
    BY <1>9 DEF RefreshEnds
  <2>2. CASE obj' = obj
    BY <1>1, <1>3, <2>1, <2>2
  <2>3. CASE leases # NoObj /\ obj' = [obj EXCEPT ![leases].basis = receipt, ![leases].replaced = FALSE]
    <3> HIDE DEF receipt
    <3>1. leases \in Obj /\ obj[leases] \in AnyObject
      BY <1>1, <2>3 DEF SomeObj
    <3>2. n.durable = obj[leases].durable
      BY <3>1 DEF AnyObject
    <3>3. obj' = [obj EXCEPT ![leases] = n]
      BY <1>1, <2>3, <3>1 DEF AnyObject
    <3> HIDE DEF n
    <3> QED
      BY <1>1, <1>3, <2>1, <3>1, <3>2, <3>3
  <2> QED
    BY <1>9, <2>2, <2>3 DEF RefreshEnds
<1> QED
  BY <1>6, <1>7, <1>8, <1>9 DEF RefreshStep

\* The steps of no tool and no call, but for the grants of the state file.
LEMMA QuietOlder ==
  ASSUME Shape, NEW g \in Nat, Older(g),
         \/ \E o \in Obj : ReleaseReturns(o)
         \/ \E replaced \in BOOLEAN : Revoke(replaced)
         \/ \E c \in Call : Guard(c)
         \/ \E kind \in Kinds : Consume(kind)
         \/ EndTurn \/ GraceEnds \/ (\E p \in Process : Restart(p)) \/ UNCHANGED vars
  PROVE  Older(g)' /\ io'[Change] = io[Change]
<1> USE Tasks
<1>1. /\ DOMAIN io = Task /\ obj \in [Obj -> AnyObject] /\ leases \in SomeObj /\ MemoryShape
      /\ \A x \in Obj : obj[x].durable.generation <= g
      /\ \A t \in Task : IoOK(io[t])
      /\ \A t \in Task \ {Change} : RequestOlder(io[t], g)
      /\ leases # NoObj => leases \in Obj /\ obj[leases].durable.lease # NoLease /\ obj[leases] \in AnyObject
  BY DEF Shape, MemoryShape, ObjShape, IoShape, Older, LiveObjects, Live
<1>2. ASSUME NEW o \in Obj, ReleaseReturns(o) PROVE Older(g)' /\ io'[Change] = io[Change]
  <2>1. io[o].op = "done" /\ IoOK(io[o]) /\ RequestOlder(io[o], g)
    BY <1>1, <1>2 DEF ReleaseReturns, Returned
  <2> DEFINE s == io[o].snapshot
             v == [op |-> "release", claim |-> ClaimOf(s)]
             n == [obj[o] EXCEPT !.durable = s]
  <2>2. io[o].ok => s \in AnySnapshot /\ s.generation <= g
    BY <2>1 DEF IoOK, RequestOlder
  <2>3. io[o].ok => RequestOlder(v, g)
    BY <2>2, ClaimIsOlder DEF Ops
  <2>4. n.durable = s /\ obj[o] \in AnyObject
    BY <1>1 DEF AnyObject
  <2>5. /\ io' = [io EXCEPT ![o] = None] \/ (io[o].ok /\ io' = [io EXCEPT ![o] = v])
        /\ obj' = obj \/ (io[o].ok /\ obj' = [obj EXCEPT ![o] = n])
    BY <1>1, <1>2, <2>1 DEF ReleaseReturns, Finished, IoOK
  <2> HIDE DEF n, v
  <2>6. \A x \in Obj : obj'[x].durable.generation <= g
    BY <1>1, <2>2, <2>4, <2>5
  <2>7. (\A t \in Task \ {Change} : RequestOlder(io'[t], g)) /\ io'[Change] = io[Change]
    BY <1>1, <2>3, <2>5, NoneIsOlder
  <2> QED
    BY <2>6, <2>7 DEF Older
<1>3. ASSUME NEW replaced \in BOOLEAN, Revoke(replaced) PROVE Older(g)' /\ io'[Change] = io[Change]
  <2>1. CASE leases = NoObj
    BY <1>1, <1>3, <2>1 DEF Revoke, Older
  <2>2. CASE leases # NoObj
    <3> DEFINE n == [obj[leases] EXCEPT !.basis = NoAuth, !.replaced = @ \/ replaced, !.release = @ \/ ~replaced]
               cleared == [obj EXCEPT ![leases].basis = NoAuth,
                                      ![leases].replaced = @ \/ replaced,
                                      ![leases].release = @ \/ ~replaced]
    <3>1. (obj[leases].replaced \/ replaced) \in BOOLEAN /\ (obj[leases].release \/ ~replaced) \in BOOLEAN
      OBVIOUS
    <3>2. n \in AnyObject /\ n.durable = obj[leases].durable
      BY <1>1, <2>2, <3>1, NewOK DEF AnyObject
    <3>3. cleared = [obj EXCEPT ![leases] = n]
      BY <1>1, <2>2 DEF AnyObject
    <3>4. \/ obj' = cleared /\ UNCHANGED io
          \/ Schedule(leases, leases, cleared, io)
      BY <1>3, <2>2 DEF Revoke
    <3> HIDE DEF n, cleared
    <3>5. /\ cleared \in [Obj -> AnyObject] /\ cleared[leases].durable.lease # NoLease
          /\ \A x \in Obj : cleared[x].durable.generation <= g
      BY <1>1, <2>2, <3>2, <3>3
    <3>6. CASE obj' = cleared /\ UNCHANGED io
      BY <1>1, <3>5, <3>6 DEF Older
    <3>7. CASE Schedule(leases, leases, cleared, io)
      BY <1>1, <2>2, <3>5, <3>7, ScheduledOlder
    <3> QED
      BY <3>4, <3>6, <3>7
  <2> QED
    BY <2>1, <2>2
<1>4. ASSUME UNCHANGED io, \/ UNCHANGED obj
                           \/ leases # NoObj /\ obj' = [obj EXCEPT ![leases].basis = NoAuth]
      PROVE  Older(g)' /\ io'[Change] = io[Change]
  <2> DEFINE n == [obj[leases] EXCEPT !.basis = NoAuth]
  <2>1. CASE leases # NoObj /\ obj' = [obj EXCEPT ![leases].basis = NoAuth]
    <3>1. n.durable = obj[leases].durable /\ obj' = [obj EXCEPT ![leases] = n]
      BY <1>1, <2>1 DEF AnyObject
    <3> HIDE DEF n
    <3> QED
      BY <1>1, <1>4, <2>1, <3>1 DEF Older
  <2> QED
    BY <1>1, <1>4, <2>1 DEF Older
<1>5. CASE (\E c \in Call : Guard(c)) \/ (\E kind \in Kinds : Consume(kind))
  BY <1>4, <1>5 DEF Guard, Consume
<1>6. CASE EndTurn \/ GraceEnds \/ (\E p \in Process : Restart(p)) \/ UNCHANGED vars
  BY <1>4, <1>6 DEF EndTurn, GraceEnds, Restart, vars, Memory
<1> QED
  BY <1>2, <1>3, <1>5, <1>6

\* The tool of Change holds what the file held when it read or asked.
LEMMA CloseOlder ==
  ASSUME Shape, NEW g \in Nat, Older(g), NEW s \in AnySnapshot, s.generation <= g, Close(s),
         T.object # NoObj, T.seen.generation <= g
  PROVE  Older(g)' /\ RequestOlder(io'[Change], g) /\ tool'[Change].seen.generation <= g
<1> USE Tasks, ChangeOK
<1> DEFINE freed == [io EXCEPT ![Change] = None]
<1>1. /\ DOMAIN io = Task /\ obj \in [Obj -> AnyObject] /\ MemoryShape
      /\ \A x \in Obj : obj[x].durable.generation <= g
      /\ DOMAIN freed = Task /\ (\A t \in Task : IoOK(freed[t])) /\ freed[Change] = None
      /\ \A t \in Task \ {Change} : RequestOlder(freed[t], g)
      /\ RequestOlder(None, g)
  BY NewOK, NoneIsOlder DEF Shape, MemoryShape, ObjShape, IoShape, Older
<1> HIDE DEF freed
<1>2. ChangeEnds => tool'[Change].seen.generation <= g
  BY DEF ChangeEnds, NewTool, NoSnapshot
<1>3. CASE s.lease = NoLease
  <2>1. ChangeEnds /\ io' = freed /\ UNCHANGED obj
    BY <1>3 DEF Close, freed
  <2> QED
    BY <1>1, <1>2, <2>1 DEF Older
<1>4. CASE s.lease # NoLease
  <2> DEFINE k == T.revision + 1
             n == [obj[T.object] EXCEPT !.durable = s, !.revision = k, !.dirty = FALSE, !.basis = NoAuth,
                                        !.origin = 0]
  <2>1. T.object \in Obj /\ obj[T.object] \in AnyObject /\ k \in Int
    BY <1>1 DEF SomeObj
  <2> HIDE DEF k
  <2>2. n \in AnyObject /\ n.durable = s
    BY <2>1, NewOK DEF AnyObject
  <2> HIDE DEF n
  <2>3. PICK o \in Free :
          \/ /\ Schedule(o, o, [obj EXCEPT ![o] = n], freed)
             /\ tool' = [tool EXCEPT ![Change].pc = "converging", ![Change].object = o, ![Change].tries = 1]
          \/ obj' = [obj EXCEPT ![o] = n] /\ io' = freed /\ ChangeEnds
    BY <1>4, <2>1 DEF Close, n, k, freed
  <2> DEFINE kept == [obj EXCEPT ![o] = n]
  <2>4. o \in Obj /\ o \in SomeObj
    BY FreeIsUnused DEF SomeObj
  <2>5. /\ kept \in [Obj -> AnyObject] /\ kept[o].durable.lease # NoLease
        /\ \A x \in Obj : kept[x].durable.generation <= g
    BY <1>1, <1>4, <2>2, <2>4
  <2> HIDE DEF kept
  <2>6. CASE obj' = kept /\ io' = freed /\ ChangeEnds
    BY <1>1, <1>2, <2>5, <2>6 DEF Older
  <2>7. CASE /\ Schedule(o, o, kept, freed)
             /\ tool' = [tool EXCEPT ![Change].pc = "converging", ![Change].object = o, ![Change].tries = 1]
    <3>1. Older(g)' /\ io'[Change] = freed[Change]
      BY <1>1, <2>4, <2>5, <2>7, ScheduledOlder
    <3>2. tool'[Change].seen = T.seen
      BY <2>7 DEF AnyTool
    <3> QED
      BY <1>1, <3>1, <3>2
  <2> QED
    BY <2>3, <2>6, <2>7 DEF kept
<1> QED
  BY <1>3, <1>4

LEMMA ChangeOlder ==
  ASSUME Shape, NEW g \in Nat, Older(g), RequestOlder(io[Change], g), T.seen.generation <= g, generation <= g,
         ChangeStep
  PROVE  Older(g)' /\ RequestOlder(io'[Change], g) /\ tool'[Change].seen.generation <= g
<1> USE Tasks, ChangeOK
<1>1. /\ DOMAIN io = Task /\ obj \in [Obj -> AnyObject] /\ MemoryShape /\ leases \in SomeObj
      /\ \A x \in Obj : obj[x].durable.generation <= g
      /\ \A t \in Task : IoOK(io[t])
      /\ \A t \in Task \ {Change} : RequestOlder(io[t], g)
      /\ RequestOlder(None, g)
      /\ leases # NoObj => leases \in Obj /\ obj[leases].durable.lease # NoLease
  BY NoneIsOlder DEF Shape, MemoryShape, ObjShape, IoShape, Older, LiveObjects, Live
<1>2. ASSUME NEW v, RequestOlder(v, g), io' = io \/ io' = [io EXCEPT ![Change] = v], UNCHANGED obj
      PROVE  Older(g)' /\ RequestOlder(io'[Change], g)
  BY <1>1, <1>2 DEF Older
<1>3. ChangeEnds => tool'[Change].seen.generation <= g
  BY DEF ChangeEnds, NewTool, NoSnapshot
<1>4. ASSUME NEW p, tool' = [tool EXCEPT ![Change].pc = p]
             \/ \E e : tool' = [tool EXCEPT ![Change].pc = p, ![Change].evidence = e]
      PROVE  tool'[Change].seen.generation <= g
  BY <1>4 DEF AnyTool
<1>5. ASSUME NEW s \in AnySnapshot, s.generation <= g, NEW b, AskCheckpoint(s, b), UNCHANGED obj
      PROVE  Older(g)' /\ RequestOlder(io'[Change], g) /\ tool'[Change].seen.generation <= g
  <2> DEFINE v == [op |-> "checkpoint", claim |-> ClaimOf(s), revision |-> T.revision + 1, release |-> b]
  <2>1. RequestOlder(v, g)
    BY <1>5 DEF RequestOlder, ClaimOf
  <2>2. io' = [io EXCEPT ![Change] = v] /\ tool'[Change].seen = s
    BY <1>5 DEF AskCheckpoint, AnyTool
  <2> HIDE DEF v
  <2> QED
    BY <1>2, <1>5, <2>1, <2>2
<1>6. CASE Abandon /\ UNCHANGED obj
  <2> DEFINE v == [op |-> "release", claim |-> ClaimOf(T.seen)]
  <2>1. RequestOlder(v, g)
    BY DEF RequestOlder, ClaimOf
  <2> HIDE DEF v
  <2>2. \/ ChangeEnds /\ UNCHANGED io
        \/ io' = [io EXCEPT ![Change] = v] /\ tool' = [tool EXCEPT ![Change].pc = "undoing"]
    BY <1>6 DEF Abandon, v
  <2> QED
    BY <1>1, <1>2, <1>3, <1>4, <1>6, <2>1, <2>2
<1>7. CASE Reserve
  <2> DEFINE b == IF T.kind = "plan" THEN Basis("fence", T.revision) ELSE Basis("leaf", T.revision + 1)
             v == [op |-> "checkout", expected |-> generation, basis |-> b]
  <2>1. RequestOlder(v, g)
    BY DEF RequestOlder, Ops
  <2>2. \/ ChangeEnds /\ UNCHANGED io
        \/ io' = [io EXCEPT ![Change] = v] /\ tool' = [tool EXCEPT ![Change].pc = "reserving"]
    BY <1>7 DEF Reserve
  <2> HIDE DEF v
  <2> QED
    BY <1>1, <1>2, <1>3, <1>4, <1>7, <2>1, <2>2 DEF Reserve
<1>8. CASE ReserveReturns
  <2>1. io[Change].op = "done"
    BY <1>8 DEF ReserveReturns, Returned
  <2>2. \/ ChangeEnds
        \/ io[Change].ok /\ tool' = [tool EXCEPT ![Change].pc = "change", ![Change].seen = io[Change].snapshot]
    BY <1>8 DEF ReserveReturns
  <2>3. io[Change].ok => io[Change].snapshot.generation <= g
    BY <2>1 DEF RequestOlder
  <2>4. tool'[Change].seen.generation <= g
    BY <1>3, <2>2, <2>3 DEF AnyTool
  <2> QED
    BY <1>1, <1>2, <1>8, <2>4 DEF ReserveReturns
<1>9. CASE WriteChange \/ CheckChange \/ PublishChange
  <2>1. \/ UNCHANGED io /\ \E p : \/ tool' = [tool EXCEPT ![Change].pc = p]
                                  \/ \E e : tool' = [tool EXCEPT ![Change].pc = p, ![Change].evidence = e]
        \/ Abandon
    BY <1>9 DEF WriteChange, CheckChange, PublishChange
  <2>2. UNCHANGED obj
    BY <1>9 DEF WriteChange, CheckChange, PublishChange
  <2> QED
    BY <1>1, <1>2, <1>4, <1>6, <2>1, <2>2
<1>10. CASE CheckedOut
  <2> DEFINE k == T.revision + 1
             n == NewObject(T.seen, k, FALSE)
  <2>1. T.seen.lease # NoLease /\ k \in Int
    BY <1>10 DEF CheckedOut, Shape, LiveObjects, LiveChange, T
  <2> HIDE DEF k
  <2>2. n \in AnyObject /\ n.durable = T.seen
    BY <2>1, NewObjectOK
  <2> HIDE DEF n
  <2>3. PICK o \in Free : \/ obj' = [obj EXCEPT ![o] = n] /\ UNCHANGED io
                          \/ leases # NoObj /\ Schedule(leases, leases, [obj EXCEPT ![o] = n], io)
    BY <1>10 DEF CheckedOut, n, k
  <2> DEFINE kept == [obj EXCEPT ![o] = n]
  <2>4. o \in Obj
    BY FreeIsUnused
  <2>5. /\ kept \in [Obj -> AnyObject]
        /\ leases # NoObj => kept[leases].durable.lease # NoLease
        /\ \A x \in Obj : kept[x].durable.generation <= g
    BY <1>1, <2>1, <2>2, <2>4
  <2> HIDE DEF kept
  <2>6. obj' = kept /\ UNCHANGED io => Older(g)' /\ RequestOlder(io'[Change], g)
    BY <1>1, <2>5 DEF Older
  <2>7. leases # NoObj /\ Schedule(leases, leases, kept, io) => Older(g)' /\ RequestOlder(io'[Change], g)
    BY <1>1, <2>5, ScheduledOlder
  <2> QED
    BY <1>3, <1>10, <2>3, <2>6, <2>7 DEF CheckedOut, kept
<1>11. CASE PlanChanged
  BY <1>6, <1>11 DEF PlanChanged
<1>12. CASE Undone
  BY <1>1, <1>2, <1>3, <1>12 DEF Undone
<1>13. CASE CheckpointCommitted
  <2>1. T.object \in Obj /\ obj[T.object].durable \in AnySnapshot /\ obj[T.object].durable.generation <= g
    BY <1>1, <1>13 DEF CheckpointCommitted, Checkpointing, Shape, LiveObjects, LiveChange, Live, T, AnyObject
  <2> QED
    BY <1>5, <1>13, <2>1 DEF CheckpointCommitted
<1>14. CASE CheckpointReturns
  <2>1. io[Change].op = "done" /\ T.object # NoObj /\ IoOK(io[Change])
    BY <1>1, <1>14 DEF CheckpointReturns, Returned, Shape, LiveObjects, LiveChange, T
  <2>2. CASE io[Change].ok
    BY <1>14, <2>1, <2>2, CloseOlder DEF CheckpointReturns, IoOK, RequestOlder
  <2>3. CASE ~io[Change].ok
    <3>1. \/ io' = [io EXCEPT ![Change] = None] /\ tool' = [tool EXCEPT ![Change].pc = "reread"]
          \/ AskCheckpoint(T.seen, T.release)
          \/ ChangeEnds /\ io' = [io EXCEPT ![Change] = None]
      BY <1>14, <2>3 DEF CheckpointReturns
    <3>2. UNCHANGED obj
      BY <1>14, <2>3 DEF CheckpointReturns
    <3> QED
      BY <1>1, <1>2, <1>3, <1>4, <1>5, <3>1, <3>2
  <2> QED
    BY <2>2, <2>3
<1>15. CASE Reread
  <2>1. Snapshot \in AnySnapshot /\ Snapshot.generation <= g /\ Snapshot.generation = generation
    BY DEF Snapshot, AnySnapshot, Shape, FileShape
  <2>2. T.object # NoObj
    BY <1>15 DEF Reread, Shape, LiveObjects, LiveChange, T
  <2> DEFINE v == [op |-> "release", claim |-> ClaimOf(Snapshot)]
  <2>3. RequestOlder(v, g)
    BY <2>1 DEF RequestOlder, ClaimOf
  <2> HIDE DEF v
  <2>4. \/ Close(Snapshot)
        \/ ChangeEnds /\ UNCHANGED <<io, obj>>
        \/ \E b : AskCheckpoint(Snapshot, b) /\ UNCHANGED obj
        \/ /\ io' = [io EXCEPT ![Change] = v] /\ UNCHANGED obj
           /\ \E b : tool' = [tool EXCEPT ![Change].pc = "closingRelease", ![Change].seen = Snapshot,
                                          ![Change].release = b]
    BY <1>15 DEF Reread, v
  <2>5. CASE Close(Snapshot)
    BY <2>1, <2>2, <2>5, CloseOlder
  <2>6. CASE ChangeEnds /\ UNCHANGED <<io, obj>>
    BY <1>1, <1>2, <1>3, <2>6
  <2>7. CASE \E b : AskCheckpoint(Snapshot, b) /\ UNCHANGED obj
    BY <1>5, <2>1, <2>7
  <2>8. CASE /\ io' = [io EXCEPT ![Change] = v] /\ UNCHANGED obj
             /\ \E b : tool' = [tool EXCEPT ![Change].pc = "closingRelease", ![Change].seen = Snapshot,
                                            ![Change].release = b]
    <3>1. tool'[Change].seen = Snapshot
      BY <2>8 DEF AnyTool
    <3> QED
      BY <1>2, <2>1, <2>3, <2>8, <3>1
  <2> QED
    BY <2>4, <2>5, <2>6, <2>7, <2>8
<1>16. CASE ConvergeChange
  <2>1. T.object \in Obj /\ obj[T.object].durable.lease # NoLease
    BY <1>16 DEF ConvergeChange, Shape, LiveObjects, LiveChange, Live, T
  <2>2. \/ ChangeEnds /\ UNCHANGED <<obj, io>>
        \/ Schedule(leases, T.object, obj, io) /\ tool' = [tool EXCEPT ![Change].tries = 2]
    BY <1>16 DEF ConvergeChange
  <2>3. tool' = [tool EXCEPT ![Change].tries = 2] => tool'[Change].seen = T.seen
    BY DEF AnyTool
  <2>4. Schedule(leases, T.object, obj, io) => Older(g)' /\ RequestOlder(io'[Change], g)
    BY <1>1, <2>1, ScheduledOlder
  <2> QED
    BY <1>1, <1>2, <1>3, <2>2, <2>3, <2>4
<1> QED
  BY <1>7, <1>8, <1>9, <1>10, <1>11, <1>12, <1>13, <1>14, <1>15, <1>16 DEF ChangeStep

LEMMA ChangeTool ==
  ASSUME Shape, ChangeStep
  PROVE  \E r : tool' = [tool EXCEPT ![Change] = r]
<1> USE Tasks, ChangeOK
<1>1. ChangeEnds => \E r : tool' = [tool EXCEPT ![Change] = r]
  BY DEF ChangeEnds
<1>2. ASSUME NEW p, tool' = [tool EXCEPT ![Change].pc = p] PROVE \E r : tool' = [tool EXCEPT ![Change] = r]
  BY <1>2
<1>3. Abandon => \E r : tool' = [tool EXCEPT ![Change] = r]
  BY <1>1, <1>2 DEF Abandon
<1>4. ASSUME NEW s, NEW b, AskCheckpoint(s, b) PROVE \E r : tool' = [tool EXCEPT ![Change] = r]
  BY <1>4 DEF AskCheckpoint
<1>5. ASSUME NEW s, Close(s) PROVE \E r : tool' = [tool EXCEPT ![Change] = r]
  <2>1. ChangeEnds \/ \E o : tool' = [tool EXCEPT ![Change].pc = "converging", ![Change].object = o, ![Change].tries = 1]
    BY <1>5 DEF Close
  <2> QED
    BY <1>1, <2>1
<1> QED
  BY <1>1, <1>2, <1>3, <1>4, <1>5 DEF ChangeStep, Reserve, ReserveReturns, WriteChange, CheckChange, PublishChange,
         CheckedOut, PlanChanged, Undone, CheckpointCommitted, CheckpointReturns, Reread, ConvergeChange

Holds == {"change", "written", "publish"}
Holding == T.kind = "plan" /\ T.pc \in Holds
\* The reservation of a plan tool is granted and the tool has not heard of it.
Granted == T.kind = "plan" /\ T.pc = "reserving" /\ io[Change].op = "done" /\ io[Change].ok

\* A plan tool has the newest snapshot there is.
Mine ==
  \/ Granted /\ io[Change].snapshot.generation = generation
  \/ Holding /\ T.seen.generation = generation

\* Nothing in memory is newer than the file, and what is as new is what the
\* file says; a fence is asked for a file without a lease.
Known ==
  /\ Older(generation) /\ RequestOlder(io[Change], generation)
  /\ R.seen.generation <= generation /\ T.seen.generation <= generation
  /\ R.pc = "read" /\ R.seen.generation = generation => R.seen.lease = lease
  /\ T.kind = "plan" /\ T.pc = "reserving" /\ io[Change].op = "checkout" =>
       /\ io[Change].expected <= generation
       /\ io[Change].expected = generation => lease = NoLease
       /\ io[Change].basis.node = "fence"
  /\ Granted /\ io[Change].snapshot.generation = generation => io[Change].snapshot.lease = lease
  /\ Holding /\ T.seen.generation = generation => T.seen.lease = lease

\* The file holds the fence of this process, and all else is older.
FenceHeld ==
  /\ generation >= 1 /\ lease # NoLease /\ lease.pid = me /\ lease.basis.node = "fence" /\ alive[me]
  /\ Older(generation - 1)

FenceInv == Known /\ (Mine => FenceHeld) /\ (Holding /\ T.pc = "publish" => Mine)

\* How a plan tool comes to publish.
LEMMA PlanMoves ==
  ASSUME Shape, ChangeStep, T'.kind = "plan", T'.pc \in Holds \cup {"reserving"}
  PROVE  /\ T.kind = "plan"
         /\ \/ /\ T'.pc = "reserving" /\ io'[Change].op = "checkout" /\ io'[Change].expected = generation
               /\ lease = NoLease /\ io'[Change].basis.node = "fence"
            \/ Granted /\ T'.pc = "change" /\ T'.seen = io[Change].snapshot
            \/ Holding /\ T'.pc = "written" /\ T'.seen = T.seen
            \/ Holding /\ T'.pc = "publish" /\ T'.seen = T.seen /\ T.seen.generation = generation
<1> USE Tasks, ChangeOK
<1>0. T' = tool'[Change] /\ DOMAIN io = Task
  BY DEF T, Shape, IoShape
<1>1. ~ChangeEnds
  BY <1>0 DEF ChangeEnds, NewTool
<1>2. ASSUME NEW p, tool' = [tool EXCEPT ![Change].pc = p] PROVE T'.pc = p /\ T'.kind = T.kind /\ T'.seen = T.seen
  BY <1>0, <1>2 DEF AnyTool
<1>3. ~Abandon
  <2>1. Abandon => tool' = [tool EXCEPT ![Change].pc = "undoing"]
    BY <1>1 DEF Abandon
  <2> QED
    BY <1>2, <2>1 DEF Holds
<1>4. CASE Reserve
  <2> DEFINE b == IF T.kind = "plan" THEN Basis("fence", T.revision) ELSE Basis("leaf", T.revision + 1)
             v == [op |-> "checkout", expected |-> generation, basis |-> b]
  <2>1. io' = [io EXCEPT ![Change] = v] /\ tool' = [tool EXCEPT ![Change].pc = "reserving"] /\ lease = NoLease
    BY <1>1, <1>4 DEF Reserve
  <2>2. T.kind = "plan" /\ T'.pc = "reserving"
    BY <1>2, <2>1
  <2>3. v.op = "checkout" /\ v.expected = generation /\ v.basis.node = "fence"
    BY <2>2 DEF Basis
  <2> HIDE DEF v
  <2> QED
    BY <1>0, <2>1, <2>2, <2>3
<1>5. CASE ReserveReturns
  <2>1. /\ io[Change].op = "done" /\ io[Change].ok /\ T.pc = "reserving"
        /\ tool' = [tool EXCEPT ![Change].pc = "change", ![Change].seen = io[Change].snapshot]
    BY <1>1, <1>5 DEF ReserveReturns, Returned
  <2>2. T'.pc = "change" /\ T'.kind = T.kind /\ T'.seen = io[Change].snapshot
    BY <1>0, <2>1 DEF AnyTool
  <2> QED
    BY <2>1, <2>2 DEF Granted
<1>6. CASE WriteChange
  <2>1. T.pc = "change" /\ tool' = [tool EXCEPT ![Change].pc = "written", ![Change].evidence = generation]
    BY <1>3, <1>6 DEF WriteChange
  <2>2. T'.pc = "written" /\ T'.kind = T.kind /\ T'.seen = T.seen
    BY <1>0, <2>1 DEF AnyTool
  <2> QED
    BY <2>1, <2>2 DEF Holding, Holds
<1>7. CASE CheckChange
  <2>1. T.pc = "written" /\ tool' = [tool EXCEPT ![Change].pc = "publish"] /\ E!AssertClaim(me, ChangeClaim)
    BY <1>3, <1>7 DEF CheckChange
  <2>2. T'.pc = "publish" /\ T'.kind = T.kind /\ T'.seen = T.seen
    BY <1>2, <2>1
  <2>3. T.seen.generation = generation
    BY <2>1, <2>2 DEF ChangeClaim, Checkpointing, ClaimOf, E!AssertClaim
  <2> QED
    BY <2>1, <2>2, <2>3 DEF Holding, Holds
<1>8. ~PublishChange
  <2>1. PublishChange => tool' = [tool EXCEPT ![Change].pc = "published"]
    BY <1>3 DEF PublishChange
  <2> QED
    BY <1>2, <2>1 DEF Holds
<1>9. ~(CheckedOut \/ PlanChanged \/ Undone)
  BY <1>1, <1>3 DEF CheckedOut, PlanChanged, Undone
<1>10. ~(CheckpointCommitted \/ CheckpointReturns \/ Reread \/ ConvergeChange)
  <2>1. ASSUME NEW s, NEW b, AskCheckpoint(s, b) PROVE FALSE
    <3>1. T'.pc = "closing"
      BY <1>0, <2>1 DEF AskCheckpoint, AnyTool
    <3> QED
      BY <3>1 DEF Holds
  <2>2. ASSUME NEW s, Close(s) PROVE FALSE
    <3>1. \E o \in Free : tool' = [tool EXCEPT ![Change].pc = "converging", ![Change].object = o, ![Change].tries = 1]
      BY <1>1, <2>2 DEF Close
    <3>2. T'.pc = "converging"
      BY <1>0, <3>1 DEF AnyTool
    <3> QED
      BY <3>2 DEF Holds
  <2>3. ~CheckpointCommitted
    BY <2>1 DEF CheckpointCommitted
  <2>4. ~CheckpointReturns
    BY <1>1, <1>2, <2>1, <2>2 DEF CheckpointReturns, Holds
  <2>5. ~Reread
    <3>1. Reread => \E b : tool' = [tool EXCEPT ![Change].pc = "closingRelease", ![Change].seen = Snapshot,
                                                ![Change].release = b]
      BY <1>1, <2>1, <2>2 DEF Reread
    <3>2. Reread => T'.pc = "closingRelease"
      BY <1>0, <3>1 DEF AnyTool
    <3> QED
      BY <3>2 DEF Holds
  <2>6. ~ConvergeChange
    <3>1. ConvergeChange => T.pc = "converging" /\ tool' = [tool EXCEPT ![Change].tries = 2]
      BY <1>1 DEF ConvergeChange
    <3>2. ConvergeChange => T'.pc = "converging"
      BY <1>0, <3>1 DEF AnyTool
    <3> QED
      BY <3>2 DEF Holds
  <2> QED
    BY <2>3, <2>4, <2>5, <2>6
<1> QED
  BY <1>4, <1>5, <1>6, <1>7, <1>8, <1>9, <1>10 DEF ChangeStep

\* The running refresh moves in its own steps only, and reads the file once.
LEMMA RefreshToolMoves ==
  ASSUME Shape, [Next]_vars, R' # R
  PROVE  Crash \/ /\ RefreshStart \/ RefreshStep
                  /\ R'.seen \in {R.seen, NoSnapshot, Snapshot}
                  /\ R'.pc = "read" => R'.seen = Snapshot
<1> USE Tasks
<1>0. R' = tool'[Refresh] /\ R = tool[Refresh] /\ R \in AnyTool /\ tool \in [Slot -> AnyTool]
  BY DEF R, Shape, ToolShape
<1>1. ~(UNCHANGED tool)
  BY <1>0
<1>2. ~\/ \E t \in Task : Grant(t) \/ Refuse(t) \/ FailOperation(t)
       \/ \E o \in Obj : ReleaseReturns(o)
       \/ \E replaced \in BOOLEAN : Revoke(replaced)
       \/ \E c \in Call : Guard(c)
       \/ \E c \in Call : CallStep(c)
       \/ EndTurn \/ GraceEnds \/ (\E p \in Process : Restart(p))
       \/ UNCHANGED vars
  BY <1>1, CallStepShape DEF Grant, Refuse, FailOperation, ReleaseReturns, Revoke, Guard, EndTurn, GraceEnds, Restart,
                    Rest, vars
<1>3. ~(ChangeStep \/ \E kind \in Kinds : Consume(kind))
  <2>1. ASSUME NEW r, tool' = [tool EXCEPT ![Change] = r] PROVE FALSE
    BY <1>0, <2>1
  <2>2. ChangeStep => \E r : tool' = [tool EXCEPT ![Change] = r]
    BY ChangeTool
  <2>3. (\E kind \in Kinds : Consume(kind)) => \E r : tool' = [tool EXCEPT ![Change] = r]
    BY <1>1 DEF Consume
  <2> QED
    BY <2>1, <2>2, <2>3
<1>4. CASE RefreshStart \/ RefreshStep
  <2>1. NewTool.seen = NoSnapshot /\ NewTool.pc = "idle"
    BY DEF NewTool
  <2>2. ASSUME NEW p, NEW x, tool' = [tool EXCEPT ![Refresh].pc = p] \/ tool' = [tool EXCEPT ![Refresh].pc = p, ![Refresh].exact = x]
        PROVE  R'.seen = R.seen /\ R'.pc = p
    BY <1>0, <2>2 DEF AnyTool
  <2>3. RefreshFails => R' = NewTool
    BY <1>0 DEF RefreshFails
  <2>4. ASSUME NEW d, NEW x, Reconcile(d, x) \/ Continue(d, x)
        PROVE  R' = NewTool \/ (R'.seen = R.seen /\ R'.pc \in {"restored", "releasing", "settling"})
    <3>1. \/ RefreshFails
          \/ tool' = [tool EXCEPT ![Refresh].pc = "restored"]
          \/ tool' = [tool EXCEPT ![Refresh].pc = "releasing", ![Refresh].exact = x]
          \/ tool' = [tool EXCEPT ![Refresh].pc = "settling", ![Refresh].exact = x]
      BY <2>4 DEF Reconcile, Continue, AskRelease, Ask, RestoredTo
    <3> QED
      BY <2>2, <2>3, <3>1
  <2>5. CASE RefreshStart
    BY <1>0, <2>5 DEF RefreshStart, NewTool
  <2>6. CASE RestoreStart
    BY <1>0, <1>4, <2>6 DEF RestoreStart, AnyTool
  <2>7. CASE RestoreRead
    BY <1>0, <1>4, <2>1, <2>7 DEF RestoreRead, AnyTool
  <2>8. CASE RestoreFound
    <3>1. \/ tool' = [tool EXCEPT ![Refresh].pc = "restored"]
          \/ RefreshFails
          \/ \E d, x : Reconcile(d, x)
          \/ tool' = [tool EXCEPT ![Refresh].pc = "takeover", ![Refresh].exact = FALSE]
      BY <2>8 DEF RestoreFound, RestoredTo, Ask
    <3> QED
      BY <1>4, <2>1, <2>2, <2>3, <2>4, <3>1
  <2>9. CASE RestoreReturns
    <3>1. \/ tool' = [tool EXCEPT ![Refresh].pc = "restored"]
          \/ RefreshFails
          \/ \E d, x : Reconcile(d, x)
          \/ \E d, x : Continue(d, x)
      BY <2>9 DEF RestoreReturns, RestoredTo
    <3>2. (\E d, x : Continue(d, x)) => R' = NewTool \/ (R'.seen = R.seen /\ R'.pc \in {"restored", "releasing", "settling"})
      BY <2>4
    <3>3. (\E d, x : Reconcile(d, x)) => R' = NewTool \/ (R'.seen = R.seen /\ R'.pc \in {"restored", "releasing", "settling"})
      BY <2>4
    <3>4. RefreshFails => R' = NewTool
      BY <2>3
    <3>5. tool' = [tool EXCEPT ![Refresh].pc = "restored"] => R'.seen = R.seen /\ R'.pc = "restored"
      BY <2>2
    <3> QED
      BY <1>4, <2>1, <3>1, <3>2, <3>3, <3>4, <3>5
  <2>10. CASE RefreshEnds
    BY <1>0, <1>4, <2>1, <2>10 DEF RefreshEnds
  <2> QED
    BY <1>4, <2>5, <2>6, <2>7, <2>8, <2>9, <2>10 DEF RefreshStep
<1> QED
  BY <1>2, <1>3, <1>4 DEF Next

\* A step that is no grant makes no snapshot of its own.
LEMMA StepOlder ==
  ASSUME Shape, [Next]_vars, ~(\E t \in Task : Grant(t)), NEW g \in Nat, Older(g),
         R.pc = "read" => R.seen.generation <= g \/ R.seen.lease.basis.node = "fence",
         ChangeStep => T.pc \in Holds \cup {"reserving"}
                       \/ (RequestOlder(io[Change], g) /\ T.seen.generation <= g /\ generation <= g)
  PROVE  Older(g)' /\ (ChangeStep \/ RequestOlder(io'[Change], g) \/ io'[Change] = io[Change])
<1> USE Tasks
<1>1. DOMAIN io = Task /\ RequestOlder(None, g)
  BY NoneIsOlder DEF Shape, IoShape
<1>2. CASE \E t \in Task : Refuse(t) \/ FailOperation(t)
  <2>1. PICK t \in Task : Refuse(t) \/ FailOperation(t)
    BY <1>2
  <2> DEFINE v == [op |-> "done", of |-> io[t].op, ok |-> FALSE]
  <2>2. RequestOlder(v, g) /\ io' = [io EXCEPT ![t] = v] /\ UNCHANGED obj
    BY <2>1 DEF Refuse, FailOperation, Rest, Memory, RequestOlder, Ops
  <2> HIDE DEF v
  <2> QED
    BY <1>1, <2>2 DEF Older
<1>3. CASE ChangeStep
  <2>1. CASE RequestOlder(io[Change], g) /\ T.seen.generation <= g /\ generation <= g
    BY <1>3, <2>1, ChangeOlder
  <2>2. CASE T.pc \in Holds \cup {"reserving"}
    <3>1. Reserve \/ ReserveReturns \/ WriteChange \/ CheckChange \/ PublishChange
      BY <1>3, <2>2 DEF ChangeStep, Holds, CheckedOut, PlanChanged, Undone, CheckpointCommitted, CheckpointReturns,
                        Reread, ConvergeChange
    <3>2. UNCHANGED obj
      BY <3>1 DEF Reserve, ReserveReturns, WriteChange, CheckChange, PublishChange
    <3>3. io' = io \/ \E v : io' = [io EXCEPT ![Change] = v]
      BY <3>1 DEF Reserve, ReserveReturns, WriteChange, CheckChange, PublishChange, Abandon
    <3> QED
      BY <1>1, <1>3, <3>2, <3>3 DEF Older
  <2> QED
    BY <1>3, <2>1, <2>2
<1>4. CASE Crash
  <2>1. (\A o \in Obj : obj'[o] = NoObject) /\ (\A t \in Task : io'[t] = None)
    BY <1>4 DEF Crash, NoMemory
  <2> QED
    BY <1>1, <2>1 DEF Older, NoObject, NoSnapshot
<1>5. CASE \E c \in Call : CallStep(c)
  BY <1>5, CallOlder
<1>6. CASE RefreshStart \/ RefreshStep
  BY <1>6, RefreshOlder
<1>7. CASE \/ \E o \in Obj : ReleaseReturns(o)
           \/ \E replaced \in BOOLEAN : Revoke(replaced)
           \/ \E c \in Call : Guard(c)
           \/ \E kind \in Kinds : Consume(kind)
           \/ EndTurn \/ GraceEnds \/ (\E p \in Process : Restart(p)) \/ UNCHANGED vars
  BY <1>7, QuietOlder
<1> QED
  BY <1>2, <1>3, <1>4, <1>5, <1>6, <1>7 DEF Next

\* Only a grant writes the file, and a process that runs is not replaced.
LEMMA FileMoves ==
  ASSUME Shape, [Next]_vars, ~(\E t \in Task : Grant(t))
  PROVE  /\ generation' = generation /\ lease' = lease
         /\ alive[me] /\ ~Crash => me' = me /\ alive'[me']
<1>1. generation' = generation /\ lease' = lease
  BY StepKinds, CallStepShape DEF Refuse, FailOperation, Guard, Crash, E!Crash, Beside, File
<1>2. CASE UNCHANGED <<me, alive>>
  BY <1>1, <1>2
<1>3. CASE \E p \in Process : Restart(p)
  BY <1>1, <1>3 DEF Restart
<1>4. CASE \/ \E t \in Task : Refuse(t) \/ FailOperation(t)
           \/ \E o \in Obj : ReleaseReturns(o)
           \/ \E replaced \in BOOLEAN : Revoke(replaced)
           \/ \E c \in Call : Guard(c)
           \/ EndTurn \/ GraceEnds \/ (\E kind \in Kinds : Consume(kind)) \/ UNCHANGED vars
  BY <1>2, <1>4 DEF Refuse, FailOperation, ReleaseReturns, Revoke, Guard, EndTurn, GraceEnds, E!Age, Consume, OthersT,
                    Rest, vars, File
<1>5. CASE \E c \in Call : CallStep(c)
  BY <1>2, <1>5, CallStepShape DEF File
<1>6. CASE RefreshStart \/ RefreshStep
  BY <1>2, <1>6 DEF RefreshStart, RefreshStep, RestoreStart, RestoreRead, RestoreFound, RestoreReturns, RefreshEnds,
                    OthersR, File
<1>7. CASE ChangeStep
  BY <1>2, <1>7 DEF ChangeStep, OthersT, Reserve, ReserveReturns, WriteChange, CheckChange, PublishChange, CheckedOut,
         PlanChanged, Undone, CheckpointCommitted, CheckpointReturns, Reread, ConvergeChange, File
<1> QED
  BY <1>1, <1>3, <1>4, <1>5, <1>6, <1>7 DEF Next

LEMMA FenceGrant ==
  ASSUME Shape, FenceInv, NEW t \in Task, Grant(t)
  PROVE  FenceInv'
<1> USE Tasks
<1> DEFINE r == io[t]
<1>0. generation \in Nat /\ DOMAIN io = Task /\ me \in Process /\ alive \in [Process -> BOOLEAN] /\ Shape'
  BY GrantShape DEF Shape, FileShape, IoShape
<1>1. /\ r.op \in Ops /\ UNCHANGED <<me, alive, tool, obj>>
      /\ r.op # "checkout" => r.claim.generation = generation
      /\ \/ generation' = generation /\ lease' = lease /\ r.op = "request"
         \/ generation' = generation + 1 /\ alive[me]
      /\ r.op = "checkout" => /\ lease' = E!CheckedOut(me, 0, r.basis) /\ r.expected = generation
                              /\ E!Held => E!TakeoverAllowed(me, r.basis)
  BY GrantCommits DEF File, Memory
<1>2. /\ io'[t].op = "done" /\ io'[t].snapshot.generation = generation' /\ io'[t].snapshot.lease = lease'
      /\ \A x \in Task : x # t => io'[x] = io[x]
  BY <1>0, GrantCommits DEF Snapshot
<1>3. R' = R /\ T' = T
  BY <1>1 DEF R, T
<1>4. \A x \in Obj : obj[x].durable.generation \in Nat
  BY DEF Shape, ObjShape, AnyObject, AnySnapshot
<1>5. \A x \in Task : /\ io[x].op \in Ops \ {"checkout"} => io[x].claim.generation \in Nat
                      /\ io[x].op = "checkout" => io[x].expected \in Nat
                      /\ io[x].op = "done" /\ io[x].ok => io[x].snapshot.generation \in Nat
  BY DEF Shape, IoShape, IoOK, AnyClaim, AnySnapshot
<1>6. R.seen.generation \in Nat /\ T.seen.generation \in Nat
  BY DEF R, T, Shape, ToolShape, AnyTool, AnySnapshot
<1>7. RequestOlder(io'[t], generation')
  BY <1>0, <1>1, <1>2 DEF RequestOlder, Ops
<1>8. \A x \in Task : RequestOlder(io[x], generation)
  BY DEF FenceInv, Known, Older
<1>9. \A x \in Task : RequestOlder(io'[x], generation')
  BY <1>0, <1>1, <1>2, <1>5, <1>7, <1>8 DEF RequestOlder
<1>10. Older(generation)' /\ RequestOlder(io[Change], generation)'
  BY <1>0, <1>1, <1>4, <1>9 DEF FenceInv, Known, Older
<1>11. Known'
  <2>1. R.seen.generation <= generation' /\ T.seen.generation <= generation'
    BY <1>0, <1>1, <1>6 DEF FenceInv, Known
  <2>2. R.pc = "read" /\ R.seen.generation = generation' => R.seen.lease = lease'
    BY <1>0, <1>1, <1>6 DEF FenceInv, Known
  <2>3. ASSUME T.kind = "plan", T.pc = "reserving", io'[Change].op = "checkout"
        PROVE  /\ io'[Change].expected <= generation'
               /\ io'[Change].expected = generation' => lease' = NoLease
               /\ io'[Change].basis.node = "fence"
    <3>1. io'[Change] = io[Change]
      BY <1>2, <2>3
    <3> QED
      BY <1>0, <1>1, <1>5, <2>3, <3>1 DEF FenceInv, Known
  <2>4. ASSUME Granted', io'[Change].snapshot.generation = generation' PROVE io'[Change].snapshot.lease = lease'
    <3>1. CASE t = Change
      BY <1>2, <3>1
    <3>2. CASE t # Change
      <4>1. io'[Change] = io[Change] /\ Granted
        BY <1>2, <1>3, <2>4, <3>2 DEF Granted
      <4>2. io[Change].snapshot.generation <= generation /\ io[Change].snapshot.generation \in Nat
        BY <1>5, <1>8, <4>1 DEF Granted, RequestOlder
      <4> QED
        BY <1>0, <1>1, <2>4, <4>1, <4>2 DEF FenceInv, Known
    <3> QED
      BY <3>1, <3>2
  <2>5. Holding /\ T.seen.generation = generation' => T.seen.lease = lease'
    BY <1>0, <1>1, <1>6 DEF FenceInv, Known
  <2> QED
    BY <1>3, <1>10, <2>1, <2>2, <2>3, <2>4, <2>5 DEF Known, Holding
<1>12. CASE t = Change
  <2>1. ~Holding
    BY <1>1, <1>12 DEF Holding, Holds, Shape, Protocol, OpOf, Ops
  <2>2. ASSUME Mine' PROVE FenceHeld'
    <3>1. T.kind = "plan" /\ T.pc = "reserving"
      BY <1>3, <2>1, <2>2 DEF Mine, Holding, Granted
    <3>2. r.op = "checkout"
      BY <1>1, <1>12, <3>1 DEF Shape, Protocol, OpOf, Ops
    <3>3. lease = NoLease /\ r.basis.node = "fence"
      BY <1>1, <1>12, <3>1, <3>2 DEF FenceInv, Known
    <3>4. lease'.pid = me /\ lease'.basis.node = "fence" /\ generation' = generation + 1 /\ alive[me]
      BY <1>1, <3>2, <3>3 DEF E!CheckedOut
    <3>5. lease' # NoLease
      <4>1. io'[t].op = "done" /\ io'[t].ok /\ io'[t].of = "checkout"
        BY <1>0, <3>2, GrantCommits
      <4>2. IoOK(io'[t])
        BY <1>0 DEF Shape, IoShape, IoOK
      <4> QED
        BY <1>2, <4>1, <4>2 DEF IoOK
    <3>6. /\ \A x \in Task \ {Change} : RequestOlder(io'[x], generation)
          /\ \A x \in Obj : obj'[x].durable.generation <= generation
      BY <1>1, <1>2, <1>8, <1>12 DEF FenceInv, Known, Older
    <3>7. generation' - 1 = generation /\ generation' >= 1
      BY <1>0, <3>4
    <3>8. Older(generation - 1)'
      BY <3>6, <3>7 DEF Older
    <3> QED
      BY <1>1, <3>4, <3>5, <3>7, <3>8 DEF FenceHeld
  <2> QED
    BY <1>3, <1>11, <2>1, <2>2 DEF FenceInv, Holding
<1>13. CASE t # Change
  <2>1. io'[Change] = io[Change]
    BY <1>2, <1>13
  <2>2. ~Mine
    <3>1. SUFFICES ASSUME FenceHeld PROVE FALSE
      BY DEF FenceInv
    <3>2. CASE r.op = "checkout"
      <4>1. E!TakeoverAllowed(me, r.basis) /\ lease.pid = me
        BY <1>1, <3>1, <3>2 DEF FenceHeld, E!Held
      <4> QED
        BY <4>1 DEF E!TakeoverAllowed, E!OwnerLiveness
    <3>3. CASE r.op # "checkout"
      <4>1. RequestOlder(r, generation - 1)
        BY <1>13, <3>1 DEF FenceHeld, Older
      <4>2. generation <= generation - 1
        BY <1>1, <3>3, <4>1 DEF RequestOlder
      <4> QED
        BY <1>0, <4>2
    <3> QED
      BY <3>2, <3>3
  <2>3. ~Mine'
    <3>1. SUFFICES ASSUME Mine' PROVE Mine
      BY <2>2
    <3>2. CASE generation' = generation
      BY <1>3, <2>1, <3>1, <3>2 DEF Mine, Granted, Holding
    <3>3. CASE generation' = generation + 1
      <4>1. CASE Granted' /\ io'[Change].snapshot.generation = generation'
        <5>1. io[Change].snapshot.generation <= generation /\ io[Change].snapshot.generation \in Nat
          BY <1>3, <1>5, <1>8, <2>1, <4>1 DEF Granted, RequestOlder
        <5> QED
          BY <1>0, <2>1, <3>3, <4>1, <5>1
      <4>2. CASE T.seen.generation = generation'
        BY <1>0, <1>6, <3>3, <4>2 DEF FenceInv, Known
      <4> QED
        BY <1>3, <3>1, <4>1, <4>2 DEF Mine
    <3> QED
      BY <1>1, <3>2, <3>3
  <2>4. ~(Holding' /\ T'.pc = "publish")
    BY <1>3, <2>2 DEF FenceInv, Holding
  <2> QED
    BY <1>11, <2>3, <2>4 DEF FenceInv
<1> QED
  BY <1>12, <1>13

LEMMA FenceStep ==
  ASSUME Shape, FenceInv, [Next]_vars
  PROVE  FenceInv'
<1> USE Tasks
<1>0. SUFFICES ASSUME ~(\E t \in Task : Grant(t)) PROVE FenceInv'
  BY FenceGrant
<1>1. /\ generation \in Nat /\ generation' = generation /\ lease' = lease
      /\ alive[me] /\ ~Crash => me' = me /\ alive'[me']
      /\ R.seen.generation \in Nat /\ T.seen.generation \in Nat
      /\ T' = tool'[Change] /\ DOMAIN io = Task
  BY <1>0, FileMoves DEF R, T, Shape, FileShape, ToolShape, AnyTool, AnySnapshot, IoShape
<1>2. CASE Crash
  <2>1. (\A o \in Obj : obj'[o] = NoObject) /\ (\A t \in Task : io'[t] = None) /\ (\A s \in Slot : tool'[s] = NewTool)
    BY <1>2 DEF Crash, NoMemory
  <2>2. RequestOlder(None, generation)
    BY NoneIsOlder
  <2>3. NewTool.pc = "idle" /\ NewTool.seen.generation = 0 /\ NoObject.durable.generation = 0
    BY DEF NewTool, NoObject, NoSnapshot
  <2>4. R' = NewTool /\ T' = NewTool
    BY <2>1 DEF R, T
  <2>5. ~Mine' /\ ~Granted' /\ ~Holding' /\ T'.pc # "reserving" /\ R'.pc # "read"
    BY <2>3, <2>4 DEF Mine, Granted, Holding, Holds
  <2>6. Older(generation)' /\ RequestOlder(io[Change], generation)'
    BY <1>1, <2>1, <2>2, <2>3 DEF Older
  <2>7. R'.seen.generation <= generation' /\ T'.seen.generation <= generation'
    BY <1>1, <2>3, <2>4
  <2>8. Known'
    BY <2>5, <2>6, <2>7 DEF Known
  <2> QED
    BY <2>5, <2>8 DEF FenceInv
<1>3. CASE ~Crash
  <2>1. /\ R'.seen.generation <= generation
        /\ R'.pc = "read" /\ R'.seen.generation = generation => R'.seen.lease = lease
    <3>1. CASE R' = R
      BY <3>1 DEF FenceInv, Known
    <3>2. CASE R'.seen = Snapshot
      BY <1>1, <3>2 DEF Snapshot
    <3>3. CASE R'.seen \in {R.seen, NoSnapshot} /\ R'.pc # "read"
      BY <1>1, <3>3 DEF FenceInv, Known, NoSnapshot
    <3> QED
      BY <1>3, <3>1, <3>2, <3>3, RefreshToolMoves
  <2>2. Older(generation)' /\ (ChangeStep \/ RequestOlder(io'[Change], generation) \/ io'[Change] = io[Change])
    <3>1. Older(generation) /\ RequestOlder(io[Change], generation) /\ T.seen.generation <= generation
          /\ R.seen.generation <= generation /\ generation <= generation
      BY <1>1 DEF FenceInv, Known
    <3>2. PICK g \in Nat : g = generation
      BY <1>1
    <3>3. Older(g)' /\ (ChangeStep \/ RequestOlder(io'[Change], g) \/ io'[Change] = io[Change])
      BY <1>0, <3>1, <3>2, StepOlder
    <3> QED
      BY <1>1, <3>2, <3>3 DEF Older
  <2>3. RequestOlder(io'[Change], generation) /\ T'.seen.generation <= generation
    <3>1. CASE ChangeStep
      BY <1>1, <3>1, ChangeOlder DEF FenceInv, Known
    <3>2. CASE ~ChangeStep
      <4>1. RequestOlder(io'[Change], generation)
        BY <2>2, <3>2 DEF FenceInv, Known
      <4>2. T' = T \/ \E kind \in Kinds : Consume(kind)
        BY <1>3, <3>2, ChangeToolMoves
      <4>3. CASE T' = T
        BY <4>1, <4>3 DEF FenceInv, Known
      <4>4. CASE T' # T
        <5>1. T'.seen = NoSnapshot
          BY <4>2, <4>4, ConsumeMoves
        <5> QED
          BY <1>1, <4>1, <5>1 DEF NoSnapshot
      <4> QED
        BY <4>3, <4>4
    <3> QED
      BY <3>1, <3>2
  <2>4. ASSUME T'.kind = "plan", T'.pc \in Holds \cup {"reserving"}, ~ChangeStep
        PROVE  T' = T /\ (io'[Change] = io[Change] \/ (io'[Change].op \in {"none", "done"} /\ (io'[Change].op = "done" => ~io'[Change].ok)))
    <3>1. T' = T
      <4>1. ~(\E kind \in Kinds : Consume(kind)) \/ T' = T
        BY <2>4, ConsumeMoves DEF Holds
      <4> QED
        BY <1>3, <2>4, <4>1, ChangeToolMoves
    <3>2. CASE \E t \in Task : Refuse(t) \/ FailOperation(t)
      <4>1. PICK t \in Task : Refuse(t) \/ FailOperation(t)
        BY <3>2
      <4> DEFINE v == [op |-> "done", of |-> io[t].op, ok |-> FALSE]
      <4>2. v.op = "done" /\ ~v.ok /\ io' = [io EXCEPT ![t] = v]
        BY <4>1 DEF Refuse, FailOperation
      <4> HIDE DEF v
      <4> QED
        BY <1>1, <3>1, <4>2
    <3>3. CASE \E c \in Call : CallStep(c)
      BY <3>1, <3>3, CallRequests DEF OnlyAsks
    <3>4. CASE RefreshStart \/ RefreshStep
      BY <3>1, <3>4, RefreshRequests DEF OnlyAsks
    <3>5. CASE \/ \E o \in Obj : ReleaseReturns(o)
               \/ \E replaced \in BOOLEAN : Revoke(replaced)
               \/ \E c \in Call : Guard(c)
               \/ \E kind \in Kinds : Consume(kind)
               \/ EndTurn \/ GraceEnds \/ (\E p \in Process : Restart(p)) \/ UNCHANGED vars
      <4>1. PICK g \in Nat : g = generation
        BY <1>1
      <4>2. Older(g)
        BY <4>1 DEF FenceInv, Known
      <4> QED
        BY <3>1, <3>5, <4>2, QuietOlder
    <3> QED
      BY <1>0, <1>3, <2>4, <3>1, <3>2, <3>3, <3>4, <3>5 DEF Next
  <2>5. ASSUME T'.kind = "plan", T'.pc = "reserving", io'[Change].op = "checkout"
        PROVE  /\ io'[Change].expected <= generation
               /\ io'[Change].expected = generation => lease = NoLease
               /\ io'[Change].basis.node = "fence"
    <3>1. CASE ChangeStep
      BY <1>1, <2>5, <3>1, PlanMoves
    <3>2. CASE ~ChangeStep
      BY <2>4, <2>5, <3>2 DEF FenceInv, Known
    <3> QED
      BY <3>1, <3>2
  <2>6. ASSUME Granted' PROVE Granted /\ io'[Change] = io[Change]
    <3>1. CASE ChangeStep
      BY <2>6, <3>1, PlanMoves DEF Granted
    <3>2. CASE ~ChangeStep
      BY <2>4, <2>6, <3>2 DEF Granted
    <3> QED
      BY <3>1, <3>2
  <2>7. ASSUME Holding' PROVE \/ Holding /\ T'.seen = T.seen
                              \/ Granted /\ T'.seen = io[Change].snapshot
    <3>1. CASE ChangeStep
      BY <2>7, <3>1, PlanMoves DEF Holding, Holds
    <3>2. CASE ~ChangeStep
      BY <2>4, <2>7, <3>2 DEF Holding
    <3> QED
      BY <3>1, <3>2
  <2>8. Known'
    <3>1. Granted' /\ io'[Change].snapshot.generation = generation => io'[Change].snapshot.lease = lease
      BY <2>6 DEF FenceInv, Known
    <3>2. Holding' /\ T'.seen.generation = generation => T'.seen.lease = lease
      BY <2>7 DEF FenceInv, Known
    <3>3. RequestOlder(io[Change], generation)'
      BY <1>1, <2>3
    <3> QED
      BY <1>1, <2>1, <2>2, <2>3, <2>5, <3>1, <3>2, <3>3 DEF Known
  <2>9. Mine' => Mine
    BY <1>1, <2>6, <2>7 DEF Mine
  <2>10. ASSUME Mine PROVE FenceHeld'
    <3>1. FenceHeld
      BY <2>10 DEF FenceInv
    <3>2. T.pc \in Holds \cup {"reserving"}
      BY <2>10 DEF Mine, Granted, Holding
    <3>3. PICK g \in Nat : g = generation - 1
      BY <1>1, <3>1 DEF FenceHeld
    <3>4. R.pc = "read" => R.seen.generation <= g \/ R.seen.lease.basis.node = "fence"
      BY <1>1, <3>1, <3>3 DEF FenceInv, Known, FenceHeld
    <3>5. Older(g)
      BY <3>1, <3>3 DEF FenceHeld
    <3>6. Older(g)'
      BY <1>0, <3>2, <3>4, <3>5, StepOlder
    <3>7. Older(generation - 1)'
      BY <1>1, <3>3, <3>6 DEF Older
    <3> QED
      BY <1>1, <1>3, <3>1, <3>7 DEF FenceHeld
  <2>11. ASSUME Holding', T'.pc = "publish" PROVE Mine'
    <3>1. CASE ChangeStep
      <4>1. T'.seen = T.seen /\ T.seen.generation = generation
        BY <2>11, <3>1, PlanMoves DEF Holding
      <4> QED
        BY <1>1, <2>11, <4>1 DEF Mine
    <3>2. CASE ~ChangeStep
      <4>1. T' = T
        BY <2>4, <2>11, <3>2 DEF Holding
      <4>2. T.seen.generation = generation
        BY <2>11, <4>1 DEF FenceInv, Holding, Mine, Granted
      <4> QED
        BY <1>1, <2>11, <4>1, <4>2 DEF Mine
    <3> QED
      BY <3>1, <3>2
  <2> QED
    BY <2>8, <2>9, <2>10, <2>11 DEF FenceInv
<1> QED
  BY <1>2, <1>3

LEMMA InitFence ==
  ASSUME Init
  PROVE  FenceInv
<1> USE Tasks
<1>1. R = NewTool /\ T = NewTool /\ (\A t \in Task : io[t] = None) /\ generation \in {0, 1}
  BY DEF Init, R, T
<1>2. NewTool.pc = "idle" /\ NewTool.seen.generation = 0
  BY DEF NewTool, NoSnapshot
<1>3. \A o \in Obj : obj[o].durable.generation <= generation
  <2>1. CASE obj = [o \in Obj |-> NoObject]
    BY <1>1, <2>1 DEF NoObject, NoSnapshot
  <2>2. CASE obj = [o \in Obj |-> IF o = leases THEN NewObject(Snapshot, 1, FALSE) ELSE NoObject]
    <3>1. PICK n : n = NewObject(Snapshot, 1, FALSE)
      OBVIOUS
    <3>2. n.durable.generation = generation /\ NoObject.durable.generation = 0
      BY <3>1 DEF NewObject, Snapshot, NoObject, NoSnapshot
    <3>3. \A o \in Obj : obj[o] \in {n, NoObject}
      BY <2>2, <3>1
    <3> QED
      BY <1>1, <3>2, <3>3
  <2> QED
    BY <2>1, <2>2 DEF Init
<1>4. Older(generation) /\ RequestOlder(io[Change], generation)
  BY <1>1, <1>3, NoneIsOlder DEF Older
<1>5. ~Mine /\ ~Granted /\ ~Holding /\ T.pc # "reserving" /\ R.pc # "read"
  BY <1>1, <1>2 DEF Mine, Granted, Holding, Holds
<1> QED
  BY <1>1, <1>2, <1>4, <1>5 DEF FenceInv, Known

\* While a plan tool commits its change, the state file holds the fence that
\* the tool reserved, whatever calls, refreshes, releases and failures came in
\* between (mutateWithStructuralFence, ownedControlFences).
THEOREM PlanUnderItsFence == Spec => PlanChangesUnderItsFence
<1>1. Init => Shape /\ FenceInv
  BY InitShape, InitFence
<1>2. Shape /\ FenceInv /\ [Next]_vars => Shape' /\ FenceInv'
  BY ShapeStep, FenceStep
<1>3. Shape /\ FenceInv /\ [Next]_vars =>
        [(PublishChange /\ T.kind = "plan" /\ graph'.revision # graph.revision)
           => E!Held /\ lease.leaseId = T.seen.lease.leaseId]_vars
  <2>1. SUFFICES ASSUME Shape, FenceInv, PublishChange, T.kind = "plan"
                 PROVE  E!Held /\ lease.leaseId = T.seen.lease.leaseId
    OBVIOUS
  <2>2. Holding /\ T.pc = "publish"
    BY <2>1 DEF PublishChange, Holding, Holds
  <2>3. Mine /\ T.seen.generation = generation
    BY <2>1, <2>2 DEF FenceInv, Mine, Granted
  <2> QED
    BY <2>1, <2>2, <2>3 DEF FenceInv, FenceHeld, Known, E!Held
<1> QED
  BY <1>1, <1>2, <1>3, PTL DEF Spec, PlanChangesUnderItsFence
-----------------------------------------------------------------------------
(* The lease follows the graph.                                            *)

Clients == Call \cup Obj
\* What task t was given; and that the claim it has made is not outdated.
Done(t) == io[t].op = "done" /\ io[t].ok
Valid(t) == io[t].op \in Ops \ {"checkout"} /\ io[t].claim.generation = generation
\* Task t asks the state file for object o.
Concerns(t, o) ==
  \/ t = o
  \/ t \in Call /\ call[t].pc = "begin" /\ call[t].object = o
  \/ t \in Call /\ call[t].pc = "settling" /\ call[t].settling = o
Fresh(o) == Live(o) /\ obj[o].durable.generation = generation
Result(t) == Done(t) /\ io[t].of # "release"
OnLeaf == E!Held /\ lease.basis.node = "leaf"
\* The file holds what the object has, or what is on its way to it.
Recent(o) ==
  OnLeaf /\ (Fresh(o) \/ \E t \in Clients : Concerns(t, o) /\ Result(t) /\ io[t].snapshot.generation = generation)
\* An object with the file's lease of a leaf is as far as the graph.
Based(object) ==
  /\ object.revision <= graph.revision
  /\ OnLeaf /\ object.durable.generation = generation => object.revision = graph.revision

\* What a step that is no grant does to an object: it leaves it, tells it what a
\* task was given, or makes a new one of it.
BasisKept(o) ==
  \/ RefreshEnds /\ o = leases
  \/ obj'[o].basis \in {obj[o].basis, NoAuth} /\ (obj[o].replaced => obj'[o].replaced)
Same(o) ==
  /\ obj'[o].durable = obj[o].durable /\ obj'[o].revision = obj[o].revision /\ obj'[o].dirty = obj[o].dirty
  /\ BasisKept(o)
Delivers(t, o) ==
  /\ t \in Clients /\ Result(t) /\ Concerns(t, o) /\ ~Done(t)'
  /\ obj'[o].durable = IF io[t].snapshot.lease = NoLease THEN obj[o].durable ELSE io[t].snapshot
  /\ obj'[o].revision = IF io[t].of = "settle" THEN obj[o].revision + 1 ELSE obj[o].revision
  /\ obj'[o].dirty = (io[t].of = "begin" \/ (io[t].of = "request" /\ obj[o].dirty))
  /\ BasisKept(o)
Source(d) ==
  \/ d \in {R.seen, T.seen, Snapshot}
  \/ \E s \in Slot : Done(s) /\ d = io[s].snapshot
Made(o) ==
  /\ o \in Free
  /\ Source(obj'[o].durable) /\ obj'[o].durable.lease # NoLease
  /\ obj'[o].dirty = obj'[o].durable.lease.dirty /\ obj'[o].revision = obj'[o].durable.lease.basis.graph
  /\ obj'[o].basis = NoAuth
  /\ \/ obj'[o].revision = R.revision /\ obj'[o].replaced /\ R.pc # "idle" /\ UNCHANGED <<epoch, auth>>
     \/ Based(obj'[o])
Moved(o) == Same(o) \/ (\E t \in Clients : Delivers(t, o)) \/ Made(o)

\* A new request claims the lease that its object holds.
NewClaim(t, o) ==
  /\ io'[t].claim = ClaimOf(obj'[o].durable) /\ obj'[o].durable.lease # NoLease
  /\ io'[t].op = "request" => ~obj'[o].durable.lease.releaseWhenClean
Asking(t) ==
  \/ io'[t] = io[t] /\ (io[t].op # "none" => \A o \in Obj : Concerns(t, o)' => Concerns(t, o))
  \/ ~Asked(t)' /\ ~Done(t)'
  \/ Asked(t)' /\ \A o \in Obj : Concerns(t, o)' => NewClaim(t, o)
Running == \A o \in Obj : io[o].op # "none" => Pending(o)
Effects ==
  /\ \A o \in Obj : Moved(o)
  /\ \A t \in Clients : Asking(t)
  /\ \A s \in Slot : Done(s)' => io'[s] = io[s]
  /\ Running'
  /\ leases' \in {leases, NoObj} \/ (leases' \in Obj /\ Made(leases'))

\* Only the calls and the tools move.
LEMMA UnseenEffects ==
  ASSUME Running, UNCHANGED <<io, obj, releases>>, leases' \in {leases, NoObj},
         \A c \in Call : io[c].op = "none" \/ (/\ call'[c].pc = call[c].pc /\ call'[c].object = call[c].object
                                               /\ call'[c].settling = call[c].settling)
  PROVE  Effects
<1> USE Tasks
<1>1. \A o \in Obj : Moved(o)
  BY DEF Moved, Same, BasisKept
<1>2. ASSUME NEW t \in Clients PROVE Asking(t)
  BY DEF Asking, Concerns, Clients
<1>3. Running'
  BY DEF Running, Pending
<1> QED
  BY <1>1, <1>2, <1>3 DEF Effects

LEMMA ScheduledEffects ==
  ASSUME MemoryShape, NEW current \in SomeObj, NEW o \in Obj, NEW objects \in [Obj -> AnyObject],
         NEW requests, DOMAIN requests = Task, \A t \in Task : IoOK(requests[t]),
         objects[o].durable.lease # NoLease, Schedule(current, o, objects, requests),
         Running, \A x \in Obj : requests[x] = io[x]
  PROVE  /\ Running'
         /\ \A x \in Obj : /\ obj'[x].durable = objects[x].durable /\ obj'[x].dirty = objects[x].dirty
                           /\ obj'[x].revision = objects[x].revision /\ obj'[x].basis = objects[x].basis
                           /\ obj'[x].replaced = objects[x].replaced
         /\ \A t \in Task \ Obj : io'[t] = requests[t]
         /\ \A x \in Obj : Asking(x)
<1> USE Tasks
<1>1. /\ \A x \in Obj : /\ obj'[x].durable = objects[x].durable /\ obj'[x].dirty = objects[x].dirty
                        /\ obj'[x].revision = objects[x].revision
      /\ \A t \in Task : t # o => io'[t] = requests[t]
      /\ io'[o] \in {requests[o], ReleaseRequest(objects[o])}
  BY ScheduleFacts
<1>2. \A x \in Obj : obj'[x].basis = objects[x].basis /\ obj'[x].replaced = objects[x].replaced
  <2>1. obj' = objects \/ obj' = [objects EXCEPT ![o].release = TRUE]
    BY DEF Schedule
  <2>2. CASE obj' = [objects EXCEPT ![o].release = TRUE]
    <3> DEFINE n == [objects[o] EXCEPT !.release = TRUE]
    <3>1. n.basis = objects[o].basis /\ n.replaced = objects[o].replaced /\ obj' = [objects EXCEPT ![o] = n]
      BY <2>2 DEF AnyObject
    <3> HIDE DEF n
    <3> QED
      BY <3>1
  <2> QED
    BY <2>1, <2>2
<1> DEFINE q == ReleaseRequest(objects[o])
<1>4. None.op = "none"
  BY DEF None
<1>3. \/ q.op = "none"
      \/ /\ q.op \in {"request", "release"} /\ q.claim = ClaimOf(objects[o].durable)
         /\ q.op = "request" => ~objects[o].durable.lease.releaseWhenClean
  BY <1>4 DEF ReleaseRequest
<1>5. Running'
  <2>1. CASE current = o /\ ~Pending(o)
    <3>1. /\ io' = [requests EXCEPT ![o] = q]
          /\ releases' = [releases EXCEPT ![o] = [running |-> q # None, ok |-> TRUE]]
      BY <2>1 DEF Schedule
    <3>2. io'[o] = q /\ releases'[o].running = (q # None)
      BY <3>1 DEF MemoryShape
    <3>3. \A x \in Obj : x # o => io'[x] = requests[x] /\ releases'[x] = releases[x]
      BY <3>1 DEF MemoryShape
    <3> HIDE DEF q
    <3> QED
      BY <1>4, <3>2, <3>3 DEF Running, Pending
  <2>2. CASE ~(current = o /\ ~Pending(o))
    BY <2>2 DEF Schedule, Running, Pending
  <2> QED
    BY <2>1, <2>2
<1> HIDE DEF q
<1>6. ASSUME NEW x \in Obj PROVE Asking(x)
  <2>1. \A y \in Obj : Concerns(x, y)' => y = x
    BY DEF Concerns
  <2>2. CASE io'[x] = io[x]
    BY <2>1, <2>2 DEF Asking, Concerns
  <2>3. CASE io'[x] # io[x]
    <3>1. x = o /\ io'[o] = q
      BY <1>1, <2>3 DEF q
    <3>2. CASE q.op = "none"
      BY <3>1, <3>2 DEF Asking, Asked, Done
    <3>3. CASE q.op # "none"
      <4>1. q.op \in {"request", "release"} /\ q.claim = ClaimOf(objects[o].durable)
            /\ (q.op = "request" => ~objects[o].durable.lease.releaseWhenClean)
        BY <1>3, <3>3
      <4>2. NewClaim(o, o)
        BY <1>1, <3>1, <4>1 DEF NewClaim
      <4>3. Asked(o)'
        BY <3>1, <4>1 DEF Asked
      <4> QED
        BY <2>1, <3>1, <4>2, <4>3 DEF Asking
    <3> QED
      BY <3>2, <3>3
  <2> QED
    BY <2>2, <2>3
<1> QED
  BY <1>1, <1>2, <1>5, <1>6

\* A call step that changes neither objects nor requests.
LEMMA PlainEffects ==
  ASSUME Shape, Running, NEW c \in Call, UNCHANGED <<io, obj, releases, leases>>,
         call[c].pc \notin {"begin", "settling"}, \E r : Move(c, r)
  PROVE  Effects
<1>1. \A d \in Call : d # c => call'[d] = call[d]
  BY DEF Move, Shape, CallShape
<1>2. io[c].op = "none"
  BY Tasks DEF Shape, Protocol, CallAsks, OpOf, IoShape, IoOK, Ops
<1> QED
  BY <1>1, <1>2, UnseenEffects

LEMMA SimpleCallEffects ==
  ASSUME Shape, Running, NEW c \in Call,
         \/ Enter(c) \/ Leave(c) \/ Record(c) \/ MakeReceipt(c) \/ WriteReceipt(c)
         \/ PublishReceipt(c) \/ MarkReturns(c)
  PROVE  Effects
<1> USE DEF Shape
<1>1. CASE Enter(c) \/ Leave(c)
  BY <1>1, MoveSimple, PlainEffects DEF Enter, Leave, Memory
<1>2. CASE Record(c) 
  BY <1>2, MoveRecord, PlainEffects DEF Record
<1>3. CASE MakeReceipt(c)
  BY <1>3, MoveMakeReceipt, PlainEffects DEF MakeReceipt
<1>4. CASE WriteReceipt(c)
  BY <1>4, MoveSimple, PlainEffects DEF WriteReceipt
<1>5. CASE PublishReceipt(c)
  BY <1>5, MoveSimple, PlainEffects DEF PublishReceipt
<1>6. CASE MarkReturns(c)
  BY <1>6, MoveMark, PlainEffects DEF MarkReturns
<1> QED
  BY <1>1, <1>2, <1>3, <1>4, <1>5, <1>6

\* What the other calls ask for concerns the same objects.
LEMMA OtherCallAsks ==
  ASSUME NEW c \in Call, \A d \in Call : d # c => call'[d] = call[d], NEW t \in Clients, t # c,
         io'[t] = io[t]
  PROVE  Asking(t)
BY DEF Asking, Concerns

LEMMA AskEffects ==
  ASSUME Shape, Running, NEW c \in Call, NEW v, io' = [io EXCEPT ![c] = v], UNCHANGED <<obj, releases, leases>>,
         \E r : Move(c, r), v.op \in Ops, \A o \in Obj : Concerns(c, o)' => NewClaim(c, o)
  PROVE  Effects
<1> USE Tasks
<1>1. \A d \in Call : d # c => call'[d] = call[d]
  BY DEF Move, Shape, CallShape
<1>2. /\ io'[c] = v /\ \A t \in Task : t # c => io'[t] = io[t]
  BY DEF Shape, IoShape
<1>3. ASSUME NEW t \in Clients PROVE Asking(t)
  <2>1. CASE t = c
    BY <1>2, <2>1 DEF Asking, Asked, Ops
  <2>2. CASE t # c
    BY <1>1, <1>2, <2>2, OtherCallAsks DEF Clients
  <2> QED
    BY <2>1, <2>2
<1>4. \A o \in Obj : Moved(o)
  BY DEF Moved, Same, BasisKept
<1>5. Running'
  BY <1>2 DEF Running, Pending
<1>6. \A s \in Slot : io'[s] = io[s]
  BY <1>2 DEF Slot
<1> QED
  BY <1>3, <1>4, <1>5, <1>6 DEF Effects

LEMMA ExecuteEffects ==
  ASSUME Shape, Running, NEW c \in Call, Execute(c)
  PROVE  Effects
<1> USE Tasks
<1>1. \E r : Move(c, r)
  BY MoveExecute
<1>2. CASE ~Revalidated(c)
  BY <1>1, <1>2, PlainEffects DEF Execute
<1>3. CASE Revalidated(c)
  <2> DEFINE v == [op |-> "begin", claim |-> Claim(leases)]
  <2>1. v.op = "begin" /\ v.claim = Claim(leases)
    OBVIOUS
  <2>2. /\ io' = [io EXCEPT ![c] = v] /\ UNCHANGED <<obj, releases, leases>> /\ leases # NoObj
        /\ call' = [call EXCEPT ![c].pc = "begin", ![c].object = leases]
    BY <1>3 DEF Execute, Revalidated
  <2> HIDE DEF v
  <2>3. call'[c].pc = "begin" /\ call'[c].object = leases
    BY <2>2 DEF Shape, CallShape, AnyCall
  <2>4. io'[c] = v
    BY <2>2 DEF Shape, IoShape
  <2>5. \A o \in Obj : Concerns(c, o)' => o = leases
    BY <2>3 DEF Concerns
  <2>6. Live(leases)
    BY <2>2 DEF Shape, LiveObjects
  <2>7. NewClaim(c, leases)
    BY <2>1, <2>2, <2>4, <2>6 DEF NewClaim, Claim, Live
  <2>8. \A o \in Obj : Concerns(c, o)' => NewClaim(c, o)
    BY <2>5, <2>7
  <2> QED
    BY <1>1, <2>1, <2>2, <2>8, AskEffects DEF Ops
<1> QED
  BY <1>2, <1>3

LEMMA SettleEffects ==
  ASSUME Shape, Running, NEW c \in Call, Settle(c)
  PROVE  Effects
<1> USE Tasks
<1>1. (\E r : Move(c, r)) /\ io'[c] = SettleRequest(c)
  BY MoveSettle
<1> DEFINE v == SettleRequest(c)
<1>2. v.op = "settle" /\ v.claim = Claim(call[c].settling)
  BY DEF SettleRequest
<1>3. /\ io' = [io EXCEPT ![c] = v] /\ UNCHANGED <<obj, releases, leases>>
      /\ call' = [call EXCEPT ![c].pc = "settling"]
  BY DEF Settle, Memory
<1> HIDE DEF v
<1>4. call'[c].pc = "settling" /\ call'[c].settling = call[c].settling
  BY <1>3 DEF Shape, CallShape, AnyCall
<1>5. io'[c] = v
  BY <1>3 DEF Shape, IoShape
<1>6. \A o \in Obj : Concerns(c, o)' => o = call[c].settling
  BY <1>4 DEF Concerns
<1>7. Live(call[c].settling)
  BY DEF Shape, LiveObjects, LiveCall, Settle
<1>8. NewClaim(c, call[c].settling)
  BY <1>2, <1>3, <1>5, <1>7 DEF NewClaim, Claim, Live
<1>9. \A o \in Obj : Concerns(c, o)' => NewClaim(c, o)
  BY <1>6, <1>8
<1> QED
  BY <1>1, <1>2, <1>3, <1>9, AskEffects DEF Ops

LEMMA ConvergeEffects ==
  ASSUME Shape, Running, NEW c \in Call, Converge(c)
  PROVE  Effects
<1> USE Tasks
<1>0. PICK r : Move(c, r)
  BY MoveConverge
<1>1. CASE UNCHANGED <<obj, io, releases>>
  BY <1>0, <1>1, PlainEffects DEF Converge
<1>2. CASE ~(UNCHANGED <<obj, io, releases>>)
  <2> DEFINE o == call[c].settling
  <2>1. Schedule(leases, o, obj, io) /\ UNCHANGED leases /\ Live(o) /\ o \in Obj
    BY <1>2 DEF Converge, Shape, LiveObjects, LiveCall, Live
  <2>2. /\ Running'
        /\ \A x \in Obj : /\ obj'[x].durable = obj[x].durable /\ obj'[x].dirty = obj[x].dirty
                          /\ obj'[x].revision = obj[x].revision /\ obj'[x].basis = obj[x].basis
                          /\ obj'[x].replaced = obj[x].replaced
        /\ \A t \in Task \ Obj : io'[t] = io[t]
        /\ \A x \in Obj : Asking(x)
    BY <2>1, ScheduledEffects DEF Shape, IoShape, ObjShape, MemoryShape, Live
  <2>3. \A x \in Obj : Moved(x)
    BY <2>2 DEF Moved, Same, BasisKept
  <2>4. \A d \in Call : d # c => call'[d] = call[d]
    BY <1>0 DEF Move, Shape, CallShape
  <2>5. io[c].op = "none"
    BY DEF Shape, Protocol, CallAsks, OpOf, IoShape, IoOK, Ops, Converge
  <2>6. ASSUME NEW t \in Call PROVE Asking(t)
    <3>1. io'[t] = io[t]
      BY <2>2
    <3>2. CASE t = c
      BY <2>5, <3>1, <3>2 DEF Asking
    <3> QED
      BY <2>4, <3>1, <3>2, OtherCallAsks DEF Clients
  <2> QED
    BY <2>1, <2>2, <2>3, <2>6 DEF Effects, Clients, Slot
<1> QED
  BY <1>1, <1>2

\* A call hears the state file and may tell an object of its.
LEMMA HeardEffects ==
  ASSUME Shape, Running, NEW c \in Call, \E r : Move(c, r), leases' \in {leases, NoObj},
         NEW o \in Obj, NEW objects \in [Obj -> AnyObject],
         \/ Schedule(leases, o, objects, [io EXCEPT ![c] = None]) /\ objects[o].durable.lease # NoLease
         \/ obj' = objects /\ io' = [io EXCEPT ![c] = None] /\ UNCHANGED releases,
         \A x \in Obj : x # o => objects[x] = obj[x],
         \/ objects[o] = obj[o]
         \/ /\ Result(c) /\ Concerns(c, o)
            /\ objects[o].durable = IF io[c].snapshot.lease = NoLease THEN obj[o].durable ELSE io[c].snapshot
            /\ objects[o].revision = IF io[c].of = "settle" THEN obj[o].revision + 1 ELSE obj[o].revision
            /\ objects[o].dirty = (io[c].of = "begin" \/ (io[c].of = "request" /\ obj[o].dirty))
            /\ objects[o].basis = NoAuth /\ objects[o].replaced = obj[o].replaced
  PROVE  Effects
<1> USE Tasks
<1> DEFINE requests == [io EXCEPT ![c] = None]
<1>1. /\ DOMAIN requests = Task /\ requests[c] = None
      /\ \A t \in Task : t # c => requests[t] = io[t]
  BY DEF Shape, IoShape
<1>2. (\A t \in Task : IoOK(requests[t])) /\ \A x \in Obj : requests[x] = io[x]
  BY <1>1, NewOK DEF Shape, IoShape
<1>3. \A d \in Call : d # c => call'[d] = call[d]
  BY DEF Move, Shape, CallShape
<1>4. None.op = "none"
  BY DEF None
<1>5. /\ Running'
      /\ \A x \in Obj : /\ obj'[x].durable = objects[x].durable /\ obj'[x].dirty = objects[x].dirty
                        /\ obj'[x].revision = objects[x].revision /\ obj'[x].basis = objects[x].basis
                        /\ obj'[x].replaced = objects[x].replaced
      /\ \A t \in Task \ Obj : io'[t] = requests[t]
      /\ \A x \in Obj : Asking(x)
  <2>1. CASE Schedule(leases, o, objects, requests) /\ objects[o].durable.lease # NoLease
    <3>1. leases \in SomeObj /\ MemoryShape
      BY DEF Shape, MemoryShape
    <3> HIDE DEF requests
    <3> QED
      BY <1>1, <1>2, <2>1, <3>1, ScheduledEffects
  <2>2. CASE obj' = objects /\ io' = requests /\ UNCHANGED releases
    <3>1. \A x \in Obj : Asking(x)
      BY <1>2, <2>2 DEF Asking, Concerns
    <3>2. Running'
      BY <1>2, <2>2 DEF Running, Pending
    <3> QED
      BY <2>2, <3>1, <3>2
  <2> QED
    BY <2>1, <2>2
<1>6. ASSUME NEW t \in Call PROVE Asking(t)
  <2>1. CASE t = c
    BY <1>1, <1>4, <1>5, <2>1 DEF Asking, Asked, Done
  <2>2. CASE t # c
    BY <1>1, <1>3, <1>5, <2>2, OtherCallAsks DEF Clients
  <2> QED
    BY <2>1, <2>2
<1>7. \A s \in Slot : io'[s] = io[s]
  BY <1>1, <1>5 DEF Slot
<1>8. ASSUME NEW x \in Obj PROVE Moved(x)
  <2>1. CASE objects[x] = obj[x]
    BY <1>5, <2>1 DEF Moved, Same, BasisKept
  <2>2. CASE objects[x] # obj[x]
    <3>1. x = o
      BY <2>2
    <3>2. ~Done(c)'
      BY <1>1, <1>4, <1>5 DEF Done
    <3>3. Delivers(c, o)
      BY <1>5, <2>2, <3>1, <3>2 DEF Delivers, BasisKept, Clients
    <3> QED
      BY <3>1, <3>3 DEF Moved, Clients
  <2> QED
    BY <2>1, <2>2
<1> QED
  BY <1>5, <1>6, <1>7, <1>8 DEF Effects, Clients

LEMMA BeginReturnsEffects ==
  ASSUME Shape, Running, NEW c \in Call, BeginReturns(c)
  PROVE  Effects
<1> USE Tasks
<1> DEFINE o == call[c].object
           s == io[c].snapshot
           freed == [io EXCEPT ![c] = None]
<1>1. /\ io[c].op = "done" /\ io[c].of = "begin" /\ io[c].ok \in BOOLEAN
      /\ call[c].pc = "begin" /\ UNCHANGED <<leases, tool, epoch, auth>> /\ Returned(c)
  BY DEF BeginReturns, Shape, Protocol, CallAsks, OpOf, Returned, IoShape, IoOK, Ops
<1>2. o \in Obj /\ Live(o) /\ obj \in [Obj -> AnyObject]
  BY <1>1 DEF Shape, LiveObjects, LiveCall, Live, ObjShape
<1>3. CASE io[c].ok
  <2> DEFINE n == [obj[o] EXCEPT !.durable = s, !.origin = s.lease.pending, !.dirty = TRUE, !.basis = NoAuth]
             dirty == [obj EXCEPT ![o].durable = s, ![o].origin = s.lease.pending,
                                  ![o].dirty = TRUE, ![o].basis = NoAuth]
  <2>1. Begun(c, o, freed)
    BY <1>1, <1>3 DEF BeginReturns
  <2>2. s \in AnySnapshot /\ s.lease # NoLease /\ s.lease.pending \in Nat
    <3>1. s \in AnySnapshot /\ s.lease # NoLease
      BY <1>1, <1>3 DEF Shape, IoShape, IoOK
    <3>2. s.lease \in AnyLease
      BY <3>1 DEF AnySnapshot
    <3> QED
      BY <3>1, <3>2 DEF AnyLease
  <2>3. /\ n \in AnyObject /\ n.durable = s /\ n.dirty = TRUE /\ n.basis = NoAuth
        /\ n.revision = obj[o].revision /\ n.replaced = obj[o].replaced
    BY <1>2, <2>2, NewOK DEF AnyObject
  <2>4. dirty = [obj EXCEPT ![o] = n]
    BY <1>2 DEF AnyObject
  <2>5. \/ Schedule(leases, o, dirty, freed)
        \/ obj' = dirty /\ io' = freed /\ UNCHANGED releases
    BY <2>1 DEF Begun
  <2>6. \E r : Move(c, r)
    BY <1>1, <1>3, <2>1, MoveBegun
  <2>7. Result(c) /\ Concerns(c, o)
    BY <1>1, <1>3 DEF Result, Done, Concerns
  <2> HIDE DEF n
  <2>8. dirty \in [Obj -> AnyObject] /\ dirty[o] = n /\ \A x \in Obj : x # o => dirty[x] = obj[x]
    BY <1>2, <2>3, <2>4
  <2> HIDE DEF dirty
  <2>9. /\ dirty[o].durable = IF s.lease = NoLease THEN obj[o].durable ELSE s
        /\ dirty[o].revision = IF io[c].of = "settle" THEN obj[o].revision + 1 ELSE obj[o].revision
        /\ dirty[o].dirty = (io[c].of = "begin" \/ (io[c].of = "request" /\ obj[o].dirty))
        /\ dirty[o].basis = NoAuth /\ dirty[o].replaced = obj[o].replaced /\ dirty[o].durable.lease # NoLease
    BY <1>1, <2>2, <2>3, <2>8
  <2>10. leases' \in {leases, NoObj}
    BY <1>1
  <2> HIDE DEF o, s, freed
  <2>11. \/ Schedule(leases, o, dirty, [io EXCEPT ![c] = None]) /\ dirty[o].durable.lease # NoLease
         \/ obj' = dirty /\ io' = [io EXCEPT ![c] = None] /\ UNCHANGED releases
    BY <2>5, <2>9 DEF freed
  <2> QED
    BY <1>2, <2>6, <2>7, <2>8, <2>9, <2>10, <2>11, HeardEffects DEF s
<1>4. CASE ~io[c].ok
  <2>1. NotBegun(c, o, freed)
    BY <1>1, <1>4 DEF BeginReturns
  <2>2. \E r : Move(c, r)
    BY <1>1, <1>4, <2>1, MoveNotBegun
  <2>3. \/ Schedule(leases, o, obj, freed)
        \/ obj' = obj /\ io' = freed /\ UNCHANGED releases
    BY <2>1 DEF NotBegun
  <2> QED
    BY <1>1, <1>2, <2>2, <2>3, HeardEffects DEF Live
<1> QED
  BY <1>1, <1>3, <1>4

LEMMA SettleReturnsEffects ==
  ASSUME Shape, Running, NEW c \in Call, SettleReturns(c)
  PROVE  Effects
<1> USE Tasks
<1> DEFINE o == call[c].settling
           s == io[c].snapshot
           freed == [io EXCEPT ![c] = None]
           clean == [obj EXCEPT ![o].revision = @ + 1, ![o].dirty = FALSE, ![o].basis = NoAuth, ![o].origin = 0]
           kept == [clean EXCEPT ![o].durable = s]
           m == [obj[o] EXCEPT !.revision = @ + 1, !.dirty = FALSE, !.basis = NoAuth, !.origin = 0]
           n == [m EXCEPT !.durable = s]
<1>1. /\ io[c].op = "done" /\ io[c].of = "settle" /\ io[c].ok \in BOOLEAN
      /\ call[c].pc = "settling"
  BY DEF SettleReturns, Shape, Protocol, CallAsks, OpOf, Returned, IoShape, IoOK, Ops
<1>2. o \in Obj /\ Live(o) /\ obj \in [Obj -> AnyObject] /\ leases \in SomeObj
  BY <1>1 DEF Shape, LiveObjects, LiveCall, Live, ObjShape, MemoryShape
<1>3. \E r : Move(c, r)
  BY MoveSettleReturns
<1>4. leases' \in {leases, NoObj}
  BY DEF SettleReturns
<1>5. /\ m \in AnyObject /\ m.durable = obj[o].durable /\ m.dirty = FALSE /\ m.basis = NoAuth
      /\ m.revision = obj[o].revision + 1 /\ m.replaced = obj[o].replaced
      /\ clean = [obj EXCEPT ![o] = m]
  <2>1. obj[o] \in AnyObject /\ NoAuth \in AnyAuth
    BY <1>2, NewOK
  <2>2. /\ m \in AnyObject /\ m.durable = obj[o].durable /\ m.dirty = FALSE /\ m.basis = NoAuth
        /\ m.revision = obj[o].revision + 1 /\ m.replaced = obj[o].replaced
    <3> DEFINE k == obj[o].revision + 1
    <3>1. k \in Int
      BY <2>1 DEF AnyObject
    <3>2. m = [obj[o] EXCEPT !.revision = k, !.dirty = FALSE, !.basis = NoAuth, !.origin = 0]
      BY <2>1 DEF AnyObject
    <3>3. k = obj[o].revision + 1
      OBVIOUS
    <3> HIDE DEF k, m
    <3> QED
      BY <2>1, <3>1, <3>2, <3>3 DEF AnyObject
  <2>3. clean = [obj EXCEPT ![o] = m]
    BY <1>2, <2>1 DEF AnyObject
  <2> QED
    BY <2>2, <2>3
<1>6. CASE ~io[c].ok
  <2>1. obj' = obj /\ io' = freed /\ UNCHANGED releases
    BY <1>6 DEF SettleReturns
  <2> QED
    BY <1>2, <1>3, <1>4, <2>1, HeardEffects
<1>7. CASE io[c].ok /\ s.lease = NoLease
  <2>1. obj' = clean /\ io' = freed /\ UNCHANGED releases
    BY <1>7 DEF SettleReturns
  <2>2. Result(c) /\ Concerns(c, o)
    BY <1>1, <1>7 DEF Result, Done, Concerns
  <2> HIDE DEF m
  <2>3. clean \in [Obj -> AnyObject] /\ clean[o] = m /\ \A x \in Obj : x # o => clean[x] = obj[x]
    BY <1>2, <1>5
  <2> HIDE DEF clean
  <2>9. /\ clean[o].durable = IF s.lease = NoLease THEN obj[o].durable ELSE s
        /\ clean[o].revision = IF io[c].of = "settle" THEN obj[o].revision + 1 ELSE obj[o].revision
        /\ clean[o].dirty = (io[c].of = "begin" \/ (io[c].of = "request" /\ obj[o].dirty))
        /\ clean[o].basis = NoAuth /\ clean[o].replaced = obj[o].replaced
    <3>1. /\ m.durable = obj[o].durable /\ m.dirty = FALSE /\ m.basis = NoAuth
          /\ m.revision = obj[o].revision + 1 /\ m.replaced = obj[o].replaced
      BY <1>5
    <3>2. io[c].of = "settle" /\ s.lease = NoLease /\ clean[o] = m
      BY <1>1, <1>7, <2>3
    <3> HIDE DEF o, s
    <3> QED
      BY <3>1, <3>2
  <2> HIDE DEF o, s, freed
  <2>10. \/ Schedule(leases, o, clean, [io EXCEPT ![c] = None]) /\ clean[o].durable.lease # NoLease
         \/ obj' = clean /\ io' = [io EXCEPT ![c] = None] /\ UNCHANGED releases
    BY <2>1, <2>9 DEF freed
  <2> QED
    BY <1>2, <1>3, <1>4, <2>2, <2>3, <2>9, <2>10, HeardEffects DEF s
<1>8. CASE io[c].ok /\ s.lease # NoLease
  <2>1. s \in AnySnapshot
    BY <1>1, <1>8 DEF Shape, IoShape, IoOK
  <2>2. /\ n \in AnyObject /\ n.durable = s /\ n.dirty = FALSE /\ n.basis = NoAuth
        /\ n.revision = obj[o].revision + 1 /\ n.replaced = obj[o].replaced
    <3> HIDE DEF m
    <3> QED
      BY <1>5, <2>1 DEF AnyObject
  <2>3. kept = [obj EXCEPT ![o] = n]
    <3>1. clean[o] = m
      BY <1>2, <1>5
    <3>2. kept = [clean EXCEPT ![o] = [clean[o] EXCEPT !.durable = s]]
      OBVIOUS
    <3> HIDE DEF clean, m
    <3>3. kept = [clean EXCEPT ![o] = n]
      BY <3>1, <3>2
    <3> HIDE DEF kept, n
    <3> QED
      BY <1>2, <1>5, <3>3
  <2> HIDE DEF n
  <2>4. kept \in [Obj -> AnyObject] /\ kept[o] = n /\ \A x \in Obj : x # o => kept[x] = obj[x]
    BY <1>2, <2>2, <2>3
  <2>5. \/ Schedule(leases, o, kept, freed)
        \/ obj' = kept /\ io' = freed /\ UNCHANGED releases
    BY <1>8 DEF SettleReturns
  <2>6. Result(c) /\ Concerns(c, o)
    BY <1>1, <1>8 DEF Result, Done, Concerns
  <2> HIDE DEF kept
  <2>9. /\ kept[o].durable = IF s.lease = NoLease THEN obj[o].durable ELSE s
        /\ kept[o].revision = IF io[c].of = "settle" THEN obj[o].revision + 1 ELSE obj[o].revision
        /\ kept[o].dirty = (io[c].of = "begin" \/ (io[c].of = "request" /\ obj[o].dirty))
        /\ kept[o].basis = NoAuth /\ kept[o].replaced = obj[o].replaced /\ kept[o].durable.lease # NoLease
    BY <1>1, <1>8, <2>2, <2>4
  <2> HIDE DEF o, s, freed
  <2>10. \/ Schedule(leases, o, kept, [io EXCEPT ![c] = None]) /\ kept[o].durable.lease # NoLease
         \/ obj' = kept /\ io' = [io EXCEPT ![c] = None] /\ UNCHANGED releases
    BY <2>5, <2>9 DEF freed
  <2> QED
    BY <1>2, <1>3, <1>4, <2>6, <2>4, <2>9, <2>10, HeardEffects DEF s
<1> QED
  BY <1>1, <1>6, <1>7, <1>8

LEMMA CallEffects ==
  ASSUME Shape, Running, NEW c \in Call, CallStep(c)
  PROVE  Effects
BY SimpleCallEffects, ExecuteEffects, SettleEffects, ConvergeEffects, BeginReturnsEffects, SettleReturnsEffects
   DEF CallStep

\* A restoring refresh knows this of the lease.
Refreshing ==
  /\ R.revision <= graph.revision /\ 1 <= graph.revision
  /\ io[Refresh].op = "checkout" =>
       /\ io[Refresh].expected <= generation
       /\ io[Refresh].expected = generation => E!Held /\ io[Refresh].basis = lease.basis
  /\ io[Refresh].op \in {"settle", "checkpoint"} =>
       /\ io[Refresh].revision = R.revision
       /\ Valid(Refresh) => E!Held /\ lease.basis.graph + 1 = R.revision
  /\ R.pc = "settling" /\ Done(Refresh) /\ io[Refresh].snapshot.lease # NoLease =>
       io[Refresh].snapshot.lease.basis.graph = R.revision

\* The lease a refresh restores: what it read, or what it was given.
Found(d) ==
  /\ d \in AnySnapshot /\ d.lease # NoLease
  /\ \/ R.pc = "read" /\ d = R.seen
     \/ Done(Refresh) /\ d = io[Refresh].snapshot
RefreshDoes ==
  \/ RefreshFails
  \/ RestoredTo(Forgotten) /\ UNCHANGED obj
  \/ \E d, x, v : Found(d) /\ AsksOn(d, x, v)
  \/ \E d, o : Found(d) /\ R.revision = d.lease.basis.graph /\ Restores(d, o)
  \/ /\ R.pc = "read" /\ R.seen.lease # NoLease
     /\ Ask([op |-> "checkout", basis |-> R.seen.lease.basis, expected |-> R.seen.generation], FALSE, "takeover")

LEMMA RefreshRestores ==
  ASSUME Shape, Refreshing, RestoreFound \/ RestoreReturns
  PROVE  RefreshDoes
<1> USE Tasks
<1>0. R \in AnyTool /\ R.seen \in AnySnapshot /\ R.revision \in Int
  BY DEF R, Shape, ToolShape, AnyTool
<1>1. ASSUME NEW d, Found(d), NEW x \in BOOLEAN, Reconcile(d, x) \/ (Continue(d, x) /\ R.revision = d.lease.basis.graph)
      PROVE  RefreshDoes
  <2>1. d \in AnySnapshot /\ d.lease # NoLease
    BY <1>1 DEF Found
  <2>2. CASE Reconcile(d, x)
    BY <1>1, <2>1, <2>2, ReconcileDoes DEF RefreshDoes
  <2>3. CASE Continue(d, x) /\ R.revision = d.lease.basis.graph
    BY <1>1, <2>1, <2>3, ContinueDoes DEF RefreshDoes
  <2> QED
    BY <1>1, <2>2, <2>3
<1>2. CASE RestoreFound
  <2>1. Exact \in BOOLEAN
    BY DEF Exact
  <2>2. CASE R.seen.lease # NoLease /\ Reconcile(R.seen, Exact)
    <3>1. Found(R.seen)
      BY <1>0, <1>2, <2>2 DEF Found, RestoreFound
    <3> QED
      BY <1>1, <2>1, <2>2, <3>1
  <2> DEFINE v == [op |-> "checkout", basis |-> R.seen.lease.basis, expected |-> R.seen.generation]
  <2>3. CASE Ask(v, FALSE, "takeover") /\ R.seen.lease # NoLease /\ R.pc = "read"
    BY <2>3 DEF RefreshDoes
  <2> HIDE DEF v
  <2>4. \/ RefreshFails \/ (RestoredTo(Forgotten) /\ UNCHANGED obj)
        \/ R.seen.lease # NoLease /\ Reconcile(R.seen, Exact)
        \/ Ask(v, FALSE, "takeover") /\ R.seen.lease # NoLease /\ R.pc = "read"
    BY <1>2 DEF RestoreFound, v
  <2> QED
    BY <2>2, <2>3, <2>4 DEF RefreshDoes
<1>3. CASE RestoreReturns
  <2> DEFINE d == io[Refresh].snapshot
  <2>1. /\ io[Refresh].op = "done" /\ IoOK(io[Refresh])
        /\ R.pc = "takeover" => io[Refresh].of = "checkout"
    BY <1>3 DEF RestoreReturns, Returned, Shape, IoShape, Protocol, OpOf, IoOK, Ops
  <2>2. io[Refresh].ok /\ d.lease # NoLease => Found(d)
    BY <2>1 DEF IoOK, Found, Done
  <2>3. Exact \in BOOLEAN /\ R.exact \in BOOLEAN
    BY <1>0 DEF Exact, AnyTool
  <2>4. R.pc = "settling" /\ io[Refresh].ok /\ d.lease # NoLease => R.revision = d.lease.basis.graph
    BY <2>1 DEF Refreshing, Done
  <2>5. R.pc = "takeover" /\ io[Refresh].ok => d.lease # NoLease
    BY <2>1 DEF IoOK
  <2>6. \/ RefreshFails \/ (RestoredTo(Forgotten) /\ UNCHANGED obj)
        \/ io[Refresh].ok /\ d.lease # NoLease /\ Reconcile(d, Exact)
        \/ io[Refresh].ok /\ d.lease # NoLease /\ Continue(d, R.exact) /\ R.pc = "settling"
    BY <1>3, <2>5 DEF RestoreReturns
  <2>7. CASE io[Refresh].ok /\ d.lease # NoLease /\ Reconcile(d, Exact)
    BY <1>1, <2>2, <2>3, <2>7
  <2>8. CASE io[Refresh].ok /\ d.lease # NoLease /\ Continue(d, R.exact) /\ R.pc = "settling"
    BY <1>1, <2>2, <2>3, <2>4, <2>8
  <2> QED
    BY <2>6, <2>7, <2>8 DEF RefreshDoes
<1> QED
  BY <1>2, <1>3

LEMMA FreeUnused ==
  ASSUME Shape, Running, NEW o \in Free
  PROVE  /\ o \in Obj /\ o # leases /\ io[o].op = "none"
         /\ \A t \in Clients : io[t].op # "none" => ~Concerns(t, o)
<1> USE Tasks
<1>1. /\ o \in Obj /\ o # leases /\ ~Pending(o)
      /\ \A c \in Call : call[c].object # o /\ call[c].settling # o
  BY DEF Free, Referenced
<1>2. io[o].op = "none"
  BY <1>1 DEF Running
<1> QED
  BY <1>1, <1>2 DEF Concerns, Clients

\* A new object is made; nobody asks for it yet.
LEMMA MadeEffects ==
  ASSUME Shape, Running, NEW o \in Free, Made(o), \A x \in Obj : x # o => obj'[x] = obj[x],
         UNCHANGED <<releases, call>>, \A t \in Clients : io'[t] = io[t],
         \A s \in Slot : Done(s)' => io'[s] = io[s], leases' = o
  PROVE  Effects
<1> USE Tasks
<1>1. o \in Obj /\ io[o].op = "none" /\ \A t \in Clients : io[t].op # "none" => ~Concerns(t, o)
  BY FreeUnused
<1>2. \A x \in Obj : Moved(x)
  BY DEF Moved, Same, BasisKept
<1>3. \A t \in Clients : Asking(t)
  BY DEF Asking, Concerns
<1>4. Running'
  BY DEF Running, Pending, Clients
<1> QED
  BY <1>1, <1>2, <1>3, <1>4 DEF Effects

LEMMA RefreshEffects ==
  ASSUME Shape, Running, Refreshing, RefreshStart \/ RefreshStep
  PROVE  Effects
<1> USE Tasks
<1>0. /\ R \in AnyTool /\ tool \in [Slot -> AnyTool] /\ R.revision \in Int /\ leases \in SomeObj
      /\ DOMAIN io = Task /\ None.op = "none" /\ obj \in [Obj -> AnyObject]
  BY DEF R, Shape, ToolShape, MemoryShape, AnyTool, IoShape, None, ObjShape
<1>1. UNCHANGED <<call, releases>>
  BY DEF RefreshStart, RefreshStep, RestoreStart, RestoreRead, RestoreFound, RestoreReturns, RefreshEnds, OthersR
<1>2. \A t \in Clients : io'[t] = io[t]
  BY RefreshRequests DEF OnlyAsks, Clients
<1>3. io'[Change] = io[Change]
  BY RefreshRequests DEF OnlyAsks
<1>4. ASSUME UNCHANGED obj, io' = io \/ ~Done(Refresh)', leases' \in {leases, NoObj}
      PROVE  Effects
  <2>1. \A x \in Obj : Moved(x)
    BY <1>4 DEF Moved, Same, BasisKept
  <2>2. \A t \in Clients : Asking(t)
    BY <1>1, <1>2 DEF Asking, Concerns
  <2>3. Running'
    BY <1>1, <1>2 DEF Running, Pending, Clients
  <2>4. \A s \in Slot : Done(s)' => io'[s] = io[s]
    BY <1>3, <1>4 DEF Slot
  <2> QED
    BY <1>4, <2>1, <2>2, <2>3, <2>4 DEF Effects
<1>5. CASE RefreshStart \/ RestoreStart \/ RestoreRead
  BY <1>4, <1>5 DEF RefreshStart, RestoreStart, RestoreRead
<1>6. CASE RestoreFound \/ RestoreReturns
  <2>1. CASE RefreshFails
    BY <1>0, <1>4, <2>1 DEF RefreshFails, Done
  <2>2. CASE RestoredTo(Forgotten) /\ UNCHANGED obj
    <3>1. leases' \in {leases, NoObj}
      BY <2>2 DEF RestoredTo, Forgotten
    <3> QED
      BY <1>0, <1>4, <2>2, <3>1 DEF RestoredTo, Done
  <2>3. ASSUME NEW d, NEW x, NEW v, Found(d), AsksOn(d, x, v) PROVE Effects
    <3>1. v.op \in {"release", "settle", "checkpoint"} /\ UNCHANGED <<leases, obj>> /\ io'[Refresh] = v
      BY <1>0, <2>3 DEF AsksOn, Ask
    <3> QED
      BY <1>4, <3>1 DEF Done
  <2>4. ASSUME NEW d, NEW o, Found(d), R.revision = d.lease.basis.graph, Restores(d, o) PROVE Effects
    <3> DEFINE n == NewObject(d, R.revision, TRUE)
    <3>1. n.durable = d /\ n.dirty = d.lease.dirty /\ n.revision = R.revision /\ n.basis = NoAuth /\ n.replaced
      BY DEF NewObject
    <3>2. o \in Free /\ obj' = [obj EXCEPT ![o] = n] /\ leases' = o /\ io' = [io EXCEPT ![Refresh] = None]
      BY <2>4 DEF Restores, RestoredTo
    <3> HIDE DEF n
    <3>3. o \in Obj /\ obj'[o] = n /\ \A x \in Obj : x # o => obj'[x] = obj[x]
      BY <1>0, <3>2, FreeIsUnused
    <3>4. Source(d)
      BY <2>4 DEF Found, Source
    <3>5. R.pc # "idle" /\ UNCHANGED <<epoch, auth>>
      BY <1>6 DEF RestoreFound, RestoreReturns, OthersR
    <3>6. Made(o)
      BY <2>4, <3>1, <3>2, <3>3, <3>4, <3>5 DEF Made, Found
    <3>7. ~Done(Refresh)'
      BY <1>0, <3>2 DEF Done
    <3> QED
      BY <1>1, <1>2, <1>3, <3>2, <3>3, <3>6, <3>7, MadeEffects DEF Slot
  <2>5. CASE Ask([op |-> "checkout", basis |-> R.seen.lease.basis, expected |-> R.seen.generation], FALSE, "takeover")
    BY <1>0, <1>4, <2>5 DEF Ask, Done
  <2> QED
    BY <1>6, <2>1, <2>2, <2>3, <2>4, <2>5, RefreshRestores DEF RefreshDoes
<1>7. CASE RefreshEnds
  <2> DEFINE receipt == [epoch |-> epoch, revision |-> R.revision, shown |-> FALSE]
             n == [obj[leases] EXCEPT !.basis = receipt, !.replaced = FALSE]
  <2>1. UNCHANGED <<io, leases>>
    BY <1>7 DEF RefreshEnds
  <2>2. CASE obj' = obj
    BY <1>4, <2>1, <2>2
  <2>3. CASE leases # NoObj /\ obj' = [obj EXCEPT ![leases].basis = receipt, ![leases].replaced = FALSE]
    <3> HIDE DEF receipt
    <3>1. leases \in Obj /\ obj[leases] \in AnyObject
      BY <1>0, <2>3 DEF SomeObj
    <3>2. n.durable = obj[leases].durable /\ n.revision = obj[leases].revision /\ n.dirty = obj[leases].dirty
      BY <3>1 DEF AnyObject
    <3>3. obj' = [obj EXCEPT ![leases] = n]
      BY <1>0, <2>3, <3>1 DEF AnyObject
    <3> HIDE DEF n
    <3>4. \A x \in Obj : Moved(x)
      BY <1>0, <1>7, <3>1, <3>2, <3>3 DEF Moved, Same, BasisKept
    <3>5. \A t \in Clients : Asking(t)
      BY <1>1, <1>2 DEF Asking, Concerns
    <3>6. Running'
      BY <1>1, <1>2 DEF Running, Pending, Clients
    <3> QED
      BY <2>1, <3>4, <3>5, <3>6 DEF Effects
  <2> QED
    BY <1>7, <2>2, <2>3 DEF RefreshEnds
<1> QED
  BY <1>5, <1>6, <1>7 DEF RefreshStep

\* Steps beside the calls change some objects, or make one.
LEMMA BesideEffects ==
  ASSUME Shape, Running, NEW objects \in [Obj -> AnyObject], NEW requests, DOMAIN requests = Task,
         \A t \in Task : IoOK(requests[t]),
         \A t \in Clients \cup {Refresh} : requests[t] = io[t],
         requests[Change] = io[Change] \/ requests[Change].op # "done",
         \A c \in Call : io[c].op = "none" \/ (/\ call'[c].pc = call[c].pc /\ call'[c].object = call[c].object
                                               /\ call'[c].settling = call[c].settling),
         \/ obj' = objects /\ io' = requests /\ UNCHANGED releases
         \/ \E current \in SomeObj, p \in Obj :
              Schedule(current, p, objects, requests) /\ objects[p].durable.lease # NoLease,
         \A x \in Obj :
           \/ /\ objects[x].durable = obj[x].durable /\ objects[x].revision = obj[x].revision
              /\ objects[x].dirty = obj[x].dirty /\ objects[x].basis \in {obj[x].basis, NoAuth}
              /\ obj[x].replaced => objects[x].replaced
           \/ /\ x \in Free /\ x = leases'
              /\ Source(objects[x].durable) /\ objects[x].durable.lease # NoLease
              /\ objects[x].dirty = objects[x].durable.lease.dirty
              /\ objects[x].revision = objects[x].durable.lease.basis.graph
              /\ objects[x].basis = NoAuth /\ Based(objects[x]),
         \/ leases' \in {leases, NoObj}
         \/ /\ leases' \in Free
            /\ Source(objects[leases'].durable) /\ objects[leases'].durable.lease # NoLease
            /\ objects[leases'].dirty = objects[leases'].durable.lease.dirty
            /\ objects[leases'].revision = objects[leases'].durable.lease.basis.graph
            /\ objects[leases'].basis = NoAuth /\ Based(objects[leases'])
  PROVE  Effects
<1> USE Tasks
<1>1. /\ Running'
      /\ \A x \in Obj : /\ obj'[x].durable = objects[x].durable /\ obj'[x].dirty = objects[x].dirty
                        /\ obj'[x].revision = objects[x].revision /\ obj'[x].basis = objects[x].basis
                        /\ obj'[x].replaced = objects[x].replaced
      /\ \A t \in Task \ Obj : io'[t] = requests[t]
      /\ \A x \in Obj : Asking(x)
  <2>0. \A x \in Obj : requests[x] = io[x]
    BY DEF Clients
  <2>1. ASSUME NEW current \in SomeObj, NEW p \in Obj, Schedule(current, p, objects, requests),
               objects[p].durable.lease # NoLease
        PROVE  <1>1
    BY <2>0, <2>1, ScheduledEffects DEF Shape
  <2>2. CASE obj' = objects /\ io' = requests /\ UNCHANGED releases
    <3>1. \A x \in Obj : Asking(x)
      BY <2>0, <2>2 DEF Asking, Concerns
    <3>2. Running'
      BY <2>0, <2>2 DEF Running, Pending
    <3> QED
      BY <2>2, <3>1, <3>2
  <2> QED
    BY <2>1, <2>2
<1>2. \A x \in Free : x \in Obj
  BY FreeIsUnused
<1>3. ASSUME NEW x \in Obj PROVE Moved(x)
  BY <1>1 DEF Moved, Same, BasisKept, Made, Based
<1>4. leases' \in {leases, NoObj} \/ (leases' \in Obj /\ Made(leases'))
  BY <1>1, <1>2 DEF Made, Based
<1>5. ASSUME NEW t \in Call PROVE Asking(t)
  BY <1>1 DEF Asking, Concerns, Clients
<1>6. \A s \in Slot : Done(s)' => io'[s] = io[s]
  BY <1>1 DEF Slot, Done
<1> QED
  BY <1>1, <1>3, <1>4, <1>5, <1>6 DEF Effects, Clients

\* A change of the graph that is not of the plan: of a lease, or of a lease's work.
Plain == T.kind # "plan" /\ ~Checkpointing
\* The change has its lease, or has been checked against it.
Ready ==
  \/ T.pc = "publish"
  \/ Plain /\ T.pc \in {"change", "written"}
  \/ Plain /\ T.pc = "reserving" /\ Done(Change)
\* Its change is committed, and what is committed after it has no evidence.
Committed == {"published", "closing", "closingRelease", "reread"}
Over ==
  /\ T.revision < graph.revision
  /\ \A e \in graph.evidence : e.revision <= T.revision + 1
Changing ==
  /\ Sure => T.revision = graph.revision
  /\ \A e \in graph.evidence : e.revision <= graph.revision
  /\ T.pc \in Committed => Over
  /\ io[Change].op = "checkout" =>
       /\ io[Change].expected <= generation /\ 1 <= T.revision /\ T.revision <= graph.revision
       /\ io[Change].expected = generation => lease = NoLease /\ T.revision = graph.revision
       /\ io[Change].basis = IF T.kind = "plan" THEN Basis("fence", T.revision) ELSE Basis("leaf", T.revision + 1)
  /\ Sure /\ T.kind # "plan" /\ Ready /\ OnLeaf =>
       ~lease.dirty /\ lease.basis.graph >= IF Plain THEN T.revision + 1 ELSE T.revision
  /\ Plain /\ T.pc = "reserving" /\ Done(Change) =>
       io[Change].snapshot.lease.basis.graph = T.revision + 1 /\ ~io[Change].snapshot.lease.dirty
  /\ Plain /\ T.pc \in {"change", "written", "publish", "published"} =>
       T.seen.lease.basis.graph = T.revision + 1 /\ ~T.seen.lease.dirty
  /\ Sure /\ Checkpointing /\ T.pc \in {"change", "written"} =>
       ~obj[T.object].dirty /\ (Recent(T.object) => T.revision <= obj[T.object].revision)
  /\ io[Change].op = "checkpoint" => io[Change].revision = T.revision + 1
  /\ T.pc \in {"closing", "closingRelease"} /\ Done(Change) /\ io[Change].snapshot.lease # NoLease =>
       io[Change].snapshot.lease.basis.graph = T.revision + 1 /\ ~io[Change].snapshot.lease.dirty

\* A snapshot as recent as the file has the lease of the file.
Now(d) == d.lease # NoLease /\ d.generation = generation => d.lease = lease
Coherent ==
  /\ \A o \in Obj : Now(obj[o].durable)
  /\ \A t \in Task : Done(t) => Now(io[t].snapshot)
  /\ Now(R.seen) /\ Now(T.seen)

\* What a committed change has left in the file is as far as the graph: behind
\* it are only the receipts of calls, and then the lease has moved.
LEMMA SeenBased ==
  ASSUME Shape, Over, LeaseFollowsGraph, NEW s \in AnySnapshot, Now(s), s.lease # NoLease,
         s.lease.basis.graph = T.revision + 1, ~s.lease.dirty
  PROVE  /\ T.revision + 1 <= graph.revision
         /\ OnLeaf /\ s.generation = generation => T.revision + 1 = graph.revision
<1>1. graph.revision \in Int /\ T.revision \in Int /\ T.revision < graph.revision
  BY ChangeOK DEF Shape, GraphShape, AnyGraph, Over
<1>2. ASSUME OnLeaf, s.generation = generation PROVE T.revision + 1 = graph.revision
  <2>1. lease.basis.graph = T.revision + 1 /\ ~lease.dirty
    BY <1>2 DEF Now
  <2>2. ASSUME NEW e \in graph.evidence, e.revision = graph.revision PROVE graph.revision <= T.revision + 1
    BY <2>2 DEF Over
  <2> QED
    BY <1>1, <1>2, <2>1, <2>2 DEF LeaseFollowsGraph, OnLeaf
<1> QED
  BY <1>1, <1>2

\* A step that changes no object and lets only Change ask anew.
LEMMA ToolEffects ==
  ASSUME Shape, Running, UNCHANGED <<obj, releases, call>>, leases' \in {leases, NoObj},
         io' = io \/ \E v : io' = [io EXCEPT ![Change] = v] /\ v.op # "done"
  PROVE  Effects
<1> USE Tasks
<1>1. DOMAIN io = Task
  BY DEF Shape, IoShape
<1>2. \A t \in Clients \cup {Refresh} : io'[t] = io[t]
  BY <1>1 DEF Clients
<1>3. \A x \in Obj : Moved(x)
  BY DEF Moved, Same, BasisKept
<1>4. \A t \in Clients : Asking(t)
  BY <1>2 DEF Asking, Concerns
<1>5. Running'
  BY <1>2 DEF Running, Pending, Clients
<1>6. \A s \in Slot : Done(s)' => io'[s] = io[s]
  BY <1>1, <1>2 DEF Slot, Done
<1> QED
  BY <1>3, <1>4, <1>5, <1>6 DEF Effects

LEMMA CloseEffects ==
  ASSUME Shape, Running, NEW s \in AnySnapshot, Close(s), Checkpointing, T.object # NoObj,
         s.lease # NoLease => Source(s) /\ Now(s) /\ s.lease.basis.graph = T.revision + 1 /\ ~s.lease.dirty,
         Over, LeaseFollowsGraph, UNCHANGED call
  PROVE  Effects
<1> USE Tasks, ChangeOK
<1>0. None.op = "none"
  BY DEF None
<1>1. CASE s.lease = NoLease
  BY <1>0, <1>1, ToolEffects DEF Close
<1>2. CASE s.lease # NoLease
  <2> DEFINE k == T.revision + 1
             n == [obj[T.object] EXCEPT !.durable = s, !.revision = k, !.dirty = FALSE, !.basis = NoAuth,
                                        !.origin = 0]
             requests == [io EXCEPT ![Change] = None]
  <2>1. T.object \in Obj /\ obj[T.object] \in AnyObject /\ k \in Int
    BY DEF SomeObj, Shape, ObjShape
  <2>16. k <= graph.revision /\ (OnLeaf /\ s.generation = generation => k = graph.revision)
    BY <1>2, SeenBased
  <2> HIDE DEF k
  <2>2. /\ n \in AnyObject /\ n.durable = s /\ n.revision = k /\ n.dirty = FALSE /\ n.basis = NoAuth
    BY <2>1, NewOK DEF AnyObject
  <2> HIDE DEF n
  <2>3. PICK o \in Free :
          /\ leases' = o
          /\ \/ Schedule(o, o, [obj EXCEPT ![o] = n], requests)
             \/ obj' = [obj EXCEPT ![o] = n] /\ io' = requests /\ UNCHANGED releases
    BY <1>2, <2>1 DEF Close, n, k
  <2> DEFINE kept == [obj EXCEPT ![o] = n]
  <2>4. o \in Obj /\ o \in SomeObj
    BY FreeIsUnused DEF SomeObj
  <2>5. kept \in [Obj -> AnyObject] /\ kept[o] = n /\ \A x \in Obj : x # o => kept[x] = obj[x]
    BY <2>2, <2>4 DEF Shape, ObjShape
  <2>6. /\ DOMAIN requests = Task /\ requests[Change] = None
        /\ \A t \in Task : t # Change => requests[t] = io[t]
    BY DEF Shape, IoShape
  <2>7. \A t \in Task : IoOK(requests[t])
    BY <2>6, NewOK DEF Shape, IoShape
  <2>8. /\ o \in Free
        /\ Source(kept[o].durable) /\ kept[o].durable.lease # NoLease
        /\ kept[o].dirty = kept[o].durable.lease.dirty
        /\ kept[o].revision = kept[o].durable.lease.basis.graph
        /\ kept[o].basis = NoAuth /\ Based(kept[o])
    <3>1. s.lease.dirty = FALSE
      <4>1. s.lease \in AnyLease
        BY <1>2 DEF AnySnapshot
      <4> QED
        BY <1>2, <4>1 DEF AnyLease
    <3>2. s.lease.basis.graph = k
      BY <1>2 DEF k
    <3> QED
      BY <1>2, <2>1, <2>2, <2>5, <2>16, <3>1, <3>2 DEF Based
  <2> HIDE DEF kept, requests
  <2>9. \/ obj' = kept /\ io' = requests /\ UNCHANGED releases
        \/ \E current \in SomeObj, p \in Obj :
             Schedule(current, p, kept, requests) /\ kept[p].durable.lease # NoLease
    BY <2>3, <2>4, <2>8 DEF kept
  <2>10. \A x \in Obj : x # o => kept[x] = obj[x]
    BY <2>5
  <2>11. \A t \in Clients \cup {Refresh} : requests[t] = io[t]
    BY <2>6 DEF Clients
  <2>12. /\ kept \in [Obj -> AnyObject] /\ DOMAIN requests = Task
         /\ requests[Change] = io[Change] \/ requests[Change].op # "done"
         /\ leases' \in Free /\ leases' = o
    BY <1>0, <2>3, <2>5, <2>6
  <2>13. \A x \in Obj :
           \/ /\ kept[x].durable = obj[x].durable /\ kept[x].revision = obj[x].revision
              /\ kept[x].dirty = obj[x].dirty /\ kept[x].basis \in {obj[x].basis, NoAuth}
              /\ obj[x].replaced => kept[x].replaced
           \/ /\ x \in Free /\ x = leases'
              /\ Source(kept[x].durable) /\ kept[x].durable.lease # NoLease
              /\ kept[x].dirty = kept[x].durable.lease.dirty
              /\ kept[x].revision = kept[x].durable.lease.basis.graph
              /\ kept[x].basis = NoAuth /\ Based(kept[x])
    BY <2>8, <2>10, <2>12
  <2>14. \/ leases' \in {leases, NoObj}
         \/ /\ leases' \in Free
            /\ Source(kept[leases'].durable) /\ kept[leases'].durable.lease # NoLease
            /\ kept[leases'].dirty = kept[leases'].durable.lease.dirty
            /\ kept[leases'].revision = kept[leases'].durable.lease.basis.graph
            /\ kept[leases'].basis = NoAuth /\ Based(kept[leases'])
    BY <2>8, <2>12
  <2>15. \A c \in Call : io[c].op = "none" \/ (/\ call'[c].pc = call[c].pc /\ call'[c].object = call[c].object
                                               /\ call'[c].settling = call[c].settling)
    OBVIOUS
  <2> HIDE DEF n, k
  <2> QED
    BY <2>7, <2>9, <2>11, <2>12, <2>13, <2>14, <2>15, BesideEffects
<1> QED
  BY <1>1, <1>2

LEMMA CheckedOutEffects ==
  ASSUME Shape, Running, Changing, Coherent, LeaseFollowsGraph, CheckedOut
  PROVE  Effects
<1> USE Tasks, ChangeOK
<1> DEFINE k == T.revision + 1
           n == NewObject(T.seen, k, FALSE)
<1>1. /\ T.seen.lease # NoLease /\ k \in Int /\ T.seen.lease.basis.graph = k
      /\ k <= graph.revision /\ (OnLeaf /\ T.seen.generation = generation => k = graph.revision)
      /\ T.seen \in AnySnapshot
  <2>1. T.pc = "published" /\ T.kind = "checkout" /\ Plain
    BY DEF CheckedOut, Plain, Checkpointing
  <2>2. T.seen.lease # NoLease /\ T.seen \in AnySnapshot
    BY <2>1 DEF Shape, LiveObjects, LiveChange, T, Checkpointing
  <2>3. T.seen.lease.basis.graph = T.revision + 1 /\ ~T.seen.lease.dirty /\ Over /\ Now(T.seen)
    BY <2>1 DEF Changing, Coherent, Committed
  <2> QED
    BY <2>2, <2>3, SeenBased
<1> HIDE DEF k
<1>2. /\ n \in AnyObject /\ n.durable = T.seen /\ n.revision = k /\ n.dirty = T.seen.lease.dirty /\ n.basis = NoAuth
  BY <1>1, NewObjectOK DEF NewObject
<1> HIDE DEF n
<1>3. call' = Aborted
  BY DEF CheckedOut
<1>4. PICK o \in Free : /\ leases' = o
                        /\ \/ obj' = [obj EXCEPT ![o] = n] /\ UNCHANGED <<io, releases, latest>>
                           \/ leases # NoObj /\ Schedule(leases, leases, [obj EXCEPT ![o] = n], io)
  BY DEF CheckedOut, n, k
<1> DEFINE kept == [obj EXCEPT ![o] = n]
<1>5. o \in Obj /\ o # leases
  BY FreeUnused
<1>6. kept \in [Obj -> AnyObject] /\ kept[o] = n /\ \A x \in Obj : x # o => kept[x] = obj[x]
  BY <1>2, <1>5 DEF Shape, ObjShape
<1>7. /\ Source(kept[o].durable) /\ kept[o].durable.lease # NoLease
      /\ kept[o].dirty = kept[o].durable.lease.dirty
      /\ kept[o].revision = kept[o].durable.lease.basis.graph
      /\ kept[o].basis = NoAuth /\ Based(kept[o])
  BY <1>1, <1>2, <1>6 DEF Source, Based
<1> HIDE DEF kept
<1>8. \/ obj' = kept /\ io' = io /\ UNCHANGED releases
      \/ \E current \in SomeObj, p \in Obj :
           Schedule(current, p, kept, io) /\ kept[p].durable.lease # NoLease
  <2>1. CASE leases # NoObj /\ Schedule(leases, leases, kept, io)
    <3>1. leases \in Obj /\ leases \in SomeObj /\ Live(leases)
      BY <2>1 DEF Shape, MemoryShape, SomeObj, LiveObjects
    <3>2. kept[leases].durable.lease # NoLease
      BY <1>5, <1>6, <3>1 DEF Live
    <3> QED
      BY <2>1, <3>1, <3>2
  <2> QED
    BY <1>4, <2>1 DEF kept
<1>9. \A c \in Call : call'[c].pc = call[c].pc /\ call'[c].object = call[c].object /\ call'[c].settling = call[c].settling
  BY <1>3, AbortedFacts DEF Shape
<1>10. DOMAIN io = Task /\ \A t \in Task : IoOK(io[t])
  BY DEF Shape, IoShape
<1>11. \A x \in Obj : x # o => kept[x] = obj[x]
  BY <1>6
<1> QED
  BY <1>4, <1>6, <1>7, <1>8, <1>9, <1>10, <1>11, BesideEffects

LEMMA ChangeEffects ==
  ASSUME Shape, Running, Changing, Coherent, LeaseFollowsGraph, ChangeStep
  PROVE  Effects
<1> USE Tasks, ChangeOK
<1>0. None.op = "none" /\ DOMAIN io = Task
  BY DEF None, Shape, IoShape
<1>1. CASE Reserve \/ ReserveReturns \/ WriteChange \/ CheckChange \/ PublishChange \/ PlanChanged \/ Undone
           \/ CheckpointCommitted
  <2>1. UNCHANGED <<obj, releases, call, leases>>
    BY <1>1 DEF Reserve, ReserveReturns, WriteChange, CheckChange, PublishChange, PlanChanged, Undone,
                CheckpointCommitted, OthersT
  <2>2. io' = io \/ \E v : io' = [io EXCEPT ![Change] = v] /\ v.op \in {"none", "checkout", "release", "checkpoint"}
    BY <1>0, <1>1 DEF Reserve, ReserveReturns, WriteChange, CheckChange, PublishChange, PlanChanged, Undone,
                CheckpointCommitted, AskCheckpoint, Abandon
  <2> QED
    BY <2>1, <2>2, ToolEffects
<1>2. CASE CheckedOut
  BY <1>2, CheckedOutEffects
<1>3. CASE CheckpointReturns
  <2> DEFINE d == io[Change].snapshot
  <2>1. Checkpointing /\ T.object # NoObj /\ Over /\ UNCHANGED call
    BY <1>3 DEF CheckpointReturns, Shape, LiveObjects, LiveChange, Checkpointing, Changing, Committed, T
  <2>2. CASE io[Change].ok
    <3>1. Close(d) /\ Done(Change)
      BY <1>3, <2>2 DEF CheckpointReturns, Done, Returned
    <3>2. d \in AnySnapshot
      BY <3>1 DEF Shape, IoShape, IoOK, Done
    <3>3. d.lease # NoLease => Source(d) /\ Now(d) /\ d.lease.basis.graph = T.revision + 1 /\ ~d.lease.dirty
      BY <1>3, <3>1 DEF CheckpointReturns, Changing, Coherent, Source
    <3> QED
      BY <2>1, <3>1, <3>2, <3>3, CloseEffects
  <2>3. CASE ~io[Change].ok
    <3>1. UNCHANGED <<obj, releases, leases>>
      BY <1>3, <2>3 DEF CheckpointReturns
    <3>2. \E v : io' = [io EXCEPT ![Change] = v] /\ v.op \in {"none", "checkpoint"}
      BY <1>0, <1>3, <2>3 DEF CheckpointReturns, AskCheckpoint
    <3> QED
      BY <2>1, <3>1, <3>2, ToolEffects
  <2> QED
    BY <2>2, <2>3
<1>4. CASE Reread
  <2>1. Checkpointing /\ T.object # NoObj /\ Over /\ UNCHANGED call
    BY <1>4 DEF Reread, Shape, LiveObjects, LiveChange, Checkpointing, Changing, Committed, T
  <2>2. CASE Close(Snapshot) /\ (lease = NoLease \/ (~lease.dirty /\ lease.basis.graph = T.revision + 1))
    <3>1. Snapshot \in AnySnapshot /\ Snapshot.lease = lease /\ Source(Snapshot)
      BY DEF Shape, FileShape, Snapshot, AnySnapshot, Source
    <3>2. PICK d : d = Snapshot
      OBVIOUS
    <3>3. Close(d)
      BY <2>2, <3>2
    <3>4. d \in AnySnapshot /\ d.lease = lease /\ Source(d) /\ Now(d)
      BY <3>1, <3>2 DEF Now
    <3> QED
      BY <2>1, <2>2, <3>3, <3>4, CloseEffects
  <2> DEFINE stays == UNCHANGED <<obj, releases, leases>>
                      /\ (io' = io \/ \E v : io' = [io EXCEPT ![Change] = v] /\ v.op \in {"release", "checkpoint"})
  <2>3. CASE stays
    BY <2>1, <2>3, ToolEffects
  <2>4. stays \/ (Close(Snapshot) /\ (lease = NoLease \/ (~lease.dirty /\ lease.basis.graph = T.revision + 1)))
    <3>1. lease # NoLease => lease.basis.graph \in Int /\ T.revision + 1 \in Int
      <4>1. lease # NoLease => lease \in AnyLease
        BY DEF Shape, FileShape
      <4> QED
        BY <4>1 DEF AnyLease, AnyBasis
    <3> DEFINE release == T.release \/ ReleaseAsked(T.object) \/ (E!Held /\ lease.releaseWhenClean)
               worn == lease.leaseId # T.seen.lease.leaseId \/ lease.dirty \/ lease.basis.graph > T.revision + 1
    <3>2. CASE lease = NoLease
      BY <1>4, <3>2 DEF Reread
    <3>3. CASE lease # NoLease /\ worn
      BY <1>4, <3>3 DEF Reread
    <3>4. CASE lease # NoLease /\ ~worn /\ lease.basis.graph < T.revision + 1
      BY <1>0, <1>4, <3>4 DEF Reread, AskCheckpoint
    <3>5. CASE lease # NoLease /\ ~worn /\ ~(lease.basis.graph < T.revision + 1)
      <4>1. ~lease.dirty /\ lease.basis.graph = T.revision + 1
        BY <3>1, <3>5
      <4>2. CASE release
        BY <1>0, <1>4, <3>5, <4>2 DEF Reread
      <4>3. CASE ~release
        BY <1>4, <3>5, <4>1, <4>3 DEF Reread
      <4> QED
        BY <4>2, <4>3
    <3> QED
      BY <3>2, <3>3, <3>4, <3>5
  <2> QED
    BY <2>2, <2>3, <2>4
<1>5. CASE ConvergeChange
  <2>1. UNCHANGED <<call, leases>>
    BY <1>5 DEF ConvergeChange, OthersT
  <2>2. CASE UNCHANGED <<obj, io, releases>>
    BY <2>1, <2>2, ToolEffects
  <2>3. CASE Schedule(leases, T.object, obj, io)
    <3>1. T.object \in Obj /\ obj[T.object].durable.lease # NoLease /\ leases \in SomeObj
      BY <1>5 DEF ConvergeChange, Shape, LiveObjects, LiveChange, Live, MemoryShape, T
    <3>2. /\ obj \in [Obj -> AnyObject] /\ \A t \in Task : IoOK(io[t])
      BY DEF Shape, ObjShape, IoShape
    <3>3. \E current \in SomeObj, p \in Obj :
             Schedule(current, p, obj, io) /\ obj[p].durable.lease # NoLease
      BY <2>3, <3>1
    <3> QED
      BY <1>0, <2>1, <3>2, <3>3, BesideEffects
  <2> QED
    BY <1>5, <2>2, <2>3 DEF ConvergeChange
<1> QED
  BY <1>1, <1>2, <1>3, <1>4, <1>5 DEF ChangeStep

\* An object whose basis is cleared, and that may be scheduled for release.
LEMMA ClearEffects ==
  ASSUME Shape, Running, leases \in Obj, NEW n \in AnyObject,
         n.durable = obj[leases].durable, n.revision = obj[leases].revision, n.dirty = obj[leases].dirty,
         n.basis = NoAuth, obj[leases].replaced => n.replaced,
         \/ obj' = [obj EXCEPT ![leases] = n] /\ io' = io /\ UNCHANGED releases
         \/ Schedule(leases, leases, [obj EXCEPT ![leases] = n], io),
         leases' = leases,
         \A c \in Call : io[c].op = "none" \/ (/\ call'[c].pc = call[c].pc /\ call'[c].object = call[c].object
                                               /\ call'[c].settling = call[c].settling)
  PROVE  Effects
<1> USE Tasks
<1> DEFINE objects == [obj EXCEPT ![leases] = n]
<1>1. /\ objects \in [Obj -> AnyObject] /\ objects[leases] = n /\ \A x \in Obj : x # leases => objects[x] = obj[x]
      /\ DOMAIN io = Task /\ \A t \in Task : IoOK(io[t])
  BY DEF Shape, ObjShape, IoShape
<1>2. Live(leases) /\ leases \in SomeObj
  BY DEF Shape, LiveObjects, Live, SomeObj
<1> HIDE DEF objects
<1>3. \/ obj' = objects /\ io' = io /\ UNCHANGED releases
      \/ \E current \in SomeObj, p \in Obj : Schedule(current, p, objects, io) /\ objects[p].durable.lease # NoLease
  BY <1>1, <1>2 DEF objects, Live
<1>4. \A x \in Obj :
        \/ /\ objects[x].durable = obj[x].durable /\ objects[x].revision = obj[x].revision
           /\ objects[x].dirty = obj[x].dirty /\ objects[x].basis \in {obj[x].basis, NoAuth}
           /\ obj[x].replaced => objects[x].replaced
        \/ /\ x \in Free /\ x = leases'
           /\ Source(objects[x].durable) /\ objects[x].durable.lease # NoLease
           /\ objects[x].dirty = objects[x].durable.lease.dirty
           /\ objects[x].revision = objects[x].durable.lease.basis.graph
           /\ objects[x].basis = NoAuth /\ Based(objects[x])
  BY <1>1
<1> QED
  BY <1>1, <1>3, <1>4, BesideEffects

LEMMA RevokeEffects ==
  ASSUME Shape, Running, NEW replaced \in BOOLEAN, Revoke(replaced)
  PROVE  Effects
<1> USE Tasks
<1>1. leases' = leases /\ call' = Aborted
  BY DEF Revoke
<1>2. \A c \in Call : call'[c].pc = call[c].pc /\ call'[c].object = call[c].object /\ call'[c].settling = call[c].settling
  BY <1>1, AbortedFacts DEF Shape
<1>3. CASE leases = NoObj
  BY <1>1, <1>2, <1>3, UnseenEffects DEF Revoke
<1>4. CASE leases # NoObj
  <2> DEFINE n == [obj[leases] EXCEPT !.basis = NoAuth, !.replaced = @ \/ replaced, !.release = @ \/ ~replaced]
             cleared == [obj EXCEPT ![leases].basis = NoAuth,
                                    ![leases].replaced = @ \/ replaced,
                                    ![leases].release = @ \/ ~replaced]
  <2>1. leases \in Obj /\ obj[leases] \in AnyObject
    BY <1>4 DEF Shape, LiveObjects, Live, ObjShape
  <2>2. (obj[leases].replaced \/ replaced) \in BOOLEAN /\ (obj[leases].release \/ ~replaced) \in BOOLEAN
    OBVIOUS
  <2>3. /\ n \in AnyObject /\ n.durable = obj[leases].durable /\ n.revision = obj[leases].revision
        /\ n.dirty = obj[leases].dirty /\ n.basis = NoAuth
    BY <2>1, <2>2, NewOK DEF AnyObject
  <2>4. obj[leases].replaced => n.replaced
    BY <2>1 DEF AnyObject
  <2>5. cleared = [obj EXCEPT ![leases] = n]
    BY <2>1 DEF Shape, ObjShape, AnyObject
  <2>6. \/ obj' = cleared /\ UNCHANGED <<io, releases, latest>>
        \/ Schedule(leases, leases, cleared, io)
    BY <1>4 DEF Revoke
  <2> HIDE DEF n, cleared
  <2>7. \/ obj' = [obj EXCEPT ![leases] = n] /\ io' = io /\ UNCHANGED releases
        \/ Schedule(leases, leases, [obj EXCEPT ![leases] = n], io)
    BY <2>5, <2>6
  <2>8. \A c \in Call : io[c].op = "none" \/ (/\ call'[c].pc = call[c].pc /\ call'[c].object = call[c].object
                                               /\ call'[c].settling = call[c].settling)
    BY <1>2
  <2> QED
    BY <1>1, <2>1, <2>3, <2>4, <2>7, <2>8, ClearEffects
<1> QED
  BY <1>3, <1>4

\* A guarded call, or a tool of Change, takes the authority.
LEMMA TakenEffects ==
  ASSUME Shape, Running, leases \in Obj, obj' = [obj EXCEPT ![leases].basis = NoAuth],
         UNCHANGED <<io, releases, leases>>,
         \A c \in Call : io[c].op = "none" \/ (/\ call'[c].pc = call[c].pc /\ call'[c].object = call[c].object
                                               /\ call'[c].settling = call[c].settling)
  PROVE  Effects
<1> DEFINE n == [obj[leases] EXCEPT !.basis = NoAuth]
<1>1. obj[leases] \in AnyObject
  BY DEF Shape, ObjShape
<1>2. /\ n \in AnyObject /\ n.durable = obj[leases].durable /\ n.revision = obj[leases].revision
      /\ n.dirty = obj[leases].dirty /\ n.basis = NoAuth /\ n.replaced = obj[leases].replaced
  BY <1>1, NewOK DEF AnyObject
<1>3. obj' = [obj EXCEPT ![leases] = n]
  BY <1>1 DEF Shape, ObjShape, AnyObject
<1> HIDE DEF n
<1> QED
  BY <1>2, <1>3, ClearEffects

LEMMA GuardEffects ==
  ASSUME Shape, Running, NEW c \in Call, Guard(c)
  PROVE  Effects
<1> USE Tasks
<1>1. /\ UNCHANGED <<leases, io, releases>> /\ leases \in Obj /\ call[c].pc = "new"
      /\ obj' = [obj EXCEPT ![leases].basis = NoAuth]
  BY DEF Guard, Shape, LiveObjects, Live
<1>2. io[c].op = "none"
  BY <1>1 DEF Shape, Protocol, CallAsks, OpOf, IoShape, IoOK, Ops
<1>3. PICK r \in AnyCall : call' = [Aborted EXCEPT ![c] = r]
  BY GuardShape
<1>4. \A d \in Call : d # c => call'[d] = Aborted[d]
  BY <1>3, AbortedFacts DEF Shape
<1>5. \A d \in Call : io[d].op = "none" \/ (/\ call'[d].pc = call[d].pc /\ call'[d].object = call[d].object
                                             /\ call'[d].settling = call[d].settling)
  BY <1>2, <1>4, AbortedFacts DEF Shape
<1> QED
  BY <1>1, <1>5, TakenEffects

LEMMA ConsumeEffects ==
  ASSUME Shape, Running, NEW kind \in Kinds, Consume(kind)
  PROVE  Effects
<1> USE Tasks
<1>1. /\ UNCHANGED <<leases, io, releases>> /\ call' = Aborted
      /\ obj' = IF leases = NoObj THEN obj ELSE [obj EXCEPT ![leases].basis = NoAuth]
  BY DEF Consume, OthersT
<1>2. \A d \in Call : io[d].op = "none" \/ (/\ call'[d].pc = call[d].pc /\ call'[d].object = call[d].object
                                             /\ call'[d].settling = call[d].settling)
  BY <1>1, AbortedFacts DEF Shape
<1>3. leases # NoObj => leases \in Obj
  BY DEF Shape, LiveObjects, Live
<1>4. CASE leases = NoObj
  BY <1>1, <1>2, <1>4, UnseenEffects
<1>5. CASE leases # NoObj
  BY <1>1, <1>2, <1>3, <1>5, TakenEffects
<1> QED
  BY <1>4, <1>5

LEMMA ReleaseReturnsEffects ==
  ASSUME Shape, Running, NEW o \in Obj, ReleaseReturns(o)
  PROVE  Effects
<1> USE Tasks
<1>0. /\ io[o].op = "done" /\ IoOK(io[o]) /\ DOMAIN io = Task /\ None.op = "none" /\ call' = call
      /\ releases \in [Obj -> [running : BOOLEAN, ok : BOOLEAN]] /\ leases' \in {leases, NoObj}
      /\ UNCHANGED <<tool, auth, epoch>>
  BY DEF ReleaseReturns, Returned, Shape, IoShape, None, MemoryShape
<1> DEFINE s == io[o].snapshot
           v == [op |-> "release", claim |-> ClaimOf(s)]
           told == io[o].ok /\ io[o].of = "request" /\ obj' = [obj EXCEPT ![o].durable = s]
<1>1. \/ told /\ io' = [io EXCEPT ![o] = v] /\ UNCHANGED releases
      \/ (told \/ obj' = obj) /\ \E ok \in BOOLEAN : Finished(o, ok)
  BY <1>0 DEF ReleaseReturns, IoOK
<1>2. \A t \in Task : t # o => io'[t] = io[t]
  BY <1>0, <1>1 DEF Finished
<1>3. io'[o].op = "none" \/ (told /\ io'[o] = v)
  BY <1>0, <1>1 DEF Finished
<1>4. Running'
  <2>1. CASE io' = [io EXCEPT ![o] = v] /\ UNCHANGED releases
    BY <1>0, <2>1 DEF Running, Pending
  <2>2. CASE \E ok \in BOOLEAN : Finished(o, ok)
    <3>1. io'[o].op = "none" /\ \A x \in Obj : x # o => io'[x] = io[x] /\ releases'[x] = releases[x]
      BY <1>0, <2>2 DEF Finished
    <3> QED
      BY <3>1 DEF Running, Pending
  <2> QED
    BY <1>1, <2>1, <2>2
<1>5. told => /\ s.lease # NoLease /\ obj'[o].durable = s
              /\ obj'[o].revision = obj[o].revision /\ obj'[o].dirty = obj[o].dirty
              /\ obj'[o].basis = obj[o].basis /\ obj'[o].replaced = obj[o].replaced
              /\ \A x \in Obj : x # o => obj'[x] = obj[x]
  <2> SUFFICES ASSUME told PROVE <1>5!2
    OBVIOUS
  <2> DEFINE n == [obj[o] EXCEPT !.durable = s]
  <2>1. obj[o] \in AnyObject /\ obj \in [Obj -> AnyObject]
    BY DEF Shape, ObjShape
  <2>2. /\ n.durable = s /\ n.revision = obj[o].revision /\ n.dirty = obj[o].dirty
        /\ n.basis = obj[o].basis /\ n.replaced = obj[o].replaced
    BY <2>1 DEF AnyObject
  <2>3. obj' = [obj EXCEPT ![o] = n]
    BY <2>1 DEF AnyObject
  <2> HIDE DEF n
  <2> QED
    BY <1>0, <2>1, <2>2, <2>3 DEF IoOK
<1>6. ASSUME NEW x \in Obj PROVE Moved(x)
  <2>1. CASE obj'[x] = obj[x]
    BY <2>1 DEF Moved, Same, BasisKept
  <2>2. CASE obj'[x] # obj[x]
    <3>1. told /\ x = o
      BY <1>1, <1>5, <2>2
    <3>2. Result(o) /\ Concerns(o, o) /\ io[o].of = "request"
      BY <1>0, <3>1 DEF Result, Done, Concerns
    <3>3. ~Done(o)'
      BY <1>3 DEF Done
    <3>4. BasisKept(o)
      BY <1>5, <3>1 DEF BasisKept
    <3>5. obj[o].dirty \in BOOLEAN
      BY DEF Shape, ObjShape, AnyObject
    <3> HIDE DEF told, s
    <3>6. Delivers(o, o)
      BY <1>5, <3>1, <3>2, <3>3, <3>4, <3>5 DEF Delivers, Clients, s
    <3> QED
      BY <3>1, <3>6 DEF Moved, Clients
  <2> QED
    BY <2>1, <2>2
<1>7. ASSUME NEW t \in Clients PROVE Asking(t)
  <2>1. CASE t # o
    BY <1>0, <1>2, <2>1 DEF Asking, Concerns, Clients
  <2>2. CASE t = o /\ io'[o].op = "none"
    BY <2>2 DEF Asking, Asked, Done
  <2>3. CASE t = o /\ told /\ io'[o] = v
    <3>1. NewClaim(o, o)
      BY <1>5, <2>3 DEF NewClaim
    <3>2. \A x \in Obj : Concerns(o, x)' => x = o
      BY DEF Concerns
    <3>3. Asked(o)'
      BY <2>3 DEF Asked
    <3> QED
      BY <2>3, <3>1, <3>2, <3>3 DEF Asking
  <2> QED
    BY <1>3, <2>1, <2>2, <2>3
<1>8. \A x \in Slot : io'[x] = io[x]
  BY <1>2 DEF Slot
<1> QED
  BY <1>0, <1>4, <1>6, <1>7, <1>8 DEF Effects

LEMMA RefuseEffects ==
  ASSUME Shape, Running, NEW t \in Task, Refuse(t) \/ FailOperation(t)
  PROVE  Effects
<1> USE Tasks
<1>1. /\ io' = [io EXCEPT ![t] = [op |-> "done", of |-> io[t].op, ok |-> FALSE]] /\ DOMAIN io = Task
      /\ UNCHANGED <<obj, releases, leases, call>> /\ io[t].op # "none"
  BY DEF Refuse, FailOperation, Rest, Memory, Shape, IoShape, Asked
<1>2. io'[t].op = "done" /\ ~io'[t].ok /\ \A u \in Task : u # t => io'[u] = io[u]
  BY <1>1
<1>3. \A x \in Obj : Moved(x)
  BY <1>1 DEF Moved, Same, BasisKept
<1>4. ASSUME NEW u \in Clients PROVE Asking(u)
  <2>1. \A x \in Obj : Concerns(u, x)' => Concerns(u, x)
    BY <1>1 DEF Concerns
  <2>2. CASE u = t
    BY <1>2, <2>2 DEF Asking, Asked, Done
  <2>3. CASE u # t
    BY <1>2, <2>1, <2>3 DEF Asking, Clients
  <2> QED
    BY <2>2, <2>3
<1>5. Running'
  BY <1>1, <1>2 DEF Running, Pending
<1>6. \A s \in Slot : Done(s)' => io'[s] = io[s]
  BY <1>2 DEF Slot, Done
<1> QED
  BY <1>1, <1>3, <1>4, <1>5, <1>6 DEF Effects

\* What a step that is no grant does to objects and requests.
LEMMA StepEffects ==
  ASSUME Shape, Running, Refreshing, Changing, Coherent, LeaseFollowsGraph,
         [Next]_vars, ~(\E t \in Task : Grant(t)), ~Crash
  PROVE  Effects
<1>1. CASE EndTurn \/ GraceEnds \/ (\E p \in Process : Restart(p)) \/ UNCHANGED vars
  <2>1. UNCHANGED <<io, obj, releases, leases, call>>
    BY <1>1 DEF EndTurn, GraceEnds, Restart, vars, Memory
  <2> QED
    BY <2>1, UnseenEffects
<1> QED
  BY <1>1, RefuseEffects, ReleaseReturnsEffects, RevokeEffects, GuardEffects, CallEffects, RefreshEffects,
     ConsumeEffects, ChangeEffects DEF Next
-----------------------------------------------------------------------------
(* What is known of the lease, of the objects and of the requests.         *)

Objects == \A o \in Obj :
  /\ obj[o].revision <= graph.revision
  /\ Fresh(o) => obj[o].durable.lease.basis.graph = obj[o].revision /\ obj[o].dirty = obj[o].durable.lease.dirty
  /\ Recent(o) /\ obj[o].basis # NoAuth => obj[o].basis.revision <= obj[o].revision

\* An object whose task has a result is behind the file, and the result is what
\* the object becomes.
Told(t, o) ==
  LET s == io[t].snapshot
  IN /\ ~Fresh(o)
     /\ s.lease # NoLease =>
          /\ s.lease.basis.graph = IF io[t].of = "settle" THEN obj[o].revision + 1 ELSE obj[o].revision
          /\ s.lease.dirty = (io[t].of = "begin" \/ (io[t].of = "request" /\ obj[o].dirty))
     /\ io[t].of = "request" => s.lease.pending = obj[o].durable.lease.pending
     /\ io[t].of = "begin" => obj[o].durable.lease.pending = 0
Results == \A o \in Obj, t \in Clients : Concerns(t, o) =>
  /\ Valid(t) => Fresh(o)
  /\ Valid(t) /\ io[t].op = "request" => ~obj[o].durable.lease.releaseWhenClean
  /\ Result(t) => Told(t, o)
  /\ \A u \in Clients : Concerns(u, o) /\ Result(t) /\ Result(u) => u = t

QuietStep == [Next]_vars /\ ~(\E t \in Task : Grant(t)) /\ ~Crash

LEMMA GraphGrows ==
  ASSUME Shape, [Next]_vars
  PROVE  /\ graph.revision \in Int /\ graph'.revision \in {graph.revision, graph.revision + 1}
         /\ graph.receipts \subseteq graph'.receipts /\ graph.evidence \subseteq graph'.evidence
         /\ \/ graph'.evidence = graph.evidence
            \/ PublishChange /\ graph'.evidence = NewEvidence /\ graph'.revision = graph.revision + 1
<1>0. graph \in AnyGraph
  BY DEF Shape, GraphShape
<1>7. graph.revision \in Int
  BY <1>0 DEF AnyGraph
<1>4. ASSUME graph' = graph
      PROVE  /\ graph'.revision \in {graph.revision, graph.revision + 1}
             /\ graph.receipts \subseteq graph'.receipts /\ graph'.evidence = graph.evidence
  BY <1>4
<1>1. ASSUME NEW c \in Call, CallStep(c)
      PROVE  /\ graph'.revision \in {graph.revision, graph.revision + 1}
             /\ graph.receipts \subseteq graph'.receipts /\ graph'.evidence = graph.evidence
  <2>1. CASE PublishReceipt(c) \/ WriteReceipt(c)
    BY <1>0, <2>1 DEF PublishReceipt, WriteReceipt, AnyGraph
  <2>2. CASE ~(PublishReceipt(c) \/ WriteReceipt(c))
    BY <1>1, <2>2 DEF CallStep, Execute, BeginReturns, MarkReturns, Enter, Leave, Record, MakeReceipt, Settle,
                SettleReturns, Converge
  <2> QED
    BY <2>1, <2>2
<1>2. CASE ChangeStep
  <2>1. CASE WriteChange \/ CheckChange
    BY <1>0, <2>1 DEF WriteChange, CheckChange, AnyGraph
  <2>2. CASE PublishChange
    <3> DEFINE done == IF T.kind = "complete" THEN graph.revision + 1 ELSE IF T.kind = "checkout" THEN 0 ELSE graph.done
               evidence == NewEvidence
    <3>1. \/ graph' = [graph EXCEPT !.writer = NoObj, !.revision = @ + 1, !.evidence = evidence, !.done = done]
          \/ graph' = [graph EXCEPT !.writer = NoObj]
      BY <1>0, <2>2 DEF PublishChange, AnyGraph
    <3>2. graph.evidence \subseteq evidence /\ evidence = NewEvidence
      BY DEF NewEvidence
    <3> HIDE DEF done, evidence
    <3>3. CASE graph' = [graph EXCEPT !.writer = NoObj]
      BY <1>0, <3>3 DEF AnyGraph
    <3>4. CASE graph' = [graph EXCEPT !.writer = NoObj, !.revision = @ + 1, !.evidence = evidence, !.done = done]
      BY <1>0, <2>2, <3>2, <3>4 DEF AnyGraph
    <3> QED
      BY <3>1, <3>3, <3>4
  <2>3. CASE ~(WriteChange \/ CheckChange \/ PublishChange)
    <3>1. graph' = graph
      BY <1>2, <2>3 DEF ChangeStep, Reserve, ReserveReturns, CheckedOut,
         PlanChanged, Undone, CheckpointCommitted, CheckpointReturns, Reread, ConvergeChange
    <3> QED
      BY <1>4, <1>7, <3>1
  <2> QED
    BY <2>1, <2>2, <2>3
<1>3. CASE Crash
  BY <1>0, <1>3 DEF Crash, AnyGraph
<1>5. CASE \/ \E t \in Task : Grant(t) \/ Refuse(t) \/ FailOperation(t)
           \/ \E o \in Obj : ReleaseReturns(o)
           \/ \E replaced \in BOOLEAN : Revoke(replaced)
           \/ \E c \in Call : Guard(c)
           \/ EndTurn \/ (\E kind \in Kinds : Consume(kind)) \/ GraceEnds \/ (\E p \in Process : Restart(p))
           \/ UNCHANGED vars
  <2>1. graph' = graph
    BY <1>5 DEF Grant, Refuse, FailOperation, ReleaseReturns, Revoke, Guard, EndTurn, Consume, GraceEnds, Restart,
                    Rest, vars
  <2> QED
    BY <1>4, <1>7, <2>1
<1>6. CASE RefreshStart \/ RefreshStep
  <2>1. graph' = graph
    BY <1>6 DEF RefreshStart, RefreshStep, RestoreStart, RestoreRead, RestoreFound, RestoreReturns, RefreshEnds, OthersR
  <2> QED
    BY <1>4, <1>7, <2>1
<1> QED
  BY <1>1, <1>2, <1>3, <1>5, <1>6, <1>7 DEF Next

\* No evidence is of a revision that the graph has not had.
LEMMA EvidenceDated ==
  ASSUME Shape, [Next]_vars, \A e \in graph.evidence : e.revision <= graph.revision
  PROVE  \A e \in graph'.evidence : e.revision <= graph'.revision
<1>1. SUFFICES ASSUME NEW e \in graph'.evidence PROVE e.revision <= graph'.revision
  OBVIOUS
<1>2. graph.revision \in Int /\ graph'.revision \in {graph.revision, graph.revision + 1}
  BY GraphGrows
<1>3. CASE e \in graph.evidence
  <2>1. e.revision \in Int
    BY <1>3 DEF Shape, GraphShape, AnyGraph
  <2> QED
    BY <1>2, <1>3, <2>1
<1>4. CASE e \notin graph.evidence
  <2>1. graph'.evidence = NewEvidence /\ graph'.revision = graph.revision + 1
    BY <1>1, <1>4, GraphGrows
  <2>2. e.revision = graph.revision + 1
    BY <1>1, <1>4, <2>1 DEF NewEvidence
  <2> QED
    BY <1>2, <2>1, <2>2
<1> QED
  BY <1>3, <1>4

LEMMA QuietFile ==
  ASSUME Shape, QuietStep
  PROVE  generation' = generation /\ lease' = lease
BY FileMoves DEF QuietStep

LEMMA ChangeSeen ==
  ASSUME Shape, ChangeStep
  PROVE  \/ T'.seen \in {T.seen, NoSnapshot, Snapshot}
         \/ Done(Change) /\ T'.seen = io[Change].snapshot
         \/ T.object # NoObj /\ T'.seen = obj[T.object].durable
<1> USE Tasks
<1>0. T' = tool'[Change] /\ T = tool[Change] /\ T \in AnyTool /\ tool \in [Slot -> AnyTool]
  BY DEF T, Shape, ToolShape
<1>1. NewTool.seen = NoSnapshot
  BY DEF NewTool
<1>2. ChangeEnds => T'.seen = NoSnapshot
  BY <1>0, <1>1 DEF ChangeEnds
<1>3. ASSUME NEW p, tool' = [tool EXCEPT ![Change].pc = p] PROVE T'.seen = T.seen
  BY <1>0, <1>3 DEF AnyTool
<1>4. Abandon => T'.seen \in {T.seen, NoSnapshot}
  BY <1>2, <1>3 DEF Abandon
<1>5. ASSUME NEW s, NEW b, AskCheckpoint(s, b) PROVE T'.seen = s
  BY <1>0, <1>5 DEF AskCheckpoint, AnyTool
<1>6. ASSUME NEW s, Close(s) PROVE T'.seen \in {T.seen, NoSnapshot}
  <2>1. ChangeEnds \/ \E o : tool' = [tool EXCEPT ![Change].pc = "converging", ![Change].object = o, ![Change].tries = 1]
    BY <1>6 DEF Close
  <2>2. ASSUME NEW o, tool' = [tool EXCEPT ![Change].pc = "converging", ![Change].object = o, ![Change].tries = 1]
        PROVE  T'.seen = T.seen
    BY <1>0, <2>2 DEF AnyTool
  <2> QED
    BY <1>2, <2>1, <2>2
<1>7. CASE Reserve \/ CheckedOut \/ PlanChanged \/ Undone
  BY <1>2, <1>3, <1>4, <1>7 DEF Reserve, CheckedOut, PlanChanged, Undone
<1>8. CASE ReserveReturns
  <2>1. CASE io[Change].ok
    BY <1>0, <1>8, <2>1 DEF ReserveReturns, Returned, Done, AnyTool
  <2>2. CASE ~io[Change].ok
    BY <1>2, <1>8, <2>2 DEF ReserveReturns
  <2> QED
    BY <2>1, <2>2
<1>9. CASE WriteChange
  <2>1. tool' = [tool EXCEPT ![Change].pc = "written", ![Change].evidence = generation] => T'.seen = T.seen
    BY <1>0 DEF AnyTool
  <2> QED
    BY <1>4, <1>9, <2>1 DEF WriteChange
<1>10. CASE CheckChange \/ PublishChange
  BY <1>3, <1>4, <1>10 DEF CheckChange, PublishChange
<1>11. CASE CheckpointCommitted
  <2>1. T.object # NoObj
    BY <1>11 DEF CheckpointCommitted, Shape, LiveObjects, LiveChange, T, Checkpointing
  <2> QED
    BY <1>5, <1>11, <2>1 DEF CheckpointCommitted
<1>12. CASE CheckpointReturns
  BY <1>2, <1>3, <1>5, <1>6, <1>12 DEF CheckpointReturns
<1>13. CASE Reread
  <2>1. ASSUME NEW s, NEW b, tool' = [tool EXCEPT ![Change].pc = "closingRelease", ![Change].seen = s, ![Change].release = b]
        PROVE  T'.seen = s
    BY <1>0, <2>1 DEF AnyTool
  <2> QED
    BY <1>2, <1>5, <1>6, <1>13, <2>1 DEF Reread
<1>14. CASE ConvergeChange
  <2>1. tool' = [tool EXCEPT ![Change].tries = 2] => T'.seen = T.seen
    BY <1>0 DEF AnyTool
  <2> QED
    BY <1>2, <1>14, <2>1 DEF ConvergeChange
<1> QED
  BY <1>7, <1>8, <1>9, <1>10, <1>11, <1>12, <1>13, <1>14 DEF ChangeStep

\* What a task has been told, it has been told before.
LEMMA HeardBefore ==
  ASSUME Effects, NEW t \in Task, Done(t)'
  PROVE  /\ Done(t) /\ io'[t] = io[t]
         /\ t \in Clients => \A o \in Obj : Concerns(t, o)' => Concerns(t, o)
<1>1. t \in Clients => io'[t] = io[t] /\ \A o \in Obj : Concerns(t, o)' => Concerns(t, o)
  BY DEF Effects, Asking, Done, Asked
<1>2. t \in Slot => io'[t] = io[t]
  BY DEF Effects
<1> QED
  BY <1>1, <1>2 DEF Done, Task, Clients

LEMMA QuietCoherent ==
  ASSUME Shape, QuietStep, Effects, Coherent
  PROVE  Coherent'
<1> USE Tasks
<1>1. \A d : Now(d)' <=> (d.lease # NoLease /\ d.generation = generation => d.lease = lease)
  BY QuietFile DEF Now
<1>2. ASSUME NEW d, Now(d) PROVE d.lease # NoLease /\ d.generation = generation' => d.lease = lease'
  BY <1>2, QuietFile DEF Now
<1>3. Now(Snapshot) /\ Now(NoSnapshot)
  BY DEF Now, Snapshot, NoSnapshot
<1>4. ASSUME NEW t \in Task, Done(t)' PROVE Now(io[t].snapshot) /\ io'[t] = io[t]
  BY <1>4, HeardBefore DEF Coherent
<1>5. \A t \in Task : (Done(t) => Now(io[t].snapshot))'
  BY <1>2, <1>4 DEF Now
<1>6. ASSUME NEW o \in Obj PROVE Now(obj[o].durable)'
  <2>1. PICK d : d = obj'[o].durable
    OBVIOUS
  <2>2. CASE Same(o)
    BY <1>2, <2>2 DEF Same, Coherent, Now
  <2>3. ASSUME NEW t \in Clients, Delivers(t, o) PROVE Now(d)
    BY <2>1, <2>3 DEF Delivers, Result, Coherent, Clients, Task
  <2>4. ASSUME Made(o) PROVE Now(d)
    <3>1. Source(d)
      BY <2>1, <2>4 DEF Made
    <3> QED
      BY <1>3, <3>1 DEF Source, Coherent, Slot, Task
  <2>5. Moved(o)
    BY DEF Effects
  <2> QED
    BY <1>2, <2>1, <2>2, <2>3, <2>4, <2>5 DEF Moved, Now
<1>7. Now(R.seen)'
  <2>1. R'.seen \in {R.seen, NoSnapshot, Snapshot}
    BY RefreshToolMoves DEF QuietStep
  <2>2. PICK d : d = R'.seen
    OBVIOUS
  <2> QED
    BY <1>2, <1>3, <2>1, <2>2 DEF Coherent, Now
<1>8. Now(T.seen)'
  <2>1. PICK d : d = T'.seen
    OBVIOUS
  <2>2. CASE ChangeStep
    <3>1. T.object # NoObj => T.object \in Obj
      BY DEF Shape, LiveObjects, LiveChange, Live, T
    <3> QED
      BY <1>2, <1>3, <2>1, <2>2, <3>1, ChangeSeen DEF Coherent, Now, Slot, Task
  <2>3. CASE \E kind \in Kinds : Consume(kind)
    <3>1. T' = T \/ T'.seen = NoSnapshot
      BY <2>3, ConsumeMoves
    <3> QED
      BY <1>2, <1>3, <2>1, <3>1 DEF Coherent, Now
  <2>4. CASE T' = T
    BY <1>2, <2>1, <2>4 DEF Coherent, Now
  <2> QED
    BY <2>2, <2>3, <2>4, ChangeToolMoves DEF QuietStep
<1> QED
  BY <1>5, <1>6, <1>7, <1>8 DEF Coherent

\* The calls whose execution is being recorded, and those that ask to begin.
Settlings == \A c \in Call :
  /\ call[c].pc \in {"write", "publish", "receipted", "settling"} =>
       obj[call[c].settling].durable.lease.pending = call[c].attempt /\ call[c].attempt # 0
  /\ call[c].pc \in {"publish", "receipted", "settling"} => obj[call[c].settling].revision = call[c].basis.revision
  /\ call[c].pc \in {"receipted", "settling"} =>
       /\ call[c].basis.revision < graph.revision
       /\ E!Held /\ lease.pending = call[c].attempt => graph.revision = call[c].basis.revision + 1
  /\ io[c].op = "settle" => io[c].attempt = call[c].attempt /\ io[c].revision = call[c].basis.revision + 1
  /\ io[c].op = "begin" /\ Valid(c) /\ OnLeaf => graph.revision = lease.basis.graph

\* The revision that authority was issued on is not ahead of the lease object's,
\* as long as the file follows that object.
Authorized ==
  /\ auth # NoAuth => /\ auth.revision <= graph.revision
                      /\ leases # NoObj /\ Recent(leases) => auth.revision <= obj[leases].revision
                      /\ R.pc # "idle" => auth.revision <= R.revision
  /\ R.epoch <= epoch
  /\ leases # NoObj /\ Recent(leases)
     /\ (\/ R.pc = "restored"
         \/ R.pc \in {"waiting", "read", "takeover", "settling", "releasing"} /\ R.object = NoObj)
       => R.revision <= obj[leases].revision
  /\ \A c \in Call : call[c].pc = "prepared" =>
       /\ call[c].basis.revision <= graph.revision
       /\ call[c].epoch = epoch /\ leases # NoObj /\ Recent(leases) =>
            obj[leases].replaced \/ call[c].basis.revision <= obj[leases].revision
       /\ call[c].epoch = epoch /\ R.pc # "idle" /\ R.epoch = epoch => call[c].basis.revision <= R.revision

LEMMA ResultOf ==
  ASSUME Shape, NEW t \in Clients, NEW o \in Obj, Concerns(t, o), Result(t)
  PROVE  \/ io[t].of = "settle" /\ t \in Call /\ call[t].pc = "settling" /\ call[t].settling = o
         \/ io[t].of = "begin" /\ t \in Call /\ call[t].pc = "begin" /\ call[t].object = o
         \/ io[t].of = "request" /\ t = o
BY Tasks DEF Shape, Protocol, CallAsks, OpOf, IoShape, IoOK, Ops, Concerns, Clients, Result, Done

LEMMA ObjectTypes ==
  ASSUME Shape, NEW o \in Obj
  PROVE  /\ obj[o].revision \in Int /\ obj[o].dirty \in BOOLEAN /\ obj[o].replaced \in BOOLEAN
         /\ obj[o].durable \in AnySnapshot /\ obj[o].basis.revision \in Int
BY DEF Shape, ObjShape, AnyObject, AnyAuth

\* The revision of an object that was there never goes back.
LEMMA RevisionKept ==
  ASSUME Shape, NEW o \in Obj, Moved(o), ~Made(o)
  PROVE  obj'[o].revision >= obj[o].revision
<1>1. obj[o].revision \in Int
  BY ObjectTypes
<1>2. obj'[o].revision \in {obj[o].revision, obj[o].revision + 1}
  BY DEF Moved, Same, Delivers
<1> QED
  BY <1>1, <1>2

\* What the file follows, it has followed; a new object it follows is as far as
\* the graph, or as the refresh that restored it.
LEMMA RecentBefore ==
  ASSUME Shape, Running, QuietStep, Effects, NEW o \in Obj, Recent(o)'
  PROVE  /\ ~Made(o) => Recent(o)
         /\ Made(o) => /\ obj'[o].revision <= graph.revision \/ obj'[o].revision = R.revision
                       /\ \/ obj'[o].revision = graph.revision
                          \/ /\ obj'[o].revision = R.revision /\ obj'[o].replaced /\ R.pc # "idle"
                             /\ UNCHANGED <<epoch, auth>>
<1> USE Tasks
<1>1. generation' = generation /\ lease' = lease /\ OnLeaf
  BY QuietFile DEF Recent, OnLeaf, E!Held
<1>2. Moved(o)
  BY DEF Effects
<1>3. ASSUME NEW t \in Clients, Concerns(t, o)', Result(t)', io'[t].snapshot.generation = generation'
      PROVE  Recent(o) /\ ~Made(o)
  <2>1. t \in Task /\ Concerns(t, o) /\ Result(t) /\ io'[t] = io[t]
    BY <1>3, HeardBefore DEF Result, Clients, Task
  <2>2. ~Made(o)
    BY <2>1, FreeUnused DEF Made, Result, Done
  <2> QED
    BY <1>1, <1>3, <2>1, <2>2 DEF Recent
<1>4. ASSUME Fresh(o)', ~Made(o) PROVE Recent(o)
  <2>1. CASE Same(o)
    BY <1>1, <1>4, <2>1 DEF Same, Fresh, Live, Recent
  <2>2. ASSUME NEW t \in Clients, Delivers(t, o) PROVE Recent(o)
    <3>1. Result(t) /\ Concerns(t, o)
          /\ obj'[o].durable = IF io[t].snapshot.lease = NoLease THEN obj[o].durable ELSE io[t].snapshot
      BY <2>2 DEF Delivers
    <3> QED
      BY <1>1, <1>4, <3>1 DEF Fresh, Live, Recent
  <2> QED
    BY <1>2, <1>4, <2>1, <2>2 DEF Moved
<1>5. ASSUME Fresh(o)', Made(o)
      PROVE  /\ obj'[o].revision <= graph.revision \/ obj'[o].revision = R.revision
             /\ \/ obj'[o].revision = graph.revision
                \/ /\ obj'[o].revision = R.revision /\ obj'[o].replaced /\ R.pc # "idle"
                   /\ UNCHANGED <<epoch, auth>>
  <2>1. obj'[o].durable.generation = generation
    BY <1>1, <1>5 DEF Fresh
  <2> QED
    BY <1>1, <1>5, <2>1 DEF Made, Based
<1>6. Fresh(o)' \/ \E t \in Clients : Concerns(t, o)' /\ Result(t)' /\ io'[t].snapshot.generation = generation'
  BY DEF Recent
<1> QED
  BY <1>3, <1>4, <1>5, <1>6

LEMMA QuietObjects ==
  ASSUME Shape, Running, QuietStep, Effects, Objects, Results, Settlings, Refreshing, Authorized
  PROVE  Objects'
<1>0. /\ generation' = generation
      /\ graph.revision \in Int /\ graph'.revision \in Int /\ graph'.revision >= graph.revision
      /\ R.revision \in Int
  <2>1. R.revision \in Int
    BY Tasks DEF R, Shape, ToolShape, AnyTool
  <2> QED
    BY <2>1, QuietFile, GraphGrows DEF QuietStep
<1> SUFFICES ASSUME NEW o \in Obj
             PROVE  /\ obj'[o].revision <= graph'.revision
                    /\ Fresh(o)' => obj'[o].durable.lease.basis.graph = obj'[o].revision
                                    /\ obj'[o].dirty = obj'[o].durable.lease.dirty
                    /\ Recent(o)' /\ obj'[o].basis # NoAuth => obj'[o].basis.revision <= obj'[o].revision
  BY DEF Objects
<1>1. Moved(o)
  BY DEF Effects
<1>2. obj[o].revision \in Int /\ obj[o].basis.revision \in Int /\ obj[o].revision <= graph.revision
  BY ObjectTypes DEF Objects
<1>3. ASSUME ~Made(o), BasisKept(o), obj'[o].revision \in Int, obj'[o].revision >= obj[o].revision
      PROVE  Recent(o)' /\ obj'[o].basis # NoAuth => obj'[o].basis.revision <= obj'[o].revision
  <2> SUFFICES ASSUME Recent(o)' PROVE obj'[o].basis # NoAuth => obj'[o].basis.revision <= obj'[o].revision
    OBVIOUS
  <2>3. Recent(o)
    BY <1>3, RecentBefore
  <2>1. CASE obj'[o].basis \in {obj[o].basis, NoAuth}
    BY <1>2, <1>3, <2>1, <2>3 DEF Objects
  <2>2. CASE RefreshEnds /\ o = leases /\ obj'[o].basis # obj[o].basis
    <3> DEFINE receipt == [epoch |-> epoch, revision |-> R.revision, shown |-> FALSE]
               n == [obj[o] EXCEPT !.basis = receipt, !.replaced = FALSE]
    <3>1. /\ leases \in Obj /\ R.pc = "restored" /\ leases # NoObj
          /\ obj' = [obj EXCEPT ![leases].basis = receipt, ![leases].replaced = FALSE]
      BY <2>2, Tasks DEF RefreshEnds, TaskAssumption
    <3>2. obj' = [obj EXCEPT ![o] = n] /\ n.basis = receipt
      BY <2>2, <3>1 DEF Shape, ObjShape, AnyObject
    <3>3. obj'[o].basis = receipt /\ receipt.revision = R.revision
      BY <3>2 DEF Shape, ObjShape
    <3>4. R.revision <= obj[o].revision
      BY <2>2, <2>3, <3>1 DEF Authorized
    <3> HIDE DEF receipt, n
    <3> QED
      BY <1>0, <1>2, <1>3, <3>3, <3>4
  <2> QED
    BY <1>3, <2>1, <2>2 DEF BasisKept
<1>4. CASE Same(o) /\ ~Made(o)
  <2>1. Fresh(o)' <=> Fresh(o)
    BY <1>0, <1>4 DEF Same, Fresh, Live
  <2> QED
    BY <1>0, <1>2, <1>3, <1>4, <2>1 DEF Same, Objects
<1>5. ASSUME NEW t \in Clients, Delivers(t, o), ~Made(o)
      PROVE  /\ obj'[o].revision <= graph'.revision
             /\ Fresh(o)' => obj'[o].durable.lease.basis.graph = obj'[o].revision
                             /\ obj'[o].dirty = obj'[o].durable.lease.dirty
             /\ Recent(o)' /\ obj'[o].basis # NoAuth => obj'[o].basis.revision <= obj'[o].revision
  <2> DEFINE s == io[t].snapshot
  <2>1. /\ Result(t) /\ Concerns(t, o) /\ BasisKept(o)
        /\ obj'[o].durable = IF s.lease = NoLease THEN obj[o].durable ELSE s
        /\ obj'[o].revision = IF io[t].of = "settle" THEN obj[o].revision + 1 ELSE obj[o].revision
        /\ obj'[o].dirty = (io[t].of = "begin" \/ (io[t].of = "request" /\ obj[o].dirty))
    BY <1>5 DEF Delivers
  <2>2. Told(t, o)
    BY <2>1 DEF Results
  <2>3. obj'[o].revision <= graph.revision
    <3>1. CASE io[t].of = "settle"
      <4>1. t \in Call /\ call[t].pc = "settling" /\ call[t].settling = o
        BY <2>1, <3>1, ResultOf
      <4>2. obj[o].revision = call[t].basis.revision /\ call[t].basis.revision < graph.revision
        BY <4>1 DEF Settlings
      <4> QED
        BY <1>0, <1>2, <2>1, <3>1, <4>2
    <3> QED
      BY <1>2, <2>1, <3>1
  <2>4. obj'[o].revision \in Int /\ obj'[o].revision >= obj[o].revision
    BY <1>2, <2>1
  <2>7. Recent(o)' /\ obj'[o].basis # NoAuth => obj'[o].basis.revision <= obj'[o].revision
    BY <1>3, <1>5, <2>1, <2>4
  <2>8. obj'[o].revision <= graph'.revision
    BY <1>0, <2>3, <2>4
  <2>5. CASE s.lease = NoLease
    <3>1. Fresh(o)' <=> Fresh(o)
      BY <1>0, <2>1, <2>5 DEF Fresh, Live
    <3>2. ~Fresh(o)
      BY <2>2 DEF Told
    <3> QED
      BY <2>7, <2>8, <3>1, <3>2
  <2>6. CASE s.lease # NoLease
    <3>1. obj'[o].durable.lease.basis.graph = obj'[o].revision /\ obj'[o].dirty = obj'[o].durable.lease.dirty
      BY <2>1, <2>2, <2>6 DEF Told
    <3> QED
      BY <2>7, <2>8, <3>1
  <2> QED
    BY <2>5, <2>6
<1>6. CASE Made(o)
  <2>1. /\ obj'[o].dirty = obj'[o].durable.lease.dirty /\ obj'[o].revision = obj'[o].durable.lease.basis.graph
        /\ obj'[o].basis = NoAuth
    BY <1>6 DEF Made
  <2>2. obj'[o].revision = R.revision \/ Based(obj'[o])
    BY <1>6 DEF Made
  <2>3. obj'[o].revision = R.revision \/ obj'[o].revision <= graph.revision
    BY <2>2 DEF Based
  <2>4. CASE obj'[o].revision = R.revision
    BY <1>0, <2>1, <2>4 DEF Refreshing
  <2>5. CASE obj'[o].revision <= graph.revision
    <3>1. obj'[o].revision \in Int
      BY ShapeStep DEF QuietStep, Shape, ObjShape, AnyObject
    <3>2. obj'[o].revision <= graph'.revision
      BY <1>0, <2>5, <3>1
    <3> QED
      BY <2>1, <3>2
  <2> QED
    BY <2>3, <2>4, <2>5
<1> QED
  BY <1>1, <1>4, <1>5, <1>6 DEF Moved

LEMMA QuietResults ==
  ASSUME Shape, Running, QuietStep, Effects, Results
  PROVE  Results'
<1> USE Tasks
<1>0. generation' = generation
  BY QuietFile
<1> SUFFICES ASSUME NEW o \in Obj, NEW t \in Clients, Concerns(t, o)'
             PROVE  /\ Valid(t)' => Fresh(o)'
                    /\ Valid(t)' /\ io'[t].op = "request" => ~obj'[o].durable.lease.releaseWhenClean
                    /\ Result(t)' => Told(t, o)'
                    /\ \A u \in Clients : Concerns(u, o)' /\ Result(t)' /\ Result(u)' => u = t
  BY DEF Results, Clients
<1>1. Asking(t) /\ Moved(o)
  BY DEF Effects
<1>2. \A u \in Clients : Concerns(u, o)' /\ Result(t)' /\ Result(u)' => u = t
  <2>1. ASSUME NEW u \in Clients, Result(u)', Concerns(u, o)' PROVE Result(u) /\ Concerns(u, o)
    BY <2>1, HeardBefore DEF Result, Clients, Task
  <2> QED
    BY <2>1 DEF Results
<1>3. CASE ~Asked(t)' /\ ~Done(t)'
  BY <1>2, <1>3 DEF Asked, Valid, Result, Ops
<1>4. CASE Asked(t)' /\ NewClaim(t, o)
  <2>1. ~Result(t)'
    BY <1>4 DEF Asked, Result, Done
  <2>2. Valid(t)' => Fresh(o)'
    BY <1>4 DEF Valid, NewClaim, ClaimOf, Fresh, Live
  <2> QED
    BY <1>2, <1>4, <2>1, <2>2 DEF NewClaim
<1>5. CASE io'[t] = io[t] /\ io[t].op = "none"
  BY <1>2, <1>5 DEF Valid, Result, Done, Ops
<1>6. CASE io'[t] = io[t] /\ io[t].op # "none" /\ Concerns(t, o)
  <2>1. ~Made(o)
    BY <1>6, FreeUnused DEF Made
  <2>2. /\ Valid(t)' <=> Valid(t)
        /\ Result(t)' <=> Result(t)
    BY <1>0, <1>6 DEF Valid, Result, Done
  <2>3. /\ Valid(t) => Fresh(o)
        /\ Valid(t) /\ io[t].op = "request" => ~obj[o].durable.lease.releaseWhenClean
        /\ Result(t) => Told(t, o)
        /\ \A u \in Clients : Concerns(u, o) /\ Result(t) /\ Result(u) => u = t
    BY <1>6 DEF Results
  <2>4. CASE Same(o)
    <3>1. Fresh(o)' <=> Fresh(o)
      BY <1>0, <2>4 DEF Same, Fresh, Live
    <3>2. Told(t, o) => Told(t, o)'
      BY <1>6, <2>4, <3>1 DEF Told, Same
    <3> QED
      BY <1>2, <1>6, <2>2, <2>3, <2>4, <3>1, <3>2 DEF Same
  <2>5. ASSUME NEW u \in Clients, Delivers(u, o) PROVE ~Valid(t) /\ ~Result(t)
    <3>1. Result(u) /\ Concerns(u, o) /\ ~Done(u)'
      BY <2>5 DEF Delivers
    <3>2. ~Fresh(o)
      BY <3>1 DEF Results, Told
    <3>3. Result(t) => u = t
      BY <2>3, <3>1
    <3> QED
      BY <1>6, <2>3, <3>1, <3>2, <3>3 DEF Result, Done
  <2> QED
    BY <1>1, <1>2, <2>1, <2>2, <2>4, <2>5 DEF Moved
<1> QED
  BY <1>1, <1>3, <1>4, <1>5, <1>6 DEF Asking
-----------------------------------------------------------------------------
(* The recording of an execution.                                          *)

Recording == {"write", "publish", "receipted", "settling"}

LEMMA RecordingMoves ==
  ASSUME Shape, QuietStep, NEW c \in Call, call'[c].pc \in Recording
  PROVE  /\ call'[c].settling = call[c].settling /\ call'[c].attempt = call[c].attempt
         /\ call'[c].basis = call[c].basis
         /\ \/ call'[c].pc = call[c].pc /\ (Done(c) => Done(c)')
            \/ /\ call[c].pc = "receipt" /\ call'[c].pc = "write" /\ obj' = obj /\ call[c].attempt # 0
               /\ obj[call[c].settling].durable.lease.pending = call[c].attempt
            \/ /\ call[c].pc = "write" /\ call'[c].pc = "publish" /\ obj' = obj
               /\ graph.revision = obj[call[c].settling].revision
            \/ call[c].pc = "publish" /\ call'[c].pc = "receipted" /\ graph'.revision = graph.revision + 1
            \/ call[c].pc = "receipted" /\ call'[c].pc = "settling"
<1> USE Tasks
<1>0. DOMAIN io = Task /\ call \in [Call -> AnyCall] /\ call[c] \in AnyCall
  BY DEF Shape, IoShape, CallShape
<1>1. CASE call'[c] \in {call[c], Aborted[c]} /\ (Done(c) => Done(c)')
  BY <1>1, AbortedFacts DEF Shape
<1>2. CASE \E t \in Task : Refuse(t) \/ FailOperation(t)
  <2>1. PICK t \in Task : Refuse(t) \/ FailOperation(t)
    BY <1>2
  <2>2. call' = call /\ Asked(t) /\ \E v : io' = [io EXCEPT ![t] = v]
    BY <2>1 DEF Refuse, FailOperation, Rest
  <2>3. Done(c) => Done(c)'
    BY <1>0, <2>2 DEF Done, Asked
  <2> QED
    BY <1>1, <2>2, <2>3
<1>3. CASE Beside
  BY <1>1, <1>3 DEF Beside, Done
<1>4. CASE \E d \in Call : Guard(d)
  <2>1. PICK d \in Call : Guard(d)
    BY <1>4
  <2>2. PICK r \in AnyCall : call' = [Aborted EXCEPT ![d] = r] /\ (r = NewCall \/ r.pc = "prepared")
    BY <2>1, GuardShape
  <2>3. io' = io
    BY <2>1 DEF Guard
  <2>4. c # d
    BY <2>2, AbortedFacts, NewOK DEF Shape, Recording
  <2>5. call'[c] = Aborted[c]
    BY <2>2, <2>4, AbortedFacts DEF Shape
  <2> QED
    BY <1>1, <2>3, <2>5 DEF Done
<1>5. ASSUME NEW d \in Call, CallStep(d), d # c PROVE call'[c] = call[c] /\ (Done(c) => Done(c)')
  <2>1. PICK r : Move(d, r)
    BY <1>5, CallStepShape
  <2>2. call'[c] = call[c]
    BY <1>0, <1>5, <2>1 DEF Move
  <2>3. io'[c] = io[c]
    BY <1>5, CallRequests DEF OnlyAsks
  <2> QED
    BY <2>2, <2>3 DEF Done
<1>6. CASE CallStep(c)
  <2>0. ASSUME NEW p, call' = [call EXCEPT ![c].pc = p] 
        PROVE  /\ call'[c].settling = call[c].settling /\ call'[c].attempt = call[c].attempt
               /\ call'[c].basis = call[c].basis /\ call'[c].pc = p
    BY <1>0, <2>0 DEF AnyCall
  <2>1. call' # [call EXCEPT ![c] = NewCall]
    BY <1>0, NewOK DEF Recording
  <2>2. CASE MakeReceipt(c)
    <3>1. ASSUME NEW b, call' = [call EXCEPT ![c].pc = "write", ![c].release = b]
          PROVE  /\ call'[c].settling = call[c].settling /\ call'[c].attempt = call[c].attempt
                 /\ call'[c].basis = call[c].basis /\ call'[c].pc = "write"
      BY <1>0, <3>1 DEF AnyCall
    <3> QED
      BY <2>1, <2>2, <3>1 DEF MakeReceipt, End
  <2>3. CASE WriteReceipt(c)
    BY <2>0, <2>1, <2>3 DEF WriteReceipt, ReceiptLost, End
  <2>4. CASE PublishReceipt(c)
    <3>1. call' = [call EXCEPT ![c].pc = "receipted"] /\ call[c].pc = "publish"
      BY <2>1, <2>4 DEF PublishReceipt, ReceiptLost, End
    <3>2. graph'.revision = graph.revision + 1
      <4>1. \/ ReceiptLost(c)
            \/ \E x : graph' = [graph EXCEPT !.writer = NoObj, !.revision = @ + 1, !.receipts = x]
        BY <2>4 DEF PublishReceipt
      <4> QED
        BY <2>1, <4>1 DEF ReceiptLost, End, Shape, GraphShape, AnyGraph
    <3> QED
      BY <2>0, <3>1, <3>2
  <2>5. CASE Settle(c)
    BY <2>0, <2>5 DEF Settle
  <2>6. call'[c].pc \in {"begin", "marking", "refused", "enter", "body", "record", "receipt", "converging"} =>
          call'[c].pc \notin Recording
    BY DEF Recording
  <2>7. ~Execute(c)
    <3>1. Execute(c) => call' = [call EXCEPT ![c].pc = "begin", ![c].object = leases]
      BY <2>1 DEF Execute
    <3> QED
      BY <1>0, <2>6, <3>1 DEF AnyCall
  <2>8. ~BeginReturns(c)
    <3> DEFINE o == call[c].object
               freed == [io EXCEPT ![c] = None]
               next == [call EXCEPT ![c].attempt = io[c].snapshot.lease.pending]
    <3>1. ASSUME Begun(c, o, freed) PROVE FALSE
      <4>1. \E p \in {"marking", "record", "enter"} : call' = [next EXCEPT ![c].pc = p]
        BY <3>1 DEF Begun
      <4>2. ASSUME NEW p \in {"marking", "record", "enter"}, call' = [next EXCEPT ![c].pc = p] PROVE FALSE
        <5>1. call'[c].pc = p
          BY <1>0, <4>2 DEF AnyCall
        <5> QED
          BY <2>6, <5>1
      <4> QED
        BY <4>1, <4>2
    <3>2. ASSUME NotBegun(c, o, freed) PROVE FALSE
      <4>1. \/ call' = [call EXCEPT ![c].pc = "record", ![c].admitting = TRUE]
            \/ call' = [call EXCEPT ![c].pc = "refused"]
        BY <2>1, <3>2 DEF NotBegun
      <4> QED
        BY <1>0, <2>6, <4>1 DEF AnyCall
    <3> QED
      BY <3>1, <3>2 DEF BeginReturns
  <2>9. ~MarkReturns(c)
    <3>1. MarkReturns(c) => \/ call' = [call EXCEPT ![c].pc = "record", ![c].admitting = TRUE]
                            \/ \E p \in {"record", "enter"} : call' = [call EXCEPT ![c].pc = p]
      BY <2>1 DEF MarkReturns
    <3>2. call' # [call EXCEPT ![c].pc = "record", ![c].admitting = TRUE]
      BY <1>0, <2>6 DEF AnyCall
    <3> QED
      BY <2>0, <2>6, <3>1, <3>2
  <2>10. ~Enter(c) /\ ~Leave(c)
    BY <2>0, <2>6 DEF Enter, Leave
  <2>11. ~Record(c)
    <3>1. Record(c) => call' = [call EXCEPT ![c].pc = "receipt", ![c].settling = leases]
      BY <2>1 DEF Record, End
    <3> QED
      BY <1>0, <2>6, <3>1 DEF AnyCall
  <2>12. ~SettleReturns(c)
    <3>1. SettleReturns(c) => call' = [call EXCEPT ![c].pc = "converging", ![c].tries = 1]
      BY <2>1 DEF SettleReturns, End
    <3> QED
      BY <1>0, <2>6, <3>1 DEF AnyCall
  <2>13. ~Converge(c)
    <3>1. Converge(c) => call' = [call EXCEPT ![c].tries = 2] /\ call[c].pc = "converging"
      BY <2>1 DEF Converge, End
    <3> QED
      BY <1>0, <2>6, <3>1 DEF AnyCall
  <2> QED
    BY <1>6, <2>2, <2>3, <2>4, <2>5, <2>7, <2>8, <2>9, <2>10, <2>11, <2>12, <2>13 DEF CallStep
<1>7. CASE \E d \in Call : CallStep(d)
  BY <1>1, <1>5, <1>6, <1>7
<1> QED
  BY <1>2, <1>3, <1>4, <1>7, StepKinds DEF QuietStep

\* Of the attempt that an object is settled with, one call at a time speaks.
LEMMA OneRecording ==
  ASSUME Attempts, NEW c \in Call, NEW d \in Call, call[c].pc \in Recording, call[d].pc \in Recording,
         call[c].attempt = call[d].attempt, call[c].attempt # 0
  PROVE  c = d
BY DEF Attempts, AttemptOf, Recording

LEMMA RecordedObject ==
  ASSUME Shape, Attempts, QuietStep, Effects, Results, Settlings, NEW c \in Call,
         call[c].pc \in Recording, call'[c].pc \in Recording
  PROVE  LET o == call[c].settling
         IN /\ o \in Obj /\ obj'[o].durable.lease.pending = obj[o].durable.lease.pending
            /\ obj'[o].revision = obj[o].revision
<1> DEFINE o == call[c].settling
<1>1. o \in Obj /\ o \notin Free
  <2>1. o # NoObj
    BY DEF Recording, Shape, LiveObjects, LiveCall
  <2> QED
    BY <2>1 DEF Shape, LiveObjects, LiveCall, Live, Free, Referenced
<1>2. obj[o].durable.lease.pending = call[c].attempt /\ call[c].attempt # 0
  BY DEF Settlings, Recording
<1> HIDE DEF o
<1>3. CASE Same(o)
  BY <1>1, <1>3 DEF Same, o
<1>4. ASSUME NEW u \in Clients, Delivers(u, o)
      PROVE  obj'[o].durable.lease.pending = obj[o].durable.lease.pending /\ obj'[o].revision = obj[o].revision
  <2>1. Result(u) /\ Concerns(u, o) /\ ~Done(u)' /\ Told(u, o)
    BY <1>1, <1>4 DEF Delivers, Results
  <2>2. io[u].of # "settle"
    <3> SUFFICES ASSUME io[u].of = "settle" PROVE FALSE
      OBVIOUS
    <3>1. u \in Call /\ call[u].pc = "settling" /\ call[u].settling = o
      BY <1>1, <2>1, ResultOf
    <3>2. call[u].attempt = call[c].attempt
      BY <1>2, <3>1 DEF Settlings
    <3>3. u = c
      BY <1>2, <3>1, <3>2, OneRecording DEF Recording
    <3>4. Done(c)'
      BY <2>1, <3>1, <3>3, RecordingMoves DEF Result
    <3> QED
      BY <2>1, <3>3, <3>4
  <2>3. io[u].of # "begin"
    BY <1>2, <2>1 DEF Told
  <2>4. io[u].of = "request"
    BY <1>1, <2>1, <2>2, <2>3, ResultOf
  <2> QED
    BY <1>4, <2>1, <2>4 DEF Delivers, Told
<1>5. ~Made(o)
  BY <1>1 DEF Made
<1>6. Moved(o)
  BY <1>1 DEF Effects
<1> QED
  BY <1>1, <1>3, <1>4, <1>5, <1>6 DEF Moved, o

LEMMA QuietSettlings ==
  ASSUME ~Overlap, Shape, FileInv, Attempts, GraphInv, QuietStep, Effects, Objects, Results, Settlings, Authorized
  PROVE  Settlings'
<1> USE Tasks
<1>0. generation' = generation /\ lease' = lease /\ graph.revision \in Int /\ graph'.revision \in Int
  BY QuietFile, GraphGrows DEF QuietStep
<1> SUFFICES ASSUME NEW c \in Call
             PROVE  /\ call'[c].pc \in Recording =>
                         /\ obj'[call'[c].settling].durable.lease.pending = call'[c].attempt /\ call'[c].attempt # 0
                         /\ call'[c].pc # "write" => obj'[call'[c].settling].revision = call'[c].basis.revision
                    /\ call'[c].pc \in {"receipted", "settling"} =>
                         /\ call'[c].basis.revision < graph'.revision
                         /\ E!Held' /\ lease'.pending = call'[c].attempt => graph'.revision = call'[c].basis.revision + 1
                    /\ io'[c].op = "settle" =>
                         io'[c].attempt = call'[c].attempt /\ io'[c].revision = call'[c].basis.revision + 1
                    /\ io'[c].op = "begin" /\ Valid(c)' /\ OnLeaf' => graph'.revision = lease'.basis.graph
  BY DEF Settlings, Recording
<1>1. call[c].basis.revision \in Int /\ call[c].attempt \in Nat
  BY DEF Shape, CallShape, AnyCall, AnyAuth
<1>2. ASSUME call'[c].pc \in Recording
      PROVE  /\ obj'[call'[c].settling].durable.lease.pending = call'[c].attempt /\ call'[c].attempt # 0
             /\ call'[c].pc # "write" => obj'[call'[c].settling].revision = call'[c].basis.revision
  <2>1. call'[c].settling = call[c].settling /\ call'[c].attempt = call[c].attempt /\ call'[c].basis = call[c].basis
    BY <1>2, RecordingMoves
  <2>2. CASE call[c].pc \in Recording
    <3>1. LET o == call[c].settling
          IN /\ o \in Obj /\ obj'[o].durable.lease.pending = obj[o].durable.lease.pending
             /\ obj'[o].revision = obj[o].revision
      BY <1>2, <2>2, RecordedObject
    <3>2. obj[call[c].settling].durable.lease.pending = call[c].attempt /\ call[c].attempt # 0
      BY <2>2 DEF Settlings, Recording
    <3>3. CASE call[c].pc = "write" /\ call'[c].pc = "publish"
      <4>1. graph.revision = obj[call[c].settling].revision
        BY <1>2, <3>3, RecordingMoves
      <4>2. Unrecorded(c)
        BY <3>2, <3>3 DEF Unrecorded, Active, AttemptOf, Settled
      <4>3. graph.revision = call[c].basis.revision
        BY <4>2 DEF GraphInv
      <4> QED
        BY <2>1, <3>1, <3>2, <4>1, <4>3
    <3>4. CASE ~(call[c].pc = "write" /\ call'[c].pc = "publish")
      <4>1. call'[c].pc # "write" => call[c].pc # "write"
        BY <1>2, <2>2, <3>4, RecordingMoves DEF Recording
      <4>2. call[c].pc # "write" => obj[call[c].settling].revision = call[c].basis.revision
        BY <2>2 DEF Settlings, Recording
      <4> QED
        BY <2>1, <3>1, <3>2, <4>1, <4>2
    <3> QED
      BY <3>3, <3>4
  <2>3. CASE call[c].pc \notin Recording
    <3>1. /\ call'[c].pc = "write" /\ obj' = obj /\ call[c].attempt # 0
          /\ obj[call[c].settling].durable.lease.pending = call[c].attempt
      BY <1>2, <2>3, RecordingMoves DEF Recording
    <3> QED
      BY <2>1, <3>1
  <2> QED
    BY <2>2, <2>3
<1>3. ASSUME call'[c].pc \in {"receipted", "settling"}
      PROVE  /\ call'[c].basis.revision < graph'.revision
             /\ E!Held' /\ lease'.pending = call'[c].attempt => graph'.revision = call'[c].basis.revision + 1
  <2>1. /\ call'[c].attempt = call[c].attempt /\ call'[c].basis = call[c].basis
        /\ \/ call[c].pc = "publish" /\ graph'.revision = graph.revision + 1
           \/ call[c].pc \in {"receipted", "settling"}
    BY <1>3, RecordingMoves DEF Recording
  <2>2. call[c].attempt # 0
    BY <2>1 DEF Settlings
  <2>3. CASE call[c].pc = "publish" /\ graph'.revision = graph.revision + 1
    <3>1. Unrecorded(c)
      BY <2>2, <2>3 DEF Unrecorded, Active, AttemptOf, Settled
    <3>2. graph.revision = call[c].basis.revision
      BY <3>1 DEF GraphInv
    <3> QED
      BY <1>0, <1>1, <2>1, <2>3, <3>2
  <2>4. CASE call[c].pc \in {"receipted", "settling"}
    <3>1. /\ call[c].basis.revision < graph.revision
          /\ E!Held /\ lease.pending = call[c].attempt => graph.revision = call[c].basis.revision + 1
      BY <2>4 DEF Settlings
    <3>2. graph'.revision >= graph.revision
      BY GraphGrows DEF QuietStep
    <3>3. CASE graph'.revision = graph.revision
      BY <1>0, <2>1, <3>1, <3>3 DEF E!Held
    <3>4. CASE PublishChange
      <4>1. Active(c)
        BY <2>4 DEF Active
      <4> QED
        BY <3>4, <4>1 DEF GraphInv, Sure, PublishChange
    <3>5. ASSUME NEW d \in Call, call[d].pc = "publish", call'[d].pc = "receipted"
          PROVE  ~(E!Held /\ lease.pending = call[c].attempt)
      <4>1. AttemptOf(d) # 0 /\ AttemptOf(d) = call[d].attempt
        BY <3>5 DEF Settlings, AttemptOf
      <4>2. lease.pending = call[d].attempt
        BY <3>5, <4>1, UnrecordedIsPending DEF Settled
      <4> QED
        BY <2>2, <2>4, <3>5, <4>1, <4>2, OneRecording DEF Recording
    <3>6. graph'.revision = graph.revision \/ PublishChange
          \/ ~(E!Held /\ lease.pending = call[c].attempt)
      BY <3>5, RevisionMoves DEF QuietStep
    <3> QED
      BY <1>0, <1>1, <2>1, <3>1, <3>2, <3>3, <3>4, <3>6 DEF E!Held
  <2> QED
    BY <2>1, <2>3, <2>4
<1>4. ASSUME io'[c].op = "settle"
      PROVE  io'[c].attempt = call'[c].attempt /\ io'[c].revision = call'[c].basis.revision + 1
  <2>1. call'[c].pc = "settling"
    BY <1>4, ShapeStep DEF Shape, Protocol, CallAsks, OpOf, QuietStep
  <2>2. call'[c].attempt = call[c].attempt /\ call'[c].basis = call[c].basis
    BY <2>1, RecordingMoves DEF Recording
  <2>3. CASE io'[c] = io[c]
    BY <1>4, <2>2, <2>3 DEF Settlings
  <2>4. CASE Settle(c)
    <3>1. io'[c] = SettleRequest(c) /\ call[c].pc = "receipted"
      BY <2>4, MoveSettle DEF Settle
    <3>2. obj[call[c].settling].revision = call[c].basis.revision
      BY <3>1 DEF Settlings
    <3> QED
      BY <2>2, <3>1, <3>2 DEF SettleRequest
  <2>5. io'[c] = io[c] \/ Settle(c)
    <3>1. ASSUME NEW d \in Call, CallStep(d) PROVE io'[c] = io[c] \/ Settle(c)
      <4>1. CASE d = c
        BY <1>4, <3>1, <4>1, CallAsksFor
      <4>2. CASE d # c
        BY <3>1, <4>2, CallRequests DEF OnlyAsks
      <4> QED
        BY <4>1, <4>2
    <3>2. ASSUME NEW t \in Task, Refuse(t) \/ FailOperation(t) PROVE io'[c] = io[c]
      <4>1. io' = [io EXCEPT ![t] = [op |-> "done", of |-> io[t].op, ok |-> FALSE]] /\ DOMAIN io = Task
        BY <3>2 DEF Refuse, FailOperation, Shape, IoShape
      <4> QED
        BY <1>4, <4>1
    <3> QED
      BY <3>1, <3>2, StepKinds DEF QuietStep, Beside, Guard
  <2> QED
    BY <2>3, <2>4, <2>5
<1>5. ASSUME io'[c].op = "begin", Valid(c)', OnLeaf'
      PROVE  graph'.revision = lease'.basis.graph
  <2>1. CASE io'[c] = io[c]
    <3>1. Valid(c) /\ E!Held /\ OnLeaf
      BY <1>0, <1>5, <2>1 DEF Valid, E!Held, OnLeaf
    <3>2. graph.revision = lease.basis.graph /\ graph.revision = call[c].basis.revision
      BY <1>5, <2>1, <3>1 DEF Settlings, GraphInv, Valid
    <3>3. Active(c)
      BY <1>5, <2>1 DEF Shape, Protocol, CallAsks, OpOf, Active
    <3>4. ~PublishChange
      BY <3>3 DEF GraphInv, Sure, PublishChange
    <3>5. ASSUME NEW d \in Call, call[d].pc = "publish", call'[d].pc = "receipted" PROVE FALSE
      <4>1. AttemptOf(d) # 0
        BY <3>5 DEF Settlings, AttemptOf
      <4>2. lease.pending # 0
        BY <3>5, <4>1, UnrecordedIsPending DEF Settled
      <4>3. ~lease.dirty
        BY <1>5, <2>1, <3>1 DEF GraphInv, Valid
      <4> QED
        BY <3>1, <4>2, <4>3 DEF FileInv
    <3>6. graph'.revision = graph.revision
      BY <3>4, <3>5, RevisionMoves DEF QuietStep
    <3> QED
      BY <1>0, <3>2, <3>6
  <2>2. CASE Execute(c) /\ io'[c] # io[c]
    <3>1. Revalidated(c) /\ call[c].pc = "prepared" /\ graph' = graph
      BY <2>2 DEF Execute
    <3>2. /\ call[c].epoch = epoch /\ leases # NoObj /\ ~obj[leases].replaced
          /\ lease.basis.graph = obj[leases].revision /\ call[c].basis.revision = graph.revision
      BY <3>1 DEF Revalidated, Current
    <3>3. leases \in Obj
      BY <3>2 DEF Shape, LiveObjects, Live
    <3>6. Fresh(leases) /\ OnLeaf
      <4>1. Live(leases) /\ obj[leases].durable.generation = generation
        BY <3>1, <3>2, <3>3 DEF Revalidated, E!AssertClaim, Claim, ClaimOf, Shape, LiveObjects
      <4> QED
        BY <1>0, <1>5, <4>1 DEF Fresh, OnLeaf, E!Held
    <3>4. call[c].basis.revision <= obj[leases].revision
      BY <3>1, <3>2, <3>6 DEF Authorized, Recent
    <3>5. obj[leases].revision <= graph.revision /\ obj[leases].revision \in Int
      BY <3>3, ObjectTypes DEF Objects
    <3> QED
      BY <1>0, <3>1, <3>2, <3>4, <3>5
  <2>3. io'[c] = io[c] \/ Execute(c)
    BY <1>5, CallsKept DEF QuietStep
  <2> QED
    BY <2>1, <2>2, <2>3
<1> QED
  BY <1>2, <1>3, <1>4, <1>5
-----------------------------------------------------------------------------
(* The two tools.                                                          *)

\* What a tool asks changes by its own steps, or it is refused.
LEMMA SlotKept ==
  ASSUME Shape, QuietStep, NEW s \in Slot,
         s = Refresh => ~RefreshStart /\ ~RefreshStep, s = Change => ~ChangeStep
  PROVE  io'[s] = io[s] \/ (io'[s].op = "done" /\ ~io'[s].ok)
<1> USE Tasks
<1>0. DOMAIN io = Task /\ (s = Refresh \/ s = Change) /\ s \in Task /\ s \notin Obj /\ s \notin Call
  BY DEF Shape, IoShape, Slot
<1>1. ASSUME NEW t \in Task, Refuse(t) \/ FailOperation(t)
      PROVE  io'[s] = io[s] \/ (io'[s].op = "done" /\ ~io'[s].ok)
  <2>1. io' = [io EXCEPT ![t] = [op |-> "done", of |-> io[t].op, ok |-> FALSE]]
    BY <1>1 DEF Refuse, FailOperation
  <2> QED
    BY <1>0, <2>1
<1>2. ASSUME NEW o \in Obj, ReleaseReturns(o) PROVE io'[s] = io[s]
  <2>1. \E v : io' = [io EXCEPT ![o] = v]
    BY <1>2 DEF ReleaseReturns, Finished
  <2> QED
    BY <1>0, <2>1
<1>3. ASSUME NEW replaced \in BOOLEAN, Revoke(replaced) PROVE io'[s] = io[s]
  <2>1. leases # NoObj => leases \in Obj
    BY DEF Shape, LiveObjects, Live
  <2>2. io' = io \/ (leases # NoObj /\ \E v : io' = [io EXCEPT ![leases] = v])
    BY <1>3 DEF Revoke, Schedule
  <2> QED
    BY <1>0, <2>1, <2>2
<1>4. ASSUME NEW c \in Call, CallStep(c) PROVE io'[s] = io[s]
  BY <1>0, <1>4, CallRequests DEF OnlyAsks
<1>5. CASE RefreshStart \/ RefreshStep
  BY <1>0, <1>5, RefreshRequests DEF OnlyAsks
<1>6. CASE ChangeStep
  BY <1>0, <1>6, ChangeRequests DEF OnlyAsks
<1>7. CASE \/ \E c \in Call : Guard(c)
           \/ EndTurn \/ (\E kind \in Kinds : Consume(kind)) \/ GraceEnds \/ (\E p \in Process : Restart(p))
           \/ UNCHANGED vars
  BY <1>7 DEF Guard, EndTurn, Consume, GraceEnds, Restart, vars
<1> QED
  BY <1>1, <1>2, <1>3, <1>4, <1>5, <1>6, <1>7 DEF QuietStep, Next

LEMMA RefreshTools ==
  ASSUME Shape
  PROVE  /\ R = tool[Refresh] /\ R' = tool'[Refresh] /\ R \in AnyTool /\ tool \in [Slot -> AnyTool]
         /\ R.revision \in Int /\ R.seen \in AnySnapshot
         /\ R.pc \notin {"takeover", "settling", "releasing"} => io[Refresh].op = "none"
BY Tasks DEF R, Shape, ToolShape, AnyTool, Protocol, OpOf, IoShape, IoOK, Ops

LEMMA QuietRefreshing ==
  ASSUME Shape, QuietStep, Coherent, FenceInv, Refreshing
  PROVE  Refreshing'
<1> USE Tasks
<1>7. /\ R = tool[Refresh] /\ R' = tool'[Refresh] /\ R \in AnyTool /\ tool \in [Slot -> AnyTool]
      /\ R.revision \in Int /\ R.seen \in AnySnapshot
      /\ R.pc \notin {"takeover", "settling", "releasing"} => io[Refresh].op = "none"
  BY RefreshTools
<1>0. /\ generation' = generation /\ lease' = lease
      /\ graph.revision \in Int /\ graph'.revision \in Int /\ graph'.revision >= graph.revision
  <2>1. generation' = generation /\ lease' = lease
    BY QuietFile
  <2> QED
    BY <2>1, GraphGrows DEF QuietStep
<1>1. R.revision <= graph.revision /\ 1 <= graph.revision
  BY DEF Refreshing
<1>2. 1 <= graph'.revision
  BY <1>0, <1>1
<1>3. ASSUME R'.revision \in Int, R'.revision <= graph.revision,
             io'[Refresh].op \notin {"done", "checkout", "settle", "checkpoint"}
      PROVE  Refreshing'
  BY <1>0, <1>2, <1>3 DEF Refreshing, Done
<1>4. CASE ~RefreshStart /\ ~RefreshStep
  <2>1. R' = R
    BY <1>4, RefreshToolMoves DEF QuietStep
  <2>2. io'[Refresh] = io[Refresh] \/ (io'[Refresh].op = "done" /\ ~io'[Refresh].ok)
    BY <1>4, SlotKept
  <2>3. CASE io'[Refresh] = io[Refresh]
    BY <1>0, <1>1, <1>2, <1>7, <2>1, <2>3 DEF Refreshing, Done, Valid, E!Held
  <2>4. CASE io'[Refresh].op = "done" /\ ~io'[Refresh].ok
    BY <1>0, <1>1, <1>2, <1>7, <2>1, <2>4 DEF Refreshing, Done
  <2> QED
    BY <2>2, <2>3, <2>4
<1>5. CASE RefreshStart \/ RestoreStart \/ RestoreRead \/ RefreshEnds
  <2>1. io[Refresh].op = "none" /\ io' = io
    BY <1>7, <1>5 DEF RefreshStart, RestoreStart, RestoreRead, RefreshEnds
  <2>2. R'.revision \in {graph.revision, R.revision, 0}
    <3>1. RefreshStart => R'.revision = graph.revision
      BY <1>7 DEF RefreshStart, NewTool
    <3>2. RestoreStart => R'.revision = R.revision
      BY <1>7 DEF RestoreStart, AnyTool
    <3>3. tool' = [tool EXCEPT ![Refresh] = NewTool] => R'.revision = 0
      BY <1>7 DEF NewTool
    <3>4. tool' = [tool EXCEPT ![Refresh].pc = "read", ![Refresh].seen = Snapshot, ![Refresh].awaited = NoObj]
            => R'.revision = R.revision
      BY <1>7 DEF AnyTool
    <3> QED
      BY <1>5, <3>1, <3>2, <3>3, <3>4 DEF RestoreRead, RefreshEnds
  <2> QED
    BY <1>7, <1>0, <1>1, <1>3, <2>1, <2>2
<1>6. CASE RestoreFound \/ RestoreReturns
  <2>0. DOMAIN io = Task /\ None.op = "none"
    BY DEF Shape, IoShape, None
  <2>1. RefreshDoes
    BY <1>6, RefreshRestores
  <2>2. CASE RefreshFails
    <3>1. R'.revision = 0 /\ io'[Refresh].op = "none"
      BY <2>0, <2>2, <1>7 DEF RefreshFails, NewTool
    <3> QED
      BY <1>0, <1>1, <1>3, <1>7, <3>1
  <2>3. ASSUME NEW o, RestoredTo(o) PROVE Refreshing'
    <3>1. R'.revision = R.revision /\ io'[Refresh].op = "none"
      BY <1>7, <2>0, <2>3 DEF RestoredTo, AnyTool
    <3> QED
      BY <1>1, <1>3, <1>7, <3>1
  <2>4. ASSUME NEW v, NEW x, NEW p, Ask(v, x, p)
        PROVE  R'.revision = R.revision /\ io'[Refresh] = v
    <3>1. io' = [io EXCEPT ![Refresh] = v] /\ tool' = [tool EXCEPT ![Refresh].pc = p, ![Refresh].exact = x]
      BY <2>4 DEF Ask
    <3>2. R'.revision = R.revision
      BY <1>7, <3>1 DEF AnyTool
    <3> QED
      BY <2>0, <3>1, <3>2
  <2>5. ASSUME NEW d, Found(d) PROVE d \in AnySnapshot /\ d.lease # NoLease /\ Now(d)
    BY <2>5 DEF Found, Coherent
  <2>6. ASSUME NEW d, NEW x, NEW v, Found(d), AsksOn(d, x, v) PROVE Refreshing'
    <3>1. R'.revision = R.revision /\ io'[Refresh] = v
      BY <2>4, <2>6 DEF AsksOn
    <3>2. v.op \in {"release", "settle", "checkpoint"} /\ v.claim = ClaimOf(d)
          /\ (v.op # "release" => v.revision = R.revision /\ R.revision - d.lease.basis.graph = 1)
      BY <2>6 DEF AsksOn
    <3>3. v.claim.generation = generation => d.lease = lease /\ lease # NoLease
      BY <2>5, <2>6, <3>2 DEF ClaimOf, Now
    <3>4. d.lease.basis.graph \in Int
      BY <2>5, <2>6 DEF AnySnapshot, AnyLease, AnyBasis
    <3>5. v.op # "release" /\ v.claim.generation = generation => lease.basis.graph + 1 = R.revision
      BY <3>2, <3>3, <3>4, <1>7
    <3> QED
      BY <1>0, <1>1, <1>2, <1>7, <3>1, <3>2, <3>3, <3>5 DEF Refreshing, Done, Valid, E!Held
  <2>7. CASE /\ R.pc = "read" /\ R.seen.lease # NoLease
             /\ Ask([op |-> "checkout", basis |-> R.seen.lease.basis, expected |-> R.seen.generation], FALSE, "takeover")
    <3>1. PICK v : v = [op |-> "checkout", basis |-> R.seen.lease.basis, expected |-> R.seen.generation]
      OBVIOUS
    <3>2. R'.revision = R.revision /\ io'[Refresh] = v
      BY <2>4, <2>7, <3>1
    <3>3. R.seen.generation <= generation /\ (R.seen.generation = generation => R.seen.lease = lease)
      BY <2>7, <1>7 DEF FenceInv, Known
    <3>4. /\ io'[Refresh].op = "checkout" /\ io'[Refresh].expected = R.seen.generation
          /\ io'[Refresh].basis = R.seen.lease.basis
      BY <3>1, <3>2
    <3>5. R.seen.generation = generation => lease # NoLease /\ R.seen.lease.basis = lease.basis
      BY <2>7, <3>3
    <3> QED
      BY <1>0, <1>1, <1>2, <1>7, <3>2, <3>3, <3>4, <3>5 DEF Refreshing, Done, E!Held
  <2> QED
    BY <2>1, <2>2, <2>3, <2>6, <2>7 DEF RefreshDoes, Restores
<1> QED
  BY <1>4, <1>5, <1>6 DEF RefreshStep

\* Nothing is claimed of a tool that has left its lease, and little of one whose
\* change is committed.
LEMMA ChangeRests ==
  ASSUME T'.pc \notin {"consumed", "reserving", "change", "written", "publish",
                       "published", "closing", "closingRelease", "reread"},
         io'[Change].op \in {"none", "release"}, \A e \in graph'.evidence : e.revision <= graph'.revision
  PROVE  Changing'
BY DEF Changing, Ready, Done, Sure, Early, Committed

LEMMA ChangeCloses ==
  ASSUME T'.pc \in {"published", "closing", "closingRelease", "reread"}, Over',
         \A e \in graph'.evidence : e.revision <= graph'.revision,
         \/ io'[Change].op \in {"none", "release"}
         \/ io'[Change].op = "checkpoint" /\ io'[Change].revision = T'.revision + 1,
         Plain' /\ T'.pc = "published" => T'.seen.lease.basis.graph = T'.revision + 1 /\ ~T'.seen.lease.dirty
  PROVE  Changing'
BY DEF Changing, Ready, Done, Plain, Sure, Early

\* The graph moves only by the tool itself while the tool may commit.
LEMMA ChangeAlone ==
  ASSUME Shape, QuietStep, GraphInv, Sure, ~PublishChange
  PROVE  graph'.revision = graph.revision
<1>1. \A c \in Call : call[c].pc # "publish"
  BY DEF GraphInv, Active
<1> QED
  BY <1>1, RevisionMoves DEF QuietStep

\* What is committed after its change, and before another, has no evidence.
LEMMA OverStays ==
  ASSUME Shape, [Next]_vars, Over, T'.revision = T.revision, ~PublishChange
  PROVE  Over'
<1>1. graph'.evidence = graph.evidence /\ graph.revision \in Int
      /\ graph'.revision \in {graph.revision, graph.revision + 1}
  BY GraphGrows
<1>2. T.revision \in Int
  BY ChangeOK
<1>3. T'.revision < graph'.revision
  BY <1>1, <1>2 DEF Over
<1> QED
  BY <1>1, <1>3 DEF Over

LEMMA ChangeRequestOf ==
  ASSUME Shape
  PROVE  /\ T.pc \notin {"reserving", "closing", "undoing", "closingRelease"} => io[Change].op = "none"
         /\ io[Change].op = "checkout" => T.pc = "reserving"
         /\ io[Change].op = "checkpoint" => T.pc = "closing"
BY Tasks DEF Shape, Protocol, OpOf, IoShape, IoOK, Ops

\* A tool whose authority is the current one had it before.
LEMMA EpochBefore ==
  ASSUME Shape, [Next]_vars, ~Crash, GraphInv, T.pc # "idle", T.epoch = epoch'
  PROVE  T.epoch = epoch
<1>1. epoch \in Int /\ epoch' \in {epoch, epoch + 1}
  BY AuthorityMoves
<1>2. T.epoch <= epoch /\ T.epoch \in Int
  BY ChangeOK DEF GraphInv, AnyTool
<1> QED
  BY <1>1, <1>2

LEMMA KeepsChanging ==
  ASSUME Shape, FileInv, Attempts, Running, QuietStep, Effects, GraphInv, Objects, Changing, ~ChangeStep, T' = T
  PROVE  Changing'
<1> USE Tasks
<1>0. generation' = generation /\ lease' = lease /\ graph.revision \in Int /\ T.revision \in Int
  BY QuietFile, GraphGrows, ChangeOK DEF QuietStep
<1>1. \A e \in graph'.evidence : e.revision <= graph'.revision
  BY EvidenceDated DEF Changing, QuietStep
<1>2. ~PublishChange
  BY DEF ChangeStep
<1>3. T.pc \in Committed => Over'
  BY <1>2, OverStays DEF Changing, QuietStep
<1>4. Sure' => Sure
  BY EpochBefore DEF Sure, Early, QuietStep
<1>5. Sure => graph'.revision = graph.revision
  BY <1>2, ChangeAlone
<1>6. lease = NoLease => graph'.revision = graph.revision
  <2>1. \A c \in Call : call[c].pc = "publish" => lease # NoLease
    BY UnrecordedIsPending DEF Attempts, Settled, E!Held
  <2> QED
    BY <1>2, <2>1, RevisionMoves DEF QuietStep
<1>7. io'[Change] = io[Change] \/ (io'[Change].op = "done" /\ ~io'[Change].ok)
  BY SlotKept
<1>8. ASSUME Sure, T.pc \in {"change", "written"}, Checkpointing
      PROVE  /\ ~obj'[T.object].dirty
             /\ Recent(T.object)' => T.revision <= obj'[T.object].revision
  <3>1. T.object \in Obj /\ T.object \notin Free
    BY <1>8 DEF Shape, LiveObjects, LiveChange, Live, T, Checkpointing, Free, Referenced
  <3>2. PICK o \in Obj : o = T.object
    BY <3>1
  <3>3. Moved(o) /\ ~Made(o)
    BY <3>1, <3>2 DEF Effects, Made
  <3>4. obj'[o].revision >= obj[o].revision /\ obj[o].revision \in Int /\ obj'[o].revision \in Int
    <4>1. obj'[o].revision \in {obj[o].revision, obj[o].revision + 1}
      BY <3>3 DEF Moved, Same, Delivers
    <4> QED
      BY <3>3, <4>1, RevisionKept, ObjectTypes
  <3>5. ~obj[o].dirty /\ (Recent(o) => T.revision <= obj[o].revision)
    BY <1>8, <3>2 DEF Changing
  <3>6. ~obj'[o].dirty
    <4>1. CASE Same(o)
      BY <3>5, <4>1 DEF Same
    <4>2. ASSUME NEW t \in Clients, Delivers(t, o) PROVE ~obj'[o].dirty
      <5>1. Result(t) /\ Concerns(t, o)
        BY <4>2 DEF Delivers
      <5>2. io[t].of = "begin" => t \in Call /\ Active(t)
        BY <5>1, ResultOf DEF Active
      <5>3. io[t].of # "begin"
        BY <1>8, <5>2 DEF GraphInv
      <5> QED
        BY <3>5, <4>2, <5>3 DEF Delivers
    <4> QED
      BY <3>3, <4>1, <4>2 DEF Moved
  <3>7. Recent(o)' => Recent(o)
    BY <3>3, RecentBefore
  <3>8. Recent(o)' => T.revision <= obj'[o].revision
    BY <1>0, <3>4, <3>5, <3>7
  <3> QED
    BY <3>2, <3>6, <3>8
<1>9. (Ready' => Ready) /\ (Plain' <=> Plain) /\ (Checkpointing' <=> Checkpointing)
  BY <1>7 DEF Ready, Plain, Checkpointing, Done
<1>10. CASE io'[Change] = io[Change]
  <2>1. io[Change].op = "checkout" /\ io[Change].expected = generation =>
          lease = NoLease /\ T.revision = graph'.revision
    BY <1>6 DEF Changing
  <2>5. io[Change].op = "checkout" => T.revision <= graph'.revision
    BY <1>0, GraphGrows DEF Changing, QuietStep
  <2>2. Sure' => T.revision = graph'.revision
    BY <1>4, <1>5 DEF Changing
  <2>3. Sure' /\ Checkpointing' /\ T.pc \in {"change", "written"} =>
          ~obj'[T.object].dirty /\ (Recent(T.object)' => T.revision <= obj'[T.object].revision)
    BY <1>4, <1>8, <1>9
  <2>4. Sure' /\ T.kind # "plan" /\ Ready' /\ OnLeaf' =>
          ~lease.dirty /\ lease.basis.graph >= IF Plain THEN T.revision + 1 ELSE T.revision
    BY <1>0, <1>4, <1>9 DEF Changing, OnLeaf, E!Held
  <2> QED
    BY <1>0, <1>1, <1>3, <1>9, <1>10, <2>1, <2>2, <2>3, <2>4, <2>5 DEF Changing, Done, OnLeaf, E!Held, Basis
<1>11. CASE io'[Change].op = "done" /\ ~io'[Change].ok
  <2>2. Sure' => T.revision = graph'.revision
    BY <1>4, <1>5 DEF Changing
  <2>3. Sure' /\ Checkpointing' /\ T.pc \in {"change", "written"} =>
          ~obj'[T.object].dirty /\ (Recent(T.object)' => T.revision <= obj'[T.object].revision)
    BY <1>4, <1>8, <1>9
  <2>4. Sure' /\ T.kind # "plan" /\ Ready' /\ OnLeaf' =>
          ~lease.dirty /\ lease.basis.graph >= IF Plain THEN T.revision + 1 ELSE T.revision
    BY <1>0, <1>4, <1>9 DEF Changing, OnLeaf, E!Held
  <2> QED
    BY <1>0, <1>1, <1>3, <1>9, <1>11, <2>2, <2>3, <2>4 DEF Changing, Done, OnLeaf, E!Held
<1> QED
  BY <1>7, <1>10, <1>11

LEMMA ConsumeChanging ==
  ASSUME Shape, Running, QuietStep, Effects, NEW kind \in Kinds, Consume(kind), Changing, Authorized, T' # T
  PROVE  Changing'
<1> USE Tasks
<1> DEFINE closes == kind \in {"checkpoint", "complete"}
           n == [NewTool EXCEPT !.pc = IF closes THEN "change" ELSE "consumed",
                                !.kind = kind, !.epoch = epoch', !.revision = graph.revision,
                                !.object = IF closes THEN leases ELSE NoObj]
<1>1. tool' = [tool EXCEPT ![Change] = n] /\ auth.revision = graph.revision /\ auth # NoAuth
      /\ (closes => leases # NoObj /\ ~obj[leases].dirty)
      /\ io' = io /\ graph' = graph /\ T.pc = "idle"
      /\ obj' = IF leases = NoObj THEN obj ELSE [obj EXCEPT ![leases].basis = NoAuth]
  BY DEF Consume, T
<1>2. /\ n.kind = kind /\ n.revision = graph.revision
      /\ n.pc = IF closes THEN "change" ELSE "consumed"
      /\ closes => n.object = leases
  BY DEF NewTool
<1>3. io[Change].op = "none"
  BY <1>1, ChangeRequestOf
<1>4. T' = n
  <2> HIDE DEF n
  <2> QED
    BY <1>1, ChangeOK DEF T
<1> HIDE DEF n
<1>5. closes => ~obj'[leases].dirty /\ (Recent(leases)' => n.revision <= obj'[leases].revision)
  <2> SUFFICES ASSUME closes PROVE <1>5!2
    OBVIOUS
  <2>1. leases \in Obj /\ obj \in [Obj -> AnyObject] /\ obj[leases] \in AnyObject
    BY <1>1 DEF Shape, LiveObjects, Live, ObjShape
  <2>2. obj'[leases] = [obj[leases] EXCEPT !.basis = NoAuth]
    BY <1>1, <2>1
  <2>3. obj'[leases].revision = obj[leases].revision /\ obj'[leases].dirty = obj[leases].dirty
    BY <2>1, <2>2 DEF AnyObject
  <2>4. Recent(leases) => auth.revision <= obj[leases].revision
    BY <1>1 DEF Authorized
  <2>5. leases' = leases
    BY DEF Consume, OthersT, Memory
  <2>6. leases \notin Free
    BY <1>1 DEF Free, Referenced
  <2>7. PICK o \in Obj : o = leases
    BY <2>1
  <2>8. Recent(o)' => Recent(o)
    BY <2>6, <2>7, RecentBefore DEF Made
  <2>9. Recent(leases)' => Recent(leases)
    BY <2>5, <2>7, <2>8
  <2> QED
    BY <1>1, <1>2, <2>3, <2>4, <2>5, <2>9
<1>6. closes => Checkpointing'
  BY <1>2, <1>4 DEF Checkpointing
<1>7. ~Ready'
  BY <1>2, <1>4, <1>6 DEF Ready, Plain
<1>8. \A e \in graph'.evidence : e.revision <= graph'.revision
  BY EvidenceDated DEF Changing, QuietStep
<1>9. leases' = leases
  BY DEF Consume, OthersT, Memory
<1>10. Checkpointing' => closes
  BY <1>2, <1>4 DEF Checkpointing
<1>11. T'.pc \in {"change", "consumed"} /\ T'.revision = graph'.revision /\ T'.kind = kind
  BY <1>1, <1>2, <1>4
<1>12. Plain' /\ T'.pc = "change" => FALSE
  BY <1>2, <1>4, <1>6, <1>11 DEF Plain
<1>13. T'.pc = "change" /\ Checkpointing' => T'.object = leases
  BY <1>2, <1>4, <1>10
<1>14. io'[Change].op = "none"
  BY <1>1, <1>3
<1>15. Checkpointing' /\ T'.pc \in {"change", "written"} =>
         ~obj'[T'.object].dirty /\ (Recent(T.object)' => T'.revision <= obj'[T'.object].revision)
  <2> SUFFICES ASSUME Checkpointing', T'.pc \in {"change", "written"}
               PROVE  ~obj'[leases].dirty /\ (Recent(leases)' => T'.revision <= obj'[leases].revision)
    BY <1>9, <1>11, <1>13
  <2> QED
    BY <1>4, <1>5, <1>10
<1> QED
  BY <1>7, <1>8, <1>11, <1>12, <1>14, <1>15 DEF Changing, Done, Committed

\* Of its own steps, the tool's commit alone moves the graph.
LEMMA ChangeWaits ==
  ASSUME Shape, ChangeStep, ~PublishChange
  PROVE  graph'.revision = graph.revision
<1>0. graph \in AnyGraph
  BY DEF Shape, GraphShape
<1>1. CASE WriteChange \/ CheckChange
  BY <1>0, <1>1 DEF WriteChange, CheckChange, AnyGraph
<1>2. CASE ~(WriteChange \/ CheckChange)
  BY <1>2 DEF ChangeStep, Reserve, ReserveReturns, CheckedOut, PlanChanged, Undone, CheckpointCommitted,
              CheckpointReturns, Reread, ConvergeChange
<1> QED
  BY <1>1, <1>2

LEMMA StepsChanging ==
  ASSUME ~Overlap, Shape, QuietStep, GraphInv, Coherent, Objects, Refreshing, Changing, ChangeStep
  PROVE  Changing'
<1> USE Tasks
<1>0. /\ generation' = generation /\ lease' = lease /\ generation \in Nat
      /\ T.revision \in Int /\ T.seen \in AnySnapshot /\ None.op = "none"
      /\ T' = tool'[Change] /\ DOMAIN io = Task
      /\ graph.revision \in Int
  BY QuietFile, ChangeOK, ChangeGoes, GraphGrows DEF Shape, FileShape, None, QuietStep
<1>17. ~PublishChange => graph'.revision = graph.revision
  BY ChangeWaits
<1>18. Sure' => Sure
  BY ChangeOnward DEF Sure, Early
<1>19. \A e \in graph'.evidence : e.revision <= graph'.revision
  BY EvidenceDated DEF Changing, QuietStep
<1>20. Sure => T.revision = graph.revision
  BY DEF Changing
<1>21. (T.pc \in Committed => Over) /\ (Over /\ ~PublishChange /\ T'.revision = T.revision => Over')
  BY OverStays DEF Changing, QuietStep
<1>1. ASSUME Abandon, io[Change].op \in {"none", "release"} PROVE Changing'
  <2>1. T'.pc \in {"idle", "undoing"}
    BY <1>1, ChangeGoes DEF Abandon, GoesOnAt
  <2>2. io'[Change].op \in {"none", "release"}
    BY <1>0, <1>1 DEF Abandon
  <2> QED
    BY <1>19, <2>1, <2>2, ChangeRests
<1>2. ASSUME ChangeEnds, io'[Change].op \in {"none", "release"} PROVE Changing'
  <2>1. T'.pc = "idle"
    BY <1>2, ChangeGoes
  <2> QED
    BY <1>2, <1>19, <2>1, ChangeRests
<1>3. CASE Reserve
  <2> DEFINE v == [op |-> "checkout", expected |-> generation,
                   basis |-> IF T.kind = "plan" THEN Basis("fence", T.revision) ELSE Basis("leaf", T.revision + 1)]
  <2>1. io[Change].op = "none" /\ T.pc = "consumed"
    BY <1>3, ChangeRequestOf DEF Reserve
  <2>2. CASE ChangeEnds /\ UNCHANGED io
    BY <1>2, <2>1, <2>2
  <2>3. CASE lease = NoLease /\ io' = [io EXCEPT ![Change] = v] /\ tool' = [tool EXCEPT ![Change].pc = "reserving"]
    <3>1. io'[Change] = v
      BY <1>0, <2>3
    <3>2. GoesOnAt("reserving")
      BY <2>3, ChangeGoes
    <3>3. T.revision = graph.revision /\ graph'.revision = graph.revision /\ 1 <= graph.revision
      <4>1. Sure
        BY <1>0, <1>3, <2>1, <3>1, <3>2 DEF Sure, Early, Reserve, ChangeEnds, GoesOnAt, NewTool
      <4> QED
        BY <1>3, <1>17, <1>20, <2>1, <4>1 DEF PublishChange, Refreshing
    <3>4. /\ io'[Change].op = "checkout" /\ io'[Change].expected = generation
          /\ io'[Change].basis = IF T.kind = "plan" THEN Basis("fence", T.revision) ELSE Basis("leaf", T.revision + 1)
      BY <3>1
    <3>5. Basis("fence", T.revision)' = Basis("fence", T'.revision) /\ Basis("leaf", T.revision + 1)' = Basis("leaf", T'.revision + 1)
      BY DEF Basis
    <3>6. ~Ready'
      BY <3>2, <3>4 DEF Ready, GoesOnAt, Done
    <3> QED
      BY <1>0, <1>19, <2>3, <3>2, <3>3, <3>4, <3>5, <3>6 DEF Changing, GoesOnAt, Done, Committed
  <2> QED
    BY <1>3, <2>2, <2>3 DEF Reserve
<1>4. CASE ReserveReturns
  <2>1. io'[Change].op = "none" /\ T.pc = "reserving" /\ io[Change].op = "done"
    BY <1>0, <1>4 DEF ReserveReturns, Returned
  <2>2. CASE ~io[Change].ok
    BY <1>2, <1>4, <2>1, <2>2 DEF ReserveReturns
  <2>3. CASE io[Change].ok
    <3>1. GoesOnAt("change") /\ T'.seen = io[Change].snapshot
      BY <1>4, <2>3, ChangeGoes DEF ReserveReturns
    <3>2. ~Checkpointing /\ Done(Change)
      BY <2>1, <2>3 DEF Shape, LiveObjects, LiveChange, T, Checkpointing, Done
    <3>3. (Plain' <=> Plain) /\ (Checkpointing' <=> Checkpointing) /\ (OnLeaf' <=> OnLeaf)
      BY <1>0, <3>1 DEF Plain, Checkpointing, GoesOnAt, OnLeaf, E!Held
    <3>4. Ready' => Ready
      BY <2>1, <3>1, <3>2, <3>3 DEF Ready, GoesOnAt
    <3>5. Sure' => Sure /\ T.revision = graph.revision /\ graph'.revision = graph.revision
      BY <1>17, <1>18, <1>20, <2>1 DEF PublishChange
    <3> QED
      BY <1>0, <1>19, <2>1, <3>1, <3>2, <3>3, <3>4, <3>5 DEF Changing, GoesOnAt, Committed
  <2> QED
    BY <2>2, <2>3
<1>5. CASE WriteChange
  <2>1. io[Change].op = "none" /\ T.pc = "change" /\ UNCHANGED obj
    BY <1>5, ChangeRequestOf DEF WriteChange
  <2>2. CASE tool' = [tool EXCEPT ![Change].pc = "written", ![Change].evidence = generation] /\ UNCHANGED io
    <3>1. GoesOnAt("written") /\ T'.seen = T.seen
      BY <2>2, ChangeGoes
    <3>3. (Plain' <=> Plain) /\ (Checkpointing' <=> Checkpointing) /\ (OnLeaf' <=> OnLeaf)
      BY <1>0, <3>1 DEF Plain, Checkpointing, GoesOnAt, OnLeaf, E!Held
    <3>4. Ready' => Ready
      BY <2>1, <3>1, <3>3 DEF Ready, GoesOnAt
    <3>5. Sure' => Sure /\ T.revision = graph.revision /\ graph'.revision = graph.revision
      BY <1>17, <1>18, <1>20, <2>1 DEF PublishChange
    <3>6. T'.object = T.object /\ UNCHANGED <<call, obj, io>>
      BY <1>5, <2>1, <2>2, <3>1 DEF WriteChange, GoesOnAt
    <3>7. Recent(T.object)' => Recent(T.object)
      BY <1>0, <3>6 DEF Recent, OnLeaf, E!Held, Fresh, Live, Concerns, Result, Done
    <3>8. Sure /\ Checkpointing /\ T.pc = "change" =>
            ~obj[T.object].dirty /\ (Recent(T.object) => T.revision <= obj[T.object].revision)
      BY DEF Changing
    <3>9. T'.revision = T.revision /\ T'.pc = "written"
      BY <3>1 DEF GoesOnAt
    <3>10. Sure' /\ Checkpointing' =>
             ~obj'[T'.object].dirty /\ (Recent(T.object)' => T'.revision <= obj'[T'.object].revision)
      BY <2>1, <3>3, <3>5, <3>6, <3>7, <3>8, <3>9
    <3> QED
      BY <1>0, <1>19, <2>1, <2>2, <3>1, <3>3, <3>4, <3>5, <3>9, <3>10 DEF Changing, GoesOnAt, Committed
  <2> QED
    BY <1>1, <1>5, <2>1, <2>2 DEF WriteChange
<1>6. CASE CheckChange
  <2>1. io[Change].op = "none" /\ T.pc = "written" /\ UNCHANGED obj
    BY <1>6, ChangeRequestOf DEF CheckChange
  <2>2. CASE E!AssertClaim(me, ChangeClaim) /\ tool' = [tool EXCEPT ![Change].pc = "publish"] /\ UNCHANGED io
    <3>1. GoesOnAt("publish") /\ T'.seen = T.seen
      BY <2>2, ChangeGoes
    <3>3. (Plain' <=> Plain) /\ (Checkpointing' <=> Checkpointing) /\ (OnLeaf' <=> OnLeaf)
      BY <1>0, <3>1 DEF Plain, Checkpointing, GoesOnAt, OnLeaf, E!Held
    <3>4. Plain => Ready
      BY <2>1 DEF Ready
    <3>10. Sure
      BY <1>6, <2>1, <2>2, <3>1, ChangeOnward DEF Sure, Early, GoesOnAt
    <3>5. T.revision = graph.revision /\ graph'.revision = graph.revision
      BY <1>17, <1>20, <2>1, <3>10 DEF PublishChange
    <3>6. Checkpointing /\ OnLeaf => ~lease.dirty /\ lease.basis.graph >= T.revision
      <4> SUFFICES ASSUME Checkpointing, OnLeaf PROVE ~lease.dirty /\ lease.basis.graph >= T.revision
        OBVIOUS
      <4>1. PICK o \in Obj : o = T.object /\ Live(o)
        BY <2>1 DEF Shape, LiveObjects, LiveChange, Live, T, Checkpointing
      <4>2. Fresh(o)
        BY <2>2, <4>1 DEF E!AssertClaim, ChangeClaim, Claim, ClaimOf, Fresh
      <4>3. obj[o].durable.lease = lease
        BY <4>2 DEF Coherent, Now, Fresh, Live
      <4>4. lease.basis.graph = obj[o].revision /\ obj[o].dirty = lease.dirty
        BY <4>2, <4>3 DEF Objects
      <4>5. T.revision <= obj[o].revision /\ ~obj[o].dirty /\ obj[o].revision \in Int
        BY <2>1, <3>10, <4>1, <4>2, ObjectTypes DEF Changing, Recent
      <4> QED
        BY <1>0, <4>4, <4>5
    <3>7. Plain /\ OnLeaf => ~lease.dirty /\ lease.basis.graph >= T.revision + 1
      BY <3>4, <3>10 DEF Changing, Plain
    <3>8. T.kind # "plan" => Plain \/ Checkpointing
      BY DEF Plain
    <3>9. Plain => ~Checkpointing
      BY DEF Plain
    <3> QED
      BY <1>0, <1>19, <2>1, <2>2, <3>1, <3>3, <3>4, <3>5, <3>6, <3>7, <3>8, <3>9 DEF Changing, GoesOnAt, Committed
  <2> QED
    BY <1>1, <1>6, <2>1, <2>2 DEF CheckChange
<1>7. CASE PublishChange
  <2>1. io[Change].op = "none" /\ T.pc = "publish"
    BY <1>7, ChangeRequestOf DEF PublishChange
  <2>2. CASE UNCHANGED io /\ tool' = [tool EXCEPT ![Change].pc = "published"]
              /\ \E e, d : graph' = [graph EXCEPT !.writer = NoObj, !.revision = @ + 1, !.evidence = e, !.done = d]
    <3>1. GoesOnAt("published") /\ T'.seen = T.seen
      BY <2>2, ChangeGoes
    <3>2. graph'.revision = graph.revision + 1
      BY <2>2 DEF Shape, GraphShape, AnyGraph
    <3>3. T.revision = graph.revision
      BY <1>20, <2>1 DEF Sure
    <3>4. Plain' => T'.seen.lease.basis.graph = T'.revision + 1 /\ ~T'.seen.lease.dirty
      BY <2>1, <3>1 DEF Changing, Plain, Checkpointing, GoesOnAt
    <3>5. Over'
      BY <1>0, <1>19, <3>1, <3>2, <3>3 DEF Over, GoesOnAt
    <3> QED
      BY <1>19, <2>1, <2>2, <3>1, <3>4, <3>5, ChangeCloses DEF GoesOnAt
  <2> QED
    BY <1>1, <1>7, <2>1, <2>2 DEF PublishChange
<1>8. CASE CheckedOut
  <2>1. io[Change].op = "none" /\ ChangeEnds
    BY <1>8, ChangeRequestOf DEF CheckedOut
  <2>2. leases # NoObj => leases \in Obj
    BY DEF Shape, LiveObjects, Live
  <2>3. io'[Change] = io[Change]
    <3>1. io' = io \/ (leases # NoObj /\ \E v : io' = [io EXCEPT ![leases] = v])
      BY <1>8 DEF CheckedOut, Schedule
    <3> QED
      BY <1>0, <2>2, <3>1
  <2> QED
    BY <1>2, <2>1, <2>3
<1>9. CASE PlanChanged
  BY <1>1, <1>9, ChangeRequestOf DEF PlanChanged
<1>10. CASE Undone
  BY <1>0, <1>2, <1>10 DEF Undone
<1>11. ASSUME NEW s, NEW b, AskCheckpoint(s, b), Over, ~PublishChange
       PROVE  Changing'
  <2>1. GoesOnAt("closing")
    BY <1>11, ChangeGoes DEF AskCheckpoint
  <2>2. io'[Change].op = "checkpoint" /\ io'[Change].revision = T.revision + 1
    BY <1>0, <1>11 DEF AskCheckpoint
  <2> QED
    BY <1>11, <1>19, <1>21, <2>1, <2>2, ChangeCloses DEF GoesOnAt
<1>12. ASSUME NEW s, Close(s), io[Change].op \in {"none", "done"} PROVE Changing'
  <2>1. CASE ChangeEnds /\ io' = [io EXCEPT ![Change] = None]
    BY <1>0, <1>2, <2>1
  <2>2. ASSUME NEW o \in Free, NEW kept, Schedule(o, o, kept, [io EXCEPT ![Change] = None]),
               tool' = [tool EXCEPT ![Change].pc = "converging", ![Change].object = o, ![Change].tries = 1]
        PROVE  Changing'
    <3>1. T'.pc = "converging"
      BY <1>0, <2>2, ChangeOK DEF AnyTool
    <3>2. o \in Obj
      BY FreeIsUnused
    <3>3. io'[Change] = None
      BY <1>0, <2>2, <3>2 DEF Schedule
    <3> QED
      BY <1>0, <1>19, <3>1, <3>3, ChangeRests
  <2> QED
    BY <1>12, <2>1, <2>2 DEF Close
<1>13. CASE CheckpointCommitted
  BY <1>11, <1>13, <1>21 DEF CheckpointCommitted, Committed, PublishChange
<1>14. CASE CheckpointReturns
  <2>1. io[Change].op = "done" /\ Over /\ ~PublishChange
    BY <1>14, <1>21 DEF CheckpointReturns, Returned, Committed, PublishChange
  <2>2. CASE io' = [io EXCEPT ![Change] = None] /\ tool' = [tool EXCEPT ![Change].pc = "reread"]
    <3>1. GoesOnAt("reread")
      BY <2>2, ChangeGoes
    <3>2. io'[Change].op = "none"
      BY <1>0, <2>2
    <3> QED
      BY <1>19, <1>21, <2>1, <3>1, <3>2, ChangeCloses DEF GoesOnAt
  <2>3. CASE ChangeEnds /\ io' = [io EXCEPT ![Change] = None]
    BY <1>0, <1>2, <2>3
  <2> QED
    BY <1>11, <1>12, <1>14, <2>1, <2>2, <2>3 DEF CheckpointReturns
<1>15. CASE Reread
  <2>1. io[Change].op = "none" /\ Over /\ ~PublishChange
    BY <1>15, <1>21, ChangeRequestOf DEF Reread, Committed, PublishChange
  <2>2. ASSUME NEW s, NEW b, io' = [io EXCEPT ![Change] = [op |-> "release", claim |-> ClaimOf(s)]],
               tool' = [tool EXCEPT ![Change].pc = "closingRelease", ![Change].seen = s, ![Change].release = b]
        PROVE  Changing'
    <3>1. GoesOnAt("closingRelease")
      BY <2>2, ChangeGoes
    <3>2. io'[Change].op = "release"
      BY <1>0, <2>2
    <3> QED
      BY <1>19, <1>21, <2>1, <3>1, <3>2, ChangeCloses DEF GoesOnAt
  <2>3. ChangeEnds /\ UNCHANGED io => Changing'
    BY <1>2, <2>1
  <2> QED
    BY <1>11, <1>12, <1>15, <2>1, <2>2, <2>3 DEF Reread
<1>16. CASE ConvergeChange
  <2>1. io[Change].op = "none" /\ T.pc = "converging"
    BY <1>16, ChangeRequestOf DEF ConvergeChange
  <2>2. leases # NoObj => leases \in Obj
    BY DEF Shape, LiveObjects, Live
  <2>3. io'[Change] = io[Change]
    <3>1. io' = io \/ (leases = T.object /\ \E v : io' = [io EXCEPT ![T.object] = v])
      BY <1>16 DEF ConvergeChange, Schedule
    <3>2. T.object \in Obj
      BY <2>1 DEF Shape, LiveObjects, LiveChange, Live, T
    <3> QED
      BY <1>0, <3>1, <3>2
  <2>4. T'.pc \in {"idle", "converging"}
    <3>1. tool' = [tool EXCEPT ![Change].tries = 2] => T'.pc = T.pc
      BY <1>0, ChangeOK DEF AnyTool
    <3> QED
      BY <1>16, <2>1, <3>1, ChangeGoes DEF ConvergeChange
  <2> QED
    BY <1>19, <2>1, <2>3, <2>4, ChangeRests
<1> QED
  BY <1>3, <1>4, <1>5, <1>6, <1>7, <1>8, <1>9, <1>10, <1>13, <1>14, <1>15, <1>16 DEF ChangeStep

LEMMA QuietChanging ==
  ASSUME ~Overlap, Shape, FileInv, Attempts, Running, QuietStep, Effects, GraphInv, Coherent, Objects, Refreshing,
         Authorized, Changing
  PROVE  Changing'
<1>1. ASSUME NEW kind \in Kinds, Consume(kind), T' = T PROVE ~ChangeStep
  BY <1>1 DEF Consume, ChangeStep, Reserve, ReserveReturns, WriteChange, CheckChange, PublishChange, CheckedOut,
              PlanChanged, Undone, CheckpointCommitted, CheckpointReturns, Reread, ConvergeChange
<1> QED
  BY <1>1, StepsChanging, KeepsChanging, ConsumeChanging, ChangeToolMoves DEF QuietStep
-----------------------------------------------------------------------------
(* The authority.                                                          *)

Restoring == {"waiting", "read", "takeover", "settling", "releasing"}

\* How a refresh goes on, and what becomes of the lease object meanwhile.
RefreshMoved ==
  \/ /\ R'.pc = "peeked" /\ R'.epoch = epoch /\ R'.revision = graph.revision /\ UNCHANGED leases
  \/ /\ R.pc # "idle" /\ R'.pc = "waiting" /\ R'.epoch = R.epoch /\ R'.revision = R.revision
     /\ R'.object = leases /\ UNCHANGED leases
  \/ R'.pc = "idle" /\ R'.epoch = 0 /\ UNCHANGED leases
  \/ /\ R.pc \in Restoring /\ R'.pc \in Restoring /\ R'.epoch = R.epoch /\ R'.revision = R.revision
     /\ R'.object = R.object /\ UNCHANGED leases
  \/ /\ R.pc \in Restoring /\ R'.pc = "restored" /\ R'.epoch = R.epoch /\ R'.revision = R.revision
     /\ leases' = Forgotten \/ Made(leases')

LEMMA RefreshMoves ==
  ASSUME Shape, Running, Refreshing, Effects, RefreshStart \/ RefreshStep
  PROVE  RefreshMoved
<1> USE Tasks
<1>0. /\ R = tool[Refresh] /\ R' = tool'[Refresh] /\ R \in AnyTool /\ tool \in [Slot -> AnyTool]
  BY RefreshTools
<1>1. ASSUME tool' = [tool EXCEPT ![Refresh] = NewTool] PROVE R'.pc = "idle" /\ R'.epoch = 0
  BY <1>0, <1>1 DEF NewTool
<1>2. CASE RefreshStart
  <2>1. R'.pc = "peeked" /\ R'.epoch = epoch /\ R'.revision = graph.revision
    BY <1>0, <1>2 DEF RefreshStart, NewTool
  <2> QED
    BY <1>2, <2>1 DEF RefreshStart, RefreshMoved
<1>3. CASE RestoreStart
  <2>1. R'.pc = "waiting" /\ R'.epoch = R.epoch /\ R'.revision = R.revision /\ R'.object = leases
    BY <1>0, <1>3 DEF RestoreStart, AnyTool
  <2> QED
    BY <1>3, <2>1 DEF RestoreStart, RefreshMoved
<1>4. CASE RestoreRead
  <2>1. UNCHANGED leases /\ R.pc = "waiting"
    BY <1>4 DEF RestoreRead
  <2>2. CASE tool' = [tool EXCEPT ![Refresh].pc = "read", ![Refresh].seen = Snapshot, ![Refresh].awaited = NoObj]
    <3>1. R'.pc = "read" /\ R'.epoch = R.epoch /\ R'.revision = R.revision /\ R'.object = R.object
      BY <1>0, <2>2 DEF AnyTool
    <3> QED
      BY <2>1, <3>1 DEF RefreshMoved, Restoring
  <2> QED
    BY <1>1, <1>4, <2>1, <2>2 DEF RestoreRead, RefreshMoved
<1>5. CASE RestoreFound \/ RestoreReturns
  <2>0. R.pc \in Restoring
    BY <1>5 DEF RestoreFound, RestoreReturns, Restoring
  <2>1. ASSUME NEW v, NEW x, NEW p \in {"takeover", "settling", "releasing"}, Ask(v, x, p) PROVE RefreshMoved
    <3>1. R'.pc = p /\ R'.epoch = R.epoch /\ R'.revision = R.revision /\ R'.object = R.object
      BY <1>0, <2>1 DEF Ask, AnyTool
    <3>2. UNCHANGED leases
      BY <2>1 DEF Ask
    <3> QED
      BY <2>0, <3>1, <3>2 DEF RefreshMoved, Restoring
  <2>2. ASSUME NEW o, RestoredTo(o), leases' = Forgotten \/ Made(leases') PROVE RefreshMoved
    <3>1. R'.pc = "restored" /\ R'.epoch = R.epoch /\ R'.revision = R.revision
      BY <1>0, <2>2 DEF RestoredTo, AnyTool
    <3> QED
      BY <2>0, <2>2, <3>1 DEF RefreshMoved
  <2>3. CASE RefreshFails
    BY <1>1, <2>3 DEF RefreshFails, RefreshMoved
  <2>4. CASE RestoredTo(Forgotten)
    <3>1. leases' = Forgotten
      BY <2>4 DEF RestoredTo
    <3> QED
      BY <2>2, <2>4, <3>1
  <2>5. ASSUME NEW d, NEW x, NEW v, AsksOn(d, x, v) PROVE RefreshMoved
    BY <2>1, <2>5 DEF AsksOn
  <2>6. ASSUME NEW d, NEW o, Restores(d, o) PROVE RefreshMoved
    <3>1. RestoredTo(o) /\ leases' = o /\ o \in Obj /\ o # leases
      BY <2>6, FreeUnused DEF Restores, RestoredTo
    <3>2. Made(leases')
      BY <3>1 DEF Effects
    <3> QED
      BY <2>2, <3>1, <3>2
  <2> QED
    BY <1>5, <2>1, <2>3, <2>4, <2>5, <2>6, RefreshRestores DEF RefreshDoes
<1>6. CASE RefreshEnds
  BY <1>1, <1>6 DEF RefreshEnds, RefreshMoved
<1> QED
  BY <1>2, <1>3, <1>4, <1>5, <1>6 DEF RefreshStep

LEMMA PreparedKept ==
  ASSUME Shape, QuietStep, NEW c \in Call, call'[c].pc = "prepared"
  PROVE  \/ call[c].pc = "prepared" /\ call'[c].basis = call[c].basis /\ call'[c].epoch = call[c].epoch
         \/ Guard(c)
<1> USE Tasks
<1>0. call \in [Call -> AnyCall] /\ call[c] \in AnyCall
  BY DEF Shape, CallShape
<1>1. CASE call'[c] \in {call[c], Aborted[c]}
  BY <1>1, AbortedFacts DEF Shape
<1>2. CASE \E t \in Task : Refuse(t) \/ FailOperation(t)
  BY <1>1, <1>2 DEF Refuse, FailOperation, Rest
<1>3. CASE Beside
  BY <1>1, <1>3 DEF Beside
<1>4. ASSUME NEW d \in Call, Guard(d), d # c PROVE call'[c] = Aborted[c]
  <2>1. PICK r : call' = [Aborted EXCEPT ![d] = r]
    BY <1>4, GuardShape
  <2> QED
    BY <1>4, <2>1, AbortedFacts DEF Shape
<1>5. ASSUME NEW d \in Call, CallStep(d), d # c PROVE call'[c] = call[c]
  <2>1. PICK r : Move(d, r)
    BY <1>5, CallStepShape
  <2> QED
    BY <1>0, <1>5, <2>1 DEF Move
<1>6. ASSUME CallStep(c) PROVE FALSE
  <2>0. ASSUME NEW p, call' = [call EXCEPT ![c].pc = p] PROVE p = "prepared"
    BY <1>0, <2>0 DEF AnyCall
  <2>1. call' # [call EXCEPT ![c] = NewCall]
    BY <1>0, NewOK
  <2>2. ASSUME NEW p, NEW s, NEW b,
               \/ call' = [call EXCEPT ![c].pc = p, ![c].settling = s]
               \/ call' = [call EXCEPT ![c].pc = p, ![c].object = s]
               \/ call' = [call EXCEPT ![c].pc = p, ![c].release = b]
               \/ call' = [call EXCEPT ![c].pc = p, ![c].admitting = b]
               \/ call' = [call EXCEPT ![c].pc = p, ![c].tries = b]
        PROVE  p = "prepared"
    BY <1>0, <2>2 DEF AnyCall
  <2>3. ~Execute(c)
    BY <2>1, <2>2 DEF Execute
  <2>4. ~BeginReturns(c)
    <3> DEFINE o == call[c].object
               freed == [io EXCEPT ![c] = None]
               next == [call EXCEPT ![c].attempt = io[c].snapshot.lease.pending]
    <3>1. ASSUME Begun(c, o, freed) PROVE FALSE
      <4>1. \E p \in {"marking", "record", "enter"} : call' = [next EXCEPT ![c].pc = p]
        BY <3>1 DEF Begun
      <4>2. ASSUME NEW p \in {"marking", "record", "enter"}, call' = [next EXCEPT ![c].pc = p] PROVE FALSE
        <5>1. call'[c].pc = p
          BY <1>0, <4>2 DEF AnyCall
        <5> QED
          BY <5>1
      <4> QED
        BY <4>1, <4>2
    <3>2. ASSUME NotBegun(c, o, freed) PROVE FALSE
      BY <2>0, <2>1, <2>2, <3>2 DEF NotBegun
    <3> QED
      BY <3>1, <3>2 DEF BeginReturns
  <2>5. ~MarkReturns(c)
    BY <2>0, <2>1, <2>2 DEF MarkReturns
  <2>6. ~Enter(c) /\ ~Leave(c) /\ ~Settle(c)
    BY <2>0 DEF Enter, Leave, Settle
  <2>7. ~Record(c) /\ ~MakeReceipt(c)
    BY <2>1, <2>2 DEF Record, MakeReceipt, End
  <2>8. ~WriteReceipt(c) /\ ~PublishReceipt(c)
    BY <2>0, <2>1 DEF WriteReceipt, PublishReceipt, ReceiptLost, End
  <2>9. ~SettleReturns(c)
    BY <2>1, <2>2 DEF SettleReturns, End
  <2>10. ~Converge(c)
    <3>1. Converge(c) => call' # [call EXCEPT ![c].tries = 2]
      <4>1. call' = [call EXCEPT ![c].tries = 2] => call'[c].pc = call[c].pc
        BY <1>0 DEF AnyCall
      <4>2. Converge(c) => call[c].pc = "converging"
        BY DEF Converge
      <4> QED
        BY <4>1, <4>2
    <3> QED
      BY <2>1, <3>1 DEF Converge, End
  <2> QED
    BY <1>6, <2>3, <2>4, <2>5, <2>6, <2>7, <2>8, <2>9, <2>10 DEF CallStep
<1> QED
  BY <1>1, <1>2, <1>3, <1>4, <1>5, <1>6, StepKinds DEF QuietStep

LEMMA LeaseKept ==
  ASSUME Shape, QuietStep, Effects, leases' # NoObj
  PROVE  \/ /\ leases' = leases /\ leases \in Obj /\ ~Made(leases)
            /\ obj[leases].revision \in Int /\ obj'[leases].revision \in Int
            /\ obj'[leases].revision >= obj[leases].revision
            /\ RefreshEnds \/ (obj[leases].replaced => obj'[leases].replaced)
         \/ leases' \in Obj /\ Made(leases') /\ leases' # leases
<1>0. leases # NoObj => leases \in Obj /\ leases \notin Free
  BY DEF Shape, LiveObjects, Live, Free, Referenced
<1>1. CASE leases' = leases
  <2>1. PICK o \in Obj : o = leases
    BY <1>0, <1>1
  <2>2. Moved(o) /\ ~Made(o)
    BY <1>0, <1>1, <2>1 DEF Effects, Made
  <2>3. obj[o].revision \in Int /\ obj'[o].revision \in Int
    <3>1. obj'[o].revision \in {obj[o].revision, obj[o].revision + 1}
      BY <2>2 DEF Moved, Same, Delivers
    <3> QED
      BY <3>1, ObjectTypes
  <2>4. RefreshEnds \/ (obj[o].replaced => obj'[o].replaced)
    BY <2>2 DEF Moved, Same, Delivers, BasisKept
  <2> QED
    BY <1>1, <2>1, <2>2, <2>3, <2>4, RevisionKept
<1>2. CASE leases' # leases
  <2>1. leases' \in Obj /\ Made(leases')
    BY <1>2 DEF Effects
  <2> QED
    BY <1>2, <2>1
<1> QED
  BY <1>1, <1>2

\* What the tool of refreshing does, or that it does nothing.
LEMMA RefreshNext ==
  ASSUME Shape, Running, Refreshing, Effects, QuietStep
  PROVE  (~RefreshStart /\ ~RefreshStep /\ R' = R) \/ RefreshMoved
BY RefreshMoves, RefreshToolMoves DEF QuietStep

LEMMA QuietAuthorized ==
  ASSUME Shape, Running, Epochs, QuietStep, Effects, Objects, Refreshing, Authorized
  PROVE  Authorized'
<1> USE Tasks
<1>0. /\ graph.revision \in Int /\ graph'.revision \in Int /\ graph'.revision >= graph.revision
      /\ R.revision \in Int /\ R.epoch \in Int /\ auth.revision \in Int
      /\ epoch \in Int /\ epoch' \in {epoch, epoch + 1} /\ epoch >= 0
      /\ R.revision <= graph.revision /\ R.epoch <= epoch
  <2>1. R.revision \in Int /\ R.epoch \in Int
    BY RefreshTools DEF AnyTool
  <2>2. auth.revision \in Int /\ epoch >= 0
    BY DEF Shape, MemoryShape, AnyAuth
  <2> QED
    BY <2>1, <2>2, GraphGrows, AuthorityMoves DEF QuietStep, Refreshing, Authorized
<1>1. \/ R'.pc = "idle"
      \/ /\ R'.revision \in Int /\ R'.epoch \in Int /\ R'.epoch <= epoch
         /\ R'.revision \in {R.revision, graph.revision}
  BY <1>0, RefreshNext DEF RefreshMoved
<1>2. R'.epoch \in Int /\ R'.epoch <= epoch'
  BY <1>0, RefreshNext DEF RefreshMoved
<1>3. ASSUME R'.pc # "idle"
      PROVE  \/ R.pc # "idle" /\ R'.revision = R.revision /\ R'.epoch = R.epoch
             \/ R'.pc = "peeked" /\ R'.revision = graph.revision /\ R'.epoch = epoch
  BY <1>3, RefreshNext DEF RefreshMoved, Restoring
<1>7. ASSUME leases' # NoObj, Recent(leases)'
      PROVE  \/ /\ leases' = leases /\ leases \in Obj /\ Recent(leases)
                /\ obj[leases].revision \in Int /\ obj'[leases].revision \in Int
                /\ obj'[leases].revision >= obj[leases].revision
                /\ RefreshEnds \/ (obj[leases].replaced => obj'[leases].replaced)
             \/ /\ Made(leases') /\ leases' # leases
                /\ \/ obj'[leases'].revision = graph.revision
                   \/ /\ obj'[leases'].revision = R.revision /\ obj'[leases'].replaced /\ R.pc # "idle"
                      /\ UNCHANGED <<epoch, auth>>
  <2>1. leases' \in Obj
    BY <1>7, LeaseKept
  <2>2. PICK o \in Obj : o = leases'
    BY <2>1
  <2>3. Recent(o)'
    BY <1>7, <2>2
  <2>4. CASE leases' = leases
    <3>1. ~Made(o)
      BY <1>7, <2>2, <2>4, LeaseKept
    <3>2. Recent(o)
      BY <2>3, <3>1, RecentBefore
    <3> QED
      BY <1>7, <2>2, <2>4, <3>2, LeaseKept
  <2>5. CASE leases' # leases
    <3>1. Made(o)
      BY <1>7, <2>2, <2>5, LeaseKept
    <3> QED
      BY <2>2, <2>3, <2>5, <3>1, RecentBefore
  <2> QED
    BY <2>4, <2>5
<1>4. ASSUME auth' # NoAuth
      PROVE  /\ auth'.revision \in Int /\ auth'.revision <= graph'.revision /\ epoch' = epoch
             /\ leases' # NoObj /\ Recent(leases)' => auth'.revision <= obj'[leases'].revision
             /\ R'.pc # "idle" => auth'.revision <= R'.revision
  <2>1. epoch' = epoch
    BY <1>4, AuthorityMoves DEF QuietStep
  <2>2. CASE RefreshEnds /\ auth'.revision = R.revision
    <3>1. leases' = leases /\ R'.pc = "idle" /\ R.pc = "restored"
      BY <2>2, RefreshTools DEF RefreshEnds, NewTool
    <3>2. leases # NoObj /\ Recent(leases) => R.revision <= obj[leases].revision
      BY <3>1 DEF Authorized
    <3>3. leases' # NoObj /\ Recent(leases)' => R.revision <= obj'[leases'].revision
      BY <1>0, <1>7, <3>1, <3>2
    <3> QED
      BY <1>0, <2>1, <2>2, <3>1, <3>3
  <2>3. CASE auth # NoAuth /\ auth'.revision = auth.revision
    <3>1. /\ auth.revision <= graph.revision
          /\ leases # NoObj /\ Recent(leases) => auth.revision <= obj[leases].revision
          /\ R.pc # "idle" => auth.revision <= R.revision
      BY <2>3 DEF Authorized
    <3>2. ASSUME leases' # NoObj, Recent(leases)' PROVE auth.revision <= obj'[leases'].revision
      BY <1>0, <1>7, <3>1, <3>2
    <3> QED
      BY <1>0, <1>3, <2>1, <2>3, <3>1, <3>2
  <2> QED
    BY <1>4, <2>2, <2>3, AuthorityMoves DEF QuietStep
<1>5. ASSUME leases' # NoObj, Recent(leases)', R'.pc = "restored" \/ (R'.pc \in Restoring /\ R'.object = NoObj)
      PROVE  R'.revision <= obj'[leases'].revision
  <2>1. R'.revision = R.revision /\ R'.revision \in Int /\ R.pc # "idle"
    BY <1>0, <1>3, <1>5 DEF Restoring
  <2>2. CASE Made(leases') /\ leases' # leases
    BY <1>0, <1>5, <1>7, <2>1, <2>2
  <2>3. CASE leases' = leases
    <3>1. /\ leases' = leases /\ leases # NoObj /\ Recent(leases)
          /\ obj[leases].revision \in Int /\ obj'[leases].revision \in Int
          /\ obj'[leases].revision >= obj[leases].revision
      BY <1>5, <1>7, <2>3
    <3>4. ~Made(leases')
      BY <1>5, <2>3, LeaseKept
    <3>2. R.pc = "restored" \/ (R.pc \in Restoring /\ R.object = NoObj)
      <4>1. CASE RefreshMoved
        BY <1>5, <2>3, <3>1, <3>4, <4>1 DEF RefreshMoved, Forgotten, Restoring
      <4>2. CASE R' = R
        BY <1>5, <4>2
      <4> QED
        BY <4>1, <4>2, RefreshNext
    <3>3. R.revision <= obj[leases].revision
      BY <3>1, <3>2 DEF Authorized, Restoring
    <3> QED
      BY <1>0, <2>1, <3>1, <3>3
  <2> QED
    BY <1>5, <1>7, <2>2, <2>3
<1>6. ASSUME NEW c \in Call, call'[c].pc = "prepared"
      PROVE  /\ call'[c].basis.revision <= graph'.revision
             /\ call'[c].epoch = epoch' /\ leases' # NoObj /\ Recent(leases)' =>
                  obj'[leases'].replaced \/ call'[c].basis.revision <= obj'[leases'].revision
             /\ call'[c].epoch = epoch' /\ R'.pc # "idle" /\ R'.epoch = epoch' => call'[c].basis.revision <= R'.revision
  <2>1. CASE call[c].pc = "prepared" /\ call'[c].basis = call[c].basis /\ call'[c].epoch = call[c].epoch
    <3> DEFINE k == call[c].basis.revision
    <3>1. k \in Int /\ call[c].epoch \in Int
      BY DEF Shape, CallShape, AnyCall, AnyAuth
    <3>2. k <= graph.revision
      BY <2>1 DEF Authorized
    <3>3. call[c].epoch <= epoch
      BY <2>1 DEF Epochs, Active
    <3>4. call'[c].epoch = epoch' => epoch' = epoch /\ call[c].epoch = epoch
      BY <1>0, <2>1, <3>1, <3>3
    <3>5. ASSUME call[c].epoch = epoch, leases' # NoObj, Recent(leases)'
          PROVE  obj'[leases'].replaced \/ k <= obj'[leases'].revision
      <4>1. CASE Made(leases') /\ leases' # leases
        BY <1>0, <1>7, <3>1, <3>2, <3>5, <4>1
      <4>2. CASE leases' = leases
        <5>1. /\ leases' = leases /\ leases # NoObj /\ Recent(leases)
              /\ obj[leases].revision \in Int /\ obj'[leases].revision \in Int
              /\ obj'[leases].revision >= obj[leases].revision
              /\ RefreshEnds \/ (obj[leases].replaced => obj'[leases].replaced)
          BY <1>7, <3>5, <4>2
        <5>2. obj[leases].replaced \/ k <= obj[leases].revision
          BY <2>1, <3>5, <5>1 DEF Authorized
        <5>3. CASE RefreshEnds /\ ~(obj[leases].replaced => obj'[leases].replaced)
          <6>1. R.pc = "restored" /\ R.epoch = epoch
            BY <5>3 DEF RefreshEnds
          <6>2. k <= R.revision /\ R.revision <= obj[leases].revision
            BY <2>1, <3>5, <5>1, <6>1 DEF Authorized
          <6> QED
            BY <1>0, <3>1, <5>1, <6>2
        <5> HIDE DEF k
        <5> QED
          BY <3>1, <5>1, <5>2, <5>3
      <4> QED
        BY <1>7, <3>5, <4>1, <4>2
    <3>6. ASSUME call[c].epoch = epoch, R'.pc # "idle", R'.epoch = epoch PROVE k <= R'.revision
      BY <1>3, <2>1, <3>2, <3>6 DEF Authorized
    <3> HIDE DEF k
    <3>7. call'[c].basis.revision = k
      BY <2>1 DEF k
    <3> QED
      BY <1>0, <3>1, <3>2, <3>4, <3>5, <3>6, <3>7
  <2>2. CASE Guard(c)
    <3> DEFINE b == obj[leases].basis
    <3>1. /\ epoch' = epoch + 1 /\ leases' = leases /\ leases \in Obj
          /\ UNCHANGED <<graph, tool>>
      BY <2>2 DEF Guard, EndEpoch, Shape, LiveObjects, Live
    <3>2. call'[c].basis = b /\ b # NoAuth /\ b.revision = graph.revision
      <4> DEFINE n == [NewCall EXCEPT !.pc = "prepared", !.epoch = epoch', !.basis = b]
      <4>1. \/ call' = [Aborted EXCEPT ![c] = n] /\ b # NoAuth /\ b.revision = graph.revision
            \/ call' = [Aborted EXCEPT ![c] = NewCall]
        BY <2>2 DEF Guard, Current
      <4>2. n.basis = b
        BY DEF NewCall
      <4> HIDE DEF n, b
      <4>3. call' # [Aborted EXCEPT ![c] = NewCall]
        BY <1>6, AbortedFacts, NewOK DEF Shape
      <4> QED
        BY <4>1, <4>2, <4>3, AbortedFacts DEF Shape
    <3>3. Recent(leases) => b.revision <= obj[leases].revision
      BY <3>1, <3>2 DEF Objects
    <3>5. leases' # NoObj /\ Recent(leases)' => b.revision <= obj'[leases'].revision
      BY <1>0, <1>7, <3>1, <3>2, <3>3
    <3>6. R' = R
      BY <3>1 DEF R
    <3> HIDE DEF b
    <3> QED
      BY <1>0, <3>1, <3>2, <3>3, <3>5, <3>6
  <2> QED
    BY <1>6, <2>1, <2>2, PreparedKept
<1> QED
  BY <1>2, <1>4, <1>5, <1>6 DEF Authorized, Restoring
-----------------------------------------------------------------------------
(* The lease and the graph.                                                *)

LEMMA QuietFollows ==
  ASSUME Shape, QuietStep, FileInv, Attempts, FenceInv, Settlings, Changing, LeaseFollowsGraph
  PROVE  LeaseFollowsGraph'
<1> USE Tasks
<1>0. /\ generation' = generation /\ lease' = lease /\ graph.revision \in Int
      /\ graph.receipts \subseteq graph'.receipts /\ graph.evidence \subseteq graph'.evidence
      /\ T.revision \in Int
  BY QuietFile, GraphGrows, ChangeOK DEF QuietStep
<1>1. E!Held' <=> E!Held
  BY <1>0 DEF E!Held
<1>2. E!Held => lease.basis.graph \in Int
  BY DEF E!Held, Shape, FileShape, AnyLease, AnyBasis
<1>3. CASE graph'.revision = graph.revision
  BY <1>0, <1>1, <1>3 DEF LeaseFollowsGraph
<1>4. ASSUME NEW c \in Call, PublishReceipt(c), call[c].pc = "publish", call'[c].pc = "receipted"
      PROVE  LeaseFollowsGraph'
  <2>1. AttemptOf(c) = call[c].attempt /\ call[c].attempt # 0
    BY <1>4 DEF Settlings, AttemptOf
  <2>2. E!Held /\ lease.pending = call[c].attempt
    BY <1>4, <2>1, UnrecordedIsPending DEF Settled
  <2>3. lease.dirty
    BY <2>1, <2>2 DEF FileInv
  <2>4. call[c].attempt \notin Recorded
    BY <1>4, <2>1 DEF Attempts, Settled
  <2>5. \E r \in graph'.receipts : r.attempt = call[c].attempt
    <3>1. CallStep(c)
      BY <1>4 DEF CallStep
    <3>2. PICK x : x.attempt = call[c].attempt /\ x \in graph'.receipts
      <4>1. ~(call'[c].pc = "new")
        BY <1>4
      <4>2. \E x : x.attempt = call[c].attempt /\ graph'.receipts = graph.receipts \cup {x}
        BY <1>4, <3>1, <4>1, CallRecords
      <4> QED
        BY <4>2
    <3> QED
      BY <3>2
  <2>6. graph'.revision = graph.revision + 1
    BY <1>4, RecordingMoves DEF Recording
  <2>7. ~(\E r \in graph.receipts : r.attempt = lease.pending)
    BY <2>2, <2>4 DEF Recorded
  <2>8. lease.basis.node = "leaf" => graph.revision = lease.basis.graph
    BY <2>2, <2>3, <2>7 DEF LeaseFollowsGraph
  <2> QED
    BY <1>0, <1>2, <2>2, <2>3, <2>5, <2>6, <2>8 DEF LeaseFollowsGraph
<1>5. CASE PublishChange /\ graph'.revision # graph.revision
  <2>1. T.pc = "publish"
    BY <1>5 DEF PublishChange
  <2>2. graph'.revision = graph.revision + 1 /\ (Checkpointing => \E e \in graph'.evidence : e.revision = graph'.revision)
    <3> DEFINE done == IF T.kind = "complete" THEN graph.revision + 1 ELSE IF T.kind = "checkout" THEN 0 ELSE graph.done
               evidence == NewEvidence
               e == [at |-> T.evidence, revision |-> graph.revision + 1]
    <3>1. \/ graph' = [graph EXCEPT !.writer = NoObj, !.revision = @ + 1, !.evidence = evidence, !.done = done]
          \/ graph' = [graph EXCEPT !.writer = NoObj]
      BY <1>5 DEF PublishChange, Shape, GraphShape, AnyGraph
    <3>2. Checkpointing => e \in evidence
      BY DEF NewEvidence
    <3>3. e.revision = graph.revision + 1
      OBVIOUS
    <3> HIDE DEF done, evidence, e
    <3>4. graph'.revision = graph.revision + 1 /\ graph'.evidence = evidence
      BY <1>5, <3>1 DEF Shape, GraphShape, AnyGraph
    <3> QED
      BY <3>2, <3>3, <3>4
  <2>3. T.revision = graph.revision
    BY <2>1 DEF Changing, Sure
  <2>4. CASE T.kind = "plan"
    <3>1. lease.basis.node = "fence"
      BY <2>1, <2>4 DEF FenceInv, FenceHeld, Holding, Holds
    <3> QED
      BY <1>0, <3>1 DEF LeaseFollowsGraph
  <2>5. CASE T.kind # "plan"
    <3> SUFFICES ASSUME OnLeaf PROVE LeaseFollowsGraph'
      BY <1>0, <1>1 DEF LeaseFollowsGraph, OnLeaf
    <3>1. ~lease.dirty /\ lease.basis.graph >= IF Plain THEN T.revision + 1 ELSE T.revision
      BY <2>1, <2>5 DEF Changing, Ready, Sure
    <3>2. lease.basis.graph \in Int
      BY <1>2 DEF OnLeaf
    <3>3. graph.revision = lease.basis.graph \/ graph.revision = lease.basis.graph - 1
      BY <1>0, <2>3, <3>1, <3>2 DEF LeaseFollowsGraph, OnLeaf
    <3>4. CASE graph.revision = lease.basis.graph - 1
      BY <1>0, <2>2, <3>2, <3>4 DEF LeaseFollowsGraph
    <3>5. CASE graph.revision = lease.basis.graph
      <4>1. Checkpointing
        BY <1>0, <2>3, <2>5, <3>1, <3>2, <3>5 DEF Plain
      <4> QED
        BY <1>0, <2>2, <3>1, <3>5, <4>1 DEF LeaseFollowsGraph
    <3> QED
      BY <3>3, <3>4, <3>5
  <2> QED
    BY <2>4, <2>5
<1> QED
  BY <1>3, <1>4, <1>5, RevisionMoves DEF QuietStep
-----------------------------------------------------------------------------
(* An operation on the state file is granted.                              *)

\* Every grant renews the state file: a release is asked for once.
LEMMA GrantRenews ==
  ASSUME Shape, Coherent, Results, NEW t \in Task, Grant(t)
  PROVE  generation' = generation + 1
<1> USE Tasks
<1>1. CASE io[t].op = "request" /\ UNCHANGED File
  <2>1. t \in Obj
    BY <1>1 DEF Shape, Protocol, CallAsks, OpOf, Task, Slot
  <2>2. /\ lease # NoLease /\ lease \in AnyLease /\ io[t].claim.generation = generation
        /\ lease' = [lease EXCEPT !.releaseWhenClean = TRUE] /\ lease' = lease
    BY <1>1, GrantCommits DEF File
  <2>3. Valid(t) /\ Concerns(t, t)
    BY <1>1, <2>2 DEF Valid, Concerns, Ops
  <2>4. Fresh(t) /\ ~obj[t].durable.lease.releaseWhenClean
    BY <1>1, <2>1, <2>3 DEF Results, Clients
  <2>5. obj[t].durable.lease = lease
    BY <2>1, <2>4 DEF Coherent, Now, Fresh, Live
  <2> QED
    BY <2>2, <2>4, <2>5 DEF AnyLease
<1> QED
  BY <1>1, GrantCommits

\* It leaves the rest as it is, and what was known of the lease is outdated.
LEMMA GrantFacts ==
  ASSUME Shape, FenceInv, Coherent, Results, NEW t \in Task, Grant(t)
  PROVE  /\ generation \in Nat /\ generation' = generation + 1
         /\ UNCHANGED <<me, graph, Memory, call, tool, ran>> /\ R' = R /\ T' = T
         /\ Asked(t) /\ io[t].op \in Ops
         /\ io'[t].op = "done" /\ io'[t].ok /\ io'[t].of = io[t].op
         /\ io'[t].snapshot.lease = lease' /\ io'[t].snapshot.generation = generation'
         /\ \A u \in Task : u # t => io'[u] = io[u]
         /\ \A u \in Task : ~Valid(u)'
         /\ \A o \in Obj : ~Fresh(o)'
         /\ lease # NoLease => lease \in AnyLease
<1> USE Tasks
<1>1. generation \in Nat /\ generation' = generation + 1 /\ DOMAIN io = Task
      /\ (lease # NoLease => lease \in AnyLease) /\ \A u \in Task : IoOK(io[u])
  BY GrantRenews DEF Shape, FileShape, IoShape
<1>2. UNCHANGED <<me, graph, Memory, call, tool, ran>> /\ R' = R /\ T' = T /\ io[t].op \in Ops /\ Asked(t)
  BY GrantCommits DEF R, T, Grant
<1>3. /\ io'[t].op = "done" /\ io'[t].ok /\ io'[t].of = io[t].op
      /\ io'[t].snapshot.lease = lease' /\ io'[t].snapshot.generation = generation'
      /\ \A u \in Task : u # t => io'[u] = io[u]
  BY <1>1, GrantCommits DEF Snapshot
<1>4. \A u \in Task : RequestOlder(io[u], generation)
  BY DEF FenceInv, Known, Older
<1>5. ASSUME NEW u \in Task PROVE ~Valid(u)'
  <2>1. CASE u = t
    BY <1>3, <2>1 DEF Valid, Ops
  <2>2. CASE u # t
    <3>1. io[u].op \in Ops \ {"checkout"} => io[u].claim.generation \in Nat /\ io[u].claim.generation <= generation
      BY <1>1, <1>4 DEF RequestOlder, IoOK, AnyClaim
    <3> QED
      BY <1>1, <1>3, <2>2, <3>1 DEF Valid
  <2> QED
    BY <2>1, <2>2
<1>6. ASSUME NEW o \in Obj PROVE ~Fresh(o)'
  <2>1. obj' = obj /\ obj[o].durable.generation \in Nat /\ obj[o].durable.generation <= generation
    BY <1>2 DEF FenceInv, Known, Older, Memory, Shape, ObjShape, AnyObject, AnySnapshot
  <2> QED
    BY <1>1, <2>1 DEF Fresh
<1> QED
  BY <1>1, <1>2, <1>3, <1>5, <1>6

LEMMA GrantCoherent ==
  ASSUME Shape, FenceInv, Coherent, Results, NEW t \in Task, Grant(t)
  PROVE  Coherent'
<1> USE Tasks
<1>1. /\ generation \in Nat /\ generation' = generation + 1 /\ UNCHANGED obj /\ R' = R /\ T' = T
      /\ io'[t].snapshot.lease = lease' /\ io'[t].snapshot.generation = generation'
      /\ \A u \in Task : u # t => io'[u] = io[u]
  BY GrantFacts DEF Memory
<1>2. ASSUME NEW d, d.generation \in Nat, d.generation <= generation
      PROVE  d.lease # NoLease /\ d.generation = generation' => d.lease = lease'
  BY <1>1, <1>2
<1>3. ASSUME NEW o \in Obj PROVE Now(obj[o].durable)'
  <2>1. obj[o].durable.generation \in Nat /\ obj[o].durable.generation <= generation
    BY DEF FenceInv, Known, Older, Shape, ObjShape, AnyObject, AnySnapshot
  <2> QED
    BY <1>1, <1>2, <2>1 DEF Now
<1>4. ASSUME NEW u \in Task, Done(u)' PROVE Now(io[u].snapshot)'
  <2>1. CASE u = t
    BY <1>1, <2>1 DEF Now
  <2>2. CASE u # t
    <3>1. io'[u] = io[u] /\ IoOK(io[u]) /\ RequestOlder(io[u], generation) /\ Done(u)
      BY <1>1, <1>4, <2>2 DEF FenceInv, Known, Older, Shape, IoShape, Done
    <3>2. io[u].snapshot.generation \in Nat /\ io[u].snapshot.generation <= generation
      BY <3>1 DEF IoOK, RequestOlder, Done, AnySnapshot
    <3> QED
      BY <1>1, <1>2, <3>1, <3>2 DEF Now
  <2> QED
    BY <2>1, <2>2
<1>5. Now(R.seen)' /\ Now(T.seen)'
  <2>1. /\ R.seen.generation \in Nat /\ R.seen.generation <= generation
        /\ T.seen.generation \in Nat /\ T.seen.generation <= generation
    BY RefreshTools, ChangeOK DEF FenceInv, Known, AnySnapshot
  <2> QED
    BY <1>1, <1>2, <2>1 DEF Now
<1> QED
  BY <1>3, <1>4, <1>5 DEF Coherent

\* The lease that is committed, by the operation.
LEMMA GrantLease ==
  ASSUME Shape, NEW t \in Task, Grant(t)
  PROVE  /\ io[t].op # "checkout" => lease \in AnyLease /\ lease # NoLease /\ Valid(t)
         /\ io[t].op = "checkout" => /\ io[t].expected = generation
                                     /\ lease'.basis = io[t].basis
                                     /\ lease'.dirty = (E!Held /\ lease.dirty)
                                     /\ lease'.pending = IF E!Held THEN lease.pending ELSE 0
         /\ io[t].op = "begin" => /\ ~lease.dirty /\ lease'.dirty /\ lease'.pending = generation + 1
                                  /\ lease'.basis = lease.basis
         /\ io[t].op = "request" => /\ lease'.dirty = lease.dirty /\ lease'.pending = lease.pending
                                    /\ lease'.basis = lease.basis
         /\ io[t].op \in {"settle", "checkpoint"} =>
              \/ lease' = NoLease
              \/ /\ ~lease'.dirty /\ lease'.pending = 0 /\ lease'.basis.graph = io[t].revision
                 /\ lease'.basis.node = lease.basis.node
         /\ io[t].op = "settle" => lease.dirty /\ lease.pending = io[t].attempt
         /\ io[t].op = "checkpoint" => ~lease.dirty /\ io[t].revision >= lease.basis.graph
         /\ io[t].op = "release" => lease' = NoLease
<1>1. io[t].op # "checkout" => lease \in AnyLease /\ lease # NoLease /\ Valid(t)
  BY GrantCommits DEF Valid
<1>2. io[t].op = "checkout" => /\ io[t].expected = generation
                               /\ lease'.basis = io[t].basis
                               /\ lease'.dirty = (E!Held /\ lease.dirty)
                               /\ lease'.pending = IF E!Held THEN lease.pending ELSE 0
  BY GrantCommits DEF E!CheckedOut, E!NoAttempt
<1>3. io[t].op = "begin" => /\ ~lease.dirty /\ lease'.dirty /\ lease'.pending = generation + 1
                            /\ lease'.basis = lease.basis
  BY <1>1, GrantCommits DEF AnyLease
<1>4. io[t].op = "request" => /\ lease'.dirty = lease.dirty /\ lease'.pending = lease.pending
                              /\ lease'.basis = lease.basis
  BY <1>1, GrantCommits DEF AnyLease
<1>5. ASSUME io[t].op \in {"settle", "checkpoint"}
      PROVE  \/ lease' = NoLease
             \/ /\ ~lease'.dirty /\ lease'.pending = 0 /\ lease'.basis.graph = io[t].revision
                /\ lease'.basis.node = lease.basis.node
  <2>1. lease \in AnyLease /\ lease' = E!CleanLease(io[t].revision, io[t].release)
    BY <1>1, <1>5, GrantCommits
  <2> QED
    BY <2>1 DEF E!CleanLease, E!NoAttempt, AnyLease, AnyBasis
<1> QED
  BY <1>1, <1>2, <1>3, <1>4, <1>5, GrantCommits

LEMMA GrantResults ==
  ASSUME Shape, FileInv, FenceInv, Coherent, Objects, Results, Settlings, NEW t \in Task, Grant(t)
  PROVE  Results'
<1> USE Tasks
<1>1. /\ UNCHANGED <<call, obj>> /\ io'[t].op = "done" /\ io'[t].ok /\ io'[t].of = io[t].op
      /\ io'[t].snapshot.lease = lease' /\ io[t].op \in Ops
      /\ \A u \in Task : u # t => io'[u] = io[u]
      /\ \A u \in Task : ~Valid(u)'
      /\ \A o \in Obj : ~Fresh(o)'
  BY GrantFacts DEF Memory
<1>2. \A u, o : Concerns(u, o)' <=> Concerns(u, o)
  BY <1>1 DEF Concerns
<1>3. ASSUME t \in Clients, NEW o \in Obj, Concerns(t, o), io[t].op # "release"
      PROVE  Fresh(o) /\ Told(t, o)'
  <2>1. io[t].op \in {"begin", "settle", "request"} /\ (io[t].op = "settle" => t \in Call /\ call[t].pc = "settling" /\ call[t].settling = o)
    BY <1>1, <1>3 DEF Shape, Protocol, CallAsks, OpOf, Clients, Concerns, Ops
  <2>2. Fresh(o) /\ lease # NoLease
    BY <1>3, <2>1, GrantLease DEF Results
  <2>3. obj[o].durable.lease = lease /\ lease.basis.graph = obj[o].revision /\ obj[o].dirty = lease.dirty
    BY <2>2 DEF Coherent, Now, Fresh, Live, Objects
  <2>4. obj[o].dirty \in BOOLEAN /\ E!Held
    BY <2>2, ObjectTypes DEF E!Held
  <2>5. CASE io[t].op = "begin"
    <3>1. ~lease.dirty /\ lease'.dirty /\ lease'.basis = lease.basis /\ lease.pending = 0
      <4>1. ~lease.dirty /\ lease'.dirty /\ lease'.basis = lease.basis
        BY <2>5, GrantLease
      <4> QED
        BY <2>4, <4>1 DEF FileInv
    <3>2. lease'.dirty = TRUE
      <4>1. lease' = [lease EXCEPT !.dirty = TRUE, !.pending = generation + 1] /\ lease \in AnyLease
        BY <2>5, GrantCommits, GrantLease
      <4> QED
        BY <4>1 DEF AnyLease
    <3> QED
      BY <1>1, <2>2, <2>3, <2>5, <3>1, <3>2 DEF Told
  <2>6. CASE io[t].op = "request"
    <3>1. lease'.dirty = lease.dirty /\ lease'.pending = lease.pending /\ lease'.basis = lease.basis
      BY <2>6, GrantLease
    <3> QED
      BY <1>1, <2>2, <2>3, <2>4, <2>6, <3>1 DEF Told
  <2>7. CASE io[t].op = "settle"
    <3>1. io[t].revision = obj[o].revision + 1
      BY <2>1, <2>7 DEF Settlings
    <3>2. lease' = NoLease \/ (lease'.dirty = FALSE /\ lease'.basis.graph = io[t].revision)
      <4>1. lease \in AnyLease /\ lease' = E!CleanLease(io[t].revision, io[t].release)
        BY <2>7, GrantCommits
      <4> QED
        BY <4>1 DEF E!CleanLease, AnyLease, AnyBasis
    <3> QED
      BY <1>1, <2>2, <2>7, <3>1, <3>2 DEF Told
  <2> QED
    BY <2>1, <2>2, <2>5, <2>6, <2>7
<1>4. ASSUME NEW u \in Clients, u # t, NEW o \in Obj, Concerns(u, o), Result(u)'
      PROVE  Result(u) /\ Told(u, o) /\ Told(u, o)'
  <2>1. io'[u] = io[u] /\ Result(u)
    BY <1>1, <1>4 DEF Result, Done, Clients, Task
  <2>2. Told(u, o)
    BY <1>4, <2>1 DEF Results
  <2> QED
    BY <1>1, <2>1, <2>2 DEF Told
<1>5. Result(t)' => io[t].op # "release"
  BY <1>1 DEF Result
<1>6. ASSUME NEW o \in Obj, NEW u \in Clients, NEW w \in Clients, Concerns(u, o), Concerns(w, o),
             Result(u)', Result(w)'
      PROVE  w = u
  <2>1. ASSUME u = t, w # t PROVE FALSE
    BY <1>3, <1>4, <1>5, <1>6, <2>1 DEF Told
  <2>2. ASSUME w = t, u # t PROVE FALSE
    BY <1>3, <1>4, <1>5, <1>6, <2>2 DEF Told
  <2>3. ASSUME u # t, w # t PROVE w = u
    BY <1>4, <1>6, <2>3 DEF Results
  <2> QED
    BY <2>1, <2>2, <2>3
<1>7. ASSUME NEW o \in Obj, NEW u \in Clients, Concerns(u, o), Result(u)' PROVE Told(u, o)'
  BY <1>3, <1>4, <1>5, <1>7
<1>8. \A u \in Clients : u \in Task
  BY DEF Clients, Task
<1> QED
  BY <1>1, <1>2, <1>6, <1>7, <1>8 DEF Results, Clients

LEMMA GrantSettlings ==
  ASSUME Shape, FileInv, Attempts, FenceInv, Coherent, Results, Settlings, NEW t \in Task, Grant(t)
  PROVE  Settlings'
<1> USE Tasks
<1>1. /\ UNCHANGED <<graph, call, obj>> /\ io'[t].op = "done" /\ io[t].op \in Ops
      /\ generation \in Nat
      /\ \A u \in Task : u # t => io'[u] = io[u]
      /\ \A u \in Task : ~Valid(u)'
  BY GrantFacts DEF Memory
<1>2. ASSUME NEW c \in Call, call[c].pc \in {"receipted", "settling"}, E!Held', lease'.pending = call[c].attempt
      PROVE  graph.revision = call[c].basis.revision + 1
  <2>1. call[c].attempt # 0
    BY <1>2 DEF Settlings
  <2>2. call[c].attempt \in 1..generation
    <3>1. AttemptOf(c) = call[c].attempt
      BY <1>2 DEF AttemptOf
    <3>2. call[c].attempt \in BegunAttempts
      BY <2>1, <3>1 DEF Attempts
    <3> QED
      BY <3>2 DEF FileInv, BegunAttempts
  <2>3. E!Held /\ lease.pending = call[c].attempt
    <3>1. CASE io[t].op = "checkout"
      BY <1>2, <2>1, <3>1, GrantLease
    <3>2. CASE io[t].op = "begin"
      BY <1>1, <1>2, <2>2, <3>2, GrantLease
    <3>3. CASE io[t].op = "request"
      BY <1>2, <3>3, GrantLease DEF E!Held
    <3>4. CASE io[t].op \in {"settle", "checkpoint", "release"}
      BY <1>2, <2>1, <3>4, GrantLease DEF E!Held
    <3> QED
      BY <1>1, <3>1, <3>2, <3>3, <3>4 DEF Ops
  <2> QED
    BY <1>2, <2>3 DEF Settlings
<1>3. ASSUME NEW c \in Call, io'[c].op = "settle" PROVE io[c] = io'[c]
  BY <1>1, <1>3
<1> QED
  BY <1>1, <1>2, <1>3 DEF Settlings

LEMMA GrantRefreshing ==
  ASSUME Shape, FenceInv, Coherent, Results, Refreshing, NEW t \in Task, Grant(t)
  PROVE  Refreshing'
<1> USE Tasks
<1>1. /\ UNCHANGED graph /\ R' = R /\ generation \in Nat /\ generation' = generation + 1
      /\ io'[t].op = "done" /\ io'[t].snapshot.lease = lease'
      /\ \A u \in Task : u # t => io'[u] = io[u]
      /\ ~Valid(Refresh)'
  BY GrantFacts
<1>2. CASE t # Refresh
  <2>1. io'[Refresh] = io[Refresh]
    BY <1>1, <1>2
  <2>2. io[Refresh].op = "checkout" => io[Refresh].expected \in Nat
    BY DEF Shape, IoShape, IoOK
  <2> QED
    BY <1>1, <2>1, <2>2 DEF Refreshing, Done
<1>3. CASE t = Refresh
  <2>1. R.pc = "settling" => io[Refresh].op \in {"settle", "checkpoint"}
    BY <1>3 DEF Shape, Protocol, OpOf, Grant, Asked
  <2>2. R.pc = "settling" => lease' = NoLease \/ lease'.basis.graph = R.revision
    BY <1>3, <2>1, GrantLease DEF Refreshing
  <2> QED
    BY <1>1, <1>3, <2>2 DEF Refreshing
<1> QED
  BY <1>2, <1>3

\* What the file follows after a grant, it has followed before.
LEMMA GrantRecent ==
  ASSUME Shape, FenceInv, Coherent, Results, NEW t \in Task, Grant(t), NEW o \in Obj, Recent(o)'
  PROVE  Recent(o)
<1> USE Tasks
<1>1. /\ generation \in Nat /\ generation' = generation + 1 /\ UNCHANGED <<obj, call>>
      /\ io'[t].op = "done" /\ io'[t].ok /\ io'[t].of = io[t].op /\ io[t].op \in Ops
      /\ \A u \in Task : u # t => io'[u] = io[u]
      /\ ~Fresh(o)'
  BY GrantFacts DEF Memory
<1>2. PICK u \in Clients : Concerns(u, o)' /\ Result(u)' /\ io'[u].snapshot.generation = generation'
  BY <1>1 DEF Recent
<1>3. u = t
  <2> SUFFICES ASSUME u # t PROVE FALSE
    OBVIOUS
  <2>1. u \in Task /\ io'[u] = io[u]
    BY <1>1 DEF Clients, Task
  <2>2. Done(u) /\ IoOK(io[u]) /\ RequestOlder(io[u], generation)
    BY <1>2, <2>1 DEF FenceInv, Known, Older, Shape, IoShape, Done, Result
  <2>3. io[u].snapshot.generation \in Nat /\ io[u].snapshot.generation <= generation
    BY <2>2 DEF IoOK, RequestOlder, Done, AnySnapshot
  <2> QED
    BY <1>1, <1>2, <2>1, <2>3
<1>4. Concerns(t, o) /\ io[t].op # "release" /\ t \in Clients
  BY <1>1, <1>2, <1>3 DEF Concerns, Result
<1>5. io[t].op \in {"begin", "settle", "request"}
  BY <1>1, <1>4 DEF Shape, Protocol, CallAsks, OpOf, Clients, Ops
<1>6. Valid(t) /\ lease # NoLease
  BY <1>5, GrantLease
<1>7. Fresh(o)
  BY <1>4, <1>6 DEF Results
<1>8. lease' # NoLease /\ lease'.basis.node = "leaf"
  BY DEF Recent, OnLeaf, E!Held
<1>9. lease.basis.node = "leaf"
  <2>1. CASE io[t].op \in {"begin", "request"}
    BY <1>8, <2>1, GrantLease
  <2>2. CASE io[t].op = "settle"
    BY <1>8, <2>2, GrantLease
  <2> QED
    BY <1>5, <2>1, <2>2
<1> QED
  BY <1>6, <1>7, <1>9 DEF Recent, OnLeaf, E!Held

LEMMA GrantChanging ==
  ASSUME Shape, FenceInv, GraphInv, Coherent, Results, Refreshing, Changing, NEW t \in Task, Grant(t)
  PROVE  Changing'
<1> USE Tasks
<1>1. /\ UNCHANGED <<graph, obj, epoch>> /\ T' = T /\ generation \in Nat /\ generation' = generation + 1
      /\ io'[t].op = "done" /\ io'[t].ok /\ io'[t].of = io[t].op /\ io'[t].snapshot.lease = lease'
      /\ io[t].op \in Ops /\ \A u \in Task : u # t => io'[u] = io[u]
      /\ T.revision \in Int /\ graph.revision \in Int
  BY GrantFacts, ChangeOK DEF Memory, Shape, GraphShape, AnyGraph
<1>2. (Plain' <=> Plain) /\ (Checkpointing' <=> Checkpointing) /\ (Sure' <=> Sure) /\ (Over' <=> Over)
  BY <1>1 DEF Plain, Checkpointing, Sure, Over
<1>3. io[Change].op = "checkout" => io[Change].expected \in Nat
  BY DEF Shape, IoShape, IoOK
<1>4. ASSUME Sure, Ready, OnLeaf', T.kind # "plan"
      PROVE  ~lease'.dirty /\ lease'.basis.graph >= IF Plain THEN T.revision + 1 ELSE T.revision
  <2>1. t # Change
    BY <1>1, <1>4 DEF Ready, Shape, Protocol, OpOf, Done, Ops
  <2>2. t \notin Call \/ io[t].op \notin {"begin", "settle"}
    <3>1. \A c \in Call : ~Active(c)
      BY <1>4 DEF GraphInv
    <3> QED
      BY <3>1 DEF Active, Shape, Protocol, CallAsks, OpOf
  <2>3. /\ io[t].op = "begin" => t \in Call
        /\ io[t].op \in {"checkout", "checkpoint"} => t = Refresh
        /\ io[t].op = "settle" => t \in Call \/ t = Refresh
    BY <1>1, <2>1 DEF Shape, Protocol, CallAsks, OpOf, Task, Slot
  <2>4. OnLeaf => ~lease.dirty /\ lease.basis.graph >= IF Plain THEN T.revision + 1 ELSE T.revision
    BY <1>4 DEF Changing
  <2>5. E!Held => lease.basis.graph \in Int
    BY DEF E!Held, Shape, FileShape, AnyLease, AnyBasis
  <2>6. CASE io[t].op = "checkout"
    <3>0. E!Held /\ lease'.basis = lease.basis /\ lease'.dirty = (E!Held /\ lease.dirty)
      BY <2>3, <2>6, GrantLease DEF Refreshing
    <3>1. E!Held /\ lease'.basis = lease.basis /\ lease'.dirty = lease.dirty
      <4>1. lease.dirty \in BOOLEAN
        BY <3>0 DEF E!Held, Shape, FileShape, AnyLease
      <4> QED
        BY <3>0, <4>1
    <3> QED
      BY <1>4, <2>4, <3>1 DEF OnLeaf
  <2>7. CASE io[t].op = "request"
    BY <1>4, <2>4, <2>7, GrantLease DEF OnLeaf, E!Held
  <2>8. CASE io[t].op \in {"settle", "checkpoint"}
    <3>1. E!Held /\ lease' # NoLease
      BY <1>4, <2>8, GrantLease DEF OnLeaf, E!Held
    <3>2. ~lease'.dirty /\ lease'.basis.graph = io[t].revision /\ lease'.basis.node = lease.basis.node
      BY <2>8, <3>1, GrantLease
    <3>3. OnLeaf
      BY <1>4, <3>1, <3>2 DEF OnLeaf
    <3>4. ~lease.dirty
      BY <2>4, <3>3
    <3>5. io[t].op = "checkpoint" /\ io[t].revision >= lease.basis.graph
      BY <2>8, <3>4, GrantLease
    <3>6. io[t].revision \in Int
      BY <2>8 DEF Shape, IoShape, IoOK
    <3> HIDE DEF Plain
    <3> QED
      BY <1>1, <2>4, <2>5, <3>1, <3>2, <3>3, <3>5, <3>6
  <2>9. CASE io[t].op = "release"
    BY <1>4, <2>9, GrantLease DEF OnLeaf, E!Held
  <2> QED
    BY <1>1, <2>2, <2>3, <2>6, <2>7, <2>8, <2>9 DEF Ops
<1>5. ASSUME t = Change, Plain, T.pc = "reserving"
      PROVE  lease'.dirty = FALSE /\ lease'.basis.graph = T.revision + 1
  <2>1. io[Change].op = "checkout"
    BY <1>1, <1>5 DEF Shape, Protocol, OpOf, Ops
  <2>2. lease = NoLease /\ io[Change].basis = Basis("leaf", T.revision + 1)
    BY <1>5, <2>1, GrantLease DEF Changing, Plain
  <2>3. lease'.dirty = FALSE /\ lease'.basis = io[Change].basis
    BY <1>5, <2>1, <2>2, GrantLease DEF E!Held
  <2> QED
    BY <2>2, <2>3 DEF Basis
<1>6. Ready' => Ready \/ (t = Change /\ Plain /\ T.pc = "reserving")
  BY <1>1, <1>2 DEF Ready, Done
<1>7. ASSUME Sure, Ready', OnLeaf', T.kind # "plan"
      PROVE  ~lease'.dirty /\ lease'.basis.graph >= IF Plain THEN T.revision + 1 ELSE T.revision
  <2> HIDE DEF Plain
  <2>1. CASE Ready
    BY <1>4, <1>7, <2>1
  <2>2. CASE t = Change /\ Plain /\ T.pc = "reserving"
    <3>1. lease'.dirty = FALSE /\ lease'.basis.graph = T.revision + 1
      BY <1>5, <2>2
    <3> QED
      BY <1>1, <2>2, <3>1
  <2> QED
    BY <1>6, <1>7, <2>1, <2>2
<1>8. ASSUME t = Change, T.pc \in {"closing", "closingRelease"}, lease' # NoLease
      PROVE  lease'.basis.graph = T.revision + 1 /\ ~lease'.dirty
  <2>1. io[Change].op = "checkpoint" \/ io[Change].op = "release"
    BY <1>1, <1>8 DEF Shape, Protocol, OpOf, Ops
  <2> QED
    BY <1>8, <2>1, GrantLease DEF Changing
<1>11. ASSUME Sure, Checkpointing, T.pc \in {"change", "written"}
       PROVE  ~obj[T.object].dirty /\ (Recent(T.object)' => T.revision <= obj[T.object].revision)
  <2>1. T.object \in Obj
    BY <1>11 DEF Shape, LiveObjects, LiveChange, Live, T, Checkpointing
  <2>2. PICK o \in Obj : o = T.object
    BY <2>1
  <2>3. Recent(o)' => Recent(o)
    BY GrantRecent
  <2>4. Recent(T.object)' => Recent(T.object)
    BY <1>1, <2>2, <2>3
  <2> QED
    BY <1>11, <2>4 DEF Changing
<1>9. CASE t # Change
  <2>1. io'[Change] = io[Change] /\ (Done(Change)' <=> Done(Change))
    BY <1>1, <1>9 DEF Done
  <2> QED
    BY <1>1, <1>2, <1>3, <1>7, <1>11, <2>1 DEF Changing, Basis
<1>10. CASE t = Change
  BY <1>1, <1>2, <1>5, <1>7, <1>8, <1>10, <1>11 DEF Changing
<1> QED
  BY <1>9, <1>10

\* A lease is settled on the revision the graph is on.
LEMMA SettledOnGraph ==
  ASSUME Shape, FenceInv, Coherent, Results, Settlings, Refreshing, Changing, LeaseFollowsGraph,
         NEW t \in Task, Grant(t), io[t].op \in {"settle", "checkpoint"}, lease.basis.node = "leaf"
  PROVE  io[t].revision = graph.revision
<1> USE Tasks
<1>1. graph.revision \in Int /\ R.revision \in Int
  BY RefreshTools DEF Shape, GraphShape, AnyGraph
<1>2. E!Held /\ Valid(t) /\ lease.basis.graph \in Int
  BY GrantLease DEF E!Held, AnyLease, AnyBasis
<1>3. CASE t = Refresh
  <2>1. io[t].revision = R.revision /\ lease.basis.graph + 1 = R.revision /\ R.revision <= graph.revision
    BY <1>2, <1>3 DEF Refreshing
  <2>2. graph.revision \in {lease.basis.graph, lease.basis.graph - 1, lease.basis.graph + 1}
    BY <1>2 DEF LeaseFollowsGraph
  <2> QED
    BY <1>1, <1>2, <2>1, <2>2
<1>4. CASE t \in Call
  <2>1. io[t].op = "settle" /\ call[t].pc = "settling"
    BY <1>4 DEF Shape, Protocol, CallAsks, OpOf
  <2>2. io[t].attempt = call[t].attempt /\ io[t].revision = call[t].basis.revision + 1
    BY <1>4, <2>1 DEF Settlings
  <2>3. lease.pending = call[t].attempt
    BY <2>1, <2>2, GrantLease
  <2> QED
    BY <1>2, <1>4, <2>1, <2>2, <2>3 DEF Settlings
<1>5. CASE t = Change
  <2>1. io[t].op = "checkpoint" /\ T.pc = "closing"
    BY <1>5 DEF Shape, Protocol, OpOf
  <2>2. Over /\ io[t].revision = T.revision + 1 /\ T.revision \in Int
    BY <1>5, <2>1, ChangeOK DEF Changing, Committed
  <2>3. ~lease.dirty /\ io[t].revision >= lease.basis.graph
    BY <2>1, GrantLease
  <2>4. ~(graph.revision = lease.basis.graph + 1) \/ graph.revision <= T.revision + 1
    BY <1>2, <2>2, <2>3 DEF LeaseFollowsGraph, Over
  <2>5. graph.revision \in {lease.basis.graph, lease.basis.graph - 1, lease.basis.graph + 1}
    BY <1>2 DEF LeaseFollowsGraph
  <2> QED
    BY <1>1, <1>2, <2>2, <2>3, <2>4, <2>5 DEF Over
<1>6. t \notin Obj
  BY DEF Shape, Protocol, OpOf
<1> QED
  BY <1>3, <1>4, <1>5, <1>6 DEF Task, Slot

LEMMA GrantFollows ==
  ASSUME Shape, FenceInv, Coherent, Results, Settlings, Refreshing, Changing, LeaseFollowsGraph,
         NEW t \in Task, Grant(t)
  PROVE  LeaseFollowsGraph'
<1> USE Tasks
<1>1. UNCHANGED graph /\ io[t].op \in Ops /\ graph.revision \in Int /\ T.revision \in Int /\ R.revision \in Int
  BY GrantFacts, ChangeOK, RefreshTools DEF Shape, GraphShape, AnyGraph
<1>2. E!Held => lease.basis.graph \in Int
  BY DEF E!Held, Shape, FileShape, AnyLease, AnyBasis
<1>3. io[t].op # "checkout" => E!Held /\ Valid(t)
  BY GrantLease DEF E!Held
<1>4. /\ io[t].op = "begin" => t \in Call
      /\ io[t].op = "settle" => t = Refresh \/ (t \in Call /\ call[t].pc = "settling")
      /\ io[t].op = "checkpoint" => t = Refresh \/ (t = Change /\ T.pc = "closing")
      /\ io[t].op = "checkout" => t = Refresh \/ (t = Change /\ T.pc = "reserving")
  BY <1>1 DEF Shape, Protocol, CallAsks, OpOf, Task, Slot, Ops
<1>5. CASE io[t].op = "begin"
  <2>1. (OnLeaf => graph.revision = lease.basis.graph) /\ lease'.basis = lease.basis
    BY <1>3, <1>4, <1>5, GrantLease DEF Settlings
  <2> QED
    BY <1>1, <1>3, <1>5, <2>1 DEF LeaseFollowsGraph, OnLeaf
<1>6. CASE io[t].op = "request"
  <2>1. lease'.dirty = lease.dirty /\ lease'.pending = lease.pending /\ lease'.basis = lease.basis /\ E!Held
    BY <1>3, <1>6, GrantLease
  <2> QED
    BY <1>1, <2>1 DEF LeaseFollowsGraph
<1>7. CASE io[t].op \in {"settle", "checkpoint"}
  <2>1. \/ lease' = NoLease
        \/ lease'.basis.graph = io[t].revision /\ lease'.basis.node = lease.basis.node
    BY <1>7, GrantLease
  <2>2. lease.basis.node = "leaf" => graph.revision = io[t].revision
    BY <1>7, SettledOnGraph
  <2> QED
    BY <1>1, <2>1, <2>2 DEF LeaseFollowsGraph, E!Held
<1>8. CASE io[t].op = "release"
  BY <1>8, GrantLease DEF LeaseFollowsGraph, E!Held
<1>9. CASE io[t].op = "checkout"
  <2>0. io[t].expected = generation /\ lease'.basis = io[t].basis
        /\ lease'.dirty = (E!Held /\ lease.dirty)
        /\ lease'.pending = IF E!Held THEN lease.pending ELSE 0
    BY <1>9, GrantLease
  <2>1. CASE t = Refresh
    <3>1. E!Held /\ lease'.basis = lease.basis
      BY <1>9, <2>0, <2>1 DEF Refreshing
    <3>2. lease'.dirty = lease.dirty /\ lease'.pending = lease.pending
      <4>1. lease.dirty \in BOOLEAN
        BY <3>1 DEF E!Held, Shape, FileShape, AnyLease
      <4> QED
        BY <2>0, <3>1, <4>1
    <3> QED
      BY <1>1, <3>1, <3>2 DEF LeaseFollowsGraph
  <2>2. CASE t = Change
    <3>1. lease = NoLease /\ T.revision = graph.revision
          /\ io[t].basis = IF T.kind = "plan" THEN Basis("fence", T.revision) ELSE Basis("leaf", T.revision + 1)
      BY <1>4, <1>9, <2>0, <2>2 DEF Changing
    <3>2. ~lease'.dirty
      BY <2>0, <3>1 DEF E!Held
    <3>3. lease'.basis.node = "fence" \/ lease'.basis.graph = T.revision + 1
      BY <2>0, <3>1 DEF Basis
    <3> QED
      BY <1>1, <3>1, <3>2, <3>3 DEF LeaseFollowsGraph
  <2> QED
    BY <1>4, <1>9, <2>1, <2>2
<1> QED
  BY <1>1, <1>5, <1>6, <1>7, <1>8, <1>9 DEF Ops

LEMMA GrantRest ==
  ASSUME Shape, FenceInv, Coherent, Running, Objects, Results, Authorized, NEW t \in Task, Grant(t)
  PROVE  Running' /\ Objects' /\ Authorized'
<1> USE Tasks
<1>1. /\ UNCHANGED <<graph, epoch, auth, leases, obj, releases, call>> /\ R' = R
      /\ Asked(t) /\ \A u \in Task : u # t => io'[u] = io[u]
      /\ \A o \in Obj : ~Fresh(o)'
  BY GrantFacts DEF Memory
<1>2. Running'
  BY <1>1 DEF Running, Pending, Asked
<1>5. \A o \in Obj : Recent(o)' => Recent(o)
  BY GrantRecent
<1>3. Objects'
  BY <1>1, <1>5 DEF Objects
<1>6. leases # NoObj /\ Recent(leases)' => Recent(leases)
  <2> SUFFICES ASSUME leases # NoObj, Recent(leases)' PROVE Recent(leases)
    OBVIOUS
  <2>1. PICK o \in Obj : o = leases
    BY DEF Shape, LiveObjects, Live
  <2> QED
    BY <1>1, <1>5, <2>1
<1>4. Authorized'
  BY <1>1, <1>6 DEF Authorized
<1> QED
  BY <1>2, <1>3, <1>4

LeaseInv ==
  /\ Coherent /\ Running /\ Objects /\ Results /\ Settlings /\ Refreshing /\ Changing /\ Authorized
  /\ LeaseFollowsGraph

LEMMA LeaseGrant ==
  ASSUME Shape, FileInv, Attempts, GraphInv, FenceInv, LeaseInv, NEW t \in Task, Grant(t)
  PROVE  LeaseInv'
<1>1. /\ Coherent /\ Running /\ Objects /\ Results /\ Settlings /\ Refreshing /\ Changing /\ Authorized
      /\ LeaseFollowsGraph
  BY DEF LeaseInv
<1>2. Coherent'
  BY <1>1, GrantCoherent
<1>3. Results'
  BY <1>1, GrantResults
<1>4. Settlings'
  BY <1>1, GrantSettlings
<1>5. Refreshing'
  BY <1>1, GrantRefreshing
<1>6. Changing'
  BY <1>1, GrantChanging
<1>7. LeaseFollowsGraph'
  BY <1>1, GrantFollows
<1>8. Running' /\ Objects' /\ Authorized'
  BY <1>1, GrantRest
<1> QED
  BY <1>2, <1>3, <1>4, <1>5, <1>6, <1>7, <1>8 DEF LeaseInv

LEMMA LeaseQuiet ==
  ASSUME ~Overlap, Shape, FileInv, Attempts, GraphInv, FenceInv, Epochs, LeaseInv, QuietStep
  PROVE  LeaseInv'
<1>1. /\ Coherent /\ Running /\ Objects /\ Results /\ Settlings /\ Refreshing /\ Changing /\ Authorized
      /\ LeaseFollowsGraph
  BY DEF LeaseInv
<1>0. Effects
  BY <1>1, StepEffects DEF QuietStep
<1>2. Coherent'
  BY <1>0, <1>1, QuietCoherent
<1>3. Running'
  BY <1>0 DEF Effects
<1>4. Objects'
  BY <1>0, <1>1, QuietObjects
<1>5. Results'
  BY <1>0, <1>1, QuietResults
<1>6. Settlings'
  BY <1>0, <1>1, QuietSettlings
<1>7. Refreshing'
  BY <1>1, QuietRefreshing
<1>8. Changing'
  BY <1>0, <1>1, QuietChanging
<1>9. Authorized'
  BY <1>0, <1>1, QuietAuthorized
<1>10. LeaseFollowsGraph'
  BY <1>1, QuietFollows
<1> QED
  BY <1>2, <1>3, <1>4, <1>5, <1>6, <1>7, <1>8, <1>9, <1>10 DEF LeaseInv

\* Nothing of the memory is left; the file and the graph stay.
LEMMA LeaseCrash ==
  ASSUME Shape, LeaseInv, Crash
  PROVE  LeaseInv'
<1> USE Tasks
<1>1. /\ generation' = generation /\ lease' = lease /\ epoch' = 0 /\ auth' = NoAuth /\ leases' = NoObj
      /\ \A o \in Obj : obj'[o] = NoObject
      /\ \A t \in Task : io'[t] = None
      /\ \A c \in Call : call'[c] = NewCall
      /\ R' = NewTool /\ T' = NewTool
  BY DEF Crash, E!Crash, NoMemory, R, T
<1>2. /\ graph'.revision = graph.revision /\ graph'.receipts = graph.receipts /\ graph'.evidence = graph.evidence
      /\ graph.revision \in Int /\ 1 <= graph.revision
  BY DEF Crash, Shape, GraphShape, AnyGraph, LeaseInv, Refreshing
<1>3. /\ NoObject.durable = NoSnapshot /\ NoObject.revision = 0 /\ NoObject.basis = NoAuth
      /\ NewTool.pc = "idle" /\ NewTool.seen = NoSnapshot /\ NewTool.revision = 0 /\ NewTool.epoch = 0
      /\ NoSnapshot.lease = NoLease /\ None.op = "none" /\ NewCall.pc = "new"
  BY DEF NoObject, NewTool, NoSnapshot, None, NewCall
<1>4. Coherent'
  BY <1>1, <1>3 DEF Coherent, Now, Done
<1>5. Running'
  BY <1>1, <1>3 DEF Running
<1>6. Objects'
  <2>1. \A o \in Obj : ~Live(o)' /\ obj'[o].revision = 0 /\ obj'[o].basis = NoAuth
    BY <1>1, <1>3 DEF Live
  <2> QED
    BY <1>2, <2>1 DEF Objects, Fresh
<1>7. Results'
  <2>1. \A o \in Obj, t \in Clients : ~Valid(t)' /\ ~Result(t)'
    BY <1>1, <1>3 DEF Valid, Result, Done, Clients, Ops
  <2> QED
    BY <2>1 DEF Results
<1>8. Settlings'
  <2>1. \A c \in Call : call'[c].pc = "new" /\ io'[c].op = "none"
    BY <1>1, <1>3
  <2> QED
    BY <2>1 DEF Settlings
<1>9. Refreshing'
  <2>1. io'[Refresh].op = "none" /\ R'.pc = "idle" /\ R'.revision = 0
    BY <1>1, <1>3
  <2> QED
    BY <1>2, <2>1 DEF Refreshing
<1>10. Changing'
  <2>1. io'[Change].op = "none" /\ T'.pc = "idle"
    BY <1>1, <1>3
  <2>2. \A e \in graph.evidence : e.revision <= graph.revision
    BY DEF LeaseInv, Changing
  <2> QED
    BY <1>2, <2>1, <2>2 DEF Changing, Ready, Plain, Sure, Early, Committed
<1>11. Authorized'
  <2>1. /\ auth' = NoAuth /\ leases' = NoObj /\ epoch' = 0 /\ R'.epoch = 0
        /\ \A c \in Call : call'[c].pc = "new"
    BY <1>1, <1>3
  <2> QED
    BY <2>1 DEF Authorized
<1>12. LeaseFollowsGraph'
  BY <1>1, <1>2 DEF LeaseInv, LeaseFollowsGraph, E!Held
<1> QED
  BY <1>4, <1>5, <1>6, <1>7, <1>8, <1>9, <1>10, <1>11, <1>12 DEF LeaseInv

LEMMA LeaseStep ==
  ASSUME ~Overlap, Shape, FileInv, Attempts, GraphInv, FenceInv, Epochs, LeaseInv, [Next]_vars
  PROVE  LeaseInv'
BY LeaseGrant, LeaseQuiet, LeaseCrash DEF QuietStep

LEMMA InitLease ==
  ASSUME Init
  PROVE  LeaseInv
<1> USE Tasks
<1>1. /\ epoch = 0 /\ auth = NoAuth /\ graph.revision = 1
      /\ \A t \in Task : io[t] = None
      /\ \A c \in Call : call[c] = NewCall
      /\ R = NewTool /\ T = NewTool
  BY DEF Init, R, T
<1>2. /\ NoObject.durable = NoSnapshot /\ NoObject.revision = 0 /\ NoObject.basis = NoAuth
      /\ NewTool.pc = "idle" /\ NewTool.seen = NoSnapshot /\ NewTool.revision = 0 /\ NewTool.epoch = 0
      /\ NoSnapshot.lease = NoLease /\ None.op = "none" /\ NewCall.pc = "new"
  BY DEF NoObject, NewTool, NoSnapshot, None, NewCall
<1> DEFINE n == [leaseId |-> 1, owner |-> 0, basis |-> Basis("leaf", 1), dirty |-> FALSE,
                 releaseWhenClean |-> FALSE, pending |-> 0, legacy |-> FALSE, pid |-> me]
<1>3. n.basis.graph = 1 /\ n.dirty = FALSE
  BY DEF Basis
<1>4. \/ lease = NoLease /\ leases = NoObj /\ \A o \in Obj : obj[o] = NoObject
      \/ /\ lease = n
         /\ leases \in Obj /\ \A o \in Obj : obj[o] = IF o = leases THEN NewObject(Snapshot, 1, FALSE) ELSE NoObject
  BY DEF Init
<1> HIDE DEF n
<1>5. \A o \in Obj : \/ obj[o].durable.lease = NoLease /\ obj[o].revision = 0 /\ obj[o].basis = NoAuth
                     \/ /\ obj[o].durable = Snapshot /\ obj[o].revision = 1 /\ obj[o].dirty = lease.dirty
                        /\ lease = n /\ obj[o].basis = NoAuth
  <2>1. PICK m : m = NewObject(Snapshot, 1, FALSE)
    OBVIOUS
  <2>2. m.durable = Snapshot /\ m.revision = 1 /\ m.dirty = lease.dirty /\ m.basis = NoAuth
    BY <2>1 DEF NewObject, Snapshot
  <2>3. ASSUME NEW o \in Obj PROVE obj[o] = NoObject \/ (obj[o] = m /\ lease = n)
    BY <1>4, <2>1, Zenon
  <2> QED
    BY <1>2, <2>2, <2>3
<1>6. Coherent
  BY <1>1, <1>2, <1>5 DEF Coherent, Now, Done, Snapshot
<1>7. Running
  BY <1>1, <1>2 DEF Running
<1>8. Objects
  BY <1>1, <1>3, <1>5 DEF Objects, Fresh, Live, Snapshot
<1>9. Results
  <2>1. \A o \in Obj, t \in Clients : ~Valid(t) /\ ~Result(t)
    BY <1>1, <1>2 DEF Valid, Result, Done, Clients, Ops
  <2> QED
    BY <2>1 DEF Results
<1>10. Settlings
  <2>1. \A c \in Call : call[c].pc = "new" /\ io[c].op = "none"
    BY <1>1, <1>2
  <2> QED
    BY <2>1 DEF Settlings
<1>11. Refreshing
  BY <1>1, <1>2 DEF Refreshing
<1>12. Changing
  <2>1. io[Change].op = "none" /\ T.pc = "idle"
    BY <1>1, <1>2
  <2>2. graph.evidence = {}
    BY DEF Init
  <2> QED
    BY <2>1, <2>2 DEF Changing, Ready, Plain, Sure, Early, Committed
<1>13. Authorized
  <2>1. R.pc = "idle" /\ R.epoch = 0 /\ \A c \in Call : call[c].pc = "new"
    BY <1>1, <1>2
  <2> QED
    BY <1>1, <2>1 DEF Authorized
<1>14. LeaseFollowsGraph
  BY <1>1, <1>3, <1>4 DEF LeaseFollowsGraph, E!Held
<1> QED
  BY <1>6, <1>7, <1>8, <1>9, <1>10, <1>11, <1>12, <1>13, <1>14 DEF LeaseInv

\* The lease of a leaf is on the revision of the graph, except for the revision
\* that its own attempt or its own change has written and the state file does
\* not have yet (settle, checkpointClean, publishReservedMutation): in every
\* interleaving of calls, a refresh and a change, and across crashes, if no call
\* is guarded between the last check of the change and its rename.
THEOREM LeaseFollows == ~Overlap /\ Spec => []LeaseFollowsGraph
<1> SUFFICES ASSUME ~Overlap PROVE Spec => []LeaseFollowsGraph
  OBVIOUS
<1> DEFINE Inv == Shape /\ FileInv /\ Attempts /\ GraphInv /\ FenceInv /\ Epochs /\ LeaseInv
<1>1. Init => Inv
  BY InitShape, InitAttempts, InitGraph, InitFence, InitEpochs, InitLease
<1>2. Inv /\ [Next]_vars => Inv'
  BY ShapeStep, AttemptsStep, GraphStep, FenceStep, EpochsStep, LeaseStep
<1>3. Inv => LeaseFollowsGraph
  BY DEF LeaseInv
<1> QED
  BY <1>1, <1>2, <1>3, PTL DEF Spec
-----------------------------------------------------------------------------
(* The bounds of the instance, and who holds the store's lock.             *)

\* Only the clearing of the workspace ends an epoch unasked, as the last step
\* of a checkout.
Numbers ==
  /\ generation <= MaxGeneration /\ aged \in BOOLEAN
  /\ graph.revision <= MaxRevision /\ graph.done \in 0..MaxRevision
  /\ budget.epochs <= MaxEpoch
  /\ \/ epoch <= budget.epochs
     \/ epoch = budget.epochs + 1 /\ T.pc = "idle"
  /\ auth # NoAuth => auth.epoch = epoch
Writers ==
  /\ graph.writer \in Call => call[graph.writer].pc = "publish"
  /\ graph.writer = Change => T.pc \in {"written", "publish"}
Releasing == \A o \in Obj : Pending(o) <=> io[o] # None

\* The file and the graph are within their bounds.
LEMMA FileBounds ==
  ASSUME Shape, Numbers, 1 <= graph.revision, [Next]_vars
  PROVE  /\ generation' <= MaxGeneration /\ aged' \in BOOLEAN
         /\ graph'.revision <= MaxRevision /\ graph'.done \in 0..MaxRevision
<1> USE DispatchBoundAssumption
<1>0. graph \in AnyGraph /\ MaxGeneration \in Int /\ MaxRevision \in Int /\ generation \in Nat
  BY DEF Shape, GraphShape, FileShape
<1>1. ASSUME generation' = generation, aged' = aged, graph'.revision = graph.revision, graph'.done = graph.done
      PROVE  /\ generation' <= MaxGeneration /\ aged' \in BOOLEAN
             /\ graph'.revision <= MaxRevision /\ graph'.done \in 0..MaxRevision
  BY <1>1 DEF Numbers
<1>2. ASSUME NEW t \in Task, Grant(t)
      PROVE  /\ generation' <= MaxGeneration /\ aged' \in BOOLEAN /\ graph' = graph
  <2>1. graph' = graph
    BY <1>2 DEF Grant, Rest
  <2>2. CASE UNCHANGED File
    BY <1>1, <2>1, <2>2 DEF File
  <2>3. CASE ~(UNCHANGED File)
    <3>1. generation < MaxGeneration /\ generation' = generation + 1 /\ aged' = FALSE
      BY <1>2, <2>3 DEF Grant, Operation, E!Checkout, E!BeginExecution, E!RequestReleaseWhenClean,
           E!SettleExecution, E!Checkpoint, E!Release, E!Commit
    <3>2. generation' <= MaxGeneration
      BY <1>0, <3>1
    <3>3. aged' \in BOOLEAN
      BY <3>1, Zenon
    <3> QED
      BY <2>1, <3>2, <3>3
  <2> QED
    BY <2>2, <2>3
<1>3. ASSUME NEW c \in Call, CallStep(c)
      PROVE  /\ generation' = generation /\ aged' = aged
             /\ graph'.revision <= MaxRevision /\ graph'.done \in 0..MaxRevision
  <2>1. generation' = generation /\ aged' = aged
    BY <1>3, CallStepShape DEF File
  <2>2. CASE PublishReceipt(c)
    <3>1. /\ graph'.done = graph.done
          /\ \/ graph'.revision = graph.revision
             \/ graph.revision < MaxRevision /\ graph'.revision = graph.revision + 1
      BY <1>0, <2>2 DEF PublishReceipt, AnyGraph
    <3> QED
      BY <1>0, <2>1, <3>1 DEF Numbers, AnyGraph
  <2>3. CASE WriteReceipt(c)
    BY <1>0, <2>1, <2>3 DEF WriteReceipt, AnyGraph, Numbers
  <2>4. CASE graph' = graph
    BY <2>1, <2>4 DEF Numbers
  <2> QED
    BY <1>3, <2>1, <2>2, <2>3, <2>4 DEF CallStep, Execute, BeginReturns, MarkReturns, Enter, Leave, Record,
         MakeReceipt, Settle, SettleReturns, Converge
<1>4. ASSUME ChangeStep
      PROVE  /\ generation' = generation /\ aged' = aged
             /\ graph'.revision <= MaxRevision /\ graph'.done \in 0..MaxRevision
  <2>1. generation' = generation /\ aged' = aged
    BY <1>4 DEF ChangeStep, Reserve, ReserveReturns, WriteChange, CheckChange, PublishChange, CheckedOut,
         PlanChanged, Undone, CheckpointCommitted, CheckpointReturns, Reread, ConvergeChange, OthersT, File
  <2>2. CASE PublishChange
    <3>1. \/ graph'.done = graph.done /\ graph'.revision = graph.revision
          \/ /\ graph.revision < MaxRevision /\ graph'.revision = graph.revision + 1
             /\ graph'.done \in {graph.revision + 1, 0, graph.done}
      BY <1>0, <2>2 DEF PublishChange, AnyGraph
    <3> QED
      BY <1>0, <2>1, <3>1 DEF Numbers, AnyGraph
  <2>3. CASE WriteChange \/ CheckChange
    BY <1>0, <2>1, <2>3 DEF WriteChange, CheckChange, AnyGraph, Numbers
  <2>4. CASE graph' = graph
    BY <2>1, <2>4 DEF Numbers
  <2> QED
    BY <1>4, <2>1, <2>2, <2>3, <2>4 DEF ChangeStep, Reserve, ReserveReturns, CheckedOut,
         PlanChanged, Undone, CheckpointCommitted, CheckpointReturns, Reread, ConvergeChange
<1>5. CASE GraceEnds
  BY <1>5 DEF GraceEnds, E!Age, Numbers
<1>6. CASE Crash
  BY <1>0, <1>1, <1>6 DEF Crash, E!Crash, AnyGraph
<1>7. CASE \E p \in Process : Restart(p)
  BY <1>1, <1>7 DEF Restart, E!Start
<1>8. CASE \/ \E t \in Task : Refuse(t) \/ FailOperation(t)
           \/ \E o \in Obj : ReleaseReturns(o)
           \/ \E replaced \in BOOLEAN : Revoke(replaced)
           \/ \E c \in Call : Guard(c)
           \/ RefreshStart \/ RefreshStep \/ EndTurn
           \/ (\E kind \in Kinds : Consume(kind)) \/ UNCHANGED vars
  <2>1. UNCHANGED <<File, graph>>
    BY <1>8 DEF Refuse, FailOperation, ReleaseReturns, Revoke, Guard, RefreshStart, RefreshStep, RestoreStart,
         RestoreRead, RestoreFound, RestoreReturns, RefreshEnds, OthersR, EndTurn, Consume, OthersT, Rest, vars
  <2> QED
    BY <1>1, <2>1 DEF File
<1> QED
  BY <1>2, <1>3, <1>4, <1>5, <1>6, <1>7, <1>8 DEF Next, Numbers

\* An epoch ends within the scenario, or with a checkout.
LEMMA EpochMoves ==
  ASSUME Shape, [Next]_vars
  PROVE  \/ epoch' = epoch /\ auth' = auth /\ budget'.epochs = budget.epochs
         \/ /\ epoch' = epoch /\ budget'.epochs = budget.epochs
            /\ auth'.epoch = epoch' \/ (auth # NoAuth /\ auth'.epoch = auth.epoch)
         \/ epoch' = epoch + 1 /\ auth' = NoAuth /\ epoch < budget.epochs /\ budget'.epochs = budget.epochs
         \/ CheckedOut /\ epoch' = epoch + 1 /\ auth' = NoAuth /\ budget'.epochs = budget.epochs
         \/ Crash
<1>0. budget \in AnyBudget /\ epoch \in Nat /\ auth \in AnyAuth
  BY DEF Shape, GraphShape, MemoryShape
<1>1. ASSUME UNCHANGED <<epoch, auth, budget>> \/ (UNCHANGED <<epoch, auth>> /\ budget' = [budget EXCEPT !.fail = @ - 1])
      PROVE  epoch' = epoch /\ auth' = auth /\ budget'.epochs = budget.epochs
  BY <1>0, <1>1 DEF AnyBudget
<1>2. CASE \E t \in Task : Grant(t) \/ Refuse(t) \/ FailOperation(t)
  BY <1>1, <1>2 DEF Grant, Refuse, FailOperation, Rest, Memory
<1>3. CASE \E c \in Call : CallStep(c)
  <2>1. PICK c \in Call : CallStep(c)
    BY <1>3
  <2>2. UNCHANGED <<epoch, auth>>
    BY <2>1, CallStepShape
  <2>3. CASE PublishReceipt(c)
    BY <1>1, <2>2, <2>3 DEF PublishReceipt
  <2>4. CASE budget' = budget
    BY <1>1, <2>2, <2>4
  <2> QED
    BY <2>1, <2>3, <2>4 DEF CallStep, Execute, BeginReturns, MarkReturns, Enter, Leave, Record,
         MakeReceipt, WriteReceipt, Settle, SettleReturns, Converge
<1>4. CASE ChangeStep
  <2>1. CASE CheckedOut
    BY <2>1 DEF CheckedOut, EndEpoch
  <2>2. CASE PublishChange
    BY <1>1, <2>2 DEF PublishChange
  <2>3. CASE UNCHANGED <<epoch, auth, budget>>
    BY <1>1, <2>3
  <2> QED
    BY <1>4, <2>1, <2>2, <2>3 DEF ChangeStep, Reserve, ReserveReturns, WriteChange, CheckChange,
         PlanChanged, Undone, CheckpointCommitted, CheckpointReturns, Reread, ConvergeChange
<1>5. CASE RefreshStart \/ RefreshStep
  <2>1. CASE RefreshEnds
    <3>1. /\ UNCHANGED <<epoch, budget>>
          /\ auth' = auth \/ auth' = [epoch |-> epoch, revision |-> R.revision, shown |-> FALSE]
      BY <2>1 DEF RefreshEnds
    <3> QED
      BY <1>0, <3>1
  <2>2. CASE UNCHANGED <<epoch, auth, budget>>
    BY <1>1, <2>2
  <2> QED
    BY <1>5, <2>1, <2>2 DEF RefreshStart, RefreshStep, RestoreStart, RestoreRead, RestoreFound, RestoreReturns,
         OthersR
<1>6. CASE (\E replaced \in BOOLEAN : Revoke(replaced)) \/ (\E c \in Call : Guard(c))
           \/ (\E kind \in Kinds : Consume(kind))
  BY <1>0, <1>6 DEF Revoke, Guard, Consume, EndEpoch, AnyBudget
<1>7. CASE EndTurn
  <2>1. UNCHANGED <<epoch, budget>> /\ auth' = [auth EXCEPT !.shown = TRUE] /\ auth # NoAuth
    BY <1>7 DEF EndTurn
  <2>2. auth'.epoch = auth.epoch
    BY <1>0, <2>1 DEF AnyAuth
  <2> QED
    BY <2>1, <2>2
<1>8. CASE GraceEnds \/ (\E p \in Process : Restart(p)) \/ (\E o \in Obj : ReleaseReturns(o)) \/ UNCHANGED vars
  BY <1>1, <1>8 DEF GraceEnds, Restart, ReleaseReturns, Memory, vars
<1> QED
  BY <1>2, <1>3, <1>4, <1>5, <1>6, <1>7, <1>8 DEF Next

LEMMA NumbersStep ==
  ASSUME Shape, Numbers, 1 <= graph.revision, [Next]_vars
  PROVE  Numbers'
<1> USE DispatchBoundAssumption
<1>0. /\ budget \in AnyBudget /\ epoch \in Nat /\ auth \in AnyAuth /\ budget.epochs \in Int /\ MaxEpoch \in Int
      /\ budget.epochs <= MaxEpoch
  BY DEF Shape, GraphShape, MemoryShape, AnyBudget, Numbers
<1>1. /\ generation' <= MaxGeneration /\ aged' \in BOOLEAN
      /\ graph'.revision <= MaxRevision /\ graph'.done \in 0..MaxRevision
  BY FileBounds
<1>2. CASE Crash
  <2>1. epoch' = 0 /\ auth' = NoAuth /\ T'.pc = "idle" /\ budget'.epochs = budget.epochs
    BY <1>0, <1>2, Tasks DEF Crash, NoMemory, AnyBudget, T, NewTool
  <2>2. epoch' <= budget'.epochs \/ epoch' = budget'.epochs + 1
    BY <1>0, <2>1 DEF Numbers
  <2> QED
    BY <1>0, <1>1, <2>1, <2>2 DEF Numbers
<1>3. CASE CheckedOut
  <2>0. epoch' = epoch + 1 /\ auth' = NoAuth /\ budget' = budget
    BY <1>3 DEF CheckedOut, EndEpoch
  <2>1. T.pc = "published" /\ T'.pc = "idle"
    BY <1>3, ChangeOK, Tasks DEF CheckedOut, ChangeEnds, T, NewTool
  <2> QED
    BY <1>0, <1>1, <2>0, <2>1 DEF Numbers
<1>4. CASE ~Crash /\ ~CheckedOut
  <2>1. CASE epoch' = epoch + 1 /\ auth' = NoAuth /\ epoch < budget.epochs /\ budget'.epochs = budget.epochs
    BY <1>0, <1>1, <2>1 DEF Numbers
  <2>2. CASE epoch' = epoch /\ budget'.epochs = budget.epochs
    <3>1. epoch <= budget.epochs \/ T'.pc = "idle"
      <4>1. ASSUME T.pc = "idle", epoch = budget.epochs + 1, NEW kind \in Kinds, Consume(kind) PROVE FALSE
        BY <1>0, <4>1 DEF Consume
      <4> QED
        BY <1>0, <1>4, <4>1, ChangeToolMoves DEF Numbers
    <3>2. auth' # NoAuth => auth'.epoch = epoch'
      BY <1>4, <2>2, EpochMoves DEF Numbers
    <3> QED
      BY <1>0, <1>1, <2>2, <3>1, <3>2 DEF Numbers
  <2> QED
    BY <1>4, <2>1, <2>2, EpochMoves
<1> QED
  BY <1>2, <1>3, <1>4

\* Whoever is to publish a change of the graph holds the store's lock.
LEMMA WritersStep ==
  ASSUME Shape, Writers, [Next]_vars
  PROVE  Writers'
<1> USE Tasks
<1>0. /\ graph \in AnyGraph /\ DOMAIN call = Call /\ Change \notin Call /\ NoObj \notin Call /\ NoObj # Change
      /\ \A c \in Call : Aborted[c].pc = call[c].pc
  BY TaskAssumption DEF Shape, GraphShape, CallShape, Aborted, AnyCall
<1>1. ASSUME graph'.writer = graph.writer, call' = call \/ call' = Aborted,
             T' = T \/ graph.writer # Change
      PROVE  Writers'
  BY <1>0, <1>1 DEF Writers
<1>2. ASSUME graph'.writer = NoObj PROVE Writers'
  BY <1>0, <1>2 DEF Writers
<1>3. ASSUME NEW c \in Call, CallStep(c) PROVE Writers'
  <2>1. tool' = tool /\ \A d \in Call : d # c => call'[d] = call[d]
    BY <1>0, <1>3, CallStepShape DEF Move
  <2>2. CASE WriteReceipt(c)
    <3>1. CASE graph' = [graph EXCEPT !.writer = c] /\ call' = [call EXCEPT ![c].pc = "publish"]
      <4>1. graph'.writer = c /\ call'[c].pc = "publish"
        BY <1>0, <3>1 DEF AnyGraph, Shape, CallShape, AnyCall
      <4> QED
        BY <1>0, <4>1 DEF Writers
    <3>2. CASE graph' = graph
      BY <1>2, <2>2, <3>2 DEF WriteReceipt
    <3> QED
      BY <2>2, <3>1, <3>2 DEF WriteReceipt
  <2>3. CASE PublishReceipt(c)
    <3>1. graph'.writer = NoObj
      BY <1>0, <2>3 DEF PublishReceipt, AnyGraph
    <3> QED
      BY <1>2, <3>1
  <2>4. CASE graph' = graph /\ call[c].pc # "publish"
    BY <1>0, <2>1, <2>4 DEF Writers, T
  <2> QED
    BY <1>3, <2>2, <2>3, <2>4 DEF CallStep, Execute, BeginReturns, MarkReturns, Enter, Leave, Record,
         MakeReceipt, Settle, SettleReturns, Converge, Memory
<1>4. CASE ChangeStep
  <2>2. call' = call \/ call' = Aborted
    BY <1>4, ChangeBeside DEF Beside
  <2>3. CASE WriteChange /\ graph' = [graph EXCEPT !.writer = Change]
    <3>1. tool' = [tool EXCEPT ![Change].pc = "written", ![Change].evidence = generation]
      BY <1>0, <2>3 DEF WriteChange, AnyGraph
    <3>2. T'.pc = "written" /\ graph'.writer = Change
      BY <1>0, <2>3, <3>1, ChangeOK DEF T, AnyTool, AnyGraph
    <3> QED
      BY <1>0, <3>2 DEF Writers
  <2>4. CASE WriteChange /\ graph' = graph
    BY <1>2, <2>4 DEF WriteChange
  <2>5. CASE CheckChange /\ graph' = graph
    <3>1. tool' = [tool EXCEPT ![Change].pc = "publish"] \/ graph.writer = NoObj
      BY <1>0, <2>5 DEF CheckChange, AnyGraph
    <3>2. CASE tool' = [tool EXCEPT ![Change].pc = "publish"]
      <4>1. T'.pc = "publish"
        BY <3>2, ChangeOK DEF T, AnyTool
      <4> QED
        BY <1>0, <2>2, <2>5, <4>1 DEF Writers
    <3> QED
      BY <1>2, <2>5, <3>1, <3>2
  <2>6. CASE CheckChange /\ graph' = [graph EXCEPT !.writer = NoObj]
    BY <1>0, <1>2, <2>6 DEF AnyGraph
  <2>7. CASE PublishChange
    <3>1. graph'.writer = NoObj
      BY <1>0, <2>7 DEF PublishChange, AnyGraph
    <3> QED
      BY <1>2, <3>1
  <2>8. CASE graph' = graph /\ T.pc \notin {"written", "publish"}
    BY <1>1, <2>2, <2>8 DEF Writers
  <2> QED
    BY <1>4, <2>3, <2>4, <2>5, <2>6, <2>7, <2>8 DEF ChangeStep, Reserve, ReserveReturns, WriteChange, CheckChange,
         CheckedOut, PlanChanged, Undone, CheckpointCommitted, CheckpointReturns, Reread, ConvergeChange
<1>5. CASE Crash
  <2>1. graph'.writer = NoObj
    BY <1>0, <1>5 DEF Crash, AnyGraph
  <2> QED
    BY <1>2, <2>1
<1>6. ASSUME NEW kind \in Kinds, Consume(kind) PROVE Writers'
  BY <1>1, <1>6 DEF Consume, Writers
<1>7. ASSUME NEW c \in Call, Guard(c) PROVE Writers'
  <2>1. /\ call[c].pc = "new" /\ graph' = graph /\ T' = T
        /\ \E r : call' = [Aborted EXCEPT ![c] = r]
    BY <1>7 DEF Guard, T
  <2>2. \A d \in Call : d # c => call'[d].pc = call[d].pc
    BY <1>0, <2>1 DEF Aborted
  <2> QED
    BY <1>0, <2>1, <2>2 DEF Writers
<1>8. CASE \/ \E t \in Task : Grant(t) \/ Refuse(t) \/ FailOperation(t)
           \/ \E o \in Obj : ReleaseReturns(o)
           \/ \E replaced \in BOOLEAN : Revoke(replaced)
           \/ EndTurn \/ GraceEnds \/ (\E p \in Process : Restart(p)) \/ UNCHANGED vars
  <2>1. graph' = graph /\ tool' = tool /\ (call' = call \/ call' = Aborted)
    BY <1>8 DEF Grant, Refuse, FailOperation, ReleaseReturns, Revoke, EndTurn, GraceEnds, Restart, Rest, vars
  <2> QED
    BY <1>1, <2>1 DEF T
<1>9. CASE RefreshStart \/ RefreshStep
  <2>1. graph' = graph /\ call' = call
    BY <1>9 DEF RefreshStart, RefreshStep, RestoreStart, RestoreRead, RestoreFound, RestoreReturns, RefreshEnds, OthersR
  <2>2. CASE T' = T
    BY <1>1, <2>1, <2>2
  <2> QED
    BY <1>4, <1>5, <1>6, <2>2, ChangeToolMoves
<1> QED
  BY <1>3, <1>4, <1>5, <1>6, <1>7, <1>8, <1>9 DEF Next

\* A release runs for an object while its request is under way or answered.
LEMMA ScheduledReleasing ==
  ASSUME MemoryShape, Releasing, NEW current, NEW o \in Obj, NEW objects, NEW requests, DOMAIN requests = Task,
         Schedule(current, o, objects, requests), \A x \in Obj : requests[x] = io[x]
  PROVE  Releasing'
<1> USE Tasks
<1>1. CASE current = o /\ ~Pending(o)
  <2> DEFINE q == ReleaseRequest(objects[o])
  <2>1. /\ io' = [requests EXCEPT ![o] = q]
        /\ releases' = [releases EXCEPT ![o] = [running |-> q # None, ok |-> TRUE]]
    BY <1>1 DEF Schedule
  <2>2. io'[o] = q /\ releases'[o].running = (q # None)
    BY <2>1 DEF MemoryShape
  <2>3. \A x \in Obj : x # o => io'[x] = io[x] /\ releases'[x] = releases[x]
    BY <2>1 DEF MemoryShape
  <2> HIDE DEF q
  <2> QED
    BY <2>2, <2>3 DEF Releasing, Pending
<1>2. CASE ~(current = o /\ ~Pending(o))
  BY <1>2 DEF Schedule, Releasing, Pending
<1> QED
  BY <1>1, <1>2

LEMMA ReleasingStep ==
  ASSUME Shape, Releasing, [Next]_vars
  PROVE  Releasing'
<1> USE Tasks
<1>0. /\ DOMAIN io = Task /\ MemoryShape /\ (leases # NoObj => leases \in Obj) /\ DOMAIN releases = Obj
      /\ releases \in [Obj -> [running : BOOLEAN, ok : BOOLEAN]] /\ None.op = "none"
      /\ \A c \in Call : (call[c].object # NoObj => call[c].object \in Obj)
                         /\ (call[c].settling # NoObj => call[c].settling \in Obj)
  BY DEF Shape, IoShape, LiveObjects, LiveCall, Live, MemoryShape, None
<1>1. ASSUME releases' = releases, \A o \in Obj : io'[o] = io[o] PROVE Releasing'
  BY <1>1 DEF Releasing, Pending
<1>2. ASSUME NEW s \in Task \ Obj, NEW v, io' = [io EXCEPT ![s] = v], releases' = releases PROVE Releasing'
  BY <1>0, <1>1, <1>2
<1>3. ASSUME NEW s \in Task \ Obj, NEW o \in Obj, NEW current, NEW objects, NEW requests,
             Schedule(current, o, objects, requests), requests = io \/ requests = [io EXCEPT ![s] = None]
      PROVE  Releasing'
  <2>1. DOMAIN requests = Task /\ \A x \in Obj : requests[x] = io[x]
    BY <1>0, <1>3
  <2> QED
    BY <1>0, <1>3, <2>1, ScheduledReleasing
<1>4. ASSUME NEW t \in Task, Grant(t) \/ Refuse(t) \/ FailOperation(t) PROVE Releasing'
  <2>1. releases' = releases /\ Asked(t) /\ \E v : v.op = "done" /\ io' = [io EXCEPT ![t] = v]
    BY <1>4 DEF Grant, Refuse, FailOperation, Rest, Memory
  <2>2. io'[t] # None /\ io[t] # None /\ \A u \in Task : u # t => io'[u] = io[u]
    BY <1>0, <2>1 DEF Asked
  <2> QED
    BY <2>1, <2>2 DEF Releasing, Pending
<1>5. ASSUME NEW o \in Obj, ReleaseReturns(o) PROVE Releasing'
  <2>1. \A x \in Obj : x # o => io'[x] = io[x] /\ releases'[x] = releases[x]
    BY <1>0, <1>5 DEF ReleaseReturns, Finished
  <2>2. Pending(o)' <=> io'[o] # None
    <3>1. CASE Finished(o, TRUE) \/ Finished(o, FALSE)
      BY <1>0, <3>1 DEF Finished, Pending
    <3>2. CASE io' = [io EXCEPT ![o] = [op |-> "release", claim |-> ClaimOf(io[o].snapshot)]] /\ releases' = releases
      <4>1. PICK q : q = [op |-> "release", claim |-> ClaimOf(io[o].snapshot)]
        OBVIOUS
      <4>2. q.op = "release" /\ io'[o] = q
        BY <1>0, <3>2, <4>1
      <4>3. io[o] # None
        BY <1>0, <1>5 DEF ReleaseReturns, Returned
      <4> QED
        BY <1>0, <3>2, <4>2, <4>3 DEF Releasing, Pending
    <3> QED
      BY <1>5, <3>1, <3>2 DEF ReleaseReturns
  <2> QED
    BY <2>1, <2>2 DEF Releasing, Pending
<1>6. ASSUME NEW c \in Call, CallStep(c) PROVE Releasing'
  <2> DEFINE freed == [io EXCEPT ![c] = None]
  <2>1. CASE BeginReturns(c)
    <3>1. call[c].object \in Obj
      BY <1>0, <2>1 DEF BeginReturns, Shape, LiveObjects, LiveCall
    <3>2. \/ releases' = releases /\ io' = freed
          \/ \E objects : Schedule(leases, call[c].object, objects, freed)
      BY <2>1 DEF BeginReturns, Begun, NotBegun
    <3> HIDE DEF freed
    <3> QED
      BY <1>0, <1>2, <1>3, <3>1, <3>2 DEF freed
  <2>2. CASE SettleReturns(c)
    <3>1. call[c].settling \in Obj
      BY <1>0, <2>2 DEF SettleReturns, Shape, LiveObjects, LiveCall
    <3>2. \/ releases' = releases /\ io' = freed
          \/ \E objects : Schedule(leases, call[c].settling, objects, freed)
      BY <2>2 DEF SettleReturns
    <3> HIDE DEF freed
    <3> QED
      BY <1>0, <1>2, <1>3, <3>1, <3>2 DEF freed
  <2>3. CASE Converge(c)
    <3>1. call[c].settling \in Obj
      BY <1>0, <2>3 DEF Converge, Shape, LiveObjects, LiveCall
    <3>2. \/ releases' = releases /\ io' = io
          \/ Schedule(leases, call[c].settling, obj, io)
      BY <2>3 DEF Converge
    <3> QED
      BY <1>0, <1>1, <1>3, <3>1, <3>2
  <2>4. CASE Execute(c) \/ Settle(c)
    <3>1. releases' = releases /\ (io' = io \/ \E v : io' = [io EXCEPT ![c] = v])
      BY <2>4 DEF Execute, Settle, Memory
    <3> QED
      BY <1>0, <1>1, <1>2, <3>1
  <2>5. CASE UNCHANGED <<releases, io>>
    BY <1>1, <2>5
  <2> QED
    BY <1>6, <2>1, <2>2, <2>3, <2>4, <2>5 DEF CallStep, MarkReturns, Enter, Leave, Record, MakeReceipt,
         WriteReceipt, PublishReceipt, Memory
<1>7. CASE \E replaced \in BOOLEAN : Revoke(replaced)
  <2>1. UNCHANGED <<releases, io>> \/ (leases # NoObj /\ \E objects : Schedule(leases, leases, objects, io))
    BY <1>7 DEF Revoke
  <2> QED
    BY <1>0, <1>1, <1>3, <2>1
<1>8. CASE RefreshStart \/ RefreshStep
  <2>1. releases' = releases
    BY <1>8 DEF RefreshStart, RefreshStep, RestoreStart, RestoreRead, RestoreFound, RestoreReturns, RefreshEnds, OthersR
  <2> QED
    BY <1>1, <1>8, <2>1, RefreshRequests
<1>9. CASE ChangeStep
  <2> DEFINE freed == [io EXCEPT ![Change] = None]
  <2>1. ASSUME NEW s, Close(s) PROVE Releasing'
    <3>1. \/ releases' = releases /\ io' = freed
          \/ \E o \in Obj : \E objects : Schedule(o, o, objects, freed)
      BY <2>1, FreeIsUnused DEF Close, Free
    <3> HIDE DEF freed
    <3> QED
      BY <1>0, <1>2, <1>3, <3>1 DEF freed
  <2>2. CASE CheckedOut
    <3>1. UNCHANGED <<releases, io>> \/ (leases # NoObj /\ \E objects : Schedule(leases, leases, objects, io))
      BY <2>2 DEF CheckedOut
    <3> QED
      BY <1>0, <1>1, <1>3, <3>1
  <2>3. CASE ConvergeChange
    <3>1. T.object \in Obj
      BY <2>3 DEF ConvergeChange, Shape, LiveObjects, LiveChange, Live, T
    <3>2. UNCHANGED <<releases, io>> \/ Schedule(leases, T.object, obj, io)
      BY <2>3 DEF ConvergeChange
    <3> QED
      BY <1>0, <1>1, <1>3, <3>1, <3>2
  <2>4. CASE CheckpointReturns \/ Reread
    <3>1. \/ \E s : Close(s)
          \/ releases' = releases /\ (io' = io \/ \E v : io' = [io EXCEPT ![Change] = v])
      BY <2>4 DEF CheckpointReturns, Reread, AskCheckpoint
    <3> QED
      BY <1>0, <1>1, <1>2, <2>1, <3>1
  <2>5. CASE Reserve \/ ReserveReturns \/ WriteChange \/ CheckChange \/ PublishChange \/ PlanChanged \/ Undone
             \/ CheckpointCommitted
    <3>1. releases' = releases /\ (io' = io \/ \E v : io' = [io EXCEPT ![Change] = v])
      BY <2>5 DEF Reserve, ReserveReturns, WriteChange, CheckChange, PublishChange, PlanChanged, Undone,
                  CheckpointCommitted, AskCheckpoint, Abandon
    <3> QED
      BY <1>0, <1>1, <1>2, <3>1
  <2> QED
    BY <1>9, <2>2, <2>3, <2>4, <2>5 DEF ChangeStep
<1>10. CASE Crash
  BY <1>10 DEF Crash, NoMemory, Releasing, Pending
<1>11. CASE \/ \E c \in Call : Guard(c)
            \/ EndTurn \/ GraceEnds \/ (\E kind \in Kinds : Consume(kind)) \/ (\E p \in Process : Restart(p))
            \/ UNCHANGED vars
  BY <1>1, <1>11 DEF Guard, EndTurn, GraceEnds, Consume, Restart, Memory, vars
<1> QED
  BY <1>4, <1>5, <1>6, <1>7, <1>8, <1>9, <1>10, <1>11 DEF Next

\* The lease and whatever will become one are on revisions of the graph, and
\* the fences are known by generations.
Revisions == 1..(MaxRevision + 1)
Leased ==
  /\ E!Held => lease.basis.graph \in Revisions
  /\ \A r \in begun : r \in [attempt : E!Generation, basis : E!Basis]
  /\ R.seen.lease # NoLease => R.seen.lease.basis.graph \in Revisions
  /\ \A s \in Slot : io[s].op = "checkout" => io[s].basis.graph \in Revisions
  /\ Done(Change) /\ io[Change].of = "checkout" => io[Change].snapshot.lease.leaseId \in E!Generation
  /\ fences \subseteq E!Generation

LEMMA BasisBounded ==
  ASSUME NEW b \in AnyBasis, b.graph \in Revisions
  PROVE  b \in E!Basis
BY DEF AnyBasis, E!Basis, Revisions

LEMMA GrantLeased ==
  ASSUME Shape, FenceInv, Coherent, Results, Settlings, Refreshing, Changing, Numbers, Numbers', Leased,
         NEW t \in Task, Grant(t)
  PROVE  Leased'
<1> USE Tasks
<1>1. /\ generation \in Nat /\ generation' = generation + 1 /\ generation + 1 \in E!Generation
      /\ UNCHANGED <<graph, fences, call>> /\ R' = R /\ io[t].op \in Ops /\ io'[t].op = "done" /\ io'[t].of = io[t].op
      /\ io'[t].snapshot.lease = lease' /\ \A u \in Task : u # t => io'[u] = io[u]
  BY GrantFacts, DispatchBoundAssumption DEF Memory, Numbers, E!Generation
<1>2. graph.revision \in Int /\ graph.revision <= MaxRevision /\ T.revision \in Int /\ R.revision \in Int
      /\ MaxRevision \in Int
  BY ChangeOK, RefreshTools, DispatchBoundAssumption DEF Shape, GraphShape, AnyGraph, Numbers
<1>3. E!Held => lease.basis.graph \in Int /\ lease.basis \in AnyBasis
  BY DEF E!Held, Shape, FileShape, AnyLease, AnyBasis
<1>4. E!Held' => lease'.basis.graph \in Revisions
  <2>1. CASE io[t].op \in {"begin", "request"}
    BY <1>1, <2>1, GrantLease DEF Leased, E!Held
  <2>2. CASE io[t].op = "checkout"
    <3>1. t \in Slot
      BY <1>1, <2>2 DEF Shape, Protocol, CallAsks, OpOf, Task, Slot, Ops
    <3> QED
      BY <2>2, <3>1, GrantLease DEF Leased
  <2>3. CASE io[t].op = "release"
    BY <2>3, GrantLease DEF E!Held
  <2>4. CASE io[t].op \in {"settle", "checkpoint"}
    <3>1. /\ E!Held /\ io[t].revision >= lease.basis.graph
          /\ lease' = NoLease \/ lease'.basis.graph = io[t].revision
      BY <2>4, GrantLease, GrantCommits DEF E!Held
    <3>2. io[t].revision \in Int
      BY <2>4 DEF Shape, IoShape, IoOK
    <3>3. io[t].revision <= graph.revision
      <4>1. CASE t = Refresh
        BY <2>4, <4>1 DEF Refreshing
      <4>2. CASE t = Change
        BY <1>1, <1>2, <2>4, <4>2 DEF Changing, Committed, Over, Shape, Protocol, OpOf, Ops
      <4>3. CASE t \in Call
        <5>1. io[t].op = "settle" /\ call[t].pc = "settling"
          BY <1>1, <2>4, <4>3 DEF Shape, Protocol, CallAsks, OpOf, Ops
        <5>2. io[t].revision = call[t].basis.revision + 1 /\ call[t].basis.revision < graph.revision
          BY <4>3, <5>1 DEF Settlings
        <5>3. call[t].basis.revision \in Int
          BY <4>3 DEF Shape, CallShape, AnyCall, AnyAuth
        <5> QED
          BY <1>2, <5>2, <5>3
      <4>4. t \notin Obj
        BY <1>1, <2>4 DEF Shape, Protocol, OpOf, Ops
      <4> QED
        BY <4>1, <4>2, <4>3, <4>4 DEF Task, Slot
    <3>4. lease.basis.graph \in Revisions
      BY <3>1 DEF Leased
    <3> QED
      BY <1>2, <3>1, <3>2, <3>3, <3>4 DEF E!Held, Revisions
  <2> QED
    BY <1>1, <2>1, <2>2, <2>3, <2>4 DEF Ops
<1>5. \A r \in begun' : r \in [attempt : E!Generation, basis : E!Basis]
  <2>1. CASE io[t].op = "begin"
    <3>1. E!Held /\ begun' = begun \cup {[attempt |-> generation + 1, basis |-> lease.basis]}
      BY <2>1, GrantCommits DEF E!Held
    <3>2. lease.basis \in E!Basis
      BY <1>3, <3>1, BasisBounded DEF Leased
    <3> QED
      BY <1>1, <3>1, <3>2 DEF Leased
  <2>2. CASE io[t].op # "begin"
    <3>1. begun' = begun
      BY <1>1, <2>2, GrantCommits DEF Ops
    <3> QED
      BY <3>1 DEF Leased
  <2> QED
    BY <2>1, <2>2
<1>6. \A s \in Slot : io'[s].op = "checkout" => io'[s].basis.graph \in Revisions
  BY <1>1 DEF Leased, Slot
<1>7. Done(Change)' /\ io'[Change].of = "checkout" => io'[Change].snapshot.lease.leaseId \in E!Generation
  <2>1. CASE t # Change
    BY <1>1, <2>1 DEF Leased, Done
  <2>2. CASE t = Change /\ io[t].op = "checkout"
    BY <1>1, <2>2, GrantCommits DEF E!CheckedOut
  <2> QED
    BY <1>1, <2>1, <2>2
<1> QED
  BY <1>1, <1>4, <1>5, <1>6, <1>7 DEF Leased, E!Generation

\* A refresh asks for the lease it has read, on the basis it is on.
LEMMA CheckoutAsked ==
  ASSUME Shape, QuietStep, Refreshing, io'[Refresh] # io[Refresh], io'[Refresh].op = "checkout"
  PROVE  R.seen.lease # NoLease /\ io'[Refresh].basis = R.seen.lease.basis
<1> USE Tasks
<1>0. DOMAIN io = Task /\ None.op = "none" /\ Refresh \in Slot
  BY DEF Shape, IoShape, None, Slot
<1>1. RefreshStart \/ RefreshStep
  BY <1>0, SlotKept
<1>2. RestoreFound \/ RestoreReturns
  BY <1>1 DEF RefreshStep, RefreshStart, RestoreStart, RestoreRead, RefreshEnds
<1>3. ASSUME NEW v, NEW x, NEW p, Ask(v, x, p) PROVE io'[Refresh] = v
  BY <1>0, <1>3 DEF Ask
<1>4. CASE RefreshFails \/ \E o : RestoredTo(o)
  BY <1>0, <1>4 DEF RefreshFails, RestoredTo
<1>5. ASSUME NEW d, NEW x, NEW v, AsksOn(d, x, v) PROVE FALSE
  <2>1. io'[Refresh] = v
    BY <1>3, <1>5 DEF AsksOn
  <2> QED
    BY <1>5, <2>1 DEF AsksOn
<1>6. CASE /\ R.seen.lease # NoLease
           /\ Ask([op |-> "checkout", basis |-> R.seen.lease.basis, expected |-> R.seen.generation], FALSE, "takeover")
  <2>1. PICK v : v = [op |-> "checkout", basis |-> R.seen.lease.basis, expected |-> R.seen.generation]
    OBVIOUS
  <2>2. io'[Refresh] = v
    BY <1>3, <1>6, <2>1
  <2> QED
    BY <1>6, <2>1, <2>2
<1> QED
  BY <1>2, <1>4, <1>5, <1>6, RefreshRestores DEF RefreshDoes, Restores

\* A fence is kept for the reservation of a change of the plan, and no other.
LEMMA FenceMoves ==
  ASSUME Shape, QuietStep
  PROVE  \/ fences' \subseteq fences
         \/ ReserveReturns /\ io[Change].ok /\ fences' \subseteq fences \cup {io[Change].snapshot.lease.leaseId}
<1>1. CASE \E c \in Call : CallStep(c)
  BY <1>1, CallStepShape
<1>2. CASE RestoreReturns
  BY <1>2 DEF RestoreReturns, RefreshFails, Reconcile, Continue, AskRelease, Ask
<1>3. CASE RefreshStart \/ RestoreStart \/ RestoreRead \/ RestoreFound \/ RefreshEnds
  BY <1>3 DEF RefreshStart, RestoreStart, RestoreRead, RestoreFound, RefreshEnds, RefreshFails,
              Reconcile, Continue, AskRelease, Ask
<1>4. CASE ReserveReturns
  BY <1>4 DEF ReserveReturns, FencesWith
<1>5. CASE ChangeStep /\ ~ReserveReturns
  BY <1>5 DEF ChangeStep, Reserve, WriteChange, CheckChange, PublishChange, CheckedOut, PlanChanged, Undone,
              CheckpointCommitted, CheckpointReturns, Reread, ConvergeChange
<1>6. CASE \/ \E t \in Task : Refuse(t) \/ FailOperation(t)
           \/ \E o \in Obj : ReleaseReturns(o)
           \/ \E replaced \in BOOLEAN : Revoke(replaced)
           \/ \E c \in Call : Guard(c)
           \/ EndTurn \/ (\E kind \in Kinds : Consume(kind)) \/ GraceEnds \/ (\E p \in Process : Restart(p))
           \/ UNCHANGED vars
  BY <1>6 DEF Refuse, FailOperation, ReleaseReturns, Revoke, Guard, EndTurn, Consume, GraceEnds, Restart,
              Rest, Memory, vars
<1> QED
  BY <1>1, <1>2, <1>3, <1>4, <1>5, <1>6 DEF QuietStep, Next, RefreshStep

LEMMA QuietLeased ==
  ASSUME Shape, QuietStep, Effects, Shape', Changing', Refreshing, Refreshing', Numbers', Leased
  PROVE  Leased'
<1> USE Tasks
<1>1. lease' = lease /\ begun' = begun
  BY QuietFile, StepKinds, CallStepShape DEF QuietStep, Refuse, FailOperation, Guard, Beside, File
<1>2. R'.seen.lease # NoLease => R'.seen.lease.basis.graph \in Revisions
  <2>1. NewTool.seen.lease = NoLease
    BY DEF NewTool, NoSnapshot
  <2>2. R'.seen \in {R.seen, NewTool.seen, Snapshot}
    BY RefreshToolMoves DEF QuietStep, NewTool
  <2> QED
    BY <2>1, <2>2 DEF Leased, E!Held, Snapshot
<1>3. io'[Change].op = "checkout" => io'[Change].basis.graph \in Revisions
  <2>1. /\ graph'.revision \in Int /\ graph'.revision <= MaxRevision /\ 1 <= graph'.revision /\ MaxRevision \in Int
    BY DispatchBoundAssumption DEF Shape, GraphShape, AnyGraph, Numbers, Refreshing
  <2>2. ASSUME io'[Change].op = "checkout"
        PROVE  /\ T'.revision \in Int /\ 1 <= T'.revision /\ T'.revision <= graph'.revision
               /\ io'[Change].basis \in {Basis("fence", T'.revision), Basis("leaf", T'.revision + 1)}
    <3>1. T' \in AnyTool
      BY Tasks DEF T, Shape, ToolShape
    <3> QED
      BY <2>2, <3>1 DEF Changing, AnyTool, Basis
  <2>3. \A n, r : Basis(n, r).graph = r
    BY DEF Basis
  <2> QED
    BY <2>1, <2>2, <2>3 DEF Revisions
<1>4. io'[Refresh].op = "checkout" => io'[Refresh].basis.graph \in Revisions
  <2>1. ASSUME io'[Refresh] # io[Refresh], io'[Refresh].op = "checkout"
        PROVE  R.seen.lease # NoLease /\ io'[Refresh].basis = R.seen.lease.basis
    BY <2>1, CheckoutAsked
  <2> QED
    BY <2>1 DEF Leased, Slot
<1>5. Done(Change)' => io'[Change] = io[Change]
  BY DEF Effects, Slot
<1>6. fences' \subseteq E!Generation
  <2>1. \/ fences' \subseteq fences
        \/ ReserveReturns /\ io[Change].ok /\ fences' \subseteq fences \cup {io[Change].snapshot.lease.leaseId}
    BY FenceMoves
  <2>2. ReserveReturns => io[Change].op = "done" /\ io[Change].of = "checkout"
    BY DEF ReserveReturns, Returned, Shape, Protocol, OpOf, IoShape, IoOK, Ops
  <2> QED
    BY <2>1, <2>2 DEF Leased, Done
<1> QED
  BY <1>1, <1>2, <1>3, <1>4, <1>5, <1>6 DEF Leased, Slot, Done, E!Held, E!Generation

LEMMA LeasedCrash ==
  ASSUME Shape, Numbers, Leased, Crash
  PROVE  Leased'
<1> USE Tasks
<1>1. /\ lease' = lease /\ begun' = begun /\ fences' = {} /\ R' = NewTool
      /\ \A t \in Task : io'[t] = None
  BY DEF Crash, E!Crash, NoMemory, R
<1>2. NewTool.seen.lease = NoLease /\ None.op = "none"
  BY DEF NewTool, NoSnapshot, None
<1>3. \A s \in Slot : io'[s].op = "none"
  BY <1>1, <1>2 DEF Slot
<1> QED
  BY <1>1, <1>2, <1>3 DEF Leased, Done, Slot, E!Held, E!Generation

Bounded == Numbers /\ Writers /\ Releasing /\ Leased

LEMMA BoundedStep ==
  ASSUME ~Overlap, Shape, FileInv, Attempts, GraphInv, FenceInv, Epochs, LeaseInv, Bounded, [Next]_vars
  PROVE  Bounded'
<1>1. /\ Numbers /\ Writers /\ Releasing /\ Leased
      /\ Coherent /\ Results /\ Settlings /\ Refreshing /\ Changing
  BY DEF Bounded, LeaseInv
<1>2. 1 <= graph.revision
  BY <1>1 DEF Refreshing
<1>3. Numbers' /\ Writers' /\ Releasing'
  BY <1>1, <1>2, NumbersStep, WritersStep, ReleasingStep
<1>4. CASE \E t \in Task : Grant(t)
  BY <1>1, <1>3, <1>4, GrantLeased DEF Bounded
<1>5. CASE QuietStep
  <2>1. Effects
    BY <1>1, <1>5, StepEffects DEF LeaseInv, QuietStep
  <2>2. Shape' /\ LeaseInv'
    BY ShapeStep, LeaseStep
  <2>3. Changing' /\ Refreshing'
    BY <2>2 DEF LeaseInv
  <2> QED
    BY <1>1, <1>3, <1>5, <2>1, <2>2, <2>3, QuietLeased DEF Bounded
<1>6. CASE Crash
  BY <1>1, <1>3, <1>6, LeasedCrash DEF Bounded
<1> QED
  BY <1>4, <1>5, <1>6 DEF QuietStep

LEMMA InitBounded ==
  ASSUME Init
  PROVE  Bounded
<1> USE Tasks, DispatchBoundAssumption
<1>1. /\ epoch = 0 /\ auth = NoAuth /\ graph.revision = 1 /\ graph.done = 0 /\ graph.writer = NoObj
      /\ generation \in {0, 1} /\ aged = FALSE /\ begun = {} /\ fences = {}
      /\ \A t \in Task : io[t] = None
      /\ \A o \in Obj : ~releases[o].running
      /\ R = NewTool /\ T = NewTool
  BY DEF Init, R, T
<1>2. NewTool.pc = "idle" /\ NewTool.seen.lease = NoLease /\ None.op = "none"
  BY DEF NewTool, NoSnapshot, None
<1> DEFINE n == [leaseId |-> 1, owner |-> 0, basis |-> Basis("leaf", 1), dirty |-> FALSE,
                 releaseWhenClean |-> FALSE, pending |-> 0, legacy |-> FALSE, pid |-> me]
<1>3. lease # NoLease => lease.basis = Basis("leaf", 1)
  <2>1. lease = NoLease \/ lease = n
    BY DEF Init
  <2>2. n.basis = Basis("leaf", 1)
    OBVIOUS
  <2> QED
    BY <2>1, <2>2, Zenon
<1> HIDE DEF n
<1>4. Basis("leaf", 1).graph = 1
  BY DEF Basis
<1>5. Numbers
  <2>1. budget.epochs \in 1..MaxEpoch
    BY ScenarioAssumption DEF Init
  <2>2. aged \in BOOLEAN
    BY <1>1, Zenon
  <2> QED
    BY <1>1, <2>1, <2>2 DEF Numbers
<1>6. Writers
  BY <1>1, TaskAssumption DEF Writers
<1>7. Releasing
  BY <1>1 DEF Releasing, Pending, Task
<1>8. Leased
  <2>1. \A s \in Slot : io[s].op = "none"
    BY <1>1, <1>2 DEF Slot
  <2> QED
    BY <1>1, <1>2, <1>3, <1>4, <2>1 DEF Leased, Revisions, E!Held, Done, Slot
<1> QED
  BY <1>5, <1>6, <1>7, <1>8 DEF Bounded

LEMMA TypesFollow ==
  ASSUME Shape, FileInv, Attempts, LeaseInv, Bounded
  PROVE  TypeOK
<1> USE Tasks, DispatchBoundAssumption
<1>1. /\ generation \in Nat /\ generation <= MaxGeneration /\ MaxGeneration \in Nat
      /\ graph \in AnyGraph /\ epoch \in Nat /\ MaxRevision \in Nat /\ MaxEpoch \in Nat
      /\ Numbers /\ Writers /\ Releasing /\ Leased /\ 1 <= graph.revision
  BY DEF Shape, FileShape, GraphShape, MemoryShape, Bounded, Numbers, LeaseInv, Refreshing
<1>2. BegunAttempts \subseteq E!Generation
  BY <1>1 DEF FileInv, BegunAttempts, E!Generation
<1>3. settled \subseteq E!Generation
  BY <1>2 DEF Attempts
<1>4. ASSUME E!Held
      PROVE  /\ lease \in E!Lease
             /\ lease.dirty <=> (lease.pending # E!NoAttempt \/ lease.legacy)
             /\ ~(lease.pending # E!NoAttempt /\ lease.legacy)
  <2>1. lease \in AnyLease
    BY <1>4 DEF Shape, FileShape, E!Held
  <2>2. lease.leaseId \in E!Generation /\ ~lease.legacy /\ (lease.dirty <=> lease.pending # 0)
    BY <1>1, <1>4 DEF FileInv, E!Generation
  <2>3. lease.pending \in E!Generation \cup {E!NoAttempt}
    <3>1. lease.pending # 0 => lease.pending \in BegunAttempts
      BY <1>4 DEF FileInv, E!OpenAttempts, E!NoAttempt
    <3> QED
      BY <1>2, <3>1 DEF E!NoAttempt
  <2>4. lease.basis \in E!Basis
    BY <1>1, <1>4, <2>1, BasisBounded DEF Leased, AnyLease
  <2>5. lease \in E!Lease
    BY <2>1, <2>2, <2>3, <2>4 DEF AnyLease, E!Lease
  <2> QED
    BY <2>2, <2>5 DEF E!NoAttempt
<1>5. E!TypeOK
  <2>1. begun \subseteq [attempt : E!Generation, basis : E!Basis]
    BY <1>1 DEF Leased
  <2>2. lease \in E!Lease \cup {NoLease}
    BY <1>4 DEF E!Held
  <2>3. alive \in [Process -> BOOLEAN] /\ aged \in BOOLEAN /\ generation \in 0..MaxGeneration
    BY <1>1 DEF Shape, FileShape, Numbers
  <2> QED
    BY <1>3, <1>4, <2>1, <2>2, <2>3 DEF E!TypeOK
<1>6. /\ me \in Process
      /\ graph.revision \in 1..MaxRevision /\ graph.done \in 0..MaxRevision
      /\ graph.writer \in Call \cup {Change, NoObj}
  BY <1>1 DEF Shape, FileShape, Numbers, AnyGraph
<1>7. /\ graph.writer \in Call => call[graph.writer].pc = "publish"
      /\ graph.writer = Change => tool[Change].pc \in {"written", "publish"}
  BY <1>1 DEF Writers, T
<1>8. epoch \in 0..(MaxEpoch + 1) /\ (auth # NoAuth => auth.epoch = epoch)
  <2>1. budget.epochs \in Int
    BY DEF Shape, GraphShape, AnyBudget
  <2> QED
    BY <1>1, <2>1 DEF Numbers
<1>9. {leases, begins, latest} \subseteq Obj \cup {NoObj}
  BY DEF Shape, MemoryShape, SomeObj
<1>10. fences \subseteq 1..MaxGeneration
  BY <1>1 DEF Leased, E!Generation
<1>11. \A o \in Obj : releases[o].running <=> io[o] # None
  BY <1>1 DEF Releasing, Pending
<1>12. \A c \in Call : Asked(c) => call[c].pc \in {"begin", "settling"}
  BY DEF Asked, Shape, Protocol, CallAsks, OpOf
<1>13. Asked(Refresh) => tool[Refresh].pc \in {"takeover", "settling", "releasing"}
  BY DEF Asked, Shape, Protocol, OpOf, R
<1>14. Asked(Change) => tool[Change].pc \in {"reserving", "undoing", "closing", "closingRelease"}
  BY DEF Asked, Shape, Protocol, OpOf, T
<1> QED
  BY <1>5, <1>6, <1>7, <1>8, <1>9, <1>10, <1>11, <1>12, <1>13, <1>14 DEF TypeOK

\* The state file stays one that its next reader accepts, with a lease on a
\* revision of the graph; the holder of the store's lock is the call or the tool
\* that writes; an object has a request on the state file exactly while its
\* release runs; and the authorization kept is of the current epoch: in every
\* interleaving of calls, releases, a refresh and a change, and across crashes,
\* if no call is guarded between the last check of the change and its rename.
THEOREM DispatchTypeCorrect == ~Overlap /\ Spec => []TypeOK
<1> SUFFICES ASSUME ~Overlap PROVE Spec => []TypeOK
  OBVIOUS
<1> DEFINE Inv == Shape /\ FileInv /\ Attempts /\ GraphInv /\ FenceInv /\ Epochs /\ LeaseInv /\ Bounded
<1>1. Init => Inv
  BY InitShape, InitAttempts, InitGraph, InitFence, InitEpochs, InitLease, InitBounded
<1>2. Inv /\ [Next]_vars => Inv'
  BY ShapeStep, AttemptsStep, GraphStep, FenceStep, EpochsStep, LeaseStep, BoundedStep
<1>3. Inv => TypeOK
  BY TypesFollow
<1> QED
  BY <1>1, <1>2, <1>3, PTL DEF Spec
-----------------------------------------------------------------------------
(* What the first death of the process leaves behind.                      *)

\* Until its first death the process owns what is leased; once dead it has nothing.
FirstLife ==
  /\ budget.deaths = 0 => alive[me] /\ (E!Held => lease.pid = me)
  /\ ~alive[me] => T.pc = "idle" /\ \A c \in Call : call[c].pc = "new"
\* A lease of a leaf that nothing is to settle and nothing is to release.
Clean == OnLeaf /\ ~lease.dirty /\ ~lease.releaseWhenClean
Provable ==
  Clean /\ graph.revision = lease.basis.graph + 1 =>
    \E e \in graph.evidence : e.revision = graph.revision /\ e.at >= generation
\* An object is told of a request only that its lease is to be released.
Marked == \A o \in Obj : Done(o) /\ io[o].of = "request" => io[o].snapshot.lease.releaseWhenClean
\* The evidence a checkpoint is about to commit is as recent as the file.
Dated ==
  Checkpointing /\ Clean =>
    /\ T.pc = "written" /\ T.epoch = epoch /\ Fresh(T.object) => T.evidence >= generation
    /\ T.pc = "publish" => T.evidence >= generation

\* The process has not died yet, or has died once and is dead.
Dying == budget.deaths = 0 \/ (budget.deaths = 1 /\ ~alive[me])

\* Only a death is counted as one, and only a start changes the process.
LEMMA LifeMoves ==
  ASSUME Shape, [Next]_vars, ~Crash
  PROVE  /\ budget'.deaths = budget.deaths
         /\ UNCHANGED <<alive, me>> \/ (~alive[me] /\ alive'[me'])
<1>1. ASSUME NEW t \in Task, Grant(t) PROVE budget' = budget /\ UNCHANGED <<alive, me>>
  BY <1>1, GrantCommits
<1>2. ASSUME NEW t \in Task, Refuse(t) \/ FailOperation(t)
      PROVE  budget'.deaths = budget.deaths /\ UNCHANGED <<alive, me>>
  BY <1>2 DEF Refuse, FailOperation, Rest, File, Shape, GraphShape, AnyBudget
<1>3. ASSUME NEW c \in Call, CallStep(c) PROVE budget'.deaths = budget.deaths /\ UNCHANGED <<alive, me>>
  <2>1. UNCHANGED <<alive, me>>
    BY <1>3 DEF CallStep, Execute, BeginReturns, MarkReturns, Enter, Leave, Record, MakeReceipt, WriteReceipt,
         PublishReceipt, Settle, SettleReturns, Converge, File
  <2> QED
    BY <1>3, <2>1, CallRuns
<1>4. ASSUME NEW c \in Call, Guard(c) PROVE budget'.deaths = budget.deaths /\ UNCHANGED <<alive, me>>
  BY <1>4 DEF Guard, File
<1>5. CASE RefreshStart \/ RefreshStep \/ EndTurn \/ GraceEnds \/ UNCHANGED vars
  BY <1>5 DEF RefreshStart, RefreshStep, RestoreStart, RestoreRead, RestoreFound, RestoreReturns, RefreshEnds,
       OthersR, EndTurn, GraceEnds, E!Age, vars, File
<1>6. CASE ChangeStep
  <2>1. UNCHANGED <<alive, me>>
    BY <1>6 DEF ChangeStep, Reserve, ReserveReturns, WriteChange, CheckChange, PublishChange, CheckedOut,
         PlanChanged, Undone, CheckpointCommitted, CheckpointReturns, Reread, ConvergeChange, OthersT, File
  <2> QED
    BY <1>6, <2>1, ChangeBeside DEF Beside
<1>7. CASE \E kind \in Kinds : Consume(kind)
  BY <1>7 DEF Consume, OthersT, File
<1>8. ASSUME NEW o \in Obj, ReleaseReturns(o) PROVE budget'.deaths = budget.deaths /\ UNCHANGED <<alive, me>>
  BY <1>8 DEF ReleaseReturns, File
<1>9. ASSUME NEW replaced \in BOOLEAN, Revoke(replaced) PROVE budget'.deaths = budget.deaths /\ UNCHANGED <<alive, me>>
  BY <1>9 DEF Revoke, File, Shape, GraphShape, AnyBudget
<1>10. ASSUME NEW p \in Process, Restart(p)
       PROVE  budget'.deaths = budget.deaths /\ ~alive[me] /\ alive'[me']
  BY <1>10 DEF Restart, E!Start, Shape, FileShape
<1> QED
  BY <1>1, <1>2, <1>3, <1>4, <1>5, <1>6, <1>7, <1>8, <1>9, <1>10 DEF Next

LEMMA FirstLifeStep ==
  ASSUME Shape, FirstLife, [Next]_vars
  PROVE  FirstLife'
<1> USE Tasks
<1>0. budget.deaths \in Nat
  BY DEF Shape, GraphShape, AnyBudget
<1>1. CASE Crash
  <2>1. budget'.deaths = budget.deaths + 1
    BY <1>1 DEF Crash, Shape, GraphShape, AnyBudget
  <2>2. T'.pc = "idle" /\ \A c \in Call : call'[c].pc = "new"
    BY <1>1, NewOK DEF Crash, NoMemory, NewTool, T
  <2> QED
    BY <1>0, <2>1, <2>2 DEF FirstLife
<1>2. CASE ~Crash
  <2>0. /\ budget'.deaths = budget.deaths
        /\ UNCHANGED <<alive, me>> \/ (~alive[me] /\ alive'[me'])
    BY <1>2, LifeMoves
  <2>1. E!Held' /\ budget.deaths = 0 => lease'.pid = me
    <3>1. ASSUME NEW t \in Task, Grant(t), lease' # NoLease PROVE lease'.pid = me
      <4>1. io[t].op \in Ops
        BY <3>1, GrantCommits
      <4>2. CASE io[t].op = "checkout"
        BY <3>1, <4>2, GrantCommits DEF E!CheckedOut
      <4>3. CASE io[t].op # "checkout"
        <5>1. lease \in AnyLease /\ lease.pid = me
          BY <3>1, <4>3, GrantCommits
        <5>2. CASE io[t].op \in {"begin", "request"}
          BY <3>1, <5>1, <5>2, GrantCommits DEF AnyLease
        <5>3. CASE io[t].op \in {"settle", "checkpoint"}
          <6>1. lease' = E!CleanLease(io[t].revision, io[t].release)
            BY <3>1, <5>3, GrantCommits
          <6> QED
            BY <3>1, <5>1, <6>1 DEF E!CleanLease, AnyLease
        <5>4. CASE io[t].op = "release"
          BY <3>1, <5>4, GrantCommits
        <5> QED
          BY <4>1, <4>3, <5>2, <5>3, <5>4 DEF Ops
      <4> QED
        BY <4>2, <4>3
    <3>2. CASE ~(\E t \in Task : Grant(t))
      BY <1>2, <3>2, QuietFile DEF QuietStep, FirstLife, E!Held
    <3> QED
      BY <3>1, <3>2 DEF E!Held
  <2>2. ASSUME ~alive[me], UNCHANGED <<alive, me>> PROVE T'.pc = "idle"
    <3>1. ~(\E kind \in Kinds : Consume(kind))
      BY <2>2 DEF Consume
    <3> QED
      BY <1>2, <2>2, <3>1, ChangeToolMoves DEF FirstLife
  <2>3. ASSUME ~alive[me], UNCHANGED <<alive, me>>, NEW c \in Call PROVE call'[c].pc = "new"
    <3>0. \A d \in Call : call[d].pc = "new"
      BY <2>3 DEF FirstLife
    <3>1. ~(\E d \in Call : Guard(d) \/ CallStep(d))
      BY <2>3, <3>0 DEF Guard, CallStep, Execute, BeginReturns, MarkReturns, Enter, Leave, Record, MakeReceipt,
           WriteReceipt, PublishReceipt, Settle, SettleReturns, Converge
    <3>2. call' = call \/ call' = Aborted
      BY <1>2, <3>1, StepKinds, GrantCommits DEF Refuse, FailOperation, Rest, Beside
    <3> QED
      BY <3>0, <3>2, AbortedFacts DEF Shape
  <2> QED
    BY <2>0, <2>1, <2>2, <2>3 DEF FirstLife
<1> QED
  BY <1>1, <1>2

\* How a tool comes to write, and to publish, a change.
LEMMA ChangeWrites ==
  ASSUME Shape, ChangeStep, T'.pc \in {"written", "publish"}
  PROVE  /\ T'.kind = T.kind /\ T'.object = T.object
         /\ \/ T'.pc = "written" /\ T'.evidence = generation
            \/ /\ T.pc = "written" /\ T'.pc = "publish" /\ T'.evidence = T.evidence
               /\ E!AssertClaim(me, ChangeClaim) /\ UNCHANGED obj
<1> USE Tasks, ChangeOK
<1>0. T' = tool'[Change]
  BY DEF T
<1>1. ~ChangeEnds
  BY <1>0 DEF ChangeEnds, NewTool
<1>2. ASSUME NEW p, tool' = [tool EXCEPT ![Change].pc = p]
      PROVE  T'.pc = p /\ T'.kind = T.kind /\ T'.object = T.object /\ T'.evidence = T.evidence
  BY <1>0, <1>2 DEF AnyTool
<1>3. ~Abandon
  <2>1. Abandon => tool' = [tool EXCEPT ![Change].pc = "undoing"]
    BY <1>1 DEF Abandon
  <2> QED
    BY <1>2, <2>1
<1>4. ~(Reserve \/ PublishChange)
  <2>1. Reserve => tool' = [tool EXCEPT ![Change].pc = "reserving"]
    BY <1>1 DEF Reserve
  <2>2. PublishChange => tool' = [tool EXCEPT ![Change].pc = "published"]
    BY <1>3 DEF PublishChange
  <2> QED
    BY <1>2, <2>1, <2>2
<1>5. ~ReserveReturns
  <2>1. ReserveReturns => tool' = [tool EXCEPT ![Change].pc = "change", ![Change].seen = io[Change].snapshot]
    BY <1>1 DEF ReserveReturns
  <2>2. ReserveReturns => T'.pc = "change"
    BY <1>0, <2>1 DEF AnyTool
  <2> QED
    BY <2>2
<1>6. CASE WriteChange
  <2>1. tool' = [tool EXCEPT ![Change].pc = "written", ![Change].evidence = generation]
    BY <1>3, <1>6 DEF WriteChange
  <2> QED
    BY <1>0, <2>1 DEF AnyTool
<1>7. CASE CheckChange
  <2>1. /\ T.pc = "written" /\ tool' = [tool EXCEPT ![Change].pc = "publish"]
        /\ E!AssertClaim(me, ChangeClaim) /\ UNCHANGED obj
    BY <1>3, <1>7 DEF CheckChange
  <2> QED
    BY <1>2, <2>1
<1>9. ~(CheckedOut \/ PlanChanged \/ Undone)
  BY <1>1, <1>3 DEF CheckedOut, PlanChanged, Undone
<1>10. ~(CheckpointCommitted \/ CheckpointReturns \/ Reread \/ ConvergeChange)
  <2>1. ASSUME NEW s, NEW b, AskCheckpoint(s, b) PROVE FALSE
    <3>1. T'.pc = "closing"
      BY <1>0, <2>1 DEF AskCheckpoint, AnyTool
    <3> QED
      BY <3>1
  <2>2. ASSUME NEW s, Close(s) PROVE FALSE
    <3>1. \E o \in Free : tool' = [tool EXCEPT ![Change].pc = "converging", ![Change].object = o, ![Change].tries = 1]
      BY <1>1, <2>2 DEF Close
    <3>2. T'.pc = "converging"
      BY <1>0, <3>1 DEF AnyTool
    <3> QED
      BY <3>2
  <2>3. ~CheckpointCommitted
    BY <2>1 DEF CheckpointCommitted
  <2>4. ~CheckpointReturns
    BY <1>1, <1>2, <2>1, <2>2 DEF CheckpointReturns
  <2>5. ~Reread
    <3>1. Reread => \E b : tool' = [tool EXCEPT ![Change].pc = "closingRelease", ![Change].seen = Snapshot,
                                                ![Change].release = b]
      BY <1>1, <2>1, <2>2 DEF Reread
    <3>2. Reread => T'.pc = "closingRelease"
      BY <1>0, <3>1 DEF AnyTool
    <3> QED
      BY <3>2
  <2>6. ~ConvergeChange
    <3>1. ConvergeChange => T.pc = "converging" /\ tool' = [tool EXCEPT ![Change].tries = 2]
      BY <1>1 DEF ConvergeChange
    <3>2. ConvergeChange => T'.pc = "converging"
      BY <1>0, <3>1 DEF AnyTool
    <3> QED
      BY <3>2
  <2> QED
    BY <2>3, <2>4, <2>5, <2>6
<1> QED
  BY <1>4, <1>5, <1>6, <1>7, <1>9, <1>10 DEF ChangeStep

LEMMA MarkedStep ==
  ASSUME Shape, FenceInv, Coherent, Results, Running, Refreshing, Changing, LeaseFollowsGraph, Marked, [Next]_vars
  PROVE  Marked'
<1> USE Tasks
<1>1. ASSUME NEW t \in Task, Grant(t), NEW o \in Obj, Done(o)', io'[o].of = "request"
      PROVE  io'[o].snapshot.lease.releaseWhenClean
  <2>1. CASE t # o
    <3>1. io'[o] = io[o]
      BY <1>1, <2>1, GrantFacts DEF Task
    <3> QED
      BY <1>1, <3>1 DEF Marked, Done
  <2>2. CASE t = o
    <3>1. io[t].op = "request" /\ io'[t].snapshot.lease = lease'
      BY <1>1, <2>2, GrantFacts
    <3>2. lease \in AnyLease /\ lease' = [lease EXCEPT !.releaseWhenClean = TRUE]
      BY <1>1, <3>1, GrantCommits
    <3>3. lease'.releaseWhenClean
      BY <3>2 DEF AnyLease
    <3> QED
      BY <2>2, <3>1, <3>3
  <2> QED
    BY <2>1, <2>2
<1>2. CASE QuietStep
  <2>1. Effects
    BY <1>2, StepEffects DEF QuietStep
  <2>2. \A o \in Obj : Done(o)' => Done(o) /\ io'[o] = io[o]
    BY <2>1, HeardBefore DEF Task
  <2> QED
    BY <2>2 DEF Marked
<1>3. CASE Crash
  BY <1>3 DEF Crash, NoMemory, Marked, Done, None, Task
<1> QED
  BY <1>1, <1>2, <1>3 DEF QuietStep, Marked

\* What is granted in the first life and leaves a clean lease: the leaf of a
\* checkout, or the lease moved to where the graph is.
LEMMA CleanGrants ==
  ASSUME Shape, FenceInv, Coherent, Results, Settlings, Refreshing, Changing, LeaseFollowsGraph, FirstLife,
         budget.deaths = 0, NEW t \in Task, Grant(t), Clean'
  PROVE  \/ t = Change /\ T.pc = "reserving" /\ lease'.basis.graph = graph.revision + 1
         \/ /\ lease'.basis.graph = graph.revision /\ OnLeaf
            /\ \/ t \in Call /\ Active(t)
               \/ t = Change /\ T.pc = "closing"
               \/ t = Refresh /\ lease.basis.graph + 1 = graph.revision
<1> USE Tasks
<1>1. /\ io[t].op \in Ops /\ lease' # NoLease /\ lease'.basis.node = "leaf" /\ ~lease'.dirty /\ ~lease'.releaseWhenClean
      /\ lease # NoLease => lease \in AnyLease
  BY GrantCommits DEF Clean, OnLeaf, E!Held, Shape, FileShape
<1>2. CASE io[t].op = "begin"
  BY <1>1, <1>2, GrantLease
<1>3. CASE io[t].op = "request"
  <2>1. lease \in AnyLease /\ lease' = [lease EXCEPT !.releaseWhenClean = TRUE]
    BY <1>3, GrantCommits
  <2> QED
    BY <1>1, <2>1 DEF AnyLease
<1>4. CASE io[t].op = "release"
  BY <1>1, <1>4, GrantLease
<1>5. CASE io[t].op \in {"settle", "checkpoint"}
  <2>1. lease'.basis.graph = io[t].revision /\ OnLeaf
    <3>1. lease # NoLease /\ lease'.basis.graph = io[t].revision /\ lease'.basis.node = lease.basis.node
      BY <1>1, <1>5, GrantLease
    <3> QED
      BY <1>1, <3>1 DEF OnLeaf, E!Held
  <2>2. io[t].revision = graph.revision
    BY <1>5, <2>1, SettledOnGraph DEF OnLeaf
  <2>3. CASE t \in Call
    <3>1. call[t].pc = "settling"
      BY <1>5, <2>3 DEF Shape, Protocol, CallAsks, OpOf
    <3> QED
      BY <2>1, <2>2, <2>3, <3>1 DEF Active
  <2>4. CASE t = Refresh
    <3>1. Valid(t)
      BY <1>5, GrantLease
    <3> QED
      BY <1>5, <2>1, <2>2, <2>4, <3>1 DEF Refreshing
  <2>5. CASE t = Change
    <3>1. T.pc = "closing"
      BY <1>5, <2>5 DEF Shape, Protocol, OpOf
    <3> QED
      BY <2>1, <2>2, <2>5, <3>1
  <2>6. t \notin Obj
    BY <1>5 DEF Shape, Protocol, OpOf
  <2> QED
    BY <2>3, <2>4, <2>5, <2>6 DEF Task, Slot
<1>6. CASE io[t].op = "checkout"
  <2>1. io[t].expected = generation /\ lease'.basis = io[t].basis /\ (E!Held => E!TakeoverAllowed(me, io[t].basis))
    BY <1>6, GrantCommits, GrantLease
  <2>2. t # Refresh
    <3>1. t = Refresh => E!Held
      BY <1>6, <2>1 DEF Refreshing
    <3>2. E!Held => lease.pid = me
      BY DEF FirstLife
    <3> QED
      BY <2>1, <3>1, <3>2 DEF E!TakeoverAllowed, E!OwnerLiveness
  <2>3. t = Change /\ T.pc = "reserving"
    BY <1>6, <2>2 DEF Shape, Protocol, CallAsks, OpOf, Task, Slot
  <2>4. io[t].basis \in {Basis("fence", T.revision), Basis("leaf", graph.revision + 1)}
    BY <1>6, <2>1, <2>3 DEF Changing
  <2> QED
    BY <1>1, <2>1, <2>3, <2>4 DEF Basis
<1> QED
  BY <1>1, <1>2, <1>3, <1>4, <1>5, <1>6 DEF Ops

LEMMA GrantProvable ==
  ASSUME Shape, FenceInv, Coherent, Results, Settlings, Refreshing, Changing, LeaseFollowsGraph, FirstLife,
         Dying => Provable, NEW t \in Task, Grant(t), Dying
  PROVE  Provable'
<1>1. UNCHANGED graph /\ graph.revision \in Int
  BY GrantCommits DEF Shape, GraphShape, AnyGraph
<1>2. CASE budget.deaths = 0
  <2> SUFFICES ASSUME Clean' PROVE graph.revision # lease'.basis.graph + 1
    BY <1>1 DEF Provable
  <2> QED
    BY <1>1, <1>2, CleanGrants
<1>3. CASE ~alive[me]
  <2>1. UNCHANGED File
    BY <1>3, GrantCommits
  <2> QED
    BY <1>1, <1>3, <2>1 DEF File, Provable, Clean, OnLeaf, E!Held
<1> QED
  BY <1>2, <1>3 DEF Dying

LEMMA GrantDated ==
  ASSUME Shape, GraphInv, FenceInv, Coherent, Results, Settlings, Refreshing, Changing, LeaseFollowsGraph, FirstLife,
         Dated, NEW t \in Task, Grant(t), budget.deaths = 0
  PROVE  Dated'
<1> USE Tasks
<1>1. /\ UNCHANGED graph /\ graph.revision \in Int /\ T' = T /\ T.revision \in Int
      /\ \A o \in Obj : ~Fresh(o)'
  BY GrantFacts, ChangeOK DEF Shape, GraphShape, AnyGraph
<1>2. Checkpointing /\ T.pc = "written" => T.object \in Obj
  BY DEF Checkpointing, Shape, LiveObjects, LiveChange, Live, T
<1>3. ASSUME Checkpointing, Clean', T.pc = "publish" PROVE FALSE
  <2>1. \A c \in Call : ~Active(c)
    BY <1>3 DEF GraphInv, Sure
  <2>2. OnLeaf /\ lease.basis.graph + 1 = graph.revision
    BY <1>3, <2>1, CleanGrants
  <2>3. lease.basis.graph >= T.revision /\ T.revision = graph.revision
    BY <1>3, <2>2 DEF Changing, Ready, Plain, Checkpointing, Sure
  <2>4. lease.basis.graph \in Int
    BY <2>2 DEF OnLeaf, E!Held, Shape, FileShape, AnyLease, AnyBasis
  <2> QED
    BY <1>1, <2>2, <2>3, <2>4
<1>4. Checkpointing' <=> Checkpointing
  BY <1>1 DEF Checkpointing
<1> QED
  BY <1>1, <1>2, <1>3, <1>4 DEF Dated

LEMMA QuietDated ==
  ASSUME Shape, QuietStep, Effects, GraphInv, Coherent, Marked, Dated
  PROVE  Dated'
<1> USE Tasks
<1>0. generation' = generation /\ lease' = lease /\ generation \in Nat
  BY QuietFile DEF Shape, FileShape
<1>1. Clean' <=> Clean
  BY <1>0 DEF Clean, OnLeaf, E!Held
<1>2. CASE T' = T
  <2>1. Checkpointing' <=> Checkpointing
    BY <1>2 DEF Checkpointing
  <2>6. T.pc = "written" /\ T.epoch = epoch' => T.epoch = epoch
    BY <1>2, EpochBefore DEF QuietStep
  <2>2. ASSUME Checkpointing, Clean, T.pc = "written", T.epoch = epoch, NEW o \in Obj, o = T.object, Fresh(o)' PROVE Fresh(o)
    <3>1. /\ obj[o].durable.lease # NoLease
          /\ obj'[o].durable.lease # NoLease /\ obj'[o].durable.generation = generation
      BY <1>0, <2>2 DEF Fresh, Live, Shape, LiveObjects, LiveChange, T, Checkpointing
    <3>2. ASSUME NEW t \in Clients, Delivers(t, o) PROVE Fresh(o)
      <4>1. t = o
        <5>1. \A c \in Call : ~Active(c)
          BY <2>2 DEF GraphInv, Sure, Early
        <5> QED
          BY <3>2, <5>1 DEF Delivers, Concerns, Active
      <4>2. Done(o) /\ io[o].of = "request"
        BY <3>2, <4>1 DEF Delivers, Result, Done, Shape, Protocol, OpOf, IoShape, IoOK, Ops
      <4>3. io[o].snapshot.lease.releaseWhenClean
        BY <4>2 DEF Marked
      <4>4. Now(io[o].snapshot)
        BY <4>2 DEF Coherent, Task
      <4>5. io[o].snapshot.generation # generation \/ io[o].snapshot.lease = NoLease
        BY <2>2, <4>3, <4>4 DEF Now, Clean
      <4> QED
        BY <2>2, <3>1, <3>2, <4>1, <4>5 DEF Delivers, Fresh, Live
    <3>3. ~Made(o)
      <4>1. o \in Referenced
        BY <2>2 DEF Referenced, T, Slot
      <4> QED
        BY <4>1 DEF Made, Free
    <3>4. Same(o) => Fresh(o)
      BY <3>1 DEF Same, Fresh, Live
    <3> QED
      BY <3>2, <3>3, <3>4 DEF Effects, Moved
  <2>3. Checkpointing /\ T.pc = "written" => T.object \in Obj
    BY DEF Checkpointing, Shape, LiveObjects, LiveChange, Live, T
  <2>4. Fresh(T.object)' <=> \E o \in Obj : o = T.object /\ Fresh(o)'
    BY <1>2 DEF Fresh, Live
  <2>5. Checkpointing /\ Clean /\ T.pc = "written" /\ T.epoch = epoch /\ Fresh(T.object)' => Fresh(T.object)
    BY <2>2, <2>3, <2>4
  <2> QED
    BY <1>0, <1>1, <1>2, <2>1, <2>5, <2>6 DEF Dated
<1>3. CASE ChangeStep
  <2> SUFFICES ASSUME T'.pc \in {"written", "publish"}, Checkpointing', Clean PROVE T'.evidence >= generation
    BY <1>0, <1>1 DEF Dated
  <2>1. /\ Checkpointing
        /\ \/ T'.evidence = generation
           \/ T.pc = "written" /\ T.epoch = epoch /\ T'.evidence = T.evidence /\ E!AssertClaim(me, ChangeClaim)
    BY <1>3, ChangeWrites, ChangeOnward DEF Checkpointing, Early
  <2>2. ASSUME T.pc = "written", E!AssertClaim(me, ChangeClaim) PROVE Fresh(T.object)
    <3>1. Live(T.object)
      BY <2>1, <2>2 DEF Checkpointing, Shape, LiveObjects, LiveChange, T
    <3> QED
      BY <2>1, <2>2, <3>1 DEF E!AssertClaim, ChangeClaim, Claim, ClaimOf, Fresh
  <2> QED
    BY <1>0, <2>1, <2>2 DEF Dated
<1>4. ASSUME NEW kind \in Kinds, Consume(kind), T' # T PROVE Dated'
  BY <1>4, ConsumeMoves DEF Dated
<1> QED
  BY <1>2, <1>3, <1>4, ChangeToolMoves DEF QuietStep

LEMMA QuietProvable ==
  ASSUME Shape, QuietStep, FileInv, Attempts, FenceInv, Settlings, Changing, FirstLife,
         budget.deaths = 0 => Dated, Provable, Dying
  PROVE  Provable'
<1> USE Tasks
<1>0. /\ generation' = generation /\ lease' = lease /\ graph.revision \in Int
      /\ graph.evidence \subseteq graph'.evidence
      /\ T.revision \in Int
  BY QuietFile, GraphGrows, ChangeOK DEF QuietStep
<1>1. Clean' <=> Clean
  BY <1>0 DEF Clean, OnLeaf, E!Held
<1>2. Clean => lease.basis.graph \in Int
  BY DEF Clean, OnLeaf, E!Held, Shape, FileShape, AnyLease, AnyBasis
<1>3. CASE graph'.revision = graph.revision
  BY <1>0, <1>1, <1>3 DEF Provable
<1>4. ASSUME NEW c \in Call, call[c].pc = "publish" PROVE ~Clean
  <2>1. AttemptOf(c) = call[c].attempt /\ call[c].attempt # 0
    BY <1>4 DEF Settlings, AttemptOf
  <2>2. E!Held /\ lease.pending = call[c].attempt
    BY <1>4, <2>1, UnrecordedIsPending DEF Settled
  <2> QED
    BY <2>1, <2>2 DEF FileInv, Clean
<1>5. CASE PublishChange /\ graph'.revision # graph.revision
  <2> SUFFICES ASSUME Clean, graph'.revision = lease.basis.graph + 1
               PROVE  \E e \in graph'.evidence : e.revision = graph'.revision /\ e.at >= generation
    BY <1>0, <1>1 DEF Provable
  <2>1. T.pc = "publish" /\ T.revision = graph.revision
    BY <1>5 DEF PublishChange, Changing, Sure
  <2>2. Dated
    BY <2>1 DEF FirstLife, Dying
  <2>3. T.kind # "plan"
    BY <2>1 DEF FenceInv, FenceHeld, Holding, Holds, Clean, OnLeaf
  <2> DEFINE e == [at |-> T.evidence, revision |-> graph.revision + 1]
             done == IF T.kind = "complete" THEN graph.revision + 1 ELSE IF T.kind = "checkout" THEN 0 ELSE graph.done
             evidence == NewEvidence
  <2>4. \/ graph' = [graph EXCEPT !.writer = NoObj, !.revision = @ + 1, !.evidence = evidence, !.done = done]
        \/ graph' = [graph EXCEPT !.writer = NoObj]
    BY <1>5 DEF PublishChange, Shape, GraphShape, AnyGraph
  <2>5. Checkpointing => e \in evidence
    BY DEF NewEvidence
  <2>6. e.revision = graph.revision + 1 /\ e.at = T.evidence
    OBVIOUS
  <2> HIDE DEF done, evidence, e
  <2>7. graph'.revision = graph.revision + 1 /\ graph'.evidence = evidence
    BY <1>5, <2>4 DEF Shape, GraphShape, AnyGraph
  <2>8. Checkpointing
    <3>1. lease.basis.graph >= IF Plain THEN T.revision + 1 ELSE T.revision
      BY <2>1, <2>3 DEF Changing, Ready, Clean, Sure
    <3> QED
      BY <1>0, <1>2, <2>1, <2>3, <2>7, <3>1 DEF Plain
  <2>9. T.evidence >= generation
    BY <2>1, <2>2, <2>8 DEF Dated
  <2> QED
    BY <2>5, <2>6, <2>7, <2>8, <2>9
<1>6. CASE \E c \in Call : call[c].pc = "publish"
  BY <1>1, <1>4, <1>6 DEF Provable
<1> QED
  BY <1>3, <1>5, <1>6, RevisionMoves DEF QuietStep

\* A checkpoint that the first death interrupts is provable from the graph.
FirstDeath == FirstLife /\ Marked /\ (budget.deaths = 0 => Dated) /\ (Dying => Provable)

LEMMA FirstDeathStep ==
  ASSUME ~Overlap, Shape, FileInv, Attempts, GraphInv, FenceInv, Epochs, LeaseInv, FirstDeath, [Next]_vars
  PROVE  FirstDeath'
<1>1. /\ FirstLife /\ Marked
      /\ Coherent /\ Running /\ Results /\ Settlings /\ Refreshing /\ Changing /\ LeaseFollowsGraph
  BY DEF FirstDeath, LeaseInv
<1>2. FirstLife'
  BY <1>1, FirstLifeStep
<1>3. Marked'
  BY <1>1, MarkedStep
<1>4. CASE Crash
  <2>1. budget.deaths \in Nat /\ budget'.deaths = budget.deaths + 1 /\ alive[me]
    BY <1>4 DEF Crash, E!Crash, Shape, GraphShape, AnyBudget
  <2>2. Dying' => Provable
    BY <2>1 DEF FirstDeath, Dying
  <2>3. /\ generation' = generation /\ lease' = lease
        /\ graph'.revision = graph.revision /\ graph'.evidence = graph.evidence
    BY <1>4 DEF Crash, E!Crash, Shape, GraphShape, AnyGraph
  <2>4. Dying' => Provable'
    BY <2>2, <2>3 DEF Provable, Clean, OnLeaf, E!Held
  <2> QED
    BY <1>2, <1>3, <2>1, <2>4 DEF FirstDeath
<1>5. CASE ~Crash
  <2>0. /\ budget'.deaths = budget.deaths
        /\ UNCHANGED <<alive, me>> \/ (~alive[me] /\ alive'[me'])
    BY <1>5, LifeMoves
  <2>1. budget'.deaths = 0 => Dated'
    <3>1. ASSUME budget.deaths = 0 PROVE Dated'
      <4>1. CASE \E t \in Task : Grant(t)
        BY <1>1, <3>1, <4>1, GrantDated DEF FirstDeath
      <4>2. CASE QuietStep
        <5>1. Effects
          BY <1>1, <4>2, StepEffects DEF QuietStep
        <5> QED
          BY <1>1, <3>1, <4>2, <5>1, QuietDated DEF FirstDeath
      <4> QED
        BY <1>5, <4>1, <4>2 DEF QuietStep
    <3> QED
      BY <2>0, <3>1
  <2>2. ASSUME Dying' PROVE Provable'
    <3>1. Dying
      BY <2>0, <2>2 DEF Dying
    <3>2. CASE \E t \in Task : Grant(t)
      BY <1>1, <3>1, <3>2, GrantProvable DEF FirstDeath
    <3>3. CASE QuietStep
      <4>1. Provable
        BY <3>1 DEF FirstDeath
      <4> QED
        BY <1>1, <3>1, <3>3, <4>1, QuietProvable DEF FirstDeath
    <3> QED
      BY <1>5, <3>2, <3>3 DEF QuietStep
  <2> QED
    BY <1>2, <1>3, <2>1, <2>2 DEF FirstDeath
<1> QED
  BY <1>4, <1>5

LEMMA InitFirstDeath ==
  ASSUME Init
  PROVE  FirstDeath
<1> USE Tasks
<1>1. /\ graph.revision = 1 /\ me \in Process /\ alive[me] /\ T = NewTool
      /\ \A t \in Task : io[t] = None
  BY DEF Init, T
<1> DEFINE n == [leaseId |-> 1, owner |-> 0, basis |-> Basis("leaf", 1), dirty |-> FALSE,
                 releaseWhenClean |-> FALSE, pending |-> 0, legacy |-> FALSE, pid |-> me]
<1>2. lease = NoLease \/ lease = n
  BY DEF Init
<1>3. n.pid = me /\ n.basis.graph = 1
  BY DEF Basis
<1> HIDE DEF n
<1>5. NewTool.pc = "idle" /\ None.op = "none"
  BY DEF NewTool, None
<1>6. FirstLife
  BY <1>1, <1>2, <1>3 DEF FirstLife, E!Held
<1>7. Marked /\ Dated
  BY <1>1, <1>5 DEF Marked, Dated, Done, Task
<1>8. Provable
  BY <1>1, <1>2, <1>3 DEF Provable, Clean, OnLeaf, E!Held
<1> QED
  BY <1>6, <1>7, <1>8 DEF FirstDeath

\* What the first process that dies during a checkpoint leaves can be recovered:
\* evidence of the graph's last revision is as recent as the state file, however
\* often the process had failed to bring the file up to it (checkpointCommittedGraph,
\* restoreDurableLease); if no call is guarded between the last check of a change
\* and its rename.
THEOREM CheckpointRecovered == ~Overlap /\ Spec => []CheckpointIsRecoverable
<1> SUFFICES ASSUME ~Overlap PROVE Spec => []CheckpointIsRecoverable
  OBVIOUS
<1> DEFINE Inv == Shape /\ FileInv /\ Attempts /\ GraphInv /\ FenceInv /\ Epochs /\ LeaseInv /\ FirstDeath
<1>1. Init => Inv
  BY InitShape, InitAttempts, InitGraph, InitFence, InitEpochs, InitLease, InitFirstDeath
<1>2. Inv /\ [Next]_vars => Inv'
  BY ShapeStep, AttemptsStep, GraphStep, FenceStep, EpochsStep, LeaseStep, FirstDeathStep
<1>3. Inv => CheckpointIsRecoverable
  BY DEF FirstDeath, Dying, Provable, Clean, OnLeaf, CheckpointIsRecoverable, Shape, FileShape
<1> QED
  BY <1>1, <1>2, <1>3, PTL DEF Spec
-----------------------------------------------------------------------------
(* The bodies go through GuardedExecution: step by step, what Dispatch     *)
(* does to attempts, bodies and receipts is one of its actions or nothing. *)

Entered == {body.attempt : body \in ran}
\* The attempt of a call that has not come to its body has entered none.
Unentered ==
  \A c \in Call : call[c].pc \in PreBody => AttemptOf(c) \notin Entered
GuardedInv == Shape /\ FileInv /\ Attempts /\ Unentered /\ generation <= MaxGeneration

\* Whatever is no step of a call and no grant leaves attempts, bodies and receipts alone.
LEMMA AttemptsRest ==
  ASSUME Shape, [Next]_vars, ~\E t \in Task : Grant(t), ~\E c \in Call : CallStep(c)
  PROVE  /\ UNCHANGED <<generation, lease, settled, ran>> /\ graph'.receipts = graph.receipts
         /\ \A c \in Call : AttemptOf(c)' # 0 => call'[c].pc = call[c].pc /\ AttemptOf(c)' = AttemptOf(c)
<1>1. ASSUME NEW t \in Task, Refuse(t) \/ FailOperation(t)
      PROVE  /\ UNCHANGED <<generation, lease, settled, ran, graph, call>>
             /\ \A c \in Call : AttemptOf(c)' = AttemptOf(c)
  <2> DEFINE v == [op |-> "done", of |-> io[t].op, ok |-> FALSE]
  <2>1. /\ UNCHANGED <<generation, lease, settled, graph, call, ran>> /\ io' = [io EXCEPT ![t] = v]
        /\ DOMAIN io = Task /\ Asked(t)
    BY <1>1 DEF Refuse, FailOperation, File, Rest, Shape, IoShape
  <2>2. v.op = "done" /\ ~v.ok
    OBVIOUS
  <2> HIDE DEF v
  <2>3. io'[t].op = "done" /\ ~io'[t].ok /\ \A x \in Task : x # t => io'[x] = io[x]
    BY <2>1, <2>2
  <2> QED
    BY <2>1, <2>3, Tasks DEF AttemptOf, Asked
<1>2. ASSUME NEW d \in Call, Guard(d)
      PROVE  /\ UNCHANGED <<generation, lease, settled, ran, graph, io>>
             /\ \A c \in Call : AttemptOf(c)' # 0 => call'[c].pc = call[c].pc /\ AttemptOf(c)' = AttemptOf(c)
  <2>1. UNCHANGED <<generation, lease, settled, graph, ran, io>>
    BY <1>2 DEF Guard, File
  <2>2. PICK r \in AnyCall : call' = [Aborted EXCEPT ![d] = r] /\ r.attempt = 0 /\ r.pc # "begin"
    BY <1>2, GuardShape, NewOK
  <2>3. /\ \A c \in Call : c # d => call'[c].pc = call[c].pc /\ call'[c].attempt = call[c].attempt
        /\ call'[d] = r
    BY <2>2, AbortedFacts DEF Shape
  <2> QED
    BY <2>1, <2>2, <2>3 DEF AttemptOf
<1>3. CASE Crash
  BY <1>3, NewOK DEF Crash, NoMemory, E!Crash, Shape, GraphShape, AnyGraph, AttemptOf
<1>4. CASE Beside
  BY <1>4, AbortedFacts DEF Beside, AttemptOf, Shape
<1> QED
  BY <1>1, <1>2, <1>3, <1>4, StepKinds

LEMMA GenerationStep ==
  ASSUME Shape, generation <= MaxGeneration, [Next]_vars
  PROVE  generation' <= MaxGeneration
<1>1. ASSUME NEW t \in Task, Grant(t) PROVE generation' <= MaxGeneration
  <2>1. CASE UNCHANGED File
    BY <2>1 DEF File
  <2>2. CASE ~(UNCHANGED File)
    <3>1. generation < MaxGeneration /\ generation' = generation + 1
      BY <1>1, <2>2 DEF Grant, Operation, E!Checkout, E!BeginExecution, E!RequestReleaseWhenClean,
           E!SettleExecution, E!Checkpoint, E!Release, E!Commit
    <3> QED
      BY <3>1, DispatchBoundAssumption DEF Shape, FileShape
  <2> QED
    BY <2>1, <2>2
<1> QED
  BY <1>1, CallRecords, AttemptsRest

LEMMA UnenteredStep ==
  ASSUME GuardedInv, [Next]_vars
  PROVE  Unentered'
<1> USE DEF GuardedInv
<1>1. \A b \in ran : b.attempt \in BegunAttempts
  BY DEF Attempts
<1>2. ASSUME NEW t \in Task, Grant(t) PROVE Unentered'
  <2>1. /\ UNCHANGED <<call, ran>> /\ DOMAIN io = Task
        /\ io' = [io EXCEPT ![t] = [op |-> "done", of |-> io[t].op, ok |-> TRUE, snapshot |-> Snapshot']]
    BY <1>2, GrantCommits DEF Shape, IoShape
  <2>2. io'[t].snapshot.lease = lease' /\ \A x \in Task : x # t => io'[x] = io[x]
    BY <2>1 DEF Snapshot
  <2>3. Entered' = Entered /\ Entered \subseteq BegunAttempts
    BY <1>1, <2>1 DEF Entered
  <2>4. ASSUME NEW c \in Call, call'[c].pc \in PreBody PROVE AttemptOf(c)' \notin Entered'
    <3>1. CASE c # t \/ call[c].pc # "begin"
      BY <2>1, <2>2, <2>3, <2>4, <3>1, Tasks DEF AttemptOf, Unentered
    <3>2. CASE c = t /\ call[c].pc = "begin"
      <4>1. io[t].op = "begin"
        BY <1>2, <3>2, GrantCommits DEF Shape, Protocol, CallAsks, OpOf, Ops
      <4>2. lease'.pending = generation + 1 /\ generation + 1 \notin BegunAttempts
        BY <1>2, <4>1, FileGrant
      <4>3. AttemptOf(c)' \in {0, generation + 1}
        BY <2>1, <2>2, <3>2, <4>2 DEF AttemptOf
      <4>4. 0 \notin BegunAttempts
        BY DEF FileInv, BegunAttempts
      <4> QED
        BY <2>3, <4>2, <4>3, <4>4
    <3> QED
      BY <3>1, <3>2
  <2> QED
    BY <2>4 DEF Unentered
<1>3. ASSUME NEW d \in Call, CallStep(d) PROVE Unentered'
  <2>1. PICK r : Move(d, r)
    BY <1>3, CallStepShape
  <2>2. /\ \A c \in Call : c # d => call'[c] = call[c] /\ io'[c] = io[c]
        /\ call'[d] = r /\ r \in AnyCall
    BY <1>3, <2>1, CallRequests, Tasks DEF Move, Shape, CallShape, OnlyAsks
  <2>3. \A c \in Call : c # d => call'[c].pc = call[c].pc /\ AttemptOf(c)' = AttemptOf(c)
    BY <2>2 DEF AttemptOf
  <2>4. \/ call'[d].pc = "new" /\ AttemptOf(d)' = 0
        \/ Kept(d, r) /\ AttemptOf(d)' = AttemptOf(d)
    BY <2>1, <2>2, NewOK DEF Move, Kept, AttemptOf
  <2>5. CASE ran' = ran
    <3>1. call'[d].pc \in PreBody => AttemptOf(d)' = 0 \/ call[d].pc \in PreBody
      BY <2>2, <2>4 DEF Kept
    <3>2. 0 \notin Entered
      BY <1>1 DEF Entered, FileInv, BegunAttempts
    <3> QED
      BY <2>3, <2>4, <2>5, <3>1, <3>2 DEF Unentered, Entered
  <2>6. CASE ran' # ran
    <3>1. /\ call[d].pc = "enter"
          /\ ran' = ran \cup {[life |-> budget.crash, epoch |-> call[d].epoch, attempt |-> call[d].attempt]}
      BY <1>3, <2>6, CallRuns
    <3>2. Entered' = Entered \cup {AttemptOf(d)} /\ AttemptOf(d) # 0
      <4>1. AttemptOf(d) = call[d].attempt
        BY <3>1 DEF AttemptOf
      <4>2. AttemptOf(d) # 0
        BY <3>1 DEF Attempts
      <4>3. PICK n : n = [life |-> budget.crash, epoch |-> call[d].epoch, attempt |-> call[d].attempt]
        OBVIOUS
      <4>4. ran' = ran \cup {n} /\ n.attempt = AttemptOf(d)
        BY <3>1, <4>1, <4>3
      <4> QED
        BY <4>2, <4>4 DEF Entered
    <3>3. call'[d].pc \notin PreBody
      <4>1. Enter(d)
        BY <1>3, <3>1 DEF CallStep, Execute, BeginReturns, MarkReturns, Leave, Record, MakeReceipt, WriteReceipt,
                          PublishReceipt, Settle, SettleReturns, Converge
      <4> QED
        BY <4>1 DEF Enter, Shape, CallShape, AnyCall, PreBody
    <3>4. \A c \in Call : c # d => AttemptOf(c) # AttemptOf(d)
      BY <3>2 DEF Attempts
    <3> QED
      BY <2>3, <3>2, <3>3, <3>4 DEF Unentered
  <2> QED
    BY <2>5, <2>6
<1>4. CASE (~\E t \in Task : Grant(t)) /\ ~\E c \in Call : CallStep(c)
  <2>1. 0 \notin Entered
    BY <1>1 DEF Entered, FileInv, BegunAttempts
  <2>2. ran' = ran /\ \A c \in Call : AttemptOf(c)' # 0 => call'[c].pc = call[c].pc /\ AttemptOf(c)' = AttemptOf(c)
    BY <1>4, AttemptsRest
  <2> QED
    BY <2>1, <2>2 DEF Unentered, Entered
<1> QED
  BY <1>2, <1>3, <1>4

\* An attempt that was begun and is not recorded is the open one.
LEMMA UnrecordedIsOpen ==
  ASSUME GuardedInv, NEW a \in BegunAttempts, a \notin Recorded
  PROVE  E!OpenAttempts = {a} /\ a \in E!Generation
<1> USE DEF GuardedInv
<1>1. a \in E!OpenAttempts
  BY DEF FileInv, Attempts
<1>2. a \in 1..generation
  BY DEF FileInv, BegunAttempts
<1>3. a \in E!Generation
  BY <1>2, DispatchBoundAssumption DEF E!Generation, Shape, FileShape
<1>4. E!OpenAttempts = {a}
  BY <1>1 DEF E!OpenAttempts
<1> QED
  BY <1>3, <1>4

LEMMA GuardedGrant ==
  ASSUME GuardedInv, NEW t \in Task, Grant(t), generation' <= MaxGeneration
  PROVE  Guarded!Next \/ UNCHANGED Guarded!vars
<1> DEFINE r == io[t]
<1> USE DEF GuardedInv
<1>1. /\ r.op \in Ops /\ UNCHANGED <<graph, ran>>
      /\ r.op # "checkout" => lease # NoLease
      /\ (generation' = generation + 1) \/ r.op = "request"
      /\ r.op = "begin" => ~lease.dirty /\ UNCHANGED settled
      /\ r.op # "begin" => UNCHANGED begun
      /\ r.op = "settle" => lease.dirty /\ lease.pending = r.attempt /\ settled' = settled \cup {r.attempt}
      /\ r.op # "settle" => UNCHANGED settled
  BY GrantCommits DEF Ops, File
<1>2. /\ FileInv' /\ generation \in Nat
      /\ r.op = "begin" => /\ lease'.pending = generation + 1 /\ lease' # NoLease
                           /\ generation + 1 \notin BegunAttempts
  BY FileGrant DEF Shape, FileShape
<1>3. Entered' = Entered /\ Recorded' = Recorded
  BY <1>1 DEF Entered, Recorded
<1>4. CASE r.op = "begin"
  <2> DEFINE a == generation + 1
  <2>1. E!OpenAttempts = {} /\ settled' = settled
    BY <1>1, <1>4 DEF FileInv, E!OpenAttempts, E!Held, E!NoAttempt
  <2>2. E!OpenAttempts' = {a}
    BY <1>2, <1>4 DEF E!OpenAttempts, E!Held, E!NoAttempt
  <2>3. a \notin settled
    BY <1>2, <1>4 DEF Attempts
  <2>4. a \in E!Generation
    BY <1>1, <1>2, <1>4, DispatchBoundAssumption DEF E!Generation
  <2> HIDE DEF a
  <2>5. Guarded!Begin(a)
    BY <1>3, <2>1, <2>2, <2>3 DEF Guarded!Begin, Guarded!Ledger!Begin, Entered, Recorded
  <2>6. \E x \in E!Generation : Guarded!Begin(x)
    BY <2>4, <2>5
  <2> QED
    BY <2>6 DEF Guarded!Next
<1>5. CASE r.op = "settle"
  <2> DEFINE a == r.attempt
  <2>1. E!OpenAttempts = {a} /\ settled' = settled \cup {a}
    BY <1>1, <1>5 DEF FileInv, E!OpenAttempts, E!Held, E!NoAttempt
  <2>2. a \in Recorded
    BY <1>5 DEF Attempts
  <2>3. E!OpenAttempts' = {}
    BY <1>1, <1>2, <1>5, <2>1 DEF FileInv, BegunAttempts
  <2>4. a \in E!Generation
    <3>1. a \in BegunAttempts
      BY <2>2 DEF Attempts
    <3>2. a \in 1..generation
      BY <3>1 DEF FileInv, BegunAttempts
    <3> QED
      BY <1>2, <3>2, DispatchBoundAssumption DEF E!Generation
  <2> HIDE DEF a
  <2>5. Guarded!Settle(a)
    BY <1>3, <2>1, <2>2, <2>3 DEF Guarded!Settle, Guarded!Ledger!Settle, Entered, Recorded
  <2>6. \E x \in E!Generation : Guarded!Settle(x)
    BY <2>4, <2>5
  <2> QED
    BY <2>6 DEF Guarded!Next
<1>6. CASE r.op \notin {"begin", "settle"}
  <2>1. E!OpenAttempts' = E!OpenAttempts /\ settled' = settled
    BY <1>1, <1>2, <1>6 DEF FileInv, BegunAttempts
  <2> QED
    BY <1>3, <2>1 DEF Guarded!vars, Entered, Recorded
<1> QED
  BY <1>4, <1>5, <1>6

LEMMA GuardedCall ==
  ASSUME GuardedInv, NEW c \in Call, CallStep(c)
  PROVE  Guarded!Next \/ UNCHANGED Guarded!vars
<1>0. PICK a : a = call[c].attempt
  OBVIOUS
<1> USE DEF GuardedInv
<1>1. /\ E!OpenAttempts' = E!OpenAttempts /\ settled' = settled
      /\ \/ graph'.receipts = graph.receipts
         \/ /\ call[c].pc = "publish"
            /\ \E x : x.attempt = a /\ graph'.receipts = graph.receipts \cup {x}
  BY <1>0, CallRecords DEF E!OpenAttempts, E!Held
<1>2. call[c].pc \in {"enter", "publish"} =>
        /\ AttemptOf(c) = a /\ a \in BegunAttempts /\ a \notin Recorded
        /\ E!OpenAttempts = {a} /\ a \in E!Generation
  <2>1. SUFFICES ASSUME call[c].pc \in {"enter", "publish"}
                 PROVE  /\ AttemptOf(c) = a /\ a \in BegunAttempts /\ a \notin Recorded
    BY UnrecordedIsOpen
  <2> QED
    BY <1>0, <2>1 DEF Attempts, AttemptOf, Settled
<1>3. CASE ran' # ran
  <2>1. /\ call[c].pc = "enter"
        /\ ran' = ran \cup {[life |-> budget.crash, epoch |-> call[c].epoch, attempt |-> a]}
    BY <1>0, <1>3, CallRuns
  <2>2. Entered' = Entered \cup {a}
    <3>1. PICK n : n = [life |-> budget.crash, epoch |-> call[c].epoch, attempt |-> a]
      OBVIOUS
    <3>2. n.attempt = a
      BY <3>1
    <3> QED
      BY <2>1, <3>1, <3>2 DEF Entered
  <2>3. Recorded' = Recorded
    BY <1>1, <2>1 DEF Recorded
  <2>4. Entered \subseteq Recorded
    <3>1. SUFFICES ASSUME NEW b \in Entered, b \notin Recorded PROVE FALSE
      OBVIOUS
    <3>2. b \in BegunAttempts
      BY <3>1 DEF Attempts, Entered
    <3>3. b = a
      BY <1>2, <2>1, <3>1, <3>2, UnrecordedIsOpen
    <3> QED
      BY <1>2, <2>1, <3>1, <3>3 DEF Unentered, PreBody
  <2>5. Guarded!Enter(a)
    BY <1>1, <1>2, <2>1, <2>2, <2>3, <2>4 DEF Guarded!Enter, Entered, Recorded
  <2>6. a \in E!Generation
    BY <1>2, <2>1
  <2>7. \E x \in E!Generation : Guarded!Enter(x)
    BY <2>5, <2>6
  <2> QED
    BY <2>7 DEF Guarded!Next
<1>4. CASE ran' = ran /\ graph'.receipts # graph.receipts
  <2>1. call[c].pc = "publish" /\ Recorded' = Recorded \cup {a}
    BY <1>1, <1>4 DEF Recorded
  <2>2. Entered' = Entered
    BY <1>4 DEF Entered
  <2>3. Guarded!Record(a)
    BY <1>1, <1>2, <2>1, <2>2 DEF Guarded!Record, Entered, Recorded
  <2>4. a \in E!Generation
    BY <1>2, <2>1
  <2>5. \E x \in E!Generation : Guarded!Record(x)
    BY <2>3, <2>4
  <2> QED
    BY <2>5 DEF Guarded!Next
<1>5. CASE ran' = ran /\ graph'.receipts = graph.receipts
  BY <1>1, <1>5 DEF Guarded!vars
<1> QED
  BY <1>3, <1>4, <1>5

LEMMA GuardedStep ==
  ASSUME GuardedInv, [Next]_vars
  PROVE  [Guarded!Next]_Guarded!vars
<1>1. ASSUME NEW t \in Task, Grant(t) PROVE Guarded!Next \/ UNCHANGED Guarded!vars
  BY <1>1, GenerationStep, GuardedGrant DEF GuardedInv
<1>2. CASE (~\E t \in Task : Grant(t)) /\ ~\E c \in Call : CallStep(c)
  BY <1>2, AttemptsRest DEF GuardedInv, Guarded!vars, E!OpenAttempts, E!Held
<1> QED
  BY <1>1, <1>2, GuardedCall

\* Bodies, receipts and attempts of guarded tools go through GuardedExecution,
\* for every number of calls and lease objects, wherever a call
\* is guarded, across failed operations, takeovers, crashes and restarts.
THEOREM BodiesGuarded == Spec => BodiesAreGuarded
<1>1. Init => Guarded!Init /\ GuardedInv
  <2> SUFFICES ASSUME Init PROVE Guarded!Init /\ GuardedInv
    OBVIOUS
  <2>1. begun = {} /\ ran = {} /\ settled = {} /\ graph.receipts = {}
    BY DEF Init
  <2>2. Shape /\ FileInv /\ Attempts
    BY InitShape, InitAttempts
  <2>3. Unentered
    BY <2>1 DEF Unentered, Entered
  <2>4. generation <= MaxGeneration
    <3>1. generation \in {0, 1}
      BY DEF Init
    <3> QED
      BY <3>1, DispatchBoundAssumption
  <2>5. Guarded!Init
    <3>1. E!OpenAttempts = {}
      BY <2>1, <2>2 DEF FileInv, BegunAttempts
    <3> QED
      BY <2>1, <3>1 DEF Guarded!Init, Guarded!Ledger!Init
  <2> QED
    BY <2>2, <2>3, <2>4, <2>5 DEF GuardedInv
<1>2. GuardedInv /\ [Next]_vars => GuardedInv'
  BY ShapeStep, AttemptsStep, UnenteredStep, GenerationStep DEF GuardedInv
<1>3. GuardedInv /\ [Next]_vars => [Guarded!Next]_Guarded!vars
  BY GuardedStep
<1> QED
  BY <1>1, <1>2, <1>3, PTL DEF Spec, BodiesAreGuarded, Guarded!Spec
=============================================================================
