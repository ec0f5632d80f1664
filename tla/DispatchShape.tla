---------------------------- MODULE DispatchShape ----------------------------
(***************************************************************************)
(* What every proof about Dispatch needs first, for all values of its      *)
(* constants: the shapes of its state (Shape), and what a step does to the *)
(* parts that its action does not name.                                    *)
(*                                                                         *)
(* Shape is inductive alone.  It says what a request to the state file     *)
(* carries and which step of which task waits for it (Protocol), and that  *)
(* an object a task refers to was made for a lease (LiveObjects): so no    *)
(* claim is ever taken from a lease that is not there.                     *)
(*                                                                         *)
(* The lemmas at the end (CallRequests to StepKinds) reduce a step to six  *)
(* kinds, so that an invariant of the file, of the calls or of the graph   *)
(* is proved from few cases.                                               *)
(***************************************************************************)
EXTENDS Dispatch, TLAPS

\* The values the variables take, of whatever size.
SomeObj == Obj \cup {NoObj}
AnySnapshot == [generation : Nat, lease : AnyLease \cup {NoLease}]
AnyClaim == [leaseId : Nat, generation : Nat]
AnyAuth == [epoch : Int, revision : Int, shown : BOOLEAN]
CallPc == {"new", "prepared", "begin", "marking", "refused", "enter", "body", "record", "receipt",
           "write", "publish", "receipted", "settling", "converging"}
AnyCall == [pc : CallPc, epoch : Int, basis : AnyAuth, object : SomeObj, settling : SomeObj,
            attempt : Nat, admitting : BOOLEAN, aborted : BOOLEAN, release : BOOLEAN, tries : Int]
ToolPc == {"idle", "peeked", "waiting", "read", "takeover", "settling", "releasing", "restored",
           "change", "consumed", "reserving", "written", "publish", "published", "undoing", "closing",
           "closingRelease", "reread", "converging"}
AnyTool == [pc : ToolPc, kind : Kinds \cup {"none"}, epoch : Int, revision : Int, object : SomeObj,
            awaited : SomeObj, seen : AnySnapshot, exact : BOOLEAN, evidence : Int,
            release : BOOLEAN, tries : Int]
AnyObject == [durable : AnySnapshot, revision : Int, dirty : BOOLEAN, release : BOOLEAN,
              basis : AnyAuth, replaced : BOOLEAN, origin : Nat]
AnyReceipt == [attempt : Nat, release : BOOLEAN, revision : Int]
AnyGraph == [revision : Int, receipts : SUBSET AnyReceipt,
             evidence : SUBSET [at : Int, revision : Int], done : Int,
             writer : Call \cup {Change, NoObj}]
AnyBudget == [calls : Int, epochs : Int, revoke : Nat, crash : Nat, fail : Nat, deaths : Nat]

\* What a task asks for, or what came of it.
Ops == {"checkout", "begin", "request", "settle", "checkpoint", "release"}
OpOf(t) == IF io[t].op = "done" THEN io[t].of ELSE io[t].op
IoOK(r) ==
  /\ r.op \in Ops \cup {"none", "done"}
  /\ r.op = "done" => r.of \in Ops /\ r.ok \in BOOLEAN
  /\ r.op \in Ops \ {"checkout"} => r.claim \in AnyClaim
  /\ r.op = "checkout" => r.basis \in AnyBasis /\ r.expected \in Nat
  /\ r.op = "settle" => r.attempt \in Nat
  /\ r.op \in {"settle", "checkpoint"} => r.revision \in Int /\ r.release \in BOOLEAN
  /\ (r.op = "done" /\ r.ok) => /\ r.snapshot \in AnySnapshot
                                /\ r.of \in {"checkout", "begin", "request"} => r.snapshot.lease # NoLease

FileShape == generation \in Nat /\ lease \in AnyLease \cup {NoLease}
             /\ alive \in [Process -> BOOLEAN] /\ me \in Process
GraphShape == graph \in AnyGraph /\ budget \in AnyBudget
MemoryShape ==
  /\ epoch \in Nat /\ auth \in AnyAuth /\ leases \in SomeObj /\ begins \in SomeObj /\ latest \in SomeObj
  /\ releases \in [Obj -> [running : BOOLEAN, ok : BOOLEAN]]
ObjShape == obj \in [Obj -> AnyObject]
CallShape == call \in [Call -> AnyCall]
ToolShape == tool \in [Slot -> AnyTool]
IoShape == DOMAIN io = Task /\ \A t \in Task : IoOK(io[t])

\* Who may be waiting for which operation.
CallAsks(c) == \/ OpOf(c) = "none"
               \/ OpOf(c) = "begin" /\ call[c].pc = "begin"
               \/ OpOf(c) = "settle" /\ call[c].pc = "settling"
Protocol ==
  /\ \A c \in Call : CallAsks(c)
  /\ \A o \in Obj : OpOf(o) \in {"none", "request", "release"}
  /\ \/ OpOf(Refresh) = "none"
     \/ OpOf(Refresh) = "checkout" /\ R.pc = "takeover"
     \/ OpOf(Refresh) \in {"settle", "checkpoint"} /\ R.pc = "settling"
     \/ OpOf(Refresh) = "release" /\ R.pc = "releasing"
  /\ \/ OpOf(Change) = "none"
     \/ OpOf(Change) = "checkout" /\ T.pc = "reserving"
     \/ OpOf(Change) = "checkpoint" /\ T.pc = "closing"
     \/ OpOf(Change) = "release" /\ T.pc \in {"undoing", "closingRelease"}

\* An object a task refers to was made for a lease.
Live(o) == o \in Obj /\ obj[o].durable.lease # NoLease
LiveCall(r) ==
  /\ r.object # NoObj => Live(r.object)
  /\ r.settling # NoObj => Live(r.settling)
  /\ (r.pc \in {"begin", "marking", "refused"} \/ r.admitting) => r.object # NoObj
  /\ r.pc \in {"receipt", "write", "publish", "receipted", "settling", "converging"} => r.settling # NoObj
LiveChange(r) ==
  /\ r.object # NoObj => Live(r.object)
  /\ r.pc \in {"consumed", "reserving"} => r.kind \notin {"checkpoint", "complete"}
  /\ (r.pc \in {"change", "written", "publish", "published", "undoing"}
        /\ r.kind \notin {"checkpoint", "complete"}) => r.seen.lease # NoLease
  /\ (r.pc \in {"change", "written", "publish", "published", "closing", "closingRelease", "reread"}
        /\ r.kind \in {"checkpoint", "complete"}) => r.object # NoObj
  /\ r.pc \in {"closing", "closingRelease", "reread"} =>
       r.seen.lease # NoLease /\ r.kind \in {"checkpoint", "complete"}
  /\ r.pc = "converging" => r.object # NoObj
LiveObjects ==
  /\ leases # NoObj => Live(leases)
  /\ \A c \in Call : LiveCall(call[c])
  /\ LiveChange(tool[Change])
StillLive == \A o \in Obj : Live(o) => Live(o)'

Shape == FileShape /\ GraphShape /\ MemoryShape /\ ObjShape /\ CallShape /\ ToolShape /\ IoShape
         /\ Protocol /\ LiveObjects
-----------------------------------------------------------------------------
(* How a call moves.                                                       *)

\* The attempt of a call, also while the call has not seen it yet.
AttemptOf(c) == IF call[c].pc = "begin" /\ io[c].op = "done" /\ io[c].ok
                THEN io[c].snapshot.lease.pending ELSE call[c].attempt

PreBody == {"prepared", "begin", "marking", "refused", "enter"}
Settled == {"receipted", "settling", "converging"}

\* A step of a call ends it, or makes it record r, which goes on with the epoch,
\* the basis and the attempt of the call.
Kept(c, r) ==
  /\ r.epoch = call[c].epoch /\ r.basis = call[c].basis /\ r.aborted = call[c].aborted
  /\ r.attempt = AttemptOf(c)
  /\ r.pc # "new"
  /\ call[c].pc # "new"
  /\ r.pc \in PreBody => call[c].pc \in PreBody
  /\ r.pc = "body" => call[c].pc = "enter"
  /\ r.pc \in {"marking", "enter"} =>
       call[c].pc = "marking" \/ (call[c].pc = "begin" /\ io[c].op = "done" /\ io[c].ok)
  /\ r.pc = "write" => r.attempt # 0
  /\ r.pc = "publish" => call[c].pc = "write"
  /\ r.pc \in Settled => call[c].pc \in Settled \cup {"publish"}
  /\ call[c].pc \in Settled => r.pc \in Settled
  /\ r.pc = "begin" => io'[c].op = "begin"
Move(c, r) ==
  /\ r \in AnyCall
  /\ call' = [call EXCEPT ![c] = r]
  /\ r = NewCall \/ Kept(c, r)
  /\ LiveCall(r)
-----------------------------------------------------------------------------
LEMMA NewOK ==
  /\ NewCall \in AnyCall /\ NoAuth \in AnyAuth /\ NewTool \in AnyTool /\ NoSnapshot \in AnySnapshot
  /\ NoObject \in AnyObject /\ IoOK(None)
  /\ NewCall.pc = "new" /\ NewCall.attempt = 0 /\ NewCall.object = NoObj /\ NewCall.settling = NoObj
  /\ ~NewCall.admitting
<1>1. NoAuth \in AnyAuth
  BY DEF NoAuth, AnyAuth
<1>2. NewCall \in AnyCall
  BY <1>1 DEF NewCall, AnyCall, CallPc, SomeObj
<1>3. NoSnapshot \in AnySnapshot
  BY DEF NoSnapshot, AnySnapshot
<1>4. NewTool \in AnyTool
  BY <1>3 DEF NewTool, AnyTool, SomeObj, ToolPc
<1>5. NoObject \in AnyObject
  BY <1>1, <1>3 DEF NoObject, AnyObject
<1>6. IoOK(None)
  BY DEF IoOK, None, Ops
<1>7. /\ NewCall.pc = "new" /\ NewCall.attempt = 0 /\ NewCall.object = NoObj /\ NewCall.settling = NoObj
      /\ ~NewCall.admitting
  BY DEF NewCall
<1> QED
  BY <1>1, <1>2, <1>3, <1>4, <1>5, <1>6, <1>7

LEMMA Tasks ==
  /\ NoObj \notin Obj
  /\ \A c \in Call : c \notin Obj /\ c # Refresh /\ c # Change /\ c \in Task
  /\ \A o \in Obj : o # Refresh /\ o # Change /\ o \in Task
  /\ Refresh # Change /\ Refresh \in Task /\ Change \in Task /\ Refresh \in Slot /\ Change \in Slot
BY TaskAssumption DEF Task, Slot

LEMMA RequestOK ==
  ASSUME NEW object \in AnyObject, object.durable.lease # NoLease
  PROVE  IoOK(ReleaseRequest(object)) /\ ReleaseRequest(object).op \in {"none", "request", "release"}
<1>1. ClaimOf(object.durable) \in AnyClaim
  BY DEF ClaimOf, AnyClaim, AnyObject, AnySnapshot, AnyLease
<1>2. CASE ~object.durable.lease.releaseWhenClean
  BY <1>1, <1>2 DEF ReleaseRequest, IoOK, Ops
<1>3. CASE object.durable.lease.releaseWhenClean
  BY <1>1, <1>3 DEF ReleaseRequest, IoOK, Ops, None
<1> QED
  BY <1>2, <1>3

LEMMA ScheduleFacts ==
  ASSUME NEW current \in SomeObj, NEW o \in Obj, NEW objects \in [Obj -> AnyObject], NEW requests,
         DOMAIN requests = Task, \A t \in Task : IoOK(requests[t]), MemoryShape,
         objects[o].durable.lease # NoLease, Schedule(current, o, objects, requests)
  PROVE  /\ obj' \in [Obj -> AnyObject]
         /\ \A x \in Obj : /\ obj'[x].durable = objects[x].durable /\ obj'[x].dirty = objects[x].dirty
                           /\ obj'[x].revision = objects[x].revision /\ obj'[x].origin = objects[x].origin
         /\ DOMAIN io' = Task
         /\ \A t \in Task : IoOK(io'[t]) /\ (t # o => io'[t] = requests[t])
         /\ io'[o] \in {requests[o], ReleaseRequest(objects[o])}
         /\ releases' \in [Obj -> [running : BOOLEAN, ok : BOOLEAN]] /\ latest' \in SomeObj
<1>1. IoOK(ReleaseRequest(objects[o]))
  BY RequestOK
<1>2. o \in Task
  BY Tasks
<1>3. obj' = objects \/ obj' = [objects EXCEPT ![o].release = TRUE]
  BY DEF Schedule
<1>4. io' = requests \/ io' = [requests EXCEPT ![o] = ReleaseRequest(objects[o])]
  BY DEF Schedule
<1>5. obj' \in [Obj -> AnyObject]
      /\ \A x \in Obj : /\ obj'[x].durable = objects[x].durable /\ obj'[x].dirty = objects[x].dirty
                        /\ obj'[x].revision = objects[x].revision /\ obj'[x].origin = objects[x].origin
  <2>1. CASE obj' = objects
    BY <2>1
  <2>2. CASE obj' = [objects EXCEPT ![o].release = TRUE]
    <3> DEFINE n == [objects[o] EXCEPT !.release = TRUE]
    <3>1. /\ n \in AnyObject /\ n.durable = objects[o].durable /\ n.dirty = objects[o].dirty
          /\ n.revision = objects[o].revision /\ n.origin = objects[o].origin
      BY DEF AnyObject
    <3>2. obj' = [objects EXCEPT ![o] = n]
      BY <2>2
    <3> QED
      BY <3>1, <3>2
  <2> QED
    BY <1>3, <2>1, <2>2
<1>6. DOMAIN io' = Task /\ (\A t \in Task : IoOK(io'[t]) /\ (t # o => io'[t] = requests[t]))
      /\ io'[o] \in {requests[o], ReleaseRequest(objects[o])}
  <2>1. CASE io' = requests
    BY <1>1, <2>1
  <2>2. CASE io' = [requests EXCEPT ![o] = ReleaseRequest(objects[o])]
    <3>1. DOMAIN io' = Task
      BY <2>2
    <3>2. \A t \in Task : t # o => io'[t] = requests[t]
      BY <2>2
    <3>3. io'[o] = ReleaseRequest(objects[o])
      BY <2>2, <1>2
    <3>4. \A t \in Task : IoOK(io'[t])
      BY <3>2, <3>3, <1>1
    <3> QED
      BY <3>1, <3>2, <3>3, <3>4
  <2> QED
    BY <1>4, <2>1, <2>2
<1>7. releases' \in [Obj -> [running : BOOLEAN, ok : BOOLEAN]] /\ latest' \in SomeObj
  <2>1. \/ releases' = releases
        \/ releases' = [releases EXCEPT ![o] = [running |-> ReleaseRequest(objects[o]) # None, ok |-> TRUE]]
    BY DEF Schedule
  <2>3. [running |-> ReleaseRequest(objects[o]) # None, ok |-> TRUE] \in [running : BOOLEAN, ok : BOOLEAN]
    OBVIOUS
  <2>2. latest' = latest \/ latest' = o
    BY DEF Schedule
  <2> QED
    BY <2>1, <2>2, <2>3 DEF MemoryShape, SomeObj
<1> QED
  BY <1>5, <1>6, <1>7

LEMMA EndMoves ==
  ASSUME MemoryShape, NEW c \in Call, End(c)
  PROVE  Move(c, NewCall) /\ begins' \in SomeObj
<1>1. LiveCall(NewCall)
  BY NewOK DEF LiveCall
<1> QED
  BY <1>1, NewOK DEF End, Move, BeginsWithout, MemoryShape, SomeObj

\* A call goes on to another place.
LEMMA GoesOn ==
  ASSUME CallShape, NEW c \in Call, NEW p \in CallPc
  PROVE  LET r == [call[c] EXCEPT !.pc = p]
         IN /\ r \in AnyCall /\ r.pc = p /\ r.epoch = call[c].epoch /\ r.basis = call[c].basis
            /\ r.aborted = call[c].aborted /\ r.attempt = call[c].attempt
            /\ r.object = call[c].object /\ r.settling = call[c].settling /\ r.admitting = call[c].admitting
            /\ [call EXCEPT ![c].pc = p] = [call EXCEPT ![c] = r]
BY DEF CallShape, AnyCall

LEMMA MoveRecord ==
  ASSUME CallShape, MemoryShape, LiveObjects, NEW c \in Call, Record(c)
  PROVE  \E r : Move(c, r)
<1>1. CASE End(c)
  BY <1>1, EndMoves
<1>2. CASE leases # NoObj /\ obj[leases].dirty
  <2> DEFINE r == [call[c] EXCEPT !.pc = "receipt", !.settling = leases]
  <2>1. r \in AnyCall /\ call' = [call EXCEPT ![c] = r]
    BY <1>2 DEF CallShape, AnyCall, Record, CallPc, MemoryShape
  <2>2. Kept(c, r)
    BY DEF Kept, CallShape, AnyCall, Record, PreBody, Settled, AttemptOf
  <2>3. LiveCall(r)
    BY <1>2 DEF LiveCall, CallShape, AnyCall, LiveObjects, Record
  <2> QED
    BY <2>1, <2>2, <2>3 DEF Move
<1> QED
  BY <1>1, <1>2 DEF Record

LEMMA MoveMakeReceipt ==
  ASSUME CallShape, MemoryShape, LiveObjects, NEW c \in Call, MakeReceipt(c)
  PROVE  \E r : Move(c, r)
<1>1. CASE End(c)
  BY <1>1, EndMoves
<1>2. CASE call[c].attempt # 0 /\ ~End(c)
  <2> DEFINE q == ReleaseAsked(call[c].settling)
             r == [call[c] EXCEPT !.pc = "write", !.release = q]
  <2>0. q \in BOOLEAN
    BY DEF ReleaseAsked
  <2>1. r \in AnyCall /\ call' = [call EXCEPT ![c] = r]
    BY <1>2, <2>0 DEF CallShape, AnyCall, MakeReceipt, CallPc
  <2>2. Kept(c, r)
    BY <1>2 DEF Kept, CallShape, AnyCall, MakeReceipt, PreBody, Settled, AttemptOf
  <2>3. LiveCall(r)
    BY <1>2 DEF LiveCall, CallShape, AnyCall, LiveObjects, MakeReceipt
  <2> QED
    BY <2>1, <2>2, <2>3 DEF Move
<1> QED
  BY <1>1, <1>2 DEF MakeReceipt

LEMMA MoveSimple ==
  ASSUME CallShape, MemoryShape, LiveObjects, NEW c \in Call,
         Enter(c) \/ Leave(c) \/ WriteReceipt(c) \/ PublishReceipt(c)
  PROVE  \E r : Move(c, r)
<1>1. CASE End(c)
  BY <1>1, EndMoves
<1>2. ASSUME NEW p \in CallPc, call' = [call EXCEPT ![c].pc = p], <<call[c].pc, p>> \in {<<"enter", "body">>, <<"enter", "record">>, <<"body", "record">>, <<"write", "publish">>, <<"publish", "receipted">>}
      PROVE  Move(c, [call[c] EXCEPT !.pc = p])
  <2> DEFINE r == [call[c] EXCEPT !.pc = p]
  <2>1. /\ r \in AnyCall /\ r.pc = p /\ r.epoch = call[c].epoch /\ r.basis = call[c].basis
        /\ r.aborted = call[c].aborted /\ r.attempt = call[c].attempt
        /\ r.object = call[c].object /\ r.settling = call[c].settling /\ r.admitting = call[c].admitting
        /\ call' = [call EXCEPT ![c] = r]
    BY <1>2, GoesOn
  <2> HIDE DEF r
  <2>2. Kept(c, r)
    BY <1>2, <2>1 DEF Kept, PreBody, Settled, AttemptOf
  <2>3. LiveCall(r)
    BY <1>2, <2>1 DEF LiveCall, LiveObjects
  <2> QED
    BY <2>1, <2>2, <2>3 DEF Move, r
<1>3. \/ End(c)
      \/ \E p \in CallPc : /\ call' = [call EXCEPT ![c].pc = p]
                           /\ <<call[c].pc, p>> \in {<<"enter", "body">>, <<"enter", "record">>, <<"body", "record">>, <<"write", "publish">>, <<"publish", "receipted">>}
  BY DEF Enter, Leave, WriteReceipt, PublishReceipt, ReceiptLost, CallPc
<1> QED
  BY <1>1, <1>2, <1>3

\* What the other tasks ask stays, but for releases that are scheduled.
AsksAlone(c) ==
  /\ IoShape'
  /\ \A t \in Task : t # c /\ t \notin Obj => io'[t] = io[t]
  /\ \A o \in Obj : OpOf(o)' \in {"none", "request", "release"}

LEMMA CallProtocol ==
  ASSUME Protocol, NEW c \in Call, NEW r, Move(c, r), CallShape, UNCHANGED tool, AsksAlone(c),
         \/ OpOf(c)' = "none"
         \/ OpOf(c)' = "begin" /\ r.pc = "begin"
         \/ OpOf(c)' = "settle" /\ r.pc = "settling"
  PROVE  Protocol'
<1>1. ASSUME NEW d \in Call PROVE CallAsks(d)'
  <2>1. CASE d = c
    BY <2>1 DEF CallAsks, Move, CallShape
  <2>2. CASE d # c
    BY <2>2, Tasks DEF CallAsks, Move, CallShape, Protocol, AsksAlone, OpOf
  <2> QED
    BY <2>1, <2>2
<1>2. OpOf(Refresh)' = OpOf(Refresh) /\ OpOf(Change)' = OpOf(Change)
  BY Tasks DEF AsksAlone, OpOf
<1>3. R' = R /\ T' = T
  BY DEF R, T
<1> QED
  BY <1>1, <1>2, <1>3 DEF Protocol, AsksAlone

LEMMA OneRequest ==
  ASSUME IoShape, Protocol, NEW c \in Call \cup Slot, NEW v, IoOK(v), io' = [io EXCEPT ![c] = v]
  PROVE  AsksAlone(c) /\ io'[c] = v
<1>1. c \in Task /\ \A o \in Obj : o # c /\ o \in Task
  BY Tasks DEF Slot
<1>2. io'[c] = v
  BY <1>1 DEF IoShape
<1>3. \A t \in Task : t # c => io'[t] = io[t]
  BY DEF IoShape
<1>4. DOMAIN io' = Task
  BY DEF IoShape
<1>5. \A o \in Obj : OpOf(o)' = OpOf(o)
  BY <1>1, <1>3 DEF OpOf
<1> QED
  BY <1>2, <1>3, <1>4, <1>5 DEF AsksAlone, IoShape, Protocol

LEMMA NoRequest ==
  ASSUME IoShape, Protocol, NEW c \in Call \cup Slot, UNCHANGED io
  PROVE  AsksAlone(c)
<1>1. \A o \in Obj : OpOf(o)' = OpOf(o)
  BY DEF OpOf
<1> QED
  BY <1>1 DEF AsksAlone, IoShape, Protocol

LEMMA ClaimOK ==
  ASSUME ObjShape, NEW o, Live(o)
  PROVE  Claim(o) \in AnyClaim
BY DEF Claim, ClaimOf, AnyClaim, ObjShape, Live, AnyObject, AnySnapshot, AnyLease

LEMMA MoveExecute ==
  ASSUME Shape, NEW c \in Call, Execute(c)
  PROVE  (\E r : Move(c, r)) /\ IoShape' /\ Protocol' /\ MemoryShape'
<1> USE DEF Shape
<1>1. CASE ~Revalidated(c)
  <2>1. Move(c, NewCall) /\ UNCHANGED <<io, begins, tool>>
    BY <1>1, NewOK DEF Execute, Move, LiveCall
  <2>2. AsksAlone(c) /\ OpOf(c)' = "none"
    BY <2>1, NoRequest DEF Execute, Protocol, CallAsks, OpOf
  <2> QED
    BY <2>1, <2>2, CallProtocol DEF Execute, AsksAlone, MemoryShape
<1>2. CASE Revalidated(c)
  <2> DEFINE r == [call[c] EXCEPT !.pc = "begin", !.object = leases]
             v == [op |-> "begin", claim |-> Claim(leases)]
  <2>1. leases # NoObj /\ Live(leases) /\ call[c].pc = "prepared" /\ leases \in SomeObj
    BY <1>2 DEF Execute, Revalidated, LiveObjects, MemoryShape
  <2>2. /\ r \in AnyCall /\ r.pc = "begin" /\ r.epoch = call[c].epoch /\ r.basis = call[c].basis
        /\ r.aborted = call[c].aborted /\ r.attempt = call[c].attempt
        /\ r.object = leases /\ r.settling = call[c].settling /\ r.admitting = call[c].admitting
        /\ call' = [call EXCEPT ![c] = r]
    BY <1>2, <2>1 DEF Execute, CallShape, AnyCall, CallPc
  <2>3. io' = [io EXCEPT ![c] = v] /\ begins' = leases /\ UNCHANGED tool
    BY <1>2 DEF Execute
  <2>4. IoOK(v)
    BY <2>1, ClaimOK DEF IoOK, Ops
  <2>5. AsksAlone(c) /\ io'[c] = v
    BY <2>3, <2>4, OneRequest
  <2> HIDE DEF r
  <2>6. Kept(c, r) /\ LiveCall(r)
    BY <2>1, <2>2, <2>5 DEF Kept, PreBody, Settled, AttemptOf, LiveCall, LiveObjects
  <2>7. Move(c, r)
    BY <2>2, <2>6 DEF Move
  <2>8. OpOf(c)' = "begin"
    BY <2>5 DEF OpOf
  <2>9. Protocol'
    BY <2>2, <2>3, <2>5, <2>7, <2>8, CallProtocol
  <2> QED
    BY <2>1, <2>3, <2>5, <2>7, <2>9 DEF Execute, MemoryShape, AsksAlone
<1> QED
  BY <1>1, <1>2

\* scheduleLeaseRelease in a step of another task.
LEMMA ScheduledBeside ==
  ASSUME Shape, NEW c \in Call \cup Slot, NEW o \in Obj, NEW objects \in [Obj -> AnyObject],
         NEW current \in SomeObj,
         Schedule(current, o, objects, [io EXCEPT ![c] = None]) \/ Schedule(current, o, objects, io),
         \A x \in Obj : Live(x) => objects[x].durable.lease # NoLease, objects[o].durable.lease # NoLease
  PROVE  /\ AsksAlone(c) /\ ObjShape' /\ StillLive /\ io'[c] \in {None, io[c]}
         /\ OpOf(c)' \in {"none", OpOf(c)}
         /\ Schedule(current, o, objects, [io EXCEPT ![c] = None]) => OpOf(c)' = "none"
         /\ \A x \in Obj : obj'[x].durable = objects[x].durable
         /\ releases' \in [Obj -> [running : BOOLEAN, ok : BOOLEAN]] /\ latest' \in SomeObj
<1>2. c \in Task /\ o # c /\ o \in Task /\ \A x \in Obj : x # c /\ x \in Task
  BY Tasks DEF Slot
<1>0. ASSUME NEW requests, Schedule(current, o, objects, requests),
             requests = [io EXCEPT ![c] = None] \/ requests = io
      PROVE  /\ AsksAlone(c) /\ ObjShape' /\ StillLive
             /\ io'[c] = requests[c] /\ requests[c] \in {None, io[c]}
             /\ \A x \in Obj : obj'[x].durable = objects[x].durable
             /\ releases' \in [Obj -> [running : BOOLEAN, ok : BOOLEAN]] /\ latest' \in SomeObj
  <2>3. /\ DOMAIN requests = Task
        /\ \A t \in Task : t # c => requests[t] = io[t]
    BY <1>0, <1>2 DEF Shape, IoShape
  <2>4. requests[c] = None \/ requests[c] = io[c]
    BY <1>0, <1>2 DEF Shape, IoShape
  <2>5. \A t \in Task : IoOK(requests[t])
    BY <1>2, <2>3, <2>4, NewOK DEF Shape, IoShape
  <2>6. /\ obj' \in [Obj -> AnyObject]
        /\ \A x \in Obj : obj'[x].durable = objects[x].durable
        /\ DOMAIN io' = Task
        /\ \A t \in Task : IoOK(io'[t]) /\ (t # o => io'[t] = requests[t])
        /\ io'[o] \in {requests[o], ReleaseRequest(objects[o])}
        /\ releases' \in [Obj -> [running : BOOLEAN, ok : BOOLEAN]] /\ latest' \in SomeObj
    BY <1>0, <2>3, <2>5, ScheduleFacts DEF Shape
  <2>8. ReleaseRequest(objects[o]).op \in {"none", "request", "release"}
    BY RequestOK
  <2>9. \A x \in Obj : OpOf(x)' \in {"none", "request", "release"}
    <3>1. ASSUME NEW x \in Obj, x # o PROVE OpOf(x)' = OpOf(x)
      BY <1>2, <2>3, <2>6, <3>1 DEF OpOf
    <3>2. OpOf(o)' = OpOf(o) \/ OpOf(o)' = ReleaseRequest(objects[o]).op
      BY <1>2, <2>3, <2>6, <2>8 DEF OpOf
    <3> QED
      BY <3>1, <3>2, <2>8 DEF Shape, Protocol
  <2>10. AsksAlone(c)
    BY <1>2, <2>3, <2>6, <2>9 DEF AsksAlone, IoShape
  <2>11. ObjShape' /\ StillLive
    BY <2>6 DEF ObjShape, StillLive, Live
  <2> QED
    BY <1>2, <2>4, <2>6, <2>10, <2>11
<1>1. [io EXCEPT ![c] = None][c] = None
  BY <1>2 DEF Shape, IoShape
<1>3. io'[c] = None => OpOf(c)' = "none"
  BY DEF OpOf, None
<1>4. io'[c] = io[c] => OpOf(c)' = OpOf(c)
  BY DEF OpOf
<1>5. CASE Schedule(current, o, objects, [io EXCEPT ![c] = None])
  BY <1>0, <1>1, <1>3, <1>5
<1>6. CASE ~Schedule(current, o, objects, [io EXCEPT ![c] = None]) /\ Schedule(current, o, objects, io)
  BY <1>0, <1>3, <1>4, <1>6
<1> QED
  BY <1>5, <1>6

LEMMA MoveBegun ==
  ASSUME Shape, NEW c \in Call, call[c].pc = "begin", Returned(c), io[c].ok,
         Begun(c, call[c].object, [io EXCEPT ![c] = None]), UNCHANGED <<tool, epoch, auth, leases>>
  PROVE  (\E r : Move(c, r)) /\ IoShape' /\ Protocol' /\ MemoryShape' /\ ObjShape' /\ StillLive
<1> DEFINE o == call[c].object
           s == io[c].snapshot
           n == [obj[o] EXCEPT !.durable = s, !.origin = s.lease.pending, !.dirty = TRUE, !.basis = NoAuth]
           dirty == [obj EXCEPT ![o].durable = s, ![o].origin = s.lease.pending,
                                ![o].dirty = TRUE, ![o].basis = NoAuth]
<1>1. io[c].op = "done" /\ io[c].of = "begin"
  BY Tasks DEF Shape, Protocol, CallAsks, OpOf, Returned, IoShape, IoOK, Ops
<1>2. s \in AnySnapshot /\ s.lease \in AnyLease /\ s.lease.pending \in Nat /\ s.lease # NoLease
  <2>1. s \in AnySnapshot /\ s.lease # NoLease
    BY <1>1, Tasks DEF Shape, IoShape, IoOK
  <2>2. s.lease \in AnyLease
    BY <2>1 DEF AnySnapshot
  <2> QED
    BY <2>1, <2>2 DEF AnyLease
<1>3. o \in Obj /\ Live(o)
  BY DEF Shape, LiveObjects, LiveCall, Live
<1>4. n \in AnyObject /\ n.durable = s /\ dirty = [obj EXCEPT ![o] = n]
  <2>1. obj[o] \in AnyObject /\ s.lease.pending \in Nat /\ s \in AnySnapshot /\ NoAuth \in AnyAuth
    BY <1>2, <1>3, NewOK DEF Shape, ObjShape
  <2>2. n \in AnyObject /\ n.durable = s
    BY <2>1 DEF AnyObject
  <2>3. dirty = [obj EXCEPT ![o] = n]
    BY <1>3 DEF Shape, ObjShape, AnyObject
  <2> QED
    BY <2>2, <2>3
<1>5. /\ dirty \in [Obj -> AnyObject] /\ dirty[o].durable.lease # NoLease
      /\ \A x \in Obj : Live(x) => dirty[x].durable.lease # NoLease
  BY <1>2, <1>3, <1>4 DEF Shape, ObjShape, Live
<1>6. ASSUME NEW p \in {"marking", "record", "enter"},
             call' = [call EXCEPT ![c].attempt = s.lease.pending, ![c].pc = p]
      PROVE  Move(c, [call[c] EXCEPT !.attempt = s.lease.pending, !.pc = p])
  <2> DEFINE r == [call[c] EXCEPT !.attempt = s.lease.pending, !.pc = p]
  <2>1. /\ r \in AnyCall /\ r.pc = p /\ r.epoch = call[c].epoch /\ r.basis = call[c].basis
        /\ r.aborted = call[c].aborted /\ r.attempt = s.lease.pending
        /\ r.object = call[c].object /\ r.settling = call[c].settling /\ r.admitting = call[c].admitting
        /\ call' = [call EXCEPT ![c] = r]
    BY <1>2, <1>6 DEF Shape, CallShape, AnyCall, CallPc
  <2> HIDE DEF r
  <2>2. AttemptOf(c) = s.lease.pending
    BY <1>1 DEF AttemptOf
  <2>3. Kept(c, r)
    BY <1>1, <1>6, <2>1, <2>2 DEF Kept, PreBody, Settled
  <2>4. LiveCall(r)
    BY <1>3, <1>6, <2>1 DEF LiveCall, LiveObjects, Shape
  <2> QED
    BY <2>1, <2>3, <2>4 DEF Move, r
<1>7. CASE obj[o].release
  <2>1. /\ Schedule(leases, o, dirty, [io EXCEPT ![c] = None])
        /\ call' = [call EXCEPT ![c].attempt = s.lease.pending, ![c].pc = "marking"]
        /\ UNCHANGED begins
    BY <1>7 DEF Begun
  <2>2. PICK r : Move(c, r)
    BY <2>1, <1>6
  <2> HIDE DEF dirty
  <2>3. /\ AsksAlone(c) /\ OpOf(c)' = "none" /\ ObjShape' /\ StillLive
        /\ releases' \in [Obj -> [running : BOOLEAN, ok : BOOLEAN]] /\ latest' \in SomeObj
    BY <2>1, <1>3, <1>5, ScheduledBeside DEF Shape, MemoryShape
  <2>4. Protocol'
    BY <2>2, <2>3, CallProtocol DEF Shape
  <2>5. MemoryShape'
    BY <2>1, <2>3 DEF Shape, MemoryShape
  <2> QED
    BY <2>2, <2>3, <2>4, <2>5 DEF AsksAlone
<1>8. CASE ~obj[o].release
  <2>1. /\ obj' = dirty /\ io' = [io EXCEPT ![c] = None]
        /\ begins' = BeginsWithout(o) /\ UNCHANGED <<releases, latest>>
        /\ \E p \in {"record", "enter"} : call' = [call EXCEPT ![c].attempt = s.lease.pending, ![c].pc = p]
    BY <1>8 DEF Begun
  <2>2. PICK r : Move(c, r)
    BY <2>1, <1>6
  <2>3. AsksAlone(c) /\ io'[c] = None
    BY <2>1, NewOK, OneRequest DEF Shape
  <2>4. Protocol'
    BY <2>2, <2>3, CallProtocol DEF Shape, OpOf, None
  <2>5. MemoryShape'
    BY <2>1 DEF Shape, MemoryShape, BeginsWithout, SomeObj
  <2>6. ObjShape' /\ StillLive
    BY <2>1, <1>5 DEF ObjShape, StillLive, Live
  <2> QED
    BY <2>2, <2>3, <2>4, <2>5, <2>6 DEF AsksAlone
<1> QED
  BY <1>7, <1>8

LEMMA MoveNotBegun ==
  ASSUME Shape, NEW c \in Call, call[c].pc = "begin", Returned(c), ~io[c].ok,
         NotBegun(c, call[c].object, [io EXCEPT ![c] = None]), UNCHANGED <<tool, epoch, auth, leases>>
  PROVE  (\E r : Move(c, r)) /\ IoShape' /\ Protocol' /\ MemoryShape' /\ ObjShape' /\ StillLive
<1> DEFINE o == call[c].object
<1>1. o \in Obj /\ Live(o)
  BY DEF Shape, LiveObjects, LiveCall, Live
<1>2. AttemptOf(c) = call[c].attempt
  BY DEF AttemptOf
<1>3. Move(c, NewCall) \/ ~(call' = [call EXCEPT ![c] = NewCall])
  BY NewOK DEF Move, LiveCall
<1>4. ASSUME io' = [io EXCEPT ![c] = None], UNCHANGED <<obj, releases, latest>>, begins' \in SomeObj,
             NEW r, Move(c, r)
      PROVE  IoShape' /\ Protocol' /\ MemoryShape' /\ ObjShape' /\ StillLive
  <2>1. AsksAlone(c) /\ io'[c] = None
    BY <1>4, NewOK, OneRequest DEF Shape
  <2>2. Protocol'
    BY <1>4, <2>1, CallProtocol DEF Shape, OpOf, None
  <2> QED
    BY <1>4, <2>1, <2>2 DEF AsksAlone, Shape, MemoryShape, ObjShape, StillLive, Live
<1>5. BeginsWithout(o) \in SomeObj /\ begins \in SomeObj
  BY DEF BeginsWithout, SomeObj, Shape, MemoryShape
<1>6. CASE obj[o].dirty
  <2> DEFINE r == [call[c] EXCEPT !.pc = "record", !.admitting = TRUE]
  <2>1. /\ io' = [io EXCEPT ![c] = None] /\ UNCHANGED <<obj, releases, latest, begins>>
        /\ call' = [call EXCEPT ![c].pc = "record", ![c].admitting = TRUE]
    BY <1>6 DEF NotBegun
  <2>2. /\ r \in AnyCall /\ r.pc = "record" /\ r.epoch = call[c].epoch /\ r.basis = call[c].basis
        /\ r.aborted = call[c].aborted /\ r.attempt = call[c].attempt
        /\ r.object = call[c].object /\ r.settling = call[c].settling
        /\ call' = [call EXCEPT ![c] = r]
    BY <2>1 DEF Shape, CallShape, AnyCall, CallPc
  <2> HIDE DEF r
  <2>3. Kept(c, r)
    BY <1>2, <2>2 DEF Kept, PreBody, Settled
  <2>4. LiveCall(r)
    BY <1>1, <2>2 DEF LiveCall, LiveObjects, Shape
  <2>5. Move(c, r)
    BY <2>2, <2>3, <2>4 DEF Move
  <2> QED
    BY <1>4, <1>5, <2>1, <2>5
<1>7. CASE ~obj[o].dirty /\ obj[o].release /\ leases = o
  <2>1. /\ Schedule(leases, o, obj, [io EXCEPT ![c] = None])
        /\ call' = [call EXCEPT ![c].pc = "refused"] /\ UNCHANGED begins
    BY <1>7 DEF NotBegun
  <2> DEFINE r == [call[c] EXCEPT !.pc = "refused"]
  <2>2. /\ r \in AnyCall /\ r.pc = "refused" /\ r.epoch = call[c].epoch /\ r.basis = call[c].basis
        /\ r.aborted = call[c].aborted /\ r.attempt = call[c].attempt
        /\ r.object = call[c].object /\ r.settling = call[c].settling /\ r.admitting = call[c].admitting
        /\ call' = [call EXCEPT ![c] = r]
    BY <2>1, GoesOn DEF Shape, CallPc
  <2> HIDE DEF r
  <2>3. Kept(c, r)
    BY <1>2, <2>2 DEF Kept, PreBody, Settled
  <2>4. LiveCall(r)
    BY <1>1, <2>2 DEF LiveCall, LiveObjects, Shape
  <2>5. Move(c, r)
    BY <2>2, <2>3, <2>4 DEF Move
  <2>6. \A x \in Obj : Live(x) => obj[x].durable.lease # NoLease
    BY DEF Live
  <2>7. /\ AsksAlone(c) /\ OpOf(c)' = "none" /\ ObjShape' /\ StillLive
        /\ releases' \in [Obj -> [running : BOOLEAN, ok : BOOLEAN]] /\ latest' \in SomeObj
    BY <2>1, <2>6, <1>1, ScheduledBeside DEF Shape, ObjShape, Live, MemoryShape
  <2>8. Protocol'
    BY <2>5, <2>7, CallProtocol DEF Shape
  <2>9. MemoryShape'
    BY <2>1, <2>7 DEF Shape, MemoryShape
  <2> QED
    BY <2>5, <2>7, <2>8, <2>9 DEF AsksAlone
<1>8. CASE ~obj[o].dirty /\ ~(obj[o].release /\ leases = o)
  <2>1. /\ io' = [io EXCEPT ![c] = None] /\ UNCHANGED <<obj, releases, latest>>
        /\ call' = [call EXCEPT ![c] = NewCall] /\ begins' = BeginsWithout(o)
    BY <1>8 DEF NotBegun
  <2> QED
    BY <1>3, <1>4, <1>5, <2>1
<1> QED
  BY <1>6, <1>7, <1>8

LEMMA MoveMark ==
  ASSUME Shape, NEW c \in Call, MarkReturns(c)
  PROVE  (\E r : Move(c, r)) /\ IoShape' /\ Protocol' /\ MemoryShape'
<1>1. OpOf(c) = "none" /\ AttemptOf(c) = call[c].attempt /\ call[c].object # NoObj
  BY DEF Shape, Protocol, CallAsks, MarkReturns, AttemptOf, LiveObjects, LiveCall
<1>2. AsksAlone(c) /\ OpOf(c)' = "none"
  BY <1>1, NoRequest DEF MarkReturns, OpOf, Shape
<1>3. MemoryShape'
  BY DEF MarkReturns, BeginsWithout, SomeObj, Shape, MemoryShape
<1>4. CASE call' = [call EXCEPT ![c] = NewCall]
  <2>1. Move(c, NewCall)
    BY <1>4, NewOK DEF Move, LiveCall
  <2> QED
    BY <1>2, <1>3, <2>1, CallProtocol DEF MarkReturns, AsksAlone, Shape
<1>5. CASE call[c].pc = "marking" /\ releases[call[c].object].ok
  <2> DEFINE p == IF call[c].aborted THEN "record" ELSE "enter"
             r == [call[c] EXCEPT !.pc = p]
  <2>0. p \in {"record", "enter"} /\ p \in CallPc
    BY DEF CallPc
  <2>1. call' = [call EXCEPT ![c].pc = p]
    BY <1>5 DEF MarkReturns
  <2> HIDE DEF p
  <2>2. /\ r \in AnyCall /\ r.pc = p /\ r.epoch = call[c].epoch /\ r.basis = call[c].basis
        /\ r.aborted = call[c].aborted /\ r.attempt = call[c].attempt
        /\ r.object = call[c].object /\ r.settling = call[c].settling /\ r.admitting = call[c].admitting
        /\ call' = [call EXCEPT ![c] = r]
    BY <2>0, <2>1, GoesOn DEF Shape
  <2> HIDE DEF r
  <2>3. Kept(c, r) /\ LiveCall(r)
    BY <1>1, <1>5, <2>0, <2>2 DEF Kept, PreBody, Settled, LiveCall, LiveObjects, Shape
  <2>4. Move(c, r)
    BY <2>2, <2>3 DEF Move
  <2> QED
    BY <1>2, <1>3, <2>4, CallProtocol DEF MarkReturns, AsksAlone, Shape
<1>6. CASE call[c].pc = "marking" /\ ~releases[call[c].object].ok
  <2> DEFINE r == [call[c] EXCEPT !.pc = "record", !.admitting = TRUE]
  <2>2. /\ r \in AnyCall /\ r.pc = "record" /\ r.epoch = call[c].epoch /\ r.basis = call[c].basis
        /\ r.aborted = call[c].aborted /\ r.attempt = call[c].attempt
        /\ r.object = call[c].object /\ r.settling = call[c].settling
        /\ call' = [call EXCEPT ![c] = r]
    BY <1>6 DEF MarkReturns, Shape, CallShape, AnyCall, CallPc
  <2> HIDE DEF r
  <2>3. Kept(c, r) /\ LiveCall(r)
    BY <1>1, <1>6, <2>2 DEF Kept, PreBody, Settled, LiveCall, LiveObjects, Shape
  <2>4. Move(c, r)
    BY <2>2, <2>3 DEF Move
  <2> QED
    BY <1>2, <1>3, <2>4, CallProtocol DEF MarkReturns, AsksAlone, Shape
<1> QED
  BY <1>4, <1>5, <1>6 DEF MarkReturns

LEMMA MoveSettle ==
  ASSUME Shape, NEW c \in Call, Settle(c)
  PROVE  (\E r : Move(c, r)) /\ IoShape' /\ Protocol' /\ io'[c] = SettleRequest(c)
<1> DEFINE r == [call[c] EXCEPT !.pc = "settling"]
<1>1. /\ r \in AnyCall /\ r.pc = "settling" /\ r.epoch = call[c].epoch /\ r.basis = call[c].basis
      /\ r.aborted = call[c].aborted /\ r.attempt = call[c].attempt
      /\ r.object = call[c].object /\ r.settling = call[c].settling /\ r.admitting = call[c].admitting
      /\ call' = [call EXCEPT ![c] = r]
  BY GoesOn DEF Settle, Shape, CallPc
<1>2. call[c].settling \in Obj /\ Live(call[c].settling) /\ obj[call[c].settling].revision \in Int
      /\ call[c].attempt \in Nat
  BY DEF Settle, Shape, LiveObjects, LiveCall, Live, ObjShape, AnyObject, CallShape, AnyCall
<1>3. ReleaseAsked(call[c].settling) \in BOOLEAN
  BY DEF ReleaseAsked
<1>4. Claim(call[c].settling) \in AnyClaim
  BY <1>2, ClaimOK DEF Shape
<1>5. IoOK(SettleRequest(c)) /\ SettleRequest(c).op = "settle"
  BY <1>2, <1>3, <1>4 DEF SettleRequest, IoOK, Ops
<1>6. AsksAlone(c) /\ io'[c] = SettleRequest(c)
  BY <1>5, OneRequest DEF Settle, Shape
<1> HIDE DEF r
<1>7. Kept(c, r) /\ LiveCall(r)
  BY <1>1 DEF Settle, Kept, PreBody, Settled, AttemptOf, LiveCall, LiveObjects, Shape
<1>8. Move(c, r)
  BY <1>1, <1>7 DEF Move
<1> QED
  BY <1>1, <1>5, <1>6, <1>8, CallProtocol DEF OpOf, AsksAlone, Settle, Shape

LEMMA MoveConverge ==
  ASSUME Shape, NEW c \in Call, Converge(c)
  PROVE  (\E r : Move(c, r)) /\ IoShape' /\ Protocol' /\ MemoryShape' /\ ObjShape' /\ StillLive
<1> DEFINE o == call[c].settling
<1>1. o \in Obj /\ Live(o) /\ OpOf(c) = "none" /\ AttemptOf(c) = call[c].attempt
  BY DEF Converge, Shape, LiveObjects, LiveCall, Live, Protocol, CallAsks, AttemptOf
<1>2. CASE call[c].tries < 2 /\ leases = o
  <2> DEFINE r == [call[c] EXCEPT !.tries = 2]
  <2>1. /\ r \in AnyCall /\ r.pc = call[c].pc /\ r.epoch = call[c].epoch /\ r.basis = call[c].basis
        /\ r.aborted = call[c].aborted /\ r.attempt = call[c].attempt
        /\ r.object = call[c].object /\ r.settling = call[c].settling /\ r.admitting = call[c].admitting
        /\ call' = [call EXCEPT ![c] = r]
    BY <1>2 DEF Converge, Shape, CallShape, AnyCall
  <2> HIDE DEF r
  <2>2. Kept(c, r) /\ LiveCall(r)
    BY <1>1, <2>1 DEF Converge, Kept, PreBody, Settled, LiveCall, LiveObjects, Shape
  <2>3. Move(c, r)
    BY <2>1, <2>2 DEF Move
  <2>4. Schedule(leases, o, obj, io) /\ UNCHANGED begins
    BY <1>2 DEF Converge
  <2>5. \A x \in Obj : Live(x) => obj[x].durable.lease # NoLease
    BY DEF Live
  <2>6. /\ AsksAlone(c) /\ OpOf(c)' = "none" /\ ObjShape' /\ StillLive
        /\ releases' \in [Obj -> [running : BOOLEAN, ok : BOOLEAN]] /\ latest' \in SomeObj
    BY <2>4, <2>5, <1>1, ScheduledBeside DEF Shape, ObjShape, Live, MemoryShape
  <2> QED
    BY <2>3, <2>4, <2>6, CallProtocol DEF Converge, Shape, MemoryShape, AsksAlone
<1>3. CASE End(c) /\ UNCHANGED <<obj, io, releases, latest>>
  <2>1. Move(c, NewCall) /\ begins' \in SomeObj
    BY <1>3, EndMoves DEF Shape
  <2>2. AsksAlone(c) /\ OpOf(c)' = "none"
    BY <1>1, <1>3, NoRequest DEF OpOf, Shape
  <2> QED
    BY <1>3, <2>1, <2>2, CallProtocol DEF Converge, Shape, MemoryShape, AsksAlone, ObjShape, StillLive, Live
<1> QED
  BY <1>2, <1>3 DEF Converge

LEMMA MoveSettleReturns ==
  ASSUME Shape, NEW c \in Call, SettleReturns(c)
  PROVE  (\E r : Move(c, r)) /\ IoShape' /\ Protocol' /\ MemoryShape' /\ ObjShape' /\ StillLive
<1> DEFINE o == call[c].settling
           s == io[c].snapshot
           m == [obj[o] EXCEPT !.revision = @ + 1, !.dirty = FALSE, !.basis = NoAuth, !.origin = 0]
           n == [m EXCEPT !.durable = s]
<1>1. o \in Obj /\ Live(o) /\ obj[o] \in AnyObject /\ obj[o].revision \in Int /\ c \in Task
  BY Tasks DEF SettleReturns, Shape, LiveObjects, LiveCall, Live, ObjShape, AnyObject
<1>2. m \in AnyObject /\ m.durable = obj[o].durable
  <2> DEFINE k == obj[o].revision + 1
  <2>1. k \in Int
    BY <1>1
  <2>2. m = [obj[o] EXCEPT !.revision = k, !.dirty = FALSE, !.basis = NoAuth, !.origin = 0]
    BY <1>1 DEF AnyObject
  <2> HIDE DEF k, m
  <2> QED
    BY <1>1, <2>1, <2>2, NewOK DEF AnyObject
<1>3. io[c].ok => s \in AnySnapshot
  BY <1>1 DEF SettleReturns, Shape, IoShape, IoOK, Returned
<1>4. s \in AnySnapshot => n \in AnyObject /\ n.durable = s
  BY <1>2 DEF AnyObject
<1> HIDE DEF m, n
<1>5. ASSUME io' = [io EXCEPT ![c] = None], End(c), UNCHANGED <<releases, latest>>, leases' \in SomeObj
      PROVE  (\E r : Move(c, r)) /\ IoShape' /\ Protocol' /\ MemoryShape'
  <2>1. Move(c, NewCall) /\ begins' \in SomeObj
    BY <1>5, EndMoves DEF Shape
  <2>2. AsksAlone(c) /\ io'[c] = None
    BY <1>5, NewOK, OneRequest DEF Shape
  <2> QED
    <3>0. OpOf(c)' = "none"
      BY <2>2 DEF OpOf, None
    <3>1. Protocol'
      BY <2>1, <2>2, <3>0, CallProtocol DEF SettleReturns, Shape
    <3>2. MemoryShape'
      BY <1>5, <2>1 DEF SettleReturns, Shape, MemoryShape
    <3> QED
      BY <2>1, <2>2, <3>1, <3>2 DEF AsksAlone
<1>6. CASE ~io[c].ok
  BY <1>5, <1>6 DEF SettleReturns, Shape, MemoryShape, ObjShape, StillLive, Live
<1>7. CASE io[c].ok /\ s.lease = NoLease
  <2>1. obj' = [obj EXCEPT ![o] = m]
    BY <1>1, <1>7 DEF SettleReturns, m, Shape, ObjShape, AnyObject
  <2>2. ObjShape' /\ StillLive
    BY <1>2, <2>1 DEF Shape, ObjShape, StillLive, Live
  <2>3. leases' \in SomeObj
    BY <1>7 DEF SettleReturns, Shape, MemoryShape, SomeObj
  <2> QED
    BY <1>5, <1>7, <2>2, <2>3 DEF SettleReturns
<1>8. CASE io[c].ok /\ s.lease # NoLease
  <2> DEFINE kept == [obj EXCEPT ![o] = n]
  <2>1. kept \in [Obj -> AnyObject] /\ kept[o].durable.lease # NoLease
        /\ \A x \in Obj : Live(x) => kept[x].durable.lease # NoLease
    BY <1>1, <1>3, <1>4, <1>8 DEF Shape, ObjShape, Live
  <2>2. \/ Schedule(leases, o, kept, [io EXCEPT ![c] = None]) /\ UNCHANGED begins
           /\ call' = [call EXCEPT ![c].pc = "converging", ![c].tries = 1]
        \/ obj' = kept /\ io' = [io EXCEPT ![c] = None] /\ End(c) /\ UNCHANGED <<releases, latest>>
    BY <1>1, <1>8 DEF SettleReturns, n, m, Shape, ObjShape, AnyObject
  <2>3. leases' = leases
    BY <1>8 DEF SettleReturns
  <2> HIDE DEF kept
  <2>4. CASE obj' = kept /\ io' = [io EXCEPT ![c] = None] /\ End(c) /\ UNCHANGED <<releases, latest>>
    BY <1>5, <2>1, <2>3, <2>4 DEF Shape, MemoryShape, ObjShape, StillLive, Live
  <2>5. CASE Schedule(leases, o, kept, [io EXCEPT ![c] = None]) /\ UNCHANGED begins
             /\ call' = [call EXCEPT ![c].pc = "converging", ![c].tries = 1]
    <3> DEFINE r == [call[c] EXCEPT !.pc = "converging", !.tries = 1]
    <3>1. /\ r \in AnyCall /\ r.pc = "converging" /\ r.epoch = call[c].epoch /\ r.basis = call[c].basis
          /\ r.aborted = call[c].aborted /\ r.attempt = call[c].attempt
          /\ r.object = call[c].object /\ r.settling = call[c].settling /\ r.admitting = call[c].admitting
          /\ call' = [call EXCEPT ![c] = r]
      <4>1. call' = [call EXCEPT ![c].pc = "converging", ![c].tries = 1] /\ call \in [Call -> AnyCall]
        BY <2>5 DEF Shape, CallShape
      <4>2. "converging" \in CallPc /\ call[c] \in AnyCall
        BY <4>1 DEF CallPc
      <4>3. r \in AnyCall
        <5> DEFINE q == [call[c] EXCEPT !.pc = "converging"]
        <5>1. q \in AnyCall /\ r = [q EXCEPT !.tries = 1]
          BY <4>2 DEF AnyCall
        <5> HIDE DEF q, r
        <5> QED
          BY <5>1 DEF AnyCall
      <4>4. call' = [call EXCEPT ![c] = r]
        BY <4>1 DEF AnyCall
      <4> QED
        BY <4>2, <4>3, <4>4 DEF AnyCall
    <3> HIDE DEF r
    <3>2. Kept(c, r) /\ LiveCall(r)
      BY <3>1 DEF SettleReturns, AttemptOf, Kept, PreBody, Settled, LiveCall, LiveObjects, Shape
    <3>3. Move(c, r)
      BY <3>1, <3>2 DEF Move
    <3>4. /\ AsksAlone(c) /\ OpOf(c)' = "none" /\ ObjShape' /\ StillLive
          /\ releases' \in [Obj -> [running : BOOLEAN, ok : BOOLEAN]] /\ latest' \in SomeObj
      BY <2>5, <2>1, <1>1, ScheduledBeside DEF Shape, MemoryShape
    <3> QED
      BY <2>3, <2>5, <3>3, <3>4, CallProtocol DEF SettleReturns, Shape, MemoryShape, AsksAlone
  <2> QED
    BY <2>2, <2>4, <2>5
<1> QED
  BY <1>6, <1>7, <1>8 DEF SettleReturns

LEMMA CallKeepsLive ==
  ASSUME Shape, NEW c \in Call, NEW r, Move(c, r), StillLive, UNCHANGED tool, leases' \in {leases, NoObj}
  PROVE  CallShape' /\ LiveObjects'
<1>1. CallShape'
  BY DEF Shape, CallShape, Move
<1>2. ASSUME NEW x \in SomeObj, x # NoObj, Live(x) PROVE Live(x)'
  BY <1>2 DEF Live, StillLive
<1>3. ASSUME NEW q \in AnyCall, LiveCall(q) PROVE LiveCall(q)'
  BY <1>2, <1>3 DEF LiveCall, AnyCall
<1>4. ASSUME NEW d \in Call PROVE LiveCall(call[d])'
  <2>1. PICK q : q = call'[d]
    OBVIOUS
  <2>2. \A x \in Call : call[x] \in AnyCall /\ LiveCall(call[x])
    BY DEF Shape, CallShape, LiveObjects
  <2>3. q \in AnyCall /\ LiveCall(q)
    BY <2>1, <2>2 DEF Move, Shape, CallShape
  <2>4. LiveCall(q)'
    BY <1>3, <2>3
  <2> QED
    BY <2>1, <2>4 DEF LiveCall, Live
<1>5. LiveChange(tool[Change])'
  <2>1. tool[Change].object \in SomeObj
    BY Tasks DEF Shape, ToolShape, AnyTool
  <2> QED
    BY <1>2, <2>1 DEF LiveChange, Shape, LiveObjects
<1>6. leases' # NoObj => Live(leases)'
  BY <1>2 DEF Shape, LiveObjects, MemoryShape
<1> QED
  BY <1>1, <1>4, <1>5, <1>6 DEF LiveObjects

LEMMA CallStepShape ==
  ASSUME Shape, NEW c \in Call, CallStep(c)
  PROVE  Shape' /\ (\E r : Move(c, r)) /\ UNCHANGED <<File, me, epoch, auth, tool, fences>>
<1>1. CASE Record(c) \/ MakeReceipt(c) \/ Enter(c) \/ Leave(c) \/ WriteReceipt(c) \/ PublishReceipt(c)
  <2>1. PICK r : Move(c, r)
    BY <1>1, MoveRecord, MoveMakeReceipt, MoveSimple DEF Shape
  <2>2. /\ UNCHANGED <<File, me, epoch, auth, leases, obj, releases, latest, fences, io, tool>>
        /\ begins' \in {begins, NoObj}
    BY <1>1 DEF Record, MakeReceipt, Enter, Leave, WriteReceipt, PublishReceipt, End, ReceiptLost,
                BeginsWithout, Memory
  <2>3. OpOf(c) = "none" /\ AsksAlone(c)
    BY <1>1, <2>2, NoRequest DEF Record, MakeReceipt, Enter, Leave, WriteReceipt, PublishReceipt, Shape, Protocol, CallAsks
  <2>4. Protocol'
    BY <2>1, <2>2, <2>3, CallProtocol DEF Shape, OpOf
  <2>5. StillLive
    BY <2>2 DEF StillLive, Live
  <2>6. CallShape' /\ LiveObjects'
    BY <2>1, <2>2, <2>5, CallKeepsLive
  <2>7. FileShape' /\ MemoryShape' /\ ObjShape' /\ ToolShape' /\ IoShape'
    BY <2>2 DEF Shape, File, FileShape, MemoryShape, ObjShape, ToolShape, IoShape, SomeObj
  <2>8. GraphShape'
    <3>1. CASE UNCHANGED <<graph, budget>>
      BY <3>1 DEF Shape, GraphShape
    <3>2. CASE WriteReceipt(c)
      BY <3>2 DEF Shape, GraphShape, WriteReceipt, AnyGraph
    <3>3. CASE PublishReceipt(c)
      <4> DEFINE e == [attempt |-> call[c].attempt, release |-> call[c].release, revision |-> graph.revision + 1]
      <4>1. graph.revision \in Int /\ graph.revision + 1 \in Int /\ graph.receipts \subseteq AnyReceipt
        BY DEF Shape, GraphShape, AnyGraph
      <4>2. e \in AnyReceipt
        BY <4>1 DEF Shape, CallShape, AnyCall, AnyReceipt
      <4> DEFINE k == graph.revision + 1
                 es == graph.receipts \cup {e}
      <4>3. k \in Int /\ es \in SUBSET AnyReceipt
        BY <4>1, <4>2
      <4>4. \/ graph' = [graph EXCEPT !.writer = NoObj, !.revision = k, !.receipts = es] /\ UNCHANGED budget
            \/ /\ graph' = [graph EXCEPT !.writer = NoObj] /\ budget.fail > 0
               /\ budget' = [budget EXCEPT !.fail = @ - 1]
        BY <3>3 DEF PublishReceipt, Shape, GraphShape, AnyGraph
      <4> HIDE DEF k, es
      <4>5. graph' \in AnyGraph
        BY <4>3, <4>4 DEF Shape, GraphShape, AnyGraph
      <4>6. budget' \in AnyBudget
        BY <4>4 DEF Shape, GraphShape, AnyBudget
      <4> QED
        BY <4>5, <4>6 DEF GraphShape
    <3> QED
      BY <1>1, <3>1, <3>2, <3>3 DEF Record, MakeReceipt, Enter, Leave
  <2> QED
    BY <2>1, <2>2, <2>4, <2>6, <2>7, <2>8 DEF Shape
<1>2. CASE Execute(c) \/ BeginReturns(c) \/ MarkReturns(c) \/ Settle(c) \/ SettleReturns(c) \/ Converge(c)
  <2>1. /\ \E r : Move(c, r)
        /\ IoShape' /\ Protocol' /\ MemoryShape' /\ ObjShape' /\ StillLive
    <3>1. CASE Execute(c)
      BY <3>1, MoveExecute DEF Execute, Shape, ObjShape, StillLive, Live
    <3>2. CASE BeginReturns(c)
      BY <3>2, MoveBegun, MoveNotBegun DEF BeginReturns
    <3>3. CASE MarkReturns(c)
      BY <3>3, MoveMark DEF MarkReturns, Shape, ObjShape, StillLive, Live
    <3>4. CASE Settle(c)
      BY <3>4, MoveSettle DEF Settle, Shape, ObjShape, StillLive, Live, Memory, MemoryShape
    <3>5. CASE SettleReturns(c)
      BY <3>5, MoveSettleReturns
    <3>6. CASE Converge(c)
      BY <3>6, MoveConverge
    <3> QED
      BY <1>2, <3>1, <3>2, <3>3, <3>4, <3>5, <3>6
  <2>2. UNCHANGED <<File, me, graph, budget, epoch, auth, tool, fences>> /\ leases' \in {leases, NoObj}
    BY <1>2 DEF Execute, BeginReturns, MarkReturns, Settle, SettleReturns, Converge, Memory
  <2>3. CallShape' /\ LiveObjects'
    BY <2>1, <2>2, CallKeepsLive
  <2>4. FileShape' /\ GraphShape' /\ ToolShape'
    BY <2>2 DEF Shape, FileShape, File, GraphShape, ToolShape
  <2> QED
    BY <2>1, <2>2, <2>3, <2>4 DEF Shape
<1> QED
  BY <1>1, <1>2 DEF CallStep
-----------------------------------------------------------------------------
(* The tools of Slot.                                                      *)

SlotAsks(s, r) ==
  \/ OpOf(s)' = "none"
  \/ /\ s = Refresh
     /\ \/ OpOf(s)' = "checkout" /\ r.pc = "takeover"
        \/ OpOf(s)' \in {"settle", "checkpoint"} /\ r.pc = "settling"
        \/ OpOf(s)' = "release" /\ r.pc = "releasing"
  \/ /\ s = Change
     /\ \/ OpOf(s)' = "checkout" /\ r.pc = "reserving"
        \/ OpOf(s)' = "checkpoint" /\ r.pc = "closing"
        \/ OpOf(s)' = "release" /\ r.pc \in {"undoing", "closingRelease"}

LEMMA AbortedFacts ==
  ASSUME CallShape
  PROVE  /\ Aborted \in [Call -> AnyCall]
         /\ \A c \in Call : /\ Aborted[c].pc = call[c].pc /\ Aborted[c].epoch = call[c].epoch
                            /\ Aborted[c].basis = call[c].basis /\ Aborted[c].attempt = call[c].attempt
                            /\ Aborted[c].object = call[c].object /\ Aborted[c].settling = call[c].settling
                            /\ Aborted[c].admitting = call[c].admitting
                            /\ Active(c) => Aborted[c].aborted
BY DEF CallShape, AnyCall, Aborted, Active

LEMMA SlotShape ==
  ASSUME Shape, NEW s \in Slot, NEW r \in AnyTool, tool' = [tool EXCEPT ![s] = r],
         AsksAlone(s), SlotAsks(s, r), ObjShape', StillLive, MemoryShape',
         s = Change => LiveChange(r), leases' # NoObj => Live(leases)',
         FileShape', GraphShape', call' = call \/ call' = Aborted
  PROVE  Shape'
<1>1. ToolShape' /\ tool'[s] = r /\ (\A x \in Slot : x # s => tool'[x] = tool[x])
  BY DEF Shape, ToolShape
<1>2. /\ CallShape'
      /\ \A c \in Call : /\ call'[c].pc = call[c].pc
                         /\ call'[c].object = call[c].object /\ call'[c].settling = call[c].settling
                         /\ call'[c].admitting = call[c].admitting
  BY AbortedFacts DEF Shape, CallShape
<1>3. \A t \in Task : t # s /\ t \notin Obj => OpOf(t)' = OpOf(t)
  BY DEF AsksAlone, OpOf
<1>4. \A c \in Call : CallAsks(c)'
  <2>1. \A c \in Call : OpOf(c)' = OpOf(c)
    BY <1>3, Tasks DEF Slot
  <2> QED
    BY <1>2, <2>1 DEF CallAsks, Shape, Protocol
<1>5. Protocol'
  <2>1. CASE s = Refresh
    <3>1. OpOf(Change)' = OpOf(Change) /\ T' = T /\ R' = r
      BY <1>1, <1>3, <2>1, Tasks DEF T, R
    <3> QED
      BY <1>4, <2>1, <3>1, Tasks DEF Shape, Protocol, SlotAsks, AsksAlone
  <2>2. CASE s = Change
    <3>1. OpOf(Refresh)' = OpOf(Refresh) /\ R' = R /\ T' = r
      BY <1>1, <1>3, <2>2, Tasks DEF T, R
    <3> QED
      BY <1>4, <2>2, <3>1, Tasks DEF Shape, Protocol, SlotAsks, AsksAlone
  <2> QED
    BY <2>1, <2>2 DEF Slot
<1>6. ASSUME NEW x \in SomeObj, x # NoObj, Live(x) PROVE Live(x)'
  BY <1>6 DEF Live, StillLive, SomeObj
<1>7. ASSUME NEW d \in Call PROVE LiveCall(call[d])'
  <2>1. PICK q : q = call'[d]
    OBVIOUS
  <2>2. /\ call[d].object \in SomeObj /\ call[d].settling \in SomeObj /\ LiveCall(call[d])
        /\ q.pc = call[d].pc /\ q.object = call[d].object /\ q.settling = call[d].settling
        /\ q.admitting = call[d].admitting
    BY <1>2, <2>1 DEF Shape, CallShape, AnyCall, LiveObjects
  <2>3. LiveCall(q) /\ q.object \in SomeObj /\ q.settling \in SomeObj
    BY <2>2 DEF LiveCall
  <2>4. LiveCall(q)'
    BY <1>6, <2>3 DEF LiveCall
  <2> QED
    BY <2>1, <2>4 DEF LiveCall, Live
<1>8. LiveChange(tool[Change])'
  <2>1. PICK q : q = tool'[Change]
    OBVIOUS
  <2>2. q \in AnyTool /\ LiveChange(q)
    BY <1>1, <2>1, Tasks DEF Shape, ToolShape, LiveObjects
  <2>3. q.object \in SomeObj
    BY <2>2 DEF AnyTool
  <2>4. LiveChange(q)'
    BY <1>6, <2>2, <2>3 DEF LiveChange
  <2> QED
    BY <2>1, <2>4 DEF LiveChange, Live
<1>9. LiveObjects'
  BY <1>7, <1>8 DEF LiveObjects
<1> QED
  BY <1>1, <1>2, <1>5, <1>9 DEF Shape, AsksAlone

-----------------------------------------------------------------------------
(* lattice_refresh_context.                                                *)

LEMMA RefreshFailsShape ==
  ASSUME Shape, RefreshFails, UNCHANGED OthersR
  PROVE  Shape'
<1>1. AsksAlone(Refresh) /\ io'[Refresh] = None
  BY NewOK, OneRequest, Tasks DEF RefreshFails, Shape
<1>2. OpOf(Refresh)' = "none"
  BY <1>1 DEF OpOf, None
<1>3. ObjShape' /\ StillLive /\ MemoryShape' /\ FileShape' /\ GraphShape' /\ (leases' # NoObj => Live(leases)')
  BY DEF RefreshFails, OthersR, Shape, ObjShape, StillLive, MemoryShape, FileShape, GraphShape, Live, File, LiveObjects
<1>4. tool' = [tool EXCEPT ![Refresh] = NewTool] /\ NewTool \in AnyTool /\ call' = call
  BY NewOK DEF RefreshFails, OthersR
<1> QED
  BY <1>1, <1>2, <1>3, <1>4, Tasks, SlotShape DEF SlotAsks

LEMMA AskShape ==
  ASSUME Shape, NEW v, NEW x \in BOOLEAN, NEW p \in ToolPc, IoOK(v), Ask(v, x, p), UNCHANGED OthersR,
         \/ v.op = "checkout" /\ p = "takeover"
         \/ v.op \in {"settle", "checkpoint"} /\ p = "settling"
         \/ v.op = "release" /\ p = "releasing"
  PROVE  Shape'
<1> DEFINE r == [tool[Refresh] EXCEPT !.pc = p, !.exact = x]
<1>1. AsksAlone(Refresh) /\ io'[Refresh] = v
  BY OneRequest, Tasks DEF Ask, Shape
<1>2. OpOf(Refresh)' = v.op
  BY <1>1 DEF OpOf
<1>3. ObjShape' /\ StillLive /\ MemoryShape' /\ FileShape' /\ GraphShape' /\ (leases' # NoObj => Live(leases)')
  BY DEF Ask, OthersR, Shape, ObjShape, StillLive, MemoryShape, FileShape, GraphShape, Live, File, LiveObjects
<1>4. r \in AnyTool /\ tool' = [tool EXCEPT ![Refresh] = r] /\ r.pc = p
  BY Tasks DEF Ask, Shape, ToolShape, AnyTool
<1>5. call' = call
  BY DEF OthersR
<1> HIDE DEF r
<1>6. SlotAsks(Refresh, r)
  BY <1>2, <1>4 DEF SlotAsks
<1> QED
  BY <1>1, <1>3, <1>4, <1>5, <1>6, Tasks, SlotShape

LEMMA RestoredShape ==
  ASSUME Shape, NEW current \in SomeObj, RestoredTo(current), UNCHANGED OthersR, ObjShape', StillLive,
         current # NoObj => Live(current)'
  PROVE  Shape'
<1> DEFINE r == [tool[Refresh] EXCEPT !.pc = "restored"]
<1>1. AsksAlone(Refresh) /\ io'[Refresh] = None
  BY NewOK, OneRequest, Tasks DEF RestoredTo, Shape
<1>2. OpOf(Refresh)' = "none"
  BY <1>1 DEF OpOf, None
<1>3. MemoryShape' /\ FileShape' /\ GraphShape'
  BY DEF RestoredTo, OthersR, Shape, MemoryShape, FileShape, GraphShape, File
<1>4. r \in AnyTool /\ tool' = [tool EXCEPT ![Refresh] = r]
  BY Tasks DEF RestoredTo, Shape, ToolShape, AnyTool, ToolPc
<1>5. call' = call /\ leases' = current
  BY DEF OthersR, RestoredTo
<1>6. leases' # NoObj => Live(leases)'
  BY <1>5 DEF Live
<1> HIDE DEF r
<1> QED
  BY <1>1, <1>2, <1>3, <1>4, <1>5, <1>6, Tasks, SlotShape DEF SlotAsks

\* What a lease that was read leads to: a request on it, or an object for it.
AsksOn(d, x, v) ==
  /\ IoOK(v) /\ v.op \in {"release", "settle", "checkpoint"} /\ v.claim = ClaimOf(d)
  /\ Ask(v, x, IF v.op = "release" THEN "releasing" ELSE "settling")
  /\ v.op # "release" => d.lease.basis.node # "fence" /\ v.revision = R.revision
                         /\ R.revision - d.lease.basis.graph = 1
  /\ v.op = "settle" => v.attempt = d.lease.pending /\ Receipt(d) # {} /\ d.lease.dirty
  /\ v.op = "checkpoint" => Evidence # {} /\ ~d.lease.dirty
Restores(d, o) ==
  /\ o \in Free
  /\ obj' = [obj EXCEPT ![o] = NewObject(d, R.revision, TRUE)]
  /\ RestoredTo(o)
  /\ UNCHANGED fences

LEMMA ContinueDoes ==
  ASSUME Shape, NEW d \in AnySnapshot, d.lease # NoLease, NEW x \in BOOLEAN, Continue(d, x)
  PROVE  (\E v : AsksOn(d, x, v) /\ v.op = "release") \/ (\E o : Restores(d, o))
<1>1. ClaimOf(d) \in AnyClaim
  BY DEF ClaimOf, AnyClaim, AnySnapshot, AnyLease
<1>2. IoOK([op |-> "release", claim |-> ClaimOf(d)])
  BY <1>1 DEF IoOK, Ops
<1>3. AskRelease(d, x) => AsksOn(d, x, [op |-> "release", claim |-> ClaimOf(d)])
  BY <1>2 DEF AskRelease, AsksOn
<1>4. AskRelease(d, x) \/ \E o \in Free : Restores(d, o)
  BY DEF Continue, Restores
<1>5. CASE AskRelease(d, x)
  <2> DEFINE v == [op |-> "release", claim |-> ClaimOf(d)]
  <2>1. AsksOn(d, x, v) /\ v.op = "release"
    BY <1>3, <1>5
  <2> QED
    BY <2>1
<1> QED
  BY <1>4, <1>5

LEMMA ReconcileDoes ==
  ASSUME Shape, NEW d \in AnySnapshot, d.lease # NoLease, NEW x \in BOOLEAN, Reconcile(d, x)
  PROVE  \/ RefreshFails
         \/ \E v : AsksOn(d, x, v)
         \/ \E o : Restores(d, o) /\ d.lease.basis.node # "fence" /\ R.revision = d.lease.basis.graph
<1>1. ClaimOf(d) \in AnyClaim /\ d.lease.pending \in Nat /\ d.lease.basis.graph \in Int
  BY DEF ClaimOf, AnyClaim, AnySnapshot, AnyLease, AnyBasis
<1>2. R.revision \in Int
  BY Tasks DEF R, Shape, ToolShape, AnyTool
<1>3. AskRelease(d, x) => \E v : AsksOn(d, x, v)
  <2>1. IoOK([op |-> "release", claim |-> ClaimOf(d)])
    BY <1>1 DEF IoOK, Ops
  <2>2. AskRelease(d, x) => AsksOn(d, x, [op |-> "release", claim |-> ClaimOf(d)])
    BY <2>1 DEF AskRelease, AsksOn
  <2> QED
    BY <2>2
<1> DEFINE delta == R.revision - d.lease.basis.graph
           local == x /\ obj[R.object].release
           byReceipt == \/ Completed \/ d.lease.releaseWhenClean \/ local \/ ~x
                        \/ \E r \in Receipt(d) : r.release
           byEvidence == Completed \/ d.lease.releaseWhenClean \/ local
           settle == [op |-> "settle", claim |-> ClaimOf(d), attempt |-> d.lease.pending,
                      revision |-> R.revision, release |-> byReceipt]
           checkpoint == [op |-> "checkpoint", claim |-> ClaimOf(d), revision |-> R.revision,
                          release |-> byEvidence]
<1>4. IoOK(settle) /\ IoOK(checkpoint)
  BY <1>1, <1>2 DEF IoOK, Ops
<1>5. \/ AskRelease(d, x)
      \/ d.lease.basis.node # "fence" /\ delta = 0 /\ Continue(d, x)
      \/ d.lease.basis.node # "fence" /\ delta = 1 /\ d.lease.dirty /\ Receipt(d) # {} /\ Ask(settle, x, "settling")
      \/ d.lease.basis.node # "fence" /\ delta = 1 /\ ~d.lease.dirty /\ Evidence # {} /\ Ask(checkpoint, x, "settling")
      \/ RefreshFails
  BY DEF Reconcile
<1>6. CASE d.lease.basis.node # "fence" /\ delta = 0 /\ Continue(d, x)
  <2>1. R.revision = d.lease.basis.graph
    BY <1>1, <1>2, <1>6
  <2> QED
    BY <1>6, <2>1, ContinueDoes
<1>7. CASE d.lease.basis.node # "fence" /\ delta = 1 /\ d.lease.dirty /\ Receipt(d) # {} /\ Ask(settle, x, "settling")
  <2>1. /\ settle.op = "settle" /\ settle.claim = ClaimOf(d) /\ settle.revision = R.revision
        /\ settle.attempt = d.lease.pending
    OBVIOUS
  <2> HIDE DEF settle
  <2>2. AsksOn(d, x, settle)
    BY <1>4, <1>7, <2>1 DEF AsksOn
  <2> QED
    BY <2>2
<1>8. CASE d.lease.basis.node # "fence" /\ delta = 1 /\ ~d.lease.dirty /\ Evidence # {} /\ Ask(checkpoint, x, "settling")
  <2>1. checkpoint.op = "checkpoint" /\ checkpoint.claim = ClaimOf(d) /\ checkpoint.revision = R.revision
    OBVIOUS
  <2> HIDE DEF checkpoint
  <2>2. AsksOn(d, x, checkpoint)
    BY <1>4, <1>8, <2>1 DEF AsksOn
  <2> QED
    BY <2>2
<1> QED
  BY <1>3, <1>5, <1>6, <1>7, <1>8

LEMMA NewObjectOK ==
  ASSUME NEW d \in AnySnapshot, d.lease # NoLease, NEW k \in Int, NEW b \in BOOLEAN
  PROVE  /\ NewObject(d, k, b) \in AnyObject /\ NewObject(d, k, b).durable = d
         /\ NewObject(d, k, b).revision = k /\ NewObject(d, k, b).dirty = d.lease.dirty
<1>1. d.lease.dirty \in BOOLEAN /\ d.lease.releaseWhenClean \in BOOLEAN
  BY DEF AnySnapshot, AnyLease
<1> QED
  BY <1>1, NewOK DEF NewObject, AnyObject

LEMMA FreeIsUnused ==
  ASSUME NEW o \in Free
  PROVE  o \in Obj
BY DEF Free

LEMMA AsksOnShape ==
  ASSUME Shape, NEW d, NEW x \in BOOLEAN, NEW v, AsksOn(d, x, v), UNCHANGED OthersR
  PROVE  Shape'
<1> DEFINE p == IF v.op = "release" THEN "releasing" ELSE "settling"
<1>1. p \in ToolPc
  BY DEF ToolPc
<1>2. \/ v.op \in {"settle", "checkpoint"} /\ p = "settling"
      \/ v.op = "release" /\ p = "releasing"
  BY DEF AsksOn
<1>3. IoOK(v) /\ Ask(v, x, p)
  BY DEF AsksOn
<1> HIDE DEF p
<1> QED
  BY <1>1, <1>2, <1>3, AskShape

LEMMA RestoresShape ==
  ASSUME Shape, NEW d \in AnySnapshot, d.lease # NoLease, NEW o, Restores(d, o), UNCHANGED OthersR
  PROVE  Shape'
<1> DEFINE n == NewObject(d, R.revision, TRUE)
<1>1. R.revision \in Int
  BY Tasks DEF R, Shape, ToolShape, AnyTool
<1>2. n \in AnyObject /\ n.durable = d
  BY <1>1, NewObjectOK
<1>3. o \in Obj /\ o \in SomeObj
  BY FreeIsUnused DEF Restores, SomeObj
<1>4. obj' = [obj EXCEPT ![o] = n] /\ RestoredTo(o)
  BY DEF Restores
<1> HIDE DEF n
<1>5. ObjShape' /\ StillLive /\ Live(o)'
  BY <1>2, <1>3, <1>4 DEF Shape, ObjShape, StillLive, Live
<1> QED
  BY <1>3, <1>4, <1>5, RestoredShape

LEMMA RefreshQuietShape ==
  ASSUME Shape, NEW r \in AnyTool, tool' = [tool EXCEPT ![Refresh] = r], OpOf(Refresh) = "none",
         UNCHANGED <<File, me, graph, epoch, leases, begins, releases, latest, call, budget, io>>,
         auth' \in AnyAuth, ObjShape', StillLive
  PROVE  Shape'
<1>1. AsksAlone(Refresh)
  BY NoRequest, Tasks DEF Shape
<1>2. OpOf(Refresh)' = "none"
  BY DEF OpOf
<1>3. MemoryShape' /\ FileShape' /\ GraphShape'
  BY DEF Shape, MemoryShape, FileShape, GraphShape, File
<1>4. leases' # NoObj => Live(leases)'
  BY DEF Shape, LiveObjects, MemoryShape, SomeObj, StillLive, Live
<1> QED
  BY <1>1, <1>2, <1>3, <1>4, Tasks, SlotShape DEF SlotAsks

LEMMA RefreshShape ==
  ASSUME Shape, RefreshStart \/ RefreshStep
  PROVE  Shape'
<1> USE Tasks
<1>0. R \in AnyTool /\ tool \in [Slot -> AnyTool] /\ leases \in SomeObj /\ latest \in SomeObj
  BY DEF R, Shape, ToolShape, MemoryShape
<1>1. CASE RefreshStart
  <2> DEFINE r == [NewTool EXCEPT !.pc = "peeked", !.epoch = epoch, !.revision = graph.revision]
  <2>1. epoch \in Int /\ graph.revision \in Int
    BY DEF Shape, MemoryShape, GraphShape, AnyGraph
  <2>2. r \in AnyTool
    BY <2>1, NewOK DEF AnyTool, ToolPc
  <2>3. OpOf(Refresh) = "none"
    BY <1>1 DEF RefreshStart, Shape, Protocol
  <2> QED
    BY <1>1, <2>2, <2>3, RefreshQuietShape DEF RefreshStart, OthersR, Shape, MemoryShape, ObjShape, StillLive, Live
<1>2. CASE RestoreStart
  <2> DEFINE r == [tool[Refresh] EXCEPT !.pc = "waiting", !.object = leases, !.awaited = latest]
  <2>1. r \in AnyTool /\ tool' = [tool EXCEPT ![Refresh] = r]
    BY <1>0, <1>2 DEF RestoreStart, AnyTool, ToolPc
  <2>2. OpOf(Refresh) = "none"
    BY <1>2 DEF RestoreStart, Shape, Protocol
  <2> HIDE DEF r
  <2> QED
    BY <1>2, <2>1, <2>2, RefreshQuietShape DEF RestoreStart, OthersR, Shape, MemoryShape, ObjShape, StillLive, Live
<1>3. CASE RestoreRead
  <2> DEFINE q == [tool[Refresh] EXCEPT !.pc = "read", !.seen = Snapshot, !.awaited = NoObj]
  <2>1. Snapshot \in AnySnapshot /\ NoObj \in SomeObj
    BY DEF Shape, FileShape, Snapshot, AnySnapshot, SomeObj
  <2>2. q \in AnyTool
    BY <1>0, <2>1 DEF AnyTool, ToolPc
  <2>3. tool' = [tool EXCEPT ![Refresh] = q] \/ tool' = [tool EXCEPT ![Refresh] = NewTool]
    BY <1>0, <1>3 DEF RestoreRead, AnyTool
  <2>4. OpOf(Refresh) = "none"
    BY <1>3 DEF RestoreRead, Shape, Protocol
  <2> HIDE DEF q
  <2> QED
    BY <1>3, <2>2, <2>3, <2>4, NewOK, RefreshQuietShape DEF RestoreRead, OthersR, Shape, MemoryShape, ObjShape, StillLive, Live
<1>4. CASE RestoreFound
  <2> DEFINE d == R.seen
             v == [op |-> "checkout", basis |-> d.lease.basis, expected |-> d.generation]
  <2>1. d \in AnySnapshot /\ (d.lease # NoLease => d.lease \in AnyLease) /\ d.generation \in Nat
    BY <1>0 DEF AnyTool, AnySnapshot
  <2>2. Exact \in BOOLEAN
    BY DEF Exact
  <2>3. CASE RestoredTo(Forgotten) /\ UNCHANGED <<obj, fences>>
    <3>1. Forgotten \in {NoObj, leases} /\ Forgotten \in SomeObj
      BY <1>0 DEF Forgotten, SomeObj
    <3>2. PICK f : f = Forgotten
      OBVIOUS
    <3>3. f # NoObj => Live(f)'
      BY <2>3, <3>1, <3>2 DEF Live, Shape, LiveObjects
    <3> QED
      BY <1>4, <2>3, <3>1, <3>2, <3>3, RestoredShape DEF RestoreFound, ObjShape, StillLive, Live, Shape
  <2>4. CASE RefreshFails
    BY <1>4, <2>4, RefreshFailsShape DEF RestoreFound
  <2>5. CASE d.lease # NoLease /\ Reconcile(d, Exact)
    BY <1>4, <2>1, <2>2, <2>5, ReconcileDoes, RefreshFailsShape, AsksOnShape, RestoresShape DEF RestoreFound
  <2>6. CASE d.lease # NoLease /\ Ask(v, FALSE, "takeover")
    <3>1. IoOK(v) /\ v.op = "checkout"
      BY <2>1, <2>6 DEF IoOK, Ops, AnyLease
    <3>2. "takeover" \in ToolPc
      BY DEF ToolPc
    <3> HIDE DEF v
    <3> QED
      BY <1>4, <2>6, <3>1, <3>2, AskShape DEF RestoreFound
  <2> QED
    BY <1>4, <2>3, <2>4, <2>5, <2>6 DEF RestoreFound
<1>5. CASE RestoreReturns
  <2> DEFINE d == io[Refresh].snapshot
  <2>1. io[Refresh].ok => /\ d \in AnySnapshot
                          /\ R.pc = "takeover" => d.lease # NoLease
    <3>1. IoOK(io[Refresh]) /\ io[Refresh].op = "done"
      BY <1>5 DEF RestoreReturns, Returned, Shape, IoShape
    <3>2. R.pc = "takeover" => io[Refresh].of = "checkout"
      BY <3>1 DEF Shape, Protocol, OpOf, IoOK, Ops
    <3> QED
      BY <3>1, <3>2 DEF IoOK
  <2>2. Exact \in BOOLEAN /\ R.exact \in BOOLEAN
    BY <1>0 DEF Exact, AnyTool
  <2>3. CASE RefreshFails
    BY <1>5, <2>3, RefreshFailsShape DEF RestoreReturns
  <2>4. CASE io[Refresh].ok /\ d.lease # NoLease /\ Reconcile(d, Exact)
    BY <1>5, <2>1, <2>2, <2>4, ReconcileDoes, RefreshFailsShape, AsksOnShape, RestoresShape DEF RestoreReturns
  <2>5. CASE io[Refresh].ok /\ d.lease # NoLease /\ Continue(d, R.exact)
    BY <1>5, <2>1, <2>2, <2>5, ContinueDoes, AsksOnShape, RestoresShape DEF RestoreReturns
  <2>6. CASE RestoredTo(Forgotten) /\ UNCHANGED obj
    <3>1. Forgotten \in {NoObj, leases} /\ Forgotten \in SomeObj
      BY <1>0 DEF Forgotten, SomeObj
    <3>2. PICK f : f = Forgotten
      OBVIOUS
    <3>3. f # NoObj => Live(f)'
      BY <2>6, <3>1, <3>2 DEF Live, Shape, LiveObjects
    <3> QED
      BY <1>5, <2>6, <3>1, <3>2, <3>3, RestoredShape DEF RestoreReturns, ObjShape, StillLive, Live, Shape
  <2> QED
    BY <1>5, <2>1, <2>3, <2>4, <2>5, <2>6 DEF RestoreReturns
<1>6. CASE RefreshEnds
  <2> DEFINE receipt == [epoch |-> epoch, revision |-> R.revision, shown |-> FALSE]
             n == [obj[leases] EXCEPT !.basis = receipt, !.replaced = FALSE]
  <2>1. receipt \in AnyAuth
    BY <1>0 DEF AnyTool, AnyAuth, Shape, MemoryShape
  <2>2. auth' \in AnyAuth
    BY <1>6, <2>1 DEF RefreshEnds, Shape, MemoryShape
  <2>3. ObjShape' /\ StillLive
    <3>1. CASE obj' = obj
      BY <3>1 DEF Shape, ObjShape, StillLive, Live
    <3>2. CASE leases # NoObj /\ obj' = [obj EXCEPT ![leases].basis = receipt, ![leases].replaced = FALSE]
      <4> HIDE DEF receipt
      <4>1. leases \in Obj /\ obj[leases] \in AnyObject
        BY <1>0, <3>2 DEF SomeObj, Shape, ObjShape
      <4>2. n \in AnyObject /\ n.durable = obj[leases].durable
        BY <2>1, <4>1 DEF AnyObject
      <4>3. obj' = [obj EXCEPT ![leases] = n]
        BY <3>2, <4>1 DEF Shape, ObjShape, AnyObject
      <4> QED
        BY <4>1, <4>2, <4>3 DEF Shape, ObjShape, StillLive, Live
    <3> QED
      BY <1>6, <3>1, <3>2 DEF RefreshEnds
  <2>4. OpOf(Refresh) = "none"
    BY <1>6 DEF RefreshEnds, Shape, Protocol
  <2> QED
    BY <1>6, <2>2, <2>3, <2>4, NewOK, RefreshQuietShape DEF RefreshEnds
<1> QED
  BY <1>1, <1>2, <1>3, <1>4, <1>5, <1>6 DEF RefreshStep
-----------------------------------------------------------------------------
(* lattice_checkout, lattice_checkpoint and the plan tools.                 *)

ChangeMoves ==
  /\ AsksAlone(Change)
  /\ \E r \in AnyTool : tool' = [tool EXCEPT ![Change] = r] /\ LiveChange(r) /\ SlotAsks(Change, r)

LEMMA ChangeQuietShape ==
  ASSUME Shape, ChangeMoves, UNCHANGED <<File, me, leases, begins, auth, epoch, obj, releases, latest, call>>,
         GraphShape'
  PROVE  Shape'
<1>1. PICK r \in AnyTool : tool' = [tool EXCEPT ![Change] = r] /\ LiveChange(r) /\ SlotAsks(Change, r)
  BY DEF ChangeMoves
<1>2. ObjShape' /\ StillLive /\ MemoryShape' /\ FileShape' /\ (leases' # NoObj => Live(leases)')
  BY DEF Shape, ObjShape, StillLive, MemoryShape, FileShape, Live, File, LiveObjects
<1> QED
  BY <1>1, <1>2, Tasks, SlotShape DEF ChangeMoves

LEMMA ChangeEndsMoves ==
  ASSUME Shape, ChangeEnds, UNCHANGED io, OpOf(Change) = "none"
  PROVE  ChangeMoves
<1>1. AsksAlone(Change) /\ OpOf(Change)' = "none"
  BY NoRequest, Tasks DEF Shape, OpOf
<1>2. LiveChange(NewTool)
  BY NewOK DEF NewTool, LiveChange
<1> QED
  BY <1>1, <1>2, NewOK DEF ChangeMoves, ChangeEnds, SlotAsks

LEMMA ChangeEndsFreed ==
  ASSUME Shape, ChangeEnds, io' = [io EXCEPT ![Change] = None]
  PROVE  ChangeMoves
<1>1. AsksAlone(Change) /\ io'[Change] = None
  BY NewOK, OneRequest, Tasks DEF Shape
<1>2. OpOf(Change)' = "none"
  BY <1>1 DEF OpOf, None
<1>3. LiveChange(NewTool)
  BY NewOK DEF NewTool, LiveChange
<1> QED
  BY <1>1, <1>2, <1>3, NewOK DEF ChangeMoves, ChangeEnds, SlotAsks

LEMMA ChangeOK ==
  ASSUME Shape
  PROVE  /\ T \in AnyTool /\ T.seen \in AnySnapshot /\ T.revision \in Int /\ T.object \in SomeObj
         /\ T.seen.lease # NoLease => ClaimOf(T.seen) \in AnyClaim
         /\ T = tool[Change] /\ tool \in [Slot -> AnyTool]
         /\ T.tries \in Int /\ T.release \in BOOLEAN /\ T.epoch \in Int
<1>1. T \in AnyTool /\ tool \in [Slot -> AnyTool]
  BY Tasks DEF T, Shape, ToolShape
<1>2. T.seen \in AnySnapshot /\ T.revision \in Int /\ T.object \in SomeObj
      /\ T.tries \in Int /\ T.release \in BOOLEAN /\ T.epoch \in Int
  BY <1>1 DEF AnyTool
<1>3. T.seen.lease # NoLease => ClaimOf(T.seen) \in AnyClaim
  BY <1>2 DEF ClaimOf, AnyClaim, AnySnapshot, AnyLease
<1> QED
  BY <1>1, <1>2, <1>3 DEF T

LEMMA AbandonMoves ==
  ASSUME Shape, Abandon, T.pc \in {"change", "written", "publish", "published"}
  PROVE  ChangeMoves
<1>1. OpOf(Change) = "none"
  BY DEF Shape, Protocol
<1>2. CASE Checkpointing
  BY <1>1, <1>2, ChangeEndsMoves DEF Abandon
<1>3. CASE ~Checkpointing
  <2> DEFINE v == [op |-> "release", claim |-> ClaimOf(T.seen)]
             r == [tool[Change] EXCEPT !.pc = "undoing"]
  <2>1. T.seen.lease # NoLease
    BY <1>3 DEF Shape, LiveObjects, LiveChange, T, Checkpointing
  <2>2. IoOK(v) /\ v.op = "release"
    BY <2>1, ChangeOK DEF IoOK, Ops
  <2>3. io' = [io EXCEPT ![Change] = v] /\ tool' = [tool EXCEPT ![Change].pc = "undoing"]
    BY <1>3 DEF Abandon
  <2> HIDE DEF v
  <2>4. AsksAlone(Change) /\ io'[Change] = v
    BY <2>2, <2>3, OneRequest, Tasks DEF Shape
  <2>5. OpOf(Change)' = "release"
    BY <2>2, <2>4 DEF OpOf
  <2>6. /\ r \in AnyTool /\ tool' = [tool EXCEPT ![Change] = r] /\ r.pc = "undoing"
        /\ r.kind = T.kind /\ r.object = T.object /\ r.seen = T.seen
    BY <2>3, ChangeOK, Tasks DEF AnyTool, ToolPc
  <2> HIDE DEF r
  <2>7. LiveChange(r)
    BY <1>3, <2>1, <2>6 DEF LiveChange, Shape, LiveObjects, T, Checkpointing
  <2>8. SlotAsks(Change, r)
    BY <2>5, <2>6 DEF SlotAsks
  <2> QED
    BY <2>4, <2>6, <2>7, <2>8 DEF ChangeMoves
<1> QED
  BY <1>2, <1>3

\* The tool moves on and asks nothing.
LEMMA ChangeGoesOn ==
  ASSUME Shape, NEW r \in AnyTool, tool' = [tool EXCEPT ![Change] = r], LiveChange(r),
         \/ UNCHANGED io /\ OpOf(Change) = "none"
         \/ io' = [io EXCEPT ![Change] = None]
  PROVE  ChangeMoves
<1>1. AsksAlone(Change) /\ OpOf(Change)' = "none"
  <2>1. CASE UNCHANGED io /\ OpOf(Change) = "none"
    BY <2>1, NoRequest, Tasks DEF Shape, OpOf
  <2>2. CASE io' = [io EXCEPT ![Change] = None]
    <3>1. AsksAlone(Change) /\ io'[Change] = None
      BY <2>2, NewOK, OneRequest, Tasks DEF Shape
    <3> QED
      BY <3>1 DEF OpOf, None
  <2> QED
    BY <2>1, <2>2
<1> QED
  BY <1>1 DEF ChangeMoves, SlotAsks

LEMMA ReserveShape ==
  ASSUME Shape, Reserve \/ ReserveReturns
  PROVE  Shape'
<1> USE Tasks, ChangeOK
<1>1. CASE Reserve
  <2>1. ChangeMoves
    <3> DEFINE b == IF T.kind = "plan" THEN Basis("fence", T.revision) ELSE Basis("leaf", T.revision + 1)
               v == [op |-> "checkout", expected |-> generation, basis |-> b]
               r == [tool[Change] EXCEPT !.pc = "reserving"]
    <3>1. OpOf(Change) = "none"
      BY <1>1 DEF Reserve, Shape, Protocol
    <3>2. CASE ChangeEnds /\ UNCHANGED io
      BY <3>1, <3>2, ChangeEndsMoves
    <3>3. CASE io' = [io EXCEPT ![Change] = v] /\ tool' = [tool EXCEPT ![Change].pc = "reserving"]
      <4>1. b \in AnyBasis
        BY DEF Basis, AnyBasis
      <4> HIDE DEF b
      <4>2. IoOK(v) /\ v.op = "checkout"
        BY <4>1 DEF IoOK, Ops, Shape, FileShape
      <4> HIDE DEF v
      <4>3. AsksAlone(Change) /\ io'[Change] = v
        BY <3>3, <4>2, OneRequest DEF Shape
      <4>4. OpOf(Change)' = "checkout"
        BY <4>2, <4>3 DEF OpOf
      <4>5. /\ r \in AnyTool /\ tool' = [tool EXCEPT ![Change] = r] /\ r.pc = "reserving" /\ r.object = T.object
            /\ r.kind = T.kind
        BY <3>3 DEF AnyTool, ToolPc
      <4> HIDE DEF r
      <4>6. LiveChange(r)
        BY <1>1, <4>5 DEF Reserve, LiveChange, Shape, LiveObjects, T
      <4> QED
        BY <4>3, <4>4, <4>5, <4>6 DEF ChangeMoves, SlotAsks
    <3> QED
      BY <1>1, <3>2, <3>3 DEF Reserve
  <2> QED
    BY <1>1, <2>1, ChangeQuietShape DEF Reserve, OthersT, Shape, GraphShape
<1>2. CASE ReserveReturns
  <2> DEFINE s == io[Change].snapshot
             r == [tool[Change] EXCEPT !.pc = "change", !.seen = s]
  <2>1. io' = [io EXCEPT ![Change] = None]
    BY <1>2 DEF ReserveReturns
  <2>2. CASE ~io[Change].ok
    BY <1>2, <2>1, <2>2, ChangeEndsFreed, ChangeQuietShape DEF ReserveReturns, OthersT, Shape, GraphShape
  <2>3. CASE io[Change].ok
    <3>1. IoOK(io[Change]) /\ io[Change].op = "done" /\ io[Change].of = "checkout"
      <4>1. IoOK(io[Change]) /\ io[Change].op = "done"
        BY <1>2 DEF ReserveReturns, Returned, Shape, IoShape
      <4> QED
        BY <1>2, <4>1 DEF ReserveReturns, Shape, Protocol, OpOf, IoOK, Ops
    <3>2. s \in AnySnapshot /\ s.lease # NoLease
      BY <2>3, <3>1 DEF IoOK
    <3>3. /\ r \in AnyTool /\ tool' = [tool EXCEPT ![Change] = r] /\ r.pc = "change" /\ r.object = T.object
          /\ r.seen = s /\ r.kind = T.kind
      BY <1>2, <2>3, <3>2 DEF ReserveReturns, AnyTool, ToolPc
    <3> HIDE DEF r
    <3>4. r.kind \notin {"checkpoint", "complete"} \/ r.object # NoObj
      BY <1>2, <3>3 DEF ReserveReturns, Shape, LiveObjects, LiveChange, T, Checkpointing
    <3>5. LiveChange(r)
      BY <3>2, <3>3, <3>4 DEF LiveChange, Shape, LiveObjects, T
    <3> QED
      BY <1>2, <2>1, <3>3, <3>5, ChangeGoesOn, ChangeQuietShape DEF ReserveReturns, OthersT, Shape, GraphShape
  <2> QED
    BY <2>2, <2>3
<1> QED
  BY <1>1, <1>2

LEMMA WriteShape ==
  ASSUME Shape, WriteChange \/ CheckChange \/ PublishChange
  PROVE  Shape'
<1> USE Tasks, ChangeOK
<1>1. OpOf(Change) = "none"
  BY DEF WriteChange, CheckChange, PublishChange, Shape, Protocol
<1>2. ASSUME NEW p \in {"written", "publish", "published"}, NEW e \in Int,
             T.pc \in {"change", "written", "publish"}, UNCHANGED io,
             \/ tool' = [tool EXCEPT ![Change].pc = p, ![Change].evidence = e]
             \/ tool' = [tool EXCEPT ![Change].pc = p]
      PROVE  ChangeMoves
  <2> DEFINE q == [tool[Change] EXCEPT !.pc = p]
             r == [tool[Change] EXCEPT !.pc = p, !.evidence = e]
  <2>1. p \in ToolPc
    BY DEF ToolPc
  <2>2. /\ q \in AnyTool /\ q.pc = p /\ q.kind = T.kind /\ q.object = T.object /\ q.seen = T.seen
        /\ r \in AnyTool /\ r.pc = p /\ r.kind = T.kind /\ r.object = T.object /\ r.seen = T.seen
        /\ tool' = [tool EXCEPT ![Change] = q] \/ tool' = [tool EXCEPT ![Change] = r]
    BY <1>2, <2>1 DEF AnyTool
  <2> HIDE DEF q, r
  <2>3. LiveChange(q) /\ LiveChange(r)
    BY <1>2, <2>2 DEF LiveChange, Shape, LiveObjects, T
  <2> QED
    BY <1>1, <1>2, <2>2, <2>3, ChangeGoesOn
<1>3. generation \in Int /\ T.evidence \in Int
  BY DEF Shape, FileShape, AnyTool
<1>4. CASE WriteChange
  <2>1. ChangeMoves
    <3>1. CASE Abandon
      BY <1>4, <3>1, AbandonMoves DEF WriteChange
    <3>2. CASE ~Abandon
      BY <1>2, <1>3, <1>4, <3>2 DEF WriteChange
    <3> QED
      BY <3>1, <3>2
  <2>2. GraphShape'
    BY <1>4 DEF WriteChange, OthersT, Shape, GraphShape, AnyGraph
  <2> QED
    BY <1>4, <2>1, <2>2, ChangeQuietShape DEF WriteChange, OthersT
<1>5. CASE CheckChange
  <2>1. ChangeMoves
    <3>1. CASE Abandon
      BY <1>5, <3>1, AbandonMoves DEF CheckChange
    <3>2. CASE ~Abandon
      BY <1>2, <1>3, <1>5, <3>2 DEF CheckChange
    <3> QED
      BY <3>1, <3>2
  <2>2. GraphShape'
    BY <1>5 DEF CheckChange, OthersT, Shape, GraphShape, AnyGraph
  <2> QED
    BY <1>5, <2>1, <2>2, ChangeQuietShape DEF CheckChange, OthersT
<1>6. CASE PublishChange
  <2>1. ChangeMoves
    <3>1. CASE Abandon
      BY <1>6, <3>1, AbandonMoves DEF PublishChange
    <3>2. CASE ~Abandon
      BY <1>2, <1>3, <1>6, <3>2 DEF PublishChange
    <3> QED
      BY <3>1, <3>2
  <2>2. GraphShape'
    <3> DEFINE k == graph.revision + 1
               es == NewEvidence
               done == IF T.kind = "complete" THEN graph.revision + 1 ELSE IF T.kind = "checkout" THEN 0 ELSE graph.done
    <3>1. graph \in AnyGraph /\ graph.revision \in Int /\ k \in Int /\ done \in Int
      BY DEF Shape, GraphShape, AnyGraph
    <3>2. es \in SUBSET [at : Int, revision : Int]
      <4>1. [at |-> T.evidence, revision |-> k] \in [at : Int, revision : Int]
        BY <1>3, <3>1
      <4>2. graph.evidence \in SUBSET [at : Int, revision : Int]
        BY <3>1 DEF AnyGraph
      <4> QED
        BY <4>1, <4>2 DEF NewEvidence
    <3>3. \/ /\ graph' = [graph EXCEPT !.writer = NoObj, !.revision = k, !.evidence = es, !.done = done]
             /\ UNCHANGED budget
          \/ /\ graph' = [graph EXCEPT !.writer = NoObj] /\ budget.fail > 0
             /\ budget' = [budget EXCEPT !.fail = @ - 1]
      BY <1>6, <3>1 DEF PublishChange, AnyGraph
    <3> HIDE DEF k, es, done
    <3>4. graph' \in AnyGraph
      BY <3>1, <3>2, <3>3 DEF AnyGraph
    <3>5. budget' \in AnyBudget
      BY <3>3 DEF Shape, GraphShape, AnyBudget
    <3> QED
      BY <3>4, <3>5 DEF GraphShape
  <2> QED
    BY <1>6, <2>1, <2>2, ChangeQuietShape DEF PublishChange, OthersT
<1> QED
  BY <1>4, <1>5, <1>6

LEMMA PlanShape ==
  ASSUME Shape, PlanChanged \/ Undone
  PROVE  Shape'
<1>1. CASE PlanChanged
  BY <1>1, AbandonMoves, ChangeQuietShape DEF PlanChanged, OthersT, Shape, GraphShape
<1>2. CASE Undone
  BY <1>2, ChangeEndsFreed, ChangeQuietShape DEF Undone, OthersT, Shape, GraphShape
<1> QED
  BY <1>1, <1>2

LEMMA AskCheckpointMoves ==
  ASSUME Shape, NEW s \in AnySnapshot, s.lease # NoLease, NEW b \in BOOLEAN, AskCheckpoint(s, b),
         Checkpointing, T.object # NoObj
  PROVE  ChangeMoves
<1> USE Tasks, ChangeOK
<1> DEFINE k == T.revision + 1
           n == T.tries + 1
           v == [op |-> "checkpoint", claim |-> ClaimOf(s), revision |-> k, release |-> b]
           r == [tool[Change] EXCEPT !.pc = "closing", !.seen = s, !.release = b, !.tries = n]
<1>1. ClaimOf(s) \in AnyClaim /\ k \in Int /\ n \in Int
  BY DEF ClaimOf, AnyClaim, AnySnapshot, AnyLease
<1>2. io' = [io EXCEPT ![Change] = v]
  BY DEF AskCheckpoint
<1>3. tool' = [tool EXCEPT ![Change] = r]
  BY DEF AskCheckpoint, AnyTool
<1> HIDE DEF k, n
<1>4. IoOK(v) /\ v.op = "checkpoint"
  BY <1>1 DEF IoOK, Ops
<1> HIDE DEF v
<1>5. AsksAlone(Change) /\ io'[Change] = v
  BY <1>2, <1>4, OneRequest DEF Shape
<1>6. OpOf(Change)' = "checkpoint"
  BY <1>4, <1>5 DEF OpOf
<1>7. r \in AnyTool /\ r.pc = "closing" /\ r.kind = T.kind /\ r.object = T.object /\ r.seen = s
  BY <1>1 DEF AnyTool, ToolPc
<1> HIDE DEF r
<1>8. LiveChange(r)
  BY <1>7 DEF LiveChange, Shape, LiveObjects, T, Checkpointing
<1> QED
  BY <1>3, <1>5, <1>6, <1>7, <1>8 DEF ChangeMoves, SlotAsks

\* The objects of a step of the change tool that replaces the current one.
LEMMA ChangeReplaces ==
  ASSUME Shape, ChangeMoves, UNCHANGED <<File, me, graph, budget, begins>>, ObjShape', StillLive,
         epoch' \in Nat, auth' \in AnyAuth, leases' \in SomeObj, leases' # NoObj => Live(leases)',
         releases' \in [Obj -> [running : BOOLEAN, ok : BOOLEAN]], latest' \in SomeObj,
         call' = call \/ call' = Aborted
  PROVE  Shape'
<1>1. PICK r \in AnyTool : tool' = [tool EXCEPT ![Change] = r] /\ LiveChange(r) /\ SlotAsks(Change, r)
  BY DEF ChangeMoves
<1>2. MemoryShape' /\ FileShape' /\ GraphShape'
  BY DEF Shape, MemoryShape, FileShape, File, GraphShape
<1> QED
  BY <1>1, <1>2, Tasks, SlotShape DEF ChangeMoves

LEMMA CloseShape ==
  ASSUME Shape, NEW s \in AnySnapshot, Close(s), Checkpointing, T.object # NoObj, T.pc # "converging",
         io[Change].op \in {"done", "none"},
         UNCHANGED <<File, me, begins, graph, epoch, auth, call, budget>>
  PROVE  Shape'
<1> USE Tasks, ChangeOK
<1>1. epoch' \in Nat /\ auth' \in AnyAuth /\ begins \in SomeObj
  BY DEF Shape, MemoryShape
<1>2. CASE s.lease = NoLease
  <2>1. /\ leases' = NoObj /\ ChangeEnds /\ io' = [io EXCEPT ![Change] = None]
        /\ UNCHANGED <<obj, releases, latest>>
    BY <1>2 DEF Close
  <2>2. ChangeMoves
    BY <2>1, ChangeEndsFreed
  <2> QED
    BY <1>1, <2>1, <2>2, ChangeReplaces DEF Shape, ObjShape, StillLive, Live, MemoryShape, SomeObj
<1>3. CASE s.lease # NoLease
  <2> DEFINE k == T.revision + 1
             n == [obj[T.object] EXCEPT !.durable = s, !.revision = k, !.dirty = FALSE, !.basis = NoAuth,
                                        !.origin = 0]
  <2>1. T.object \in Obj /\ obj[T.object] \in AnyObject /\ k \in Int
    BY DEF SomeObj, Shape, ObjShape
  <2> HIDE DEF k
  <2>2. n \in AnyObject /\ n.durable = s
    BY <2>1, NewOK DEF AnyObject
  <2> HIDE DEF n
  <2>3. PICK o \in Free :
          /\ leases' = o
          /\ \/ /\ Schedule(o, o, [obj EXCEPT ![o] = n], [io EXCEPT ![Change] = None])
                /\ tool' = [tool EXCEPT ![Change].pc = "converging", ![Change].object = o, ![Change].tries = 1]
             \/ /\ obj' = [obj EXCEPT ![o] = n] /\ io' = [io EXCEPT ![Change] = None]
                /\ ChangeEnds /\ UNCHANGED <<releases, latest>>
    BY <1>3, <2>1 DEF Close, n, k
  <2> DEFINE kept == [obj EXCEPT ![o] = n]
  <2>4. o \in Obj /\ o \in SomeObj
    BY FreeIsUnused DEF SomeObj
  <2>5. /\ kept \in [Obj -> AnyObject] /\ kept[o].durable.lease # NoLease
        /\ \A x \in Obj : Live(x) => kept[x].durable.lease # NoLease
    BY <1>3, <2>2, <2>4 DEF Shape, ObjShape, Live
  <2> HIDE DEF kept
  <2>6. CASE obj' = kept /\ io' = [io EXCEPT ![Change] = None] /\ ChangeEnds /\ UNCHANGED <<releases, latest>>
    <3>1. ChangeMoves
      BY <2>6, ChangeEndsFreed
    <3>2. ObjShape' /\ StillLive /\ Live(leases)'
      BY <2>3, <2>4, <2>5, <2>6 DEF ObjShape, StillLive, Live
    <3> QED
      BY <1>1, <2>3, <2>4, <2>6, <3>1, <3>2, ChangeReplaces DEF Shape, MemoryShape
  <2>7. CASE /\ Schedule(o, o, kept, [io EXCEPT ![Change] = None])
             /\ tool' = [tool EXCEPT ![Change].pc = "converging", ![Change].object = o, ![Change].tries = 1]
    <3>1. /\ AsksAlone(Change) /\ OpOf(Change)' = "none" /\ ObjShape' /\ StillLive
          /\ \A x \in Obj : obj'[x].durable = kept[x].durable
          /\ releases' \in [Obj -> [running : BOOLEAN, ok : BOOLEAN]] /\ latest' \in SomeObj
      BY <2>4, <2>5, <2>7, ScheduledBeside DEF Slot
    <3> DEFINE r == [tool[Change] EXCEPT !.pc = "converging", !.object = o, !.tries = 1]
    <3>2. r \in AnyTool /\ tool' = [tool EXCEPT ![Change] = r] /\ r.pc = "converging" /\ r.object = o
      <4> DEFINE q == [tool[Change] EXCEPT !.pc = "converging"]
      <4>1. q \in AnyTool /\ q.pc = "converging"
        BY DEF AnyTool, ToolPc
      <4> DEFINE m == [q EXCEPT !.object = o]
      <4> HIDE DEF q
      <4>2. m \in AnyTool /\ m.pc = "converging" /\ m.object = o
        BY <2>4, <4>1 DEF AnyTool
      <4>3. tool' = [tool EXCEPT ![Change] = r]
        BY <2>7 DEF AnyTool
      <4>4. r = [m EXCEPT !.tries = 1]
        BY DEF AnyTool, m, q
      <4> HIDE DEF m, r
      <4>5. r \in AnyTool /\ r.pc = "converging" /\ r.object = o
        BY <4>2, <4>4 DEF AnyTool
      <4> QED
        BY <4>3, <4>5
    <3> HIDE DEF r
    <3>3. Live(leases)'
      BY <2>3, <2>4, <2>5, <3>1 DEF Live
    <3>4. ToolShape' /\ tool'[Change] = r /\ (\A x \in Slot : x # Change => tool'[x] = tool[x])
      BY <3>2 DEF ToolShape
    <3>5. Shape'
      <4>1. CallShape' /\ call' = call
        BY DEF Shape, CallShape
      <4>2. Protocol'
        <5>1. \A c \in Call : CallAsks(c)'
          BY <4>1, <3>1 DEF AsksAlone, CallAsks, OpOf, Shape, Protocol
        <5>2. OpOf(Refresh)' = OpOf(Refresh) /\ R' = R
          BY <3>1, <3>4 DEF AsksAlone, OpOf, R
        <5> QED
          BY <5>1, <5>2, <3>1 DEF Protocol, Shape, AsksAlone
      <4>3. ASSUME NEW d \in Call PROVE LiveCall(call[d])'
        <5>1. \A x \in SomeObj : x # NoObj /\ Live(x) => Live(x)'
          BY <3>1 DEF SomeObj, StillLive
        <5>2. LiveCall(call[d]) /\ call[d].object \in SomeObj /\ call[d].settling \in SomeObj /\ call'[d] = call[d]
          BY <4>1 DEF Shape, CallShape, AnyCall, LiveObjects
        <5>3. PICK q : q = call[d]
          OBVIOUS
        <5>4. LiveCall(q)'
          BY <5>1, <5>2, <5>3 DEF LiveCall
        <5> QED
          BY <5>2, <5>3, <5>4 DEF LiveCall, Live
      <4>4. LiveChange(tool[Change])'
        BY <2>3, <3>2, <3>3, <3>4 DEF LiveChange, Live
      <4>5. MemoryShape' /\ FileShape' /\ GraphShape'
        BY <1>1, <2>3, <2>4, <3>1 DEF Shape, MemoryShape, FileShape, File, GraphShape
      <4> QED
        BY <3>1, <3>3, <3>4, <4>1, <4>2, <4>3, <4>4, <4>5 DEF Shape, LiveObjects, AsksAlone
    <3> QED
      BY <3>5
  <2> QED
    BY <2>3, <2>6, <2>7 DEF kept
<1> QED
  BY <1>2, <1>3

LEMMA CheckpointShape ==
  ASSUME Shape, CheckpointCommitted \/ CheckpointReturns \/ Reread
  PROVE  Shape'
<1> USE Tasks, ChangeOK
<1>1. Checkpointing /\ T.object # NoObj
  BY DEF CheckpointCommitted, CheckpointReturns, Reread, Shape, LiveObjects, LiveChange, T, Checkpointing
<1>2. Live(T.object) /\ obj[T.object].durable \in AnySnapshot /\ obj[T.object].durable.lease # NoLease
  BY <1>1 DEF Shape, LiveObjects, LiveChange, T, Live, ObjShape, AnyObject
<1>3. ASSUME ChangeMoves, UNCHANGED <<File, me, leases, begins, auth, epoch, obj, releases, latest, call, graph, budget>>
      PROVE  Shape'
  BY <1>3, ChangeQuietShape DEF Shape, GraphShape
<1>4. CASE CheckpointCommitted
  <2> DEFINE b == T.kind = "complete" \/ ReleaseAsked(T.object)
  <2>1. b \in BOOLEAN
    OBVIOUS
  <2>2. AskCheckpoint(obj[T.object].durable, b)
    BY <1>4 DEF CheckpointCommitted
  <2> HIDE DEF b
  <2>3. ChangeMoves
    BY <1>1, <1>2, <2>1, <2>2, AskCheckpointMoves
  <2> QED
    BY <1>3, <1>4, <2>3 DEF CheckpointCommitted, OthersT
<1>5. CASE CheckpointReturns
  <2> DEFINE r == [tool[Change] EXCEPT !.pc = "reread"]
  <2>1. T.seen.lease # NoLease /\ T.pc \in {"closing", "closingRelease"}
    BY <1>5 DEF CheckpointReturns, Shape, LiveObjects, LiveChange, T
  <2>2. io[Change].op = "done" /\ (io[Change].ok => io[Change].snapshot \in AnySnapshot)
    BY <1>5 DEF CheckpointReturns, Returned, Shape, IoShape, IoOK
  <2>3. UNCHANGED <<File, me, begins, graph, epoch, auth, call, budget>>
    BY <1>5 DEF CheckpointReturns
  <2>4. CASE io[Change].ok
    BY <1>1, <1>5, <2>1, <2>2, <2>3, <2>4, CloseShape DEF CheckpointReturns
  <2>5. CASE ~io[Change].ok
    <3>1. UNCHANGED <<leases, obj, releases, latest>>
      BY <1>5, <2>5 DEF CheckpointReturns
    <3>2. r \in AnyTool /\ r.pc = "reread" /\ r.kind = T.kind /\ r.object = T.object /\ r.seen = T.seen
      BY DEF AnyTool, ToolPc
    <3>3. tool' = [tool EXCEPT ![Change].pc = "reread"] => tool' = [tool EXCEPT ![Change] = r]
      BY DEF AnyTool
    <3> HIDE DEF r
    <3>4. LiveChange(r)
      BY <1>1, <2>1, <3>2 DEF LiveChange, Shape, LiveObjects, T, Checkpointing
    <3>5. \/ io' = [io EXCEPT ![Change] = None] /\ tool' = [tool EXCEPT ![Change] = r]
          \/ AskCheckpoint(T.seen, T.release)
          \/ ChangeEnds /\ io' = [io EXCEPT ![Change] = None]
      BY <1>5, <2>5, <3>3 DEF CheckpointReturns
    <3>6. ChangeMoves
      BY <1>1, <2>1, <3>2, <3>4, <3>5, ChangeGoesOn, AskCheckpointMoves, ChangeEndsFreed
    <3> QED
      BY <1>3, <2>3, <3>1, <3>6
  <2> QED
    BY <2>4, <2>5
<1>6. CASE Reread
  <2> DEFINE b == T.release \/ ReleaseAsked(T.object) \/ (E!Held /\ lease.releaseWhenClean)
             v == [op |-> "release", claim |-> ClaimOf(Snapshot)]
             r == [tool[Change] EXCEPT !.pc = "closingRelease", !.seen = Snapshot, !.release = b]
  <2>1. OpOf(Change) = "none" /\ io[Change].op \in {"done", "none"}
    BY <1>6 DEF Reread, Shape, Protocol, OpOf, IoShape, IoOK, Ops
  <2>2. UNCHANGED <<File, me, begins, graph, epoch, auth, call, budget>>
    BY <1>6 DEF Reread
  <2>3. Snapshot \in AnySnapshot /\ Snapshot.lease = lease /\ b \in BOOLEAN
    BY DEF Snapshot, AnySnapshot, Shape, FileShape
  <2>4. \/ Close(Snapshot)
        \/ ChangeEnds /\ UNCHANGED <<io, leases, obj, releases, latest>>
        \/ lease # NoLease /\ AskCheckpoint(Snapshot, b) /\ UNCHANGED <<leases, obj, releases, latest>>
        \/ /\ lease # NoLease /\ io' = [io EXCEPT ![Change] = v]
           /\ tool' = [tool EXCEPT ![Change].pc = "closingRelease", ![Change].seen = Snapshot, ![Change].release = b]
           /\ UNCHANGED <<leases, obj, releases, latest>>
    BY <1>6 DEF Reread
  <2>5. CASE Close(Snapshot)
    <3>1. T.pc # "converging"
      BY <1>6 DEF Reread
    <3> QED
      BY <1>1, <2>1, <2>2, <2>3, <2>5, <3>1, CloseShape
  <2>6. CASE ChangeEnds /\ UNCHANGED <<io, leases, obj, releases, latest>>
    BY <1>3, <2>1, <2>2, <2>6, ChangeEndsMoves
  <2> HIDE DEF b
  <2>7. CASE lease # NoLease /\ AskCheckpoint(Snapshot, b) /\ UNCHANGED <<leases, obj, releases, latest>>
    BY <1>1, <1>3, <2>2, <2>3, <2>7, AskCheckpointMoves
  <2>8. CASE /\ lease # NoLease /\ io' = [io EXCEPT ![Change] = v]
             /\ tool' = [tool EXCEPT ![Change].pc = "closingRelease", ![Change].seen = Snapshot, ![Change].release = b]
             /\ UNCHANGED <<leases, obj, releases, latest>>
    <3>1. ClaimOf(Snapshot) \in AnyClaim
      BY <2>8 DEF ClaimOf, AnyClaim, Snapshot, Shape, FileShape, AnyLease
    <3>2. IoOK(v) /\ v.op = "release"
      BY <3>1 DEF IoOK, Ops
    <3> HIDE DEF v
    <3>3. AsksAlone(Change) /\ io'[Change] = v
      BY <2>8, <3>2, OneRequest DEF Shape
    <3>4. OpOf(Change)' = "release"
      BY <3>2, <3>3 DEF OpOf
    <3>5. /\ r \in AnyTool /\ tool' = [tool EXCEPT ![Change] = r] /\ r.pc = "closingRelease"
          /\ r.kind = T.kind /\ r.object = T.object /\ r.seen = Snapshot
      BY <2>3, <2>8 DEF AnyTool, ToolPc
    <3> HIDE DEF r
    <3>6. LiveChange(r)
      BY <1>1, <2>3, <2>8, <3>5 DEF LiveChange, Shape, LiveObjects, T, Checkpointing
    <3>7. ChangeMoves
      BY <3>3, <3>4, <3>5, <3>6 DEF ChangeMoves, SlotAsks
    <3> QED
      BY <1>3, <2>2, <2>8, <3>7
  <2> QED
    BY <2>4, <2>5, <2>6, <2>7, <2>8
<1> QED
  BY <1>4, <1>5, <1>6

LEMMA CheckedOutShape ==
  ASSUME Shape, CheckedOut
  PROVE  Shape'
<1> USE Tasks, ChangeOK
<1> DEFINE k == T.revision + 1
           n == NewObject(T.seen, k, FALSE)
<1>1. OpOf(Change) = "none" /\ T.seen.lease # NoLease /\ k \in Int
  BY DEF CheckedOut, Shape, Protocol, LiveObjects, LiveChange, T
<1> HIDE DEF k
<1>2. n \in AnyObject /\ n.durable = T.seen
  BY <1>1, NewObjectOK
<1> HIDE DEF n
<1>3. /\ epoch' \in Nat /\ auth' \in AnyAuth /\ ChangeEnds /\ call' = Aborted
      /\ UNCHANGED <<File, me, begins, graph, budget>>
  BY NewOK DEF CheckedOut, EndEpoch, Shape, MemoryShape
<1>4. PICK o \in Free : /\ leases' = o
                        /\ \/ /\ obj' = [obj EXCEPT ![o] = n] /\ UNCHANGED <<io, releases, latest>>
                           \/ leases # NoObj /\ Schedule(leases, leases, [obj EXCEPT ![o] = n], io)
  BY DEF CheckedOut, n, k
<1> DEFINE kept == [obj EXCEPT ![o] = n]
<1>5. o \in Obj /\ o \in SomeObj
  BY FreeIsUnused DEF SomeObj
<1>6. /\ kept \in [Obj -> AnyObject] /\ kept[o].durable.lease # NoLease
      /\ \A x \in Obj : Live(x) => kept[x].durable.lease # NoLease
  BY <1>1, <1>2, <1>5 DEF Shape, ObjShape, Live
<1> HIDE DEF kept
<1>7. ChangeMoves /\ ObjShape' /\ StillLive /\ Live(leases)'
      /\ releases' \in [Obj -> [running : BOOLEAN, ok : BOOLEAN]] /\ latest' \in SomeObj
  <2>1. CASE obj' = kept /\ UNCHANGED <<io, releases, latest>>
    <3>1. ChangeMoves
      BY <1>1, <1>3, <2>1, ChangeEndsMoves
    <3> QED
      BY <1>4, <1>5, <1>6, <2>1, <3>1 DEF ObjShape, StillLive, Live, Shape, MemoryShape
  <2>2. CASE leases # NoObj /\ Schedule(leases, leases, kept, io)
    <3>1. leases \in Obj /\ leases \in SomeObj /\ Live(leases)
      BY <2>2 DEF Shape, MemoryShape, SomeObj, LiveObjects
    <3>2. kept[leases].durable.lease # NoLease
      BY <1>6, <3>1
    <3>3. /\ AsksAlone(Change) /\ ObjShape' /\ StillLive
          /\ OpOf(Change)' \in {"none", OpOf(Change)}
          /\ \A x \in Obj : obj'[x].durable = kept[x].durable
          /\ releases' \in [Obj -> [running : BOOLEAN, ok : BOOLEAN]] /\ latest' \in SomeObj
      BY <1>6, <2>2, <3>1, <3>2, ScheduledBeside DEF Slot
    <3>4. LiveChange(NewTool)
      BY NewOK DEF NewTool, LiveChange
    <3>5. ChangeMoves
      BY <1>1, <1>3, <3>3, <3>4, NewOK DEF ChangeMoves, ChangeEnds, SlotAsks
    <3>6. Live(leases)'
      BY <1>4, <1>5, <1>6, <3>3 DEF Live
    <3> QED
      BY <3>3, <3>5, <3>6
  <2> QED
    BY <1>4, <2>1, <2>2 DEF kept
<1> QED
  BY <1>3, <1>4, <1>5, <1>7, ChangeReplaces

LEMMA ConvergeChangeShape ==
  ASSUME Shape, ConvergeChange
  PROVE  Shape'
<1> USE Tasks, ChangeOK
<1>1. OpOf(Change) = "none" /\ (leases # NoObj => Live(leases)) /\ leases \in SomeObj
      /\ epoch' \in Nat /\ auth' \in AnyAuth /\ latest \in SomeObj
  BY DEF ConvergeChange, Shape, Protocol, LiveObjects, MemoryShape
<1>2. CASE ChangeEnds /\ UNCHANGED <<obj, io, releases, latest>>
  BY <1>1, <1>2, ChangeEndsMoves, ChangeQuietShape DEF ConvergeChange, OthersT, Shape, GraphShape
<1>3. CASE T.tries < 2 /\ leases = T.object
  <2> DEFINE o == T.object
             r == [tool[Change] EXCEPT !.tries = 2]
  <2>1. /\ Schedule(leases, o, obj, io) /\ tool' = [tool EXCEPT ![Change].tries = 2]
        /\ UNCHANGED <<File, me, leases, begins, graph, epoch, auth, call, budget>>
    BY <1>3 DEF ConvergeChange, OthersT
  <2>2. o # NoObj
    BY DEF ConvergeChange, Shape, LiveObjects, LiveChange, T
  <2>3. Shape'
    <3>1. o \in Obj /\ Live(o) /\ leases = o
      BY <1>1, <1>3, <2>2 DEF Live
    <3>2. obj \in [Obj -> AnyObject] /\ obj[o].durable.lease # NoLease
          /\ \A x \in Obj : Live(x) => obj[x].durable.lease # NoLease
      BY <3>1 DEF Shape, ObjShape, Live
    <3>3. /\ AsksAlone(Change) /\ ObjShape' /\ StillLive
          /\ OpOf(Change)' \in {"none", OpOf(Change)}
          /\ \A x \in Obj : obj'[x].durable = obj[x].durable
          /\ releases' \in [Obj -> [running : BOOLEAN, ok : BOOLEAN]] /\ latest' \in SomeObj
      BY <1>1, <2>1, <3>1, <3>2, ScheduledBeside DEF Slot
    <3>4. r \in AnyTool /\ tool' = [tool EXCEPT ![Change] = r] /\ r.pc = "converging" /\ r.object = o
      BY <2>1 DEF AnyTool, ConvergeChange
    <3> HIDE DEF r
    <3>5. LiveChange(r)
      BY <3>1, <3>4 DEF LiveChange
    <3>6. ChangeMoves
      BY <1>1, <3>3, <3>4, <3>5 DEF ChangeMoves, SlotAsks
    <3>7. Live(leases)'
      BY <2>1, <3>1, <3>3 DEF StillLive, Live
    <3> QED
      BY <1>1, <2>1, <3>3, <3>6, <3>7, ChangeReplaces
  <2> QED
    BY <2>3
<1> QED
  BY <1>2, <1>3 DEF ConvergeChange

LEMMA ChangeStepShape ==
  ASSUME Shape, ChangeStep
  PROVE  Shape'
BY ReserveShape, WriteShape, PlanShape, CheckpointShape, CheckedOutShape, ConvergeChangeShape DEF ChangeStep

LEMMA ConsumeShape ==
  ASSUME Shape, NEW kind \in Kinds, Consume(kind)
  PROVE  Shape'
<1> USE Tasks, ChangeOK
<1>1. OpOf(Change) = "none" /\ leases \in SomeObj /\ (leases # NoObj => Live(leases))
      /\ epoch' = epoch + 1 /\ epoch' \in Nat /\ epoch' \in Int /\ graph.revision \in Int
  BY DEF Consume, EndEpoch, Shape, Protocol, MemoryShape, LiveObjects, GraphShape, AnyGraph
<1>2. ObjShape' /\ StillLive
  <2>1. CASE leases = NoObj
    BY <2>1 DEF Consume, Shape, ObjShape, StillLive, Live
  <2>2. CASE leases # NoObj
    <3> DEFINE n == [obj[leases] EXCEPT !.basis = NoAuth]
    <3>1. leases \in Obj /\ obj[leases] \in AnyObject
      BY <1>1, <2>2 DEF SomeObj, Shape, ObjShape
    <3>2. n \in AnyObject /\ n.durable = obj[leases].durable
      BY <3>1, NewOK DEF AnyObject
    <3>3. obj' = [obj EXCEPT ![leases] = n]
      BY <2>2, <3>1 DEF Consume, Shape, ObjShape, AnyObject
    <3> QED
      BY <3>1, <3>2, <3>3 DEF Shape, ObjShape, StillLive, Live
  <2> QED
    BY <2>1, <2>2
<1>3. ChangeMoves
  <2>1. CASE tool' = tool
    <3>1. tool' = [tool EXCEPT ![Change] = T] /\ LiveChange(T)
      BY <2>1 DEF T, Shape, LiveObjects
    <3> QED
      BY <1>1, <3>1, ChangeGoesOn DEF Consume
  <2>2. CASE tool' # tool
    <3> DEFINE p == IF kind \in {"checkpoint", "complete"} THEN "change" ELSE "consumed"
               o == IF kind \in {"checkpoint", "complete"} THEN leases ELSE NoObj
               e == epoch'
               g == graph.revision
    <3>1. PICK ep : ep = epoch'
      OBVIOUS
    <3> DEFINE r == [NewTool EXCEPT !.pc = p, !.kind = kind, !.epoch = ep, !.revision = graph.revision, !.object = o]
    <3>2. tool' = [tool EXCEPT ![Change] = r]
      BY <2>2, <3>1 DEF Consume
    <3>3. p \in ToolPc /\ o \in SomeObj /\ kind \in Kinds \cup {"none"} /\ ep \in Int
      BY <1>1, <3>1 DEF ToolPc, SomeObj
    <3>4. p \in {"change", "consumed"} /\ (p = "change" <=> kind \in {"checkpoint", "complete"})
          /\ (o # NoObj => Live(o)) /\ (p = "change" => o # NoObj)
      BY <1>1 DEF Consume
    <3> HIDE DEF p, o
    <3>5. r \in AnyTool /\ r.pc = p /\ r.kind = kind /\ r.object = o
      BY <1>1, <3>3, NewOK DEF AnyTool
    <3> HIDE DEF r
    <3>6. LiveChange(r)
      BY <3>4, <3>5 DEF LiveChange
    <3> QED
      BY <1>1, <3>2, <3>5, <3>6, ChangeGoesOn DEF Consume
  <2> QED
    BY <2>1, <2>2
<1>4. Live(leases)' \/ leases = NoObj
  BY <1>1, <1>2 DEF StillLive, Live, Consume, OthersT
<1> QED
  BY <1>1, <1>2, <1>3, <1>4, NewOK, ChangeReplaces DEF Consume, EndEpoch, OthersT, Shape, MemoryShape

\* A step beside the two tools.
LEMMA BesideToolsShape ==
  ASSUME Shape, UNCHANGED tool, AsksAlone(Refresh), OpOf(Refresh)' \in {"none", OpOf(Refresh)},
         ObjShape', StillLive, MemoryShape', leases' # NoObj => Live(leases)',
         FileShape', GraphShape', call' = call \/ call' = Aborted
  PROVE  Shape'
<1>1. R \in AnyTool /\ tool' = [tool EXCEPT ![Refresh] = R]
  BY Tasks DEF R, Shape, ToolShape
<1>2. SlotAsks(Refresh, R)
  BY DEF SlotAsks, Shape, Protocol
<1> QED
  BY <1>1, <1>2, Tasks, SlotShape DEF Slot

LEMMA RevokeShape ==
  ASSUME Shape, NEW replaced \in BOOLEAN, Revoke(replaced)
  PROVE  Shape'
<1> USE Tasks
<1>1. /\ UNCHANGED <<File, me, graph, leases, begins, tool>> /\ call' = Aborted
      /\ epoch' \in Nat /\ auth' \in AnyAuth /\ leases \in SomeObj /\ begins \in SomeObj
  BY NewOK DEF Revoke, EndEpoch, Shape, MemoryShape
<1>2. FileShape' /\ GraphShape'
  <2>1. budget' = [budget EXCEPT !.revoke = @ - 1] /\ budget.revoke > 0
    BY DEF Revoke
  <2>2. budget' \in AnyBudget
    <3> DEFINE k == budget.revoke - 1
    <3>1. k \in Nat /\ budget' = [budget EXCEPT !.revoke = k]
      BY <2>1 DEF Shape, GraphShape, AnyBudget
    <3> HIDE DEF k
    <3> QED
      BY <3>1 DEF Shape, GraphShape, AnyBudget
  <2> QED
    BY <1>1, <2>2 DEF Shape, FileShape, GraphShape, File
<1>3. CASE leases = NoObj
  <2>1. UNCHANGED <<obj, io, releases, latest>>
    BY <1>3 DEF Revoke
  <2>2. AsksAlone(Refresh) /\ OpOf(Refresh)' = OpOf(Refresh)
    BY <2>1, NoRequest DEF Slot, OpOf, Shape
  <2> QED
    BY <1>1, <1>2, <1>3, <2>1, <2>2, BesideToolsShape DEF Shape, MemoryShape, ObjShape, StillLive, Live
<1>4. CASE leases # NoObj
  <2> DEFINE n == [obj[leases] EXCEPT !.basis = NoAuth, !.replaced = @ \/ replaced, !.release = @ \/ ~replaced]
             cleared == [obj EXCEPT ![leases].basis = NoAuth,
                                    ![leases].replaced = @ \/ replaced,
                                    ![leases].release = @ \/ ~replaced]
  <2>1. leases \in Obj /\ Live(leases) /\ obj[leases] \in AnyObject
    BY <1>4 DEF Shape, LiveObjects, Live, ObjShape
  <2>2. n \in AnyObject /\ n.durable = obj[leases].durable /\ cleared = [obj EXCEPT ![leases] = n]
    <3>1. (obj[leases].replaced \/ replaced) \in BOOLEAN /\ (obj[leases].release \/ ~replaced) \in BOOLEAN
      OBVIOUS
    <3>2. n \in AnyObject /\ n.durable = obj[leases].durable
      BY <2>1, <3>1, NewOK DEF AnyObject
    <3>3. cleared = [obj EXCEPT ![leases] = n]
      BY <2>1 DEF Shape, ObjShape, AnyObject
    <3> QED
      BY <3>2, <3>3
  <2>3. /\ cleared \in [Obj -> AnyObject] /\ cleared[leases].durable.lease # NoLease
        /\ \A x \in Obj : Live(x) => cleared[x].durable.lease # NoLease
    BY <2>1, <2>2 DEF Shape, ObjShape, Live
  <2>4. \/ obj' = cleared /\ UNCHANGED <<io, releases, latest>>
        \/ Schedule(leases, leases, cleared, io)
    BY <1>4 DEF Revoke
  <2> HIDE DEF cleared, n
  <2>5. /\ AsksAlone(Refresh) /\ ObjShape' /\ StillLive /\ OpOf(Refresh)' \in {"none", OpOf(Refresh)}
        /\ releases' \in [Obj -> [running : BOOLEAN, ok : BOOLEAN]] /\ latest' \in SomeObj
    <3>1. CASE obj' = cleared /\ UNCHANGED <<io, releases, latest>>
      <4>1. AsksAlone(Refresh) /\ OpOf(Refresh)' = OpOf(Refresh)
        BY <3>1, NoRequest DEF Slot, OpOf, Shape
      <4> QED
        BY <2>3, <3>1, <4>1 DEF ObjShape, StillLive, Live, Shape, MemoryShape
    <3>2. CASE Schedule(leases, leases, cleared, io)
      BY <1>1, <2>1, <2>3, <3>2, ScheduledBeside DEF Slot
    <3> QED
      BY <2>4, <3>1, <3>2
  <2>6. Live(leases)'
    BY <1>1, <2>1, <2>5 DEF StillLive, Live
  <2>7. MemoryShape'
    BY <1>1, <2>5 DEF MemoryShape
  <2> QED
    BY <1>1, <1>2, <2>5, <2>6, <2>7, BesideToolsShape
<1> QED
  BY <1>3, <1>4

LEMMA ReleaseReturnsShape ==
  ASSUME Shape, NEW o \in Obj, ReleaseReturns(o)
  PROVE  Shape'
<1> USE Tasks
<1>1. /\ UNCHANGED <<File, me, graph, epoch, auth, begins, call, tool, budget>>
      /\ releases \in [Obj -> [running : BOOLEAN, ok : BOOLEAN]] /\ latest \in SomeObj
      /\ leases \in SomeObj /\ begins \in SomeObj /\ epoch' \in Nat /\ auth' \in AnyAuth
  BY DEF ReleaseReturns, Shape, MemoryShape
<1>2. FileShape' /\ GraphShape'
  BY <1>1 DEF Shape, FileShape, GraphShape, File
<1>3. IoOK(io[o]) /\ io[o].op = "done" /\ DOMAIN io = Task
  BY DEF ReleaseReturns, Returned, Shape, IoShape
<1>4. ASSUME NEW v, IoOK(v), v.op \in {"none", "release"}, io' = [io EXCEPT ![o] = v]
      PROVE  AsksAlone(Refresh) /\ OpOf(Refresh)' = OpOf(Refresh)
  <2>1. io'[o] = v /\ DOMAIN io' = Task /\ \A t \in Task : t # o => io'[t] = io[t]
    BY <1>3, <1>4
  <2>2. IoShape'
    BY <1>4, <2>1 DEF IoShape, Shape
  <2>3. \A x \in Obj : OpOf(x)' \in {"none", "request", "release"}
    BY <1>4, <2>1 DEF OpOf, Shape, Protocol
  <2> QED
    BY <2>1, <2>2, <2>3 DEF AsksAlone, OpOf
<1>5. ASSUME NEW ok \in BOOLEAN, Finished(o, ok)
      PROVE  /\ io' = [io EXCEPT ![o] = None]
             /\ releases' \in [Obj -> [running : BOOLEAN, ok : BOOLEAN]] /\ latest' \in SomeObj
  BY <1>1, <1>5 DEF Finished, SomeObj
<1>6. CASE io[o].ok /\ io[o].of = "request" /\ obj' = [obj EXCEPT ![o].durable = io[o].snapshot]
  <2> DEFINE s == io[o].snapshot
             n == [obj[o] EXCEPT !.durable = s]
             v == [op |-> "release", claim |-> ClaimOf(s)]
  <2>1. s \in AnySnapshot /\ s.lease # NoLease
    BY <1>3, <1>6 DEF IoOK
  <2>2. obj[o] \in AnyObject
    BY DEF Shape, ObjShape
  <2>3. n \in AnyObject /\ n.durable = s /\ obj' = [obj EXCEPT ![o] = n]
    BY <1>6, <2>1, <2>2 DEF AnyObject, Shape, ObjShape
  <2>4. ObjShape' /\ StillLive
    BY <2>1, <2>3 DEF Shape, ObjShape, StillLive, Live
  <2>5. ClaimOf(s) \in AnyClaim
    BY <2>1 DEF ClaimOf, AnyClaim, AnySnapshot, AnyLease
  <2>6. IoOK(v) /\ v.op = "release"
    BY <2>5 DEF IoOK, Ops
  <2>7. leases' = leases /\ (Finished(o, TRUE) \/ (io' = [io EXCEPT ![o] = v] /\ UNCHANGED <<releases, latest>>))
    BY <1>3, <1>6 DEF ReleaseReturns
  <2> HIDE DEF v
  <2>8. AsksAlone(Refresh) /\ OpOf(Refresh)' = OpOf(Refresh)
    BY <1>4, <1>5, <2>6, <2>7, NewOK DEF None
  <2>9. MemoryShape'
    BY <1>1, <1>5, <2>7 DEF MemoryShape
  <2>10. leases' # NoObj => Live(leases)'
    BY <2>4, <2>7 DEF Shape, LiveObjects, StillLive, Live
  <2> QED
    BY <1>1, <1>2, <2>4, <2>8, <2>9, <2>10, BesideToolsShape
<1>7. CASE \E ok \in BOOLEAN : Finished(o, ok) /\ leases' \in {leases, NoObj} /\ obj' = obj
  <2>1. AsksAlone(Refresh) /\ OpOf(Refresh)' = OpOf(Refresh)
    BY <1>4, <1>5, <1>7, NewOK DEF None
  <2>2. MemoryShape'
    BY <1>1, <1>5, <1>7 DEF MemoryShape, SomeObj
  <2>3. leases' # NoObj => Live(leases)'
    BY <1>7 DEF Shape, LiveObjects, Live
  <2>4. ObjShape' /\ StillLive
    BY <1>7 DEF Shape, ObjShape, StillLive, Live
  <2> QED
    BY <1>1, <1>2, <2>1, <2>2, <2>3, <2>4, BesideToolsShape
<1> QED
  BY <1>6, <1>7 DEF ReleaseReturns

\* An operation of the state file ends.
LEMMA OperationShape ==
  ASSUME Shape, NEW t \in Task, Asked(t), NEW v, IoOK(v), v.op = "done", v.of = io[t].op,
         io' = [io EXCEPT ![t] = v], UNCHANGED Rest, FileShape', GraphShape'
  PROVE  Shape'
<1>1. /\ UNCHANGED <<me, graph, epoch, auth, leases, obj, begins, releases, latest, fences, call, tool>>
      /\ DOMAIN io' = Task /\ io'[t] = v /\ \A x \in Task : x # t => io'[x] = io[x]
  BY DEF Rest, Memory, Shape, IoShape
<1>2. \A x \in Task : OpOf(x)' = OpOf(x)
  BY <1>1 DEF OpOf, Asked
<1>3. IoShape'
  BY <1>1 DEF IoShape, Shape
<1>4. Protocol'
  BY <1>1, <1>2, Tasks DEF Protocol, CallAsks, Shape, R, T
<1>5. LiveObjects'
  BY <1>1 DEF Shape, LiveObjects, LiveCall, LiveChange, Live
<1>6. MemoryShape' /\ ObjShape' /\ CallShape' /\ ToolShape'
  BY <1>1 DEF Shape, MemoryShape, ObjShape, CallShape, ToolShape
<1> QED
  BY <1>3, <1>4, <1>5, <1>6 DEF Shape

\* What a granted operation commits.
LEMMA GrantCommits ==
  ASSUME Shape, NEW t \in Task, Grant(t)
  PROVE  LET r == io[t]
         IN /\ r.op \in Ops /\ IoOK(r) /\ UNCHANGED <<me, graph, Memory, call, tool, ran, budget>>
            /\ io' = [io EXCEPT ![t] = [op |-> "done", of |-> r.op, ok |-> TRUE, snapshot |-> Snapshot']]
            /\ UNCHANGED alive
            /\ r.op # "checkout" => /\ lease # NoLease /\ lease \in AnyLease /\ lease.pid = me
                                    /\ r.claim.generation = generation /\ r.claim.leaseId = lease.leaseId
            /\ \/ UNCHANGED File /\ r.op = "request"
               \/ generation' = generation + 1 /\ alive[me]
            /\ r.op = "checkout" => /\ lease' = E!CheckedOut(me, 0, r.basis) /\ r.expected = generation
                                    /\ E!Held => E!TakeoverAllowed(me, r.basis)
                                    /\ UNCHANGED <<begun, settled>>
            /\ r.op = "begin" => /\ lease' = [lease EXCEPT !.dirty = TRUE, !.pending = generation + 1]
                                 /\ begun' = begun \cup {[attempt |-> generation + 1, basis |-> lease.basis]}
                                 /\ ~lease.dirty /\ UNCHANGED settled
            /\ r.op = "request" => /\ lease' = [lease EXCEPT !.releaseWhenClean = TRUE]
                                   /\ UNCHANGED <<begun, settled>>
            /\ r.op = "settle" => /\ lease' = E!CleanLease(r.revision, r.release)
                                  /\ lease.dirty /\ lease.pending = r.attempt
                                  /\ r.revision >= lease.basis.graph
                                  /\ settled' = settled \cup {r.attempt} /\ UNCHANGED begun
            /\ r.op = "checkpoint" => /\ lease' = E!CleanLease(r.revision, r.release) /\ ~lease.dirty
                                      /\ r.revision >= lease.basis.graph
                                      /\ UNCHANGED <<begun, settled>>
            /\ r.op = "release" => lease' = NoLease /\ ~lease.dirty /\ UNCHANGED <<begun, settled>>
<1> DEFINE r == io[t]
<1>1. r.op \in Ops /\ IoOK(r)
  BY DEF Grant, Asked, Shape, IoShape, IoOK
<1>2. /\ UNCHANGED <<me, graph, Memory, call, tool, ran, budget>>
      /\ io' = [io EXCEPT ![t] = [op |-> "done", of |-> r.op, ok |-> TRUE, snapshot |-> Snapshot']]
  BY DEF Grant, Rest
<1>3. CASE r.op = "checkout"
  BY <1>1, <1>2, <1>3 DEF Grant, Operation, E!Checkout, E!Commit
<1>4. CASE r.op # "checkout"
  <2>1. E!AssertClaim(me, r.claim)
    BY <1>1, <1>4 DEF Grant, Accepted, Ops
  <2>2. /\ lease # NoLease /\ lease \in AnyLease /\ lease.pid = me
        /\ r.claim.generation = generation /\ r.claim.leaseId = lease.leaseId
    BY <2>1 DEF E!AssertClaim, E!Held, Shape, FileShape
  <2>3. CASE r.op = "begin"
    BY <1>1, <1>2, <2>2, <2>3 DEF Grant, Operation, E!BeginExecution, E!Commit
  <2>4. CASE r.op = "request"
    <3>1. CASE E!RequestReleaseWhenClean(me, r.claim)
      BY <1>1, <1>2, <2>2, <2>4, <3>1 DEF E!RequestReleaseWhenClean, E!Commit
    <3>2. CASE lease.releaseWhenClean /\ UNCHANGED File
      <4>1. lease' = lease /\ UNCHANGED <<begun, settled, alive>>
        BY <3>2 DEF File
      <4>2. lease = [lease EXCEPT !.releaseWhenClean = TRUE]
        BY <2>2, <3>2 DEF AnyLease
      <4> QED
        BY <1>1, <1>2, <2>2, <2>4, <3>2, <4>1, <4>2
    <3> QED
      BY <2>4, <3>1, <3>2 DEF Grant, Operation
  <2>5. CASE r.op = "settle"
    BY <1>1, <1>2, <2>2, <2>5 DEF Grant, Operation, E!SettleExecution, E!Commit
  <2>6. CASE r.op = "checkpoint"
    BY <1>1, <1>2, <2>2, <2>6 DEF Grant, Operation, E!Checkpoint, E!Commit
  <2>7. CASE r.op = "release"
    BY <1>1, <1>2, <2>2, <2>7 DEF Grant, Operation, E!Release, E!Commit
  <2> QED
    BY <1>1, <1>4, <2>3, <2>4, <2>5, <2>6, <2>7 DEF Ops
<1> QED
  BY <1>3, <1>4

LEMMA GrantShape ==
  ASSUME Shape, NEW t \in Task, Grant(t)
  PROVE  Shape'
<1> DEFINE r == io[t]
           v == [op |-> "done", of |-> r.op, ok |-> TRUE, snapshot |-> Snapshot']
<1>1. /\ r.op \in Ops /\ IoOK(r) /\ UNCHANGED <<me, graph, Memory, call, tool, ran, budget>>
      /\ io' = [io EXCEPT ![t] = v]
      /\ UNCHANGED alive
      /\ r.op # "checkout" => lease # NoLease /\ lease \in AnyLease
      /\ UNCHANGED File \/ generation' = generation + 1
      /\ r.op = "checkout" => lease' = E!CheckedOut(me, 0, r.basis)
      /\ r.op = "begin" => lease' = [lease EXCEPT !.dirty = TRUE, !.pending = generation + 1]
      /\ r.op = "request" => lease' = [lease EXCEPT !.releaseWhenClean = TRUE]
      /\ r.op \in {"settle", "checkpoint"} => lease' = E!CleanLease(r.revision, r.release)
      /\ r.op = "release" => lease' = NoLease
  BY GrantCommits
<1>2. generation' \in Nat
  BY <1>1 DEF Shape, FileShape, File
<1>3. /\ lease' \in AnyLease \cup {NoLease}
      /\ r.op \in {"checkout", "begin", "request"} => lease' # NoLease
  <2>1. CASE r.op = "checkout"
    <3>1. lease' = E!CheckedOut(me, 0, r.basis) /\ r.basis \in AnyBasis /\ me \in Process
      BY <1>1, <2>1 DEF IoOK, Shape, FileShape
    <3>2. /\ (E!Held /\ lease.dirty) \in BOOLEAN /\ (E!Held /\ lease.releaseWhenClean) \in BOOLEAN
          /\ (E!Held /\ lease.legacy) \in BOOLEAN /\ generation + 1 \in Nat
          /\ (IF E!Held THEN lease.pending ELSE E!NoAttempt) \in Nat
      BY DEF Shape, FileShape, AnyLease, E!Held, E!NoAttempt
    <3>3. lease' \in AnyLease
      BY <3>1, <3>2 DEF E!CheckedOut, AnyLease
    <3> QED
      BY <3>3, NoLeaseAssumption
  <2>2. CASE r.op = "begin"
    <3>1. PICK k \in Nat : k = generation + 1
      BY DEF Shape, FileShape
    <3>2. lease \in AnyLease /\ lease' = [lease EXCEPT !.dirty = TRUE, !.pending = k]
      BY <1>1, <2>2, <3>1
    <3>3. lease' \in AnyLease
      BY <3>2 DEF AnyLease
    <3> QED
      BY <3>3, NoLeaseAssumption
  <2>3. CASE r.op = "request"
    <3>1. lease' \in AnyLease
      BY <1>1, <2>3 DEF AnyLease
    <3> QED
      BY <3>1, NoLeaseAssumption
  <2>4. CASE r.op \in {"settle", "checkpoint"}
    <3>1. lease' = E!CleanLease(r.revision, r.release) /\ r.revision \in Int /\ lease \in AnyLease
      BY <1>1, <2>4 DEF IoOK
    <3>2. lease' \in AnyLease \cup {NoLease}
      <4> DEFINE b == [lease.basis EXCEPT !.graph = r.revision]
                 n == [lease EXCEPT !.basis = b, !.dirty = FALSE, !.pending = 0, !.legacy = FALSE]
      <4>1. b \in AnyBasis
        BY <3>1 DEF AnyLease, AnyBasis
      <4>2. lease' = NoLease \/ lease' = n
        BY <3>1 DEF E!CleanLease, E!NoAttempt, AnyLease
      <4> HIDE DEF b
      <4>3. n \in AnyLease
        BY <3>1, <4>1 DEF AnyLease
      <4> QED
        BY <4>2, <4>3
    <3> QED
      BY <2>4, <3>2
  <2>5. CASE r.op = "release"
    BY <1>1, <2>5
  <2> QED
    BY <1>1, <2>1, <2>2, <2>3, <2>4, <2>5 DEF Ops
<1>4. FileShape' /\ GraphShape'
  BY <1>1, <1>2, <1>3 DEF Shape, FileShape, GraphShape
<1>5. IoOK(v) /\ v.op = "done" /\ v.of = r.op
  <2> DEFINE op == r.op
  <2>0. PICK d : d = Snapshot'
    OBVIOUS
  <2>1. d \in AnySnapshot /\ d.lease = lease'
    BY <1>2, <1>3, <2>0 DEF Snapshot, AnySnapshot
  <2>2. v = [op |-> "done", of |-> op, ok |-> TRUE, snapshot |-> d]
    BY <2>0
  <2>3. op \in Ops /\ (op \in {"checkout", "begin", "request"} => d.lease # NoLease)
    BY <1>1, <1>3, <2>1
  <2> HIDE DEF op, v
  <2>4. IoOK(v) /\ v.op = "done" /\ v.of = op
    BY <2>1, <2>2, <2>3 DEF IoOK, Ops
  <2> QED
    BY <2>4 DEF op
<1> QED
  <2>1. Asked(t) /\ UNCHANGED Rest
    BY DEF Grant
  <2> HIDE DEF v
  <2> QED
    BY <1>1, <1>4, <1>5, <2>1, OperationShape

LEMMA RefuseShape ==
  ASSUME Shape, NEW t \in Task, Refuse(t) \/ FailOperation(t)
  PROVE  Shape'
<1> DEFINE v == [op |-> "done", of |-> io[t].op, ok |-> FALSE]
<1>1. Asked(t) /\ UNCHANGED <<File, Rest>> /\ io' = [io EXCEPT ![t] = v]
      /\ (budget' = budget \/ (budget.fail > 0 /\ budget' = [budget EXCEPT !.fail = @ - 1]))
  BY DEF Refuse, FailOperation
<1>2. IoOK(v) /\ v.op = "done" /\ v.of = io[t].op
  BY <1>1 DEF Asked, Shape, IoShape, IoOK, Ops
<1> HIDE DEF v
<1>3. budget' \in AnyBudget
  <2> DEFINE k == budget.fail - 1
  <2>1. budget.fail > 0 => k \in Nat
    BY DEF Shape, GraphShape, AnyBudget
  <2>2. budget' = budget \/ (budget.fail > 0 /\ budget' = [budget EXCEPT !.fail = k])
    BY <1>1 DEF Shape, GraphShape, AnyBudget
  <2> HIDE DEF k
  <2> QED
    BY <2>1, <2>2 DEF Shape, GraphShape, AnyBudget
<1>4. FileShape' /\ GraphShape'
  BY <1>1, <1>3 DEF Shape, FileShape, GraphShape, File, Rest
<1> QED
  BY <1>1, <1>2, <1>4, OperationShape

LEMMA GuardShape ==
  ASSUME Shape, NEW c \in Call, Guard(c)
  PROVE  /\ Shape'
         /\ \E r \in AnyCall :
              /\ call' = [Aborted EXCEPT ![c] = r] /\ r.attempt = 0 /\ ~r.aborted
              /\ r = NewCall \/ (r.pc = "prepared" /\ r.epoch = epoch' /\ r.basis.revision = graph.revision)
<1> USE Tasks
<1>1. /\ UNCHANGED <<File, me, graph, leases, begins, releases, latest, fences, io, tool, ran, budget>>
      /\ leases \in Obj /\ Live(leases) /\ obj[leases] \in AnyObject /\ call[c].pc = "new"
      /\ epoch' = epoch + 1 /\ epoch' \in Nat /\ epoch' \in Int /\ auth' \in AnyAuth
  BY NewOK DEF Guard, EndEpoch, Shape, MemoryShape, LiveObjects, Live, ObjShape
<1>2. ObjShape' /\ StillLive
  <2> DEFINE n == [obj[leases] EXCEPT !.basis = NoAuth]
  <2>1. n \in AnyObject /\ n.durable = obj[leases].durable
    BY <1>1, NewOK DEF AnyObject
  <2>2. obj' = [obj EXCEPT ![leases] = n]
    BY <1>1 DEF Guard, Shape, ObjShape, AnyObject
  <2> QED
    BY <1>1, <2>1, <2>2 DEF Shape, ObjShape, StillLive, Live
<1>3. PICK r \in AnyCall :
        /\ call' = [Aborted EXCEPT ![c] = r] /\ r.attempt = 0 /\ r.object = NoObj /\ r.settling = NoObj
        /\ ~r.aborted /\ ~r.admitting
        /\ r = NewCall \/ (r.pc = "prepared" /\ r.epoch = epoch' /\ r.basis.revision = graph.revision)
  <2> DEFINE b == obj[leases].basis
  <2>0. PICK e : e = epoch'
    OBVIOUS
  <2> DEFINE q == [NewCall EXCEPT !.pc = "prepared", !.epoch = e, !.basis = b]
  <2>1. b \in AnyAuth /\ "prepared" \in CallPc /\ e \in Int
    BY <1>1, <2>0 DEF AnyObject, CallPc
  <2>2. \/ call' = [Aborted EXCEPT ![c] = NewCall]
        \/ call' = [Aborted EXCEPT ![c] = q] /\ b.revision = graph.revision
    BY <2>0 DEF Guard, Current
  <2>3. /\ q \in AnyCall /\ q.attempt = 0 /\ q.object = NoObj /\ q.settling = NoObj /\ ~q.aborted
        /\ ~q.admitting /\ q.pc = "prepared" /\ q.epoch = e /\ q.basis = b
    <3> HIDE DEF b
    <3> QED
      BY <2>1, NewOK DEF AnyCall, NewCall
  <2>4. ~NewCall.aborted
    BY DEF NewCall
  <2> HIDE DEF q, b
  <2>5. CASE call' = [Aborted EXCEPT ![c] = NewCall]
    BY <2>4, <2>5, NewOK
  <2>6. CASE call' = [Aborted EXCEPT ![c] = q] /\ b.revision = graph.revision
    BY <2>0, <2>3, <2>6
  <2> QED
    BY <2>2, <2>5, <2>6
<1>4. /\ call' \in [Call -> AnyCall] /\ call'[c] = r
      /\ \A d \in Call : d # c => call'[d] = Aborted[d]
  BY <1>3, AbortedFacts DEF Shape
<1>5. OpOf(c) = "none" /\ r.pc \in {"new", "prepared"}
  BY <1>1, <1>3, NewOK DEF Shape, Protocol, CallAsks
<1>6. Protocol'
  <2>1. \A t \in Task : OpOf(t)' = OpOf(t)
    BY <1>1 DEF OpOf
  <2>2. R' = R /\ T' = T
    BY <1>1 DEF R, T
  <2>3. \A d \in Call : CallAsks(d)'
    BY <1>4, <1>5, <2>1, AbortedFacts DEF CallAsks, Shape, Protocol
  <2> QED
    BY <2>1, <2>2, <2>3 DEF Shape, Protocol
<1>7. ASSUME NEW d \in Call PROVE LiveCall(call[d])'
  <2>1. \A x \in SomeObj : x # NoObj /\ Live(x) => Live(x)'
    BY <1>2 DEF SomeObj, StillLive
  <2>2. PICK q : q = call'[d]
    OBVIOUS
  <2>3. CASE d = c
    <3>1. LiveCall(q)'
      BY <1>3, <1>4, <1>5, <2>2, <2>3 DEF LiveCall
    <3> QED
      BY <2>2, <3>1 DEF LiveCall, Live
  <2>4. CASE d # c
    <3>1. /\ q.pc = call[d].pc /\ q.object = call[d].object /\ q.settling = call[d].settling
          /\ q.admitting = call[d].admitting
          /\ LiveCall(call[d]) /\ call[d].object \in SomeObj /\ call[d].settling \in SomeObj
      BY <1>4, <2>2, <2>4, AbortedFacts DEF Shape, LiveObjects, CallShape, AnyCall
    <3>2. LiveCall(q)'
      BY <2>1, <3>1 DEF LiveCall
    <3> QED
      BY <2>2, <3>2 DEF LiveCall, Live
  <2> QED
    BY <2>3, <2>4
<1>8. LiveChange(tool[Change])'
  BY <1>1, <1>2, ChangeOK DEF Shape, LiveObjects, LiveChange, StillLive, Live, T, SomeObj
<1>9. LiveObjects' /\ CallShape'
  BY <1>1, <1>2, <1>4, <1>7, <1>8 DEF LiveObjects, StillLive, Live, CallShape
<1>10. FileShape' /\ GraphShape' /\ MemoryShape' /\ ToolShape' /\ IoShape'
  BY <1>1 DEF Shape, FileShape, File, GraphShape, MemoryShape, ToolShape, IoShape
<1> QED
  BY <1>2, <1>3, <1>6, <1>9, <1>10 DEF Shape

LEMMA CrashShape ==
  ASSUME Shape, Crash
  PROVE  Shape'
<1> USE Tasks, NewOK
<1>1. FileShape' /\ GraphShape'
  <2>1. /\ UNCHANGED <<generation, lease, me>> /\ alive' = [alive EXCEPT ![me] = FALSE]
        /\ graph' = [graph EXCEPT !.writer = NoObj] /\ budget.crash > 0
    BY DEF Crash, E!Crash
  <2> DEFINE k == budget.crash - 1
             d == budget.deaths + 1
  <2>2. budget' = [budget EXCEPT !.crash = k, !.deaths = d] /\ k \in Nat /\ d \in Nat
    BY DEF Crash, Shape, GraphShape, AnyBudget
  <2> HIDE DEF k, d
  <2>3. budget' \in AnyBudget
    BY <2>2 DEF Shape, GraphShape, AnyBudget
  <2> QED
    BY <2>1, <2>3 DEF Shape, FileShape, GraphShape, AnyGraph
<1>2. /\ epoch' = 0 /\ auth' = NoAuth /\ leases' = NoObj /\ obj' = [o \in Obj |-> NoObject]
      /\ begins' = NoObj /\ releases' = [o \in Obj |-> [running |-> FALSE, ok |-> TRUE]] /\ latest' = NoObj
      /\ io' = [t \in Task |-> None] /\ call' = [c \in Call |-> NewCall] /\ tool' = [s \in Slot |-> NewTool]
  BY DEF Crash, NoMemory
<1>3. MemoryShape' /\ ObjShape' /\ CallShape' /\ ToolShape'
  BY <1>2 DEF MemoryShape, ObjShape, CallShape, ToolShape, SomeObj
<1>4. IoShape'
  BY <1>2 DEF IoShape
<1>5. \A t \in Task : OpOf(t)' = "none"
  BY <1>2 DEF OpOf, None
<1>6. Protocol'
  BY <1>5 DEF Protocol, CallAsks
<1>7. LiveObjects'
  <2>1. \A c \in Call : call'[c] = NewCall
    BY <1>2
  <2>2. tool'[Change] = NewTool /\ leases' = NoObj
    BY <1>2
  <2>3. LiveCall(NewCall)' /\ LiveChange(NewTool)'
    BY DEF LiveCall, LiveChange, NewTool, NewCall
  <2> QED
    BY <2>1, <2>2, <2>3 DEF LiveObjects, LiveCall, LiveChange, Live
<1> QED
  BY <1>1, <1>3, <1>4, <1>6, <1>7 DEF Shape

LEMMA QuietShape ==
  ASSUME Shape, EndTurn \/ GraceEnds \/ (\E p \in Process : Restart(p))
  PROVE  Shape'
<1>1. /\ UNCHANGED <<generation, lease, graph, epoch, leases, obj, begins, releases, latest, io, call, tool, budget>>
      /\ alive' \in [Process -> BOOLEAN] /\ me' \in Process /\ auth' \in AnyAuth
  BY DEF EndTurn, GraceEnds, Restart, E!Age, E!Start, File, Memory, Shape, FileShape, MemoryShape, AnyAuth
<1>2. FileShape' /\ GraphShape' /\ MemoryShape' /\ ObjShape' /\ CallShape' /\ ToolShape'
  BY <1>1 DEF Shape, FileShape, GraphShape, MemoryShape, ObjShape, CallShape, ToolShape
<1>3. IoShape' /\ Protocol'
  BY <1>1 DEF Shape, IoShape, Protocol, CallAsks, OpOf, R, T
<1>4. LiveObjects'
  BY <1>1 DEF Shape, LiveObjects, LiveCall, LiveChange, Live
<1> QED
  BY <1>2, <1>3, <1>4 DEF Shape

LEMMA StutterShape ==
  ASSUME Shape, UNCHANGED vars
  PROVE  Shape'
<1>1. UNCHANGED <<generation, lease, graph, epoch, leases, obj, begins, releases, latest, io, call, tool, budget,
                  alive, me, auth>>
  BY DEF vars, File, Memory
<1>2. FileShape' /\ GraphShape' /\ MemoryShape' /\ ObjShape' /\ CallShape' /\ ToolShape'
  BY <1>1 DEF Shape, FileShape, GraphShape, MemoryShape, ObjShape, CallShape, ToolShape
<1>3. IoShape' /\ Protocol'
  BY <1>1 DEF Shape, IoShape, Protocol, CallAsks, OpOf, R, T
<1>4. LiveObjects'
  BY <1>1 DEF Shape, LiveObjects, LiveCall, LiveChange, Live
<1> QED
  BY <1>2, <1>3, <1>4 DEF Shape

LEMMA ShapeStep ==
  ASSUME Shape, [Next]_vars
  PROVE  Shape'
BY StutterShape, GrantShape, RefuseShape, ReleaseReturnsShape, RevokeShape, GuardShape, CallStepShape,
   RefreshShape, QuietShape, ConsumeShape, ChangeStepShape, CrashShape DEF Next

LEMMA InitShape ==
  ASSUME Init
  PROVE  Shape
<1> USE Tasks, NewOK
<1> DEFINE n == [leaseId |-> 1, owner |-> 0, basis |-> Basis("leaf", 1), dirty |-> FALSE,
                 releaseWhenClean |-> FALSE, pending |-> 0, legacy |-> FALSE, pid |-> me]
<1>0. me \in Process => n \in AnyLease
  BY DEF AnyLease, AnyBasis, Basis
<1>00. \/ generation = 0 /\ lease = NoLease
       \/ generation = 1 /\ lease = n
  BY DEF Init
<1> HIDE DEF n
<1>1. FileShape
  <2>1. me \in Process
    BY DEF Init
  <2>2. generation \in Nat /\ lease \in AnyLease \cup {NoLease}
    BY <1>0, <1>00, <2>1
  <2> QED
    BY <2>2 DEF Init, FileShape
<1>2. GraphShape
  BY ScenarioAssumption DEF Init, GraphShape, AnyGraph, AnyBudget
<1>3. /\ leases \in SomeObj /\ obj \in [Obj -> AnyObject]
      /\ leases # NoObj => leases \in Obj /\ obj[leases].durable.lease # NoLease
  <2>1. CASE leases = NoObj /\ obj = [o \in Obj |-> NoObject]
    BY <2>1 DEF SomeObj
  <2>2. CASE leases \in Obj /\ lease \in AnyLease
             /\ obj = [o \in Obj |-> IF o = leases THEN NewObject(Snapshot, 1, FALSE) ELSE NoObject]
    <3>0. PICK k \in Int : k = 1
      OBVIOUS
    <3> DEFINE fresh == NewObject(Snapshot, k, FALSE)
    <3>1. Snapshot \in AnySnapshot /\ Snapshot.lease # NoLease
      BY <1>1, <2>2, NoLeaseAssumption DEF Snapshot, AnySnapshot, FileShape
    <3>2. fresh \in AnyObject /\ fresh.durable = Snapshot
      BY <3>1, NewObjectOK
    <3>3. obj = [o \in Obj |-> IF o = leases THEN fresh ELSE NoObject]
      BY <2>2, <3>0
    <3> HIDE DEF n
    <3> QED
      BY <2>2, <3>1, <3>2, <3>3 DEF SomeObj
  <2>3. \/ leases = NoObj /\ obj = [o \in Obj |-> NoObject]
        \/ /\ leases \in Obj /\ generation = 1 /\ me \in Process
           /\ obj = [o \in Obj |-> IF o = leases THEN NewObject(Snapshot, 1, FALSE) ELSE NoObject]
    BY DEF Init
  <2>4. generation = 1 /\ me \in Process => lease \in AnyLease
    BY <1>0, <1>00
  <2> QED
    BY <2>1, <2>2, <2>3, <2>4
<1>4. MemoryShape /\ ObjShape /\ CallShape /\ ToolShape
  BY <1>3 DEF Init, MemoryShape, ObjShape, CallShape, ToolShape, SomeObj
<1>5. IoShape
  BY DEF Init, IoShape
<1>6. \A t \in Task : OpOf(t) = "none"
  BY DEF Init, OpOf, None
<1>7. Protocol
  BY <1>6 DEF Protocol, CallAsks
<1>8. LiveObjects
  <2>1. \A c \in Call : call[c] = NewCall
    BY DEF Init
  <2>2. tool[Change] = NewTool
    BY DEF Init
  <2>3. LiveCall(NewCall) /\ LiveChange(NewTool)
    BY DEF LiveCall, LiveChange, NewTool, NewCall
  <2> QED
    BY <1>3, <2>1, <2>2, <2>3 DEF LiveObjects, Live
<1> QED
  BY <1>1, <1>2, <1>4, <1>5, <1>7, <1>8 DEF Shape
-----------------------------------------------------------------------------
(* What each step leaves alone.                                            *)

\* Of the calls and the tools, only task x asks or hears the state file.
OnlyAsks(x) == \A t \in Task : t # x /\ t \notin Obj => io'[t] = io[t]

LEMMA CallRequests ==
  ASSUME Shape, NEW c \in Call, CallStep(c)
  PROVE  OnlyAsks(c)
<1> DEFINE freed == [io EXCEPT ![c] = None]
<1>0. DOMAIN io = Task /\ c \in Task
  BY Tasks DEF Shape, IoShape
<1>1. CASE io' = io \/ io' = freed \/ io' = [io EXCEPT ![c] = SettleRequest(c)]
           \/ \E v : io' = [io EXCEPT ![c] = v]
  BY <1>0, <1>1 DEF OnlyAsks
<1>2. ASSUME NEW o \in Obj, NEW objects, NEW requests, Schedule(leases, o, objects, requests),
             requests = io \/ requests = freed
      PROVE  OnlyAsks(c)
  <2>1. io' = requests \/ \E w : io' = [requests EXCEPT ![o] = w]
    BY <1>2 DEF Schedule
  <2> QED
    BY <1>0, <1>2, <2>1 DEF OnlyAsks
<1>3. /\ call[c].pc \in {"begin", "marking", "refused"} => call[c].object \in Obj
      /\ call[c].pc \in {"receipt", "write", "publish", "receipted", "settling", "converging"} => call[c].settling \in Obj
  BY DEF Shape, LiveObjects, LiveCall, Live
<1>4. CASE BeginReturns(c)
  <2>1. Begun(c, call[c].object, freed) \/ NotBegun(c, call[c].object, freed)
    BY <1>4 DEF BeginReturns
  <2>2. CASE Begun(c, call[c].object, freed)
    <3>1. io' = freed \/ \E objects : Schedule(leases, call[c].object, objects, freed)
      BY <2>2 DEF Begun
    <3>2. call[c].object \in Obj
      BY <1>3, <1>4 DEF BeginReturns
    <3> QED
      BY <1>1, <1>2, <3>1, <3>2
  <2>3. CASE NotBegun(c, call[c].object, freed)
    <3>1. io' = freed \/ Schedule(leases, call[c].object, obj, freed)
      BY <2>3 DEF NotBegun
    <3>2. call[c].object \in Obj
      BY <1>3, <1>4 DEF BeginReturns
    <3> QED
      BY <1>1, <1>2, <3>1, <3>2
  <2> QED
    BY <2>1, <2>2, <2>3
<1>5. CASE SettleReturns(c)
  <2>1. io' = freed \/ \E objects : Schedule(leases, call[c].settling, objects, freed)
    BY <1>5 DEF SettleReturns
  <2>2. call[c].settling \in Obj
    BY <1>3, <1>5 DEF SettleReturns
  <2> QED
    BY <1>1, <1>2, <2>1, <2>2
<1>6. CASE Converge(c)
  <2>1. io' = io \/ Schedule(leases, call[c].settling, obj, io)
    BY <1>6 DEF Converge
  <2>2. call[c].settling \in Obj
    BY <1>3, <1>6 DEF Converge
  <2> QED
    BY <1>1, <1>2, <2>1, <2>2
<1>7. CASE \/ Execute(c) \/ MarkReturns(c) \/ Enter(c) \/ Leave(c) \/ Record(c)
           \/ MakeReceipt(c) \/ WriteReceipt(c) \/ PublishReceipt(c) \/ Settle(c)
  BY <1>1, <1>7 DEF Execute, MarkReturns, Enter, Leave, Record, MakeReceipt, WriteReceipt, PublishReceipt, Settle
<1> QED
  BY <1>4, <1>5, <1>6, <1>7 DEF CallStep

LEMMA RefreshRequests ==
  ASSUME Shape, RefreshStart \/ RefreshStep
  PROVE  OnlyAsks(Refresh) /\ (\A o \in Obj : io'[o] = io[o])
<1>1. io' = io \/ \E v : io' = [io EXCEPT ![Refresh] = v]
  <2>1. CASE RestoreFound
    BY <2>1 DEF RestoreFound, Reconcile, Continue, AskRelease, Ask, RefreshFails, RestoredTo
  <2>2. CASE RestoreReturns
    BY <2>2 DEF RestoreReturns, Reconcile, Continue, AskRelease, Ask, RefreshFails, RestoredTo
  <2> QED
    BY <2>1, <2>2 DEF RefreshStart, RefreshStep, RestoreStart, RestoreRead, RefreshEnds
<1> QED
  BY <1>1, Tasks DEF OnlyAsks, Shape, IoShape

LEMMA ChangeRequests ==
  ASSUME Shape, ChangeStep
  PROVE  OnlyAsks(Change)
<1>0. DOMAIN io = Task
  BY DEF Shape, IoShape
<1>1. CASE io' = io \/ \E v : io' = [io EXCEPT ![Change] = v]
  BY <1>0, <1>1 DEF OnlyAsks
<1>2. ASSUME NEW o \in Obj, NEW objects, NEW current, NEW requests, Schedule(current, o, objects, requests),
             requests = io \/ requests = [io EXCEPT ![Change] = None]
      PROVE  OnlyAsks(Change)
  <2>1. io' = requests \/ \E w : io' = [requests EXCEPT ![o] = w]
    BY <1>2 DEF Schedule
  <2> QED
    BY <1>0, <1>2, <2>1 DEF OnlyAsks
<1>3. ASSUME NEW s, Close(s) PROVE OnlyAsks(Change)
  <2>1. \/ io' = [io EXCEPT ![Change] = None]
        \/ \E o \in Free : \E objects : Schedule(o, o, objects, [io EXCEPT ![Change] = None])
    BY <1>3 DEF Close
  <2> QED
    BY <1>1, <1>2, <2>1, FreeIsUnused
<1>4. CASE CheckpointReturns \/ Reread
  BY <1>1, <1>3, <1>4 DEF CheckpointReturns, Reread, AskCheckpoint
<1>5. CASE CheckedOut
  <2>1. io' = io \/ \E objects : leases # NoObj /\ Schedule(leases, leases, objects, io)
    BY <1>5 DEF CheckedOut
  <2>2. leases # NoObj => leases \in Obj
    BY DEF Shape, LiveObjects, Live
  <2> QED
    BY <1>1, <1>2, <2>1, <2>2
<1>6. CASE ConvergeChange
  <2>1. io' = io \/ Schedule(leases, T.object, obj, io)
    BY <1>6 DEF ConvergeChange
  <2>2. T.object \in Obj
    BY <1>6 DEF ConvergeChange, Shape, LiveObjects, LiveChange, Live, T
  <2> QED
    BY <1>1, <1>2, <2>1, <2>2
<1>7. CASE Reserve \/ ReserveReturns \/ WriteChange \/ CheckChange \/ PublishChange \/ PlanChanged \/ Undone
           \/ CheckpointCommitted
  BY <1>1, <1>7 DEF Reserve, ReserveReturns, WriteChange, CheckChange, PublishChange, PlanChanged, Undone,
                    CheckpointCommitted, AskCheckpoint, Abandon
<1> QED
  BY <1>4, <1>5, <1>6, <1>7 DEF ChangeStep

\* A step that is neither a call's, nor the state file's, nor a crash.
Beside ==
  /\ UNCHANGED <<generation, lease, begun, settled, ran>>
  /\ graph'.receipts = graph.receipts /\ budget'.crash = budget.crash /\ budget'.deaths = budget.deaths
  /\ \/ call' = call /\ epoch' = epoch
     \/ call' = Aborted /\ epoch' = epoch + 1
  /\ \A c \in Call : io'[c] = io[c]
  /\ io'[Refresh].op = "settle" =>
       \/ io'[Refresh] = io[Refresh]
       \/ \E r \in graph.receipts : r.attempt = io'[Refresh].attempt

LEMMA ReconcileBeside ==
  ASSUME Shape, NEW d \in AnySnapshot, d.lease # NoLease, NEW x \in BOOLEAN, Reconcile(d, x) \/ Continue(d, x)
  PROVE  io'[Refresh].op = "settle" => \E r \in graph.receipts : r.attempt = io'[Refresh].attempt
<1>0. DOMAIN io = Task /\ Refresh \in Task
  BY Tasks DEF Shape, IoShape
<1>1. CASE \E v : AsksOn(d, x, v)
  BY <1>0, <1>1 DEF AsksOn, Ask, Receipt
<1>2. CASE RefreshFails \/ \E o : Restores(d, o)
  <2>1. io' = [io EXCEPT ![Refresh] = None]
    BY <1>2 DEF RefreshFails, Restores, RestoredTo
  <2>2. None.op = "none"
    BY DEF None
  <2> QED
    BY <1>0, <2>1, <2>2
<1> QED
  BY <1>1, <1>2, ReconcileDoes, ContinueDoes

LEMMA RefreshBeside ==
  ASSUME Shape, RefreshStart \/ RefreshStep
  PROVE  Beside
<1>0. DOMAIN io = Task /\ Refresh \in Task
  BY Tasks DEF Shape, IoShape
<1>1. UNCHANGED <<File, ran, graph, budget, call, epoch>>
  BY DEF RefreshStart, RefreshStep, RestoreStart, RestoreRead, RestoreFound, RestoreReturns, RefreshEnds, OthersR
<1>2. \A c \in Call : io'[c] = io[c]
  BY RefreshRequests, Tasks DEF OnlyAsks
<1>3. io'[Refresh].op = "settle" =>
        io'[Refresh] = io[Refresh] \/ \E r \in graph.receipts : r.attempt = io'[Refresh].attempt
  <2>1. R \in AnyTool /\ R.seen \in AnySnapshot
    BY Tasks DEF Shape, ToolShape, R, AnyTool
  <2>2. CASE RestoreFound
    <3>1. CASE R.seen.lease # NoLease /\ Reconcile(R.seen, Exact)
      <4>1. Exact \in BOOLEAN
        BY DEF Exact
      <4> QED
        BY <2>1, <3>1, <4>1, ReconcileBeside
    <3>2. CASE ~(R.seen.lease # NoLease /\ Reconcile(R.seen, Exact))
      BY <1>0, <2>2, <3>2 DEF RestoreFound, RefreshFails, RestoredTo, Ask, None
    <3> QED
      BY <3>1, <3>2
  <2>3. CASE RestoreReturns
    <3> DEFINE d == io[Refresh].snapshot
    <3>1. IoOK(io[Refresh]) /\ io[Refresh].op = "done"
      BY <1>0, <2>3 DEF RestoreReturns, Returned, Shape, IoShape
    <3>2. io[Refresh].ok => d \in AnySnapshot /\ (R.pc = "takeover" => d.lease # NoLease)
      BY <3>1 DEF Shape, Protocol, OpOf, IoOK, Ops
    <3>3. Exact \in BOOLEAN /\ R.exact \in BOOLEAN
      BY <2>1 DEF Exact, AnyTool
    <3>4. \/ RefreshFails
          \/ io[Refresh].ok /\ d.lease # NoLease /\ (Reconcile(d, Exact) \/ Continue(d, R.exact))
          \/ RestoredTo(Forgotten)
      BY <2>3, <3>2 DEF RestoreReturns
    <3>5. CASE RefreshFails \/ RestoredTo(Forgotten)
      BY <1>0, <3>5 DEF RefreshFails, RestoredTo, None
    <3>6. CASE io[Refresh].ok /\ d.lease # NoLease /\ (Reconcile(d, Exact) \/ Continue(d, R.exact))
      BY <3>2, <3>3, <3>6, ReconcileBeside
    <3> QED
      BY <3>4, <3>5, <3>6
  <2>4. CASE RefreshStart \/ RestoreStart \/ RestoreRead \/ RefreshEnds
    BY <2>4 DEF RefreshStart, RestoreStart, RestoreRead, RefreshEnds
  <2> QED
    BY <2>2, <2>3, <2>4 DEF RefreshStep
<1> QED
  BY <1>1, <1>2, <1>3 DEF Beside, File

LEMMA ChangeBeside ==
  ASSUME Shape, ChangeStep \/ \E kind \in Kinds : Consume(kind)
  PROVE  Beside
<1>1. UNCHANGED <<File, ran>>
  BY DEF ChangeStep, Consume, OthersT, Reserve, ReserveReturns, WriteChange, CheckChange, PublishChange, CheckedOut,
         PlanChanged, Undone, CheckpointCommitted, CheckpointReturns, Reread, ConvergeChange
<1>2. (call' = call /\ epoch' = epoch) \/ (call' = Aborted /\ epoch' = epoch + 1)
  BY DEF ChangeStep, Consume, OthersT, Reserve, ReserveReturns, WriteChange, CheckChange, PublishChange, CheckedOut,
         PlanChanged, Undone, CheckpointCommitted, CheckpointReturns, Reread, ConvergeChange, EndEpoch
<1>3. graph'.receipts = graph.receipts /\ budget'.crash = budget.crash /\ budget'.deaths = budget.deaths
  <2>1. CASE UNCHANGED <<graph, budget>>
    BY <2>1
  <2>2. CASE WriteChange \/ CheckChange \/ PublishChange
    BY <2>2 DEF WriteChange, CheckChange, PublishChange, Shape, GraphShape, AnyGraph, AnyBudget
  <2> QED
    BY <2>1, <2>2 DEF ChangeStep, Consume, OthersT, Reserve, ReserveReturns, CheckedOut,
         PlanChanged, Undone, CheckpointCommitted, CheckpointReturns, Reread, ConvergeChange
<1>4. io'[Refresh] = io[Refresh] /\ \A c \in Call : io'[c] = io[c]
  BY ChangeRequests, Tasks DEF OnlyAsks, Consume
<1> QED
  BY <1>1, <1>2, <1>3, <1>4 DEF Beside, File

LEMMA OtherBeside ==
  ASSUME Shape, \/ \E o \in Obj : ReleaseReturns(o)
                \/ \E replaced \in BOOLEAN : Revoke(replaced)
                \/ EndTurn \/ GraceEnds \/ (\E p \in Process : Restart(p)) \/ UNCHANGED vars
  PROVE  Beside
<1>0. DOMAIN io = Task
  BY DEF Shape, IoShape
<1>1. ASSUME NEW o \in Obj, ReleaseReturns(o) PROVE Beside
  <2>1. \E v : io' = [io EXCEPT ![o] = v]
    BY <1>1 DEF ReleaseReturns, Finished
  <2>2. io'[Refresh] = io[Refresh] /\ \A c \in Call : io'[c] = io[c]
    BY <1>0, <2>1, Tasks
  <2> QED
    BY <1>1, <2>2 DEF ReleaseReturns, Beside, File
<1>2. ASSUME NEW replaced \in BOOLEAN, Revoke(replaced) PROVE Beside
  <2>1. io' = io \/ \E objects : leases # NoObj /\ Schedule(leases, leases, objects, io)
    BY <1>2 DEF Revoke
  <2>2. leases # NoObj => leases \in Obj
    BY DEF Shape, LiveObjects, Live
  <2>3. io' = io \/ \E o \in Obj : \E w : io' = [io EXCEPT ![o] = w]
    BY <2>1, <2>2 DEF Schedule
  <2>4. io'[Refresh] = io[Refresh] /\ \A c \in Call : io'[c] = io[c]
    BY <1>0, <2>3, Tasks
  <2>5. budget'.crash = budget.crash /\ budget'.deaths = budget.deaths
    BY <1>2 DEF Revoke, Shape, GraphShape, AnyBudget
  <2> QED
    BY <1>2, <2>4, <2>5 DEF Revoke, Beside, File, EndEpoch
<1>3. CASE EndTurn \/ GraceEnds \/ (\E p \in Process : Restart(p)) \/ UNCHANGED vars
  BY <1>3 DEF EndTurn, GraceEnds, Restart, E!Age, E!Start, Beside, vars, File, Memory
<1> QED
  BY <1>1, <1>2, <1>3

\* Each step is one of these.
LEMMA StepKinds ==
  ASSUME Shape, [Next]_vars
  PROVE  \/ \E t \in Task : Grant(t)
         \/ \E t \in Task : Refuse(t) \/ FailOperation(t)
         \/ \E c \in Call : CallStep(c)
         \/ \E c \in Call : Guard(c)
         \/ Crash
         \/ Beside
BY RefreshBeside, ChangeBeside, OtherBeside DEF Next
=============================================================================
