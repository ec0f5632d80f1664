-------------------------- MODULE ContractAdoption --------------------------
(***************************************************************************)
(* How the accepted contract of a root task follows what people say.       *)
(*                                                                         *)
(* A contract is published in three files, one after the other: the anchor *)
(* under the trust root, CONTRACT.md and contract.json; on a lattice, the  *)
(* graph is then bound to it.  Human input reaches the inbox of a session  *)
(* first and its log later.  Input of the root is pending until a review   *)
(* marker in the log or a contract covers it; input of a delegated session *)
(* leaves a durable fence that only a later contract clears.  Each action  *)
(* is what the event loop does between two awaits; every other one may run *)
(* in between, and the process may crash.                                  *)
(*                                                                         *)
(* A contract is known by its revision: the tools that publish run one at  *)
(* a time, and an attempt that left a trace is never repeated at its       *)
(* revision.  Authority that was revoked is dropped where the code keeps   *)
(* it with an epoch that no longer matches: it can only be refused.        *)
(***************************************************************************)
EXTENDS Integers, Sequences, FiniteSets, FiniteSetsExt

CONSTANTS
  Root,         \* the session that owns the task
  Child,        \* the sessions it delegated to
  RootInput,    \* what people send to the root
  ChildInput,   \* what they send to delegated sessions
  Material,     \* the inputs isMaterialChange recognises
  Recipient,    \* the delegated session each of ChildInput goes to
  Windows,      \* where no epoch watches it, delegated input may arrive in these
  MaxRevision,  \* bound: the revisions of the contract
  Budgets       \* bounds: what may happen in one behaviour, see Budget

Session == {Root} \cup Child
Input == RootInput \cup ChildInput

\* The level of the task, the inputs that are sent, how often it is reframed
\* at most, and the crashes, revocations and failed fence writes there may be.
Budget == [level : {"contract", "lattice"}, inputs : SUBSET Input, reframes : Nat,
           crashes : Nat, revocations : Nat, faults : Nat]

ASSUME ContractAssumption ==
  /\ Root \notin Child
  /\ RootInput \cap ChildInput = {}
  /\ Material \subseteq RootInput
  /\ Recipient \in [ChildInput -> Child]
  /\ Windows \subseteq {"framing", "release"}
  /\ MaxRevision \in Nat \ {0}
  /\ \A b \in Budgets : b \in Budget

VARIABLES
  level,    \* the control level of the task
  content,  \* content[r]: what the contract of revision r records
  anchor, document, record,  \* the revisions the three files hold
  graph,    \* the revision the project of the lattice is bound to
  log,      \* the root session's log: human inputs and review markers
  received, \* the delegated inputs in the logs of their sessions
  fence,    \* the fence of each delegated input
  up,       \* the process runs
  control,  \* controls: each session's contract and reframePending
  auth,     \* each session's mutationBasis, refresh and prepared dispatch
  body,     \* the contract under which a guarded tool of the session runs
  inbox,    \* inputs accepted and not yet in a log
  staged,   \* undurableUserInputs of the root
  writes,   \* durableFenceWrites: the fences being recorded
  review,   \* preparedInputReviews
  tool,     \* the contract tool the root is in
  deferred, \* the marker that follows the tool's result into the log
  budget    \* what may still happen

disk == <<content, anchor, document, record, graph, log, received, fence>>
files == <<anchor, document, record, graph>>
vars == <<level, disk, up, control, auth, body, inbox, staged, writes, review,
          tool, deferred, budget>>

Revision == 1..MaxRevision
None == 0                \* no contract
Dangling == -1           \* a reference whose record is gone
Idle == [step |-> "idle", live |-> FALSE, on |-> {}]
NoAuthority == [basis |-> None, reading |-> None, prepared |-> None]

-----------------------------------------------------------------------------
(* What the code reads.                                                    *)

\* The three files hold one contract: verifyAnchoredContract succeeds.
Published == anchor = document /\ document = record

\* The places of human messages in the log.
Human == {i \in DOMAIN log : log[i].kind = "input"}
Said(places) == {log[i].input : i \in places}

\* The markers recorded for exactly this contract.
Markers(c) == {log[i] : i \in {j \in DOMAIN log : /\ log[j].kind = "marker"
                                                  /\ log[j].contract = c}}

\* pendingUserInputs: beyond the last boundary marked for the contract, or,
\* when no marker exists, later than the contract.
Pending(c) ==
  LET boundary == IF Markers(c) = {} THEN content[c].at
                  ELSE Max({m.through : m \in Markers(c)})
  IN {i \in Human : i > boundary}

\* pendingInputGuard
InputWaits(s) == staged # {} \/ Pending(control[s].contract) # {}

Fenced == {m \in ChildInput : fence[m] # None}

-----------------------------------------------------------------------------
(* What every handler shares.                                              *)

\* invalidateRootAuthority: every session of the task, the prepared review,
\* and the epoch the running tool has captured.
RevokeAll ==
  /\ auth' = [s \in Session |-> NoAuthority]
  /\ review' = {}

Dead(t) == [t EXCEPT !.live = FALSE]

\* requireRootReframe
AllMustReframe(c) == [s \in Session |-> [c[s] EXCEPT !.reframe = TRUE]]

\* queueDelegatedInputFence: the basis is the contract of the receiving session.
Queued(m) == writes \cup {[input |-> m, basis |-> control[Recipient[m]].contract]}

\* The root is in a tool that compares no epoch from before with one from
\* after: lattice_reframe before it captures its own, while the workspace is
\* resolved and, the receipt consumed, the leases are read; and a tool past its
\* last authority check.
Unwatched ==
  IF tool.step = "unleased" \/ (tool.step = "called" /\ level = "contract")
  THEN {"framing"}
  ELSE IF tool.step \in {"commit", "release", "drain", "clear", "removing"}
  THEN {"release"} ELSE {}

\* agent/inbox/inserted, for a human message in an established task.
Insert(m) ==
  /\ up /\ m \in budget.inputs /\ m \notin inbox /\ m \notin received /\ m \notin Said(Human)
  /\ m \in ChildInput => Unwatched \subseteq Windows
  /\ inbox' = inbox \cup {m}
  /\ staged' = staged \cup {m}
  /\ writes' = IF m \in ChildInput THEN Queued(m) ELSE writes
  /\ RevokeAll
  /\ tool' = Dead(tool)
  /\ control' = IF m \in Material THEN AllMustReframe(control) ELSE control
  /\ UNCHANGED <<level, disk, up, body, deferred, budget>>

\* session/event: the message is in its session's log.
Deliver(m) ==
  /\ up /\ m \in inbox
  /\ m \in ChildInput => Unwatched \subseteq Windows
  /\ inbox' = inbox \ {m}
  /\ staged' = staged \ {m}
  /\ IF m \in RootInput
     THEN /\ log' = Append(log, [kind |-> "input", input |-> m])
          /\ UNCHANGED <<received, writes>>
     ELSE /\ received' = received \cup {m}
          /\ writes' = Queued(m)
          /\ UNCHANGED log
  /\ RevokeAll
  /\ tool' = Dead(tool)
  /\ control' = IF m \in ChildInput \cup Material THEN AllMustReframe(control) ELSE control
  /\ UNCHANGED <<level, content, files, fence, up, body, deferred, budget>>

\* Anything else that revokes the authority of one session, such as a
\* replaced context, or of the whole task, such as an operational notice;
\* a delegated session set up anew takes over the root's control.
Revoke(s) ==
  /\ up /\ budget.revocations > 0
  /\ budget' = [budget EXCEPT !.revocations = @ - 1]
  /\ auth' = [auth EXCEPT ![s] = NoAuthority]
  /\ IF s = Root THEN review' = {} /\ tool' = Dead(tool)
                 ELSE UNCHANGED <<review, tool>>
  /\ UNCHANGED <<level, disk, up, control, body, inbox, staged, writes, deferred>>

Delegate(s) ==
  /\ up /\ s \in Child /\ body[s] = None /\ budget.revocations > 0
  /\ budget' = [budget EXCEPT !.revocations = @ - 1]
  /\ control' = [control EXCEPT ![s] = control[Root]]
  /\ RevokeAll
  /\ tool' = Dead(tool)
  /\ UNCHANGED <<level, disk, up, body, inbox, staged, writes, deferred>>

-----------------------------------------------------------------------------
(* Delegated input fences.                                                 *)

\* record: idempotent for the same content; every other outcome is reported
\* to the task.  A fence counts from the moment its reference is linked.
Record(w) ==
  /\ up /\ w \in writes
  /\ writes' = writes \ {w}
  /\ LET readable == \A m \in Fenced : fence[m] # Dangling
         fresh == fence[w.input] = None
         same == fence[w.input] = w.basis
         fails == /\ control' = AllMustReframe(control)
                  /\ UNCHANGED fence
         \* also when the load meets a reference that is being cleared
         mayFail == ~readable \/ (~fresh /\ ~same) \/ tool.step = "removing"
     IN \/ readable /\ fresh /\ fence' = [fence EXCEPT ![w.input] = w.basis]
           /\ UNCHANGED <<control, budget>>
        \/ readable /\ same /\ UNCHANGED <<fence, control, budget>>
        \/ mayFail /\ fails /\ UNCHANGED budget
        \* A write fails, or the sync after the reference has been linked.
        \/ /\ budget.faults > 0 /\ budget' = [budget EXCEPT !.faults = @ - 1]
           /\ fails \/ (/\ readable /\ fresh
                        /\ fence' = [fence EXCEPT ![w.input] = Dangling]
                        /\ control' = AllMustReframe(control))
  /\ UNCHANGED <<level, content, files, log, received, up, auth, body, inbox,
                 staged, review, tool, deferred>>

-----------------------------------------------------------------------------
(* Guarded tools.  On a lattice they are the subject of Dispatch.          *)

\* lattice_refresh_context up to the verified contract; its later reads of
\* files keep no other state.
Read(s) ==
  /\ up
  /\ control[s].reframe \/ ~InputWaits(s)
  /\ auth[s].reading = None
  /\ IF level = "lattice" /\ control[s].reframe
     THEN anchor = control[s].contract
     ELSE Published
  /\ auth' = [auth EXCEPT ![s].reading = anchor]
  /\ UNCHANGED <<level, disk, up, control, body, inbox, staged, writes, review,
                 tool, deferred, budget>>

\* Its epoch is still current: the session has a basis to act on.  On a lattice
\* its receipt replaces the one a reframe was called with.
Refresh(s) ==
  /\ up /\ auth[s].reading # None
  /\ auth' = [auth EXCEPT ![s].reading = None, ![s].basis = auth[s].reading]
  /\ control' = [control EXCEPT ![s].contract = auth[s].reading]
  /\ tool' = IF s = Root /\ level = "lattice" /\ tool.step = "called" THEN Dead(tool) ELSE tool
  /\ UNCHANGED <<level, disk, up, body, inbox, staged, writes, review, deferred,
                 budget>>

\* tools/guard in the contract phase: consumes the authority of the session,
\* and notices a contract that changed behind it.
Guard(s) ==
  /\ up /\ level = "contract" /\ body[s] = None
  /\ ~InputWaits(s)
  /\ LET consumed == [NoAuthority EXCEPT !.prepared = auth[s].basis]
         intact == document = record
         known == anchor = control[s].contract /\ anchor = record
         ready == ~control[s].reframe /\ auth[s].basis # None /\ intact
     IN /\ auth' = [auth EXCEPT ![s] = IF ready /\ known /\ anchor = auth[s].basis
                                       THEN consumed ELSE NoAuthority]
        /\ control' = IF ready /\ ~known
                      THEN [control EXCEPT ![s].reframe = TRUE] ELSE control
  /\ IF s = Root THEN review' = {} /\ tool' = Dead(tool)
                 ELSE UNCHANGED <<review, tool>>
  /\ UNCHANGED <<level, disk, up, body, inbox, staged, writes, deferred,
                 budget>>

\* tools/execute: revalidatePreparedDispatch, and the body starts.
MayEnter(s) ==
  /\ auth[s].prepared # None
  /\ ~control[s].reframe
  /\ ~InputWaits(s)
  /\ Published
  /\ anchor = control[s].contract
  /\ anchor = auth[s].prepared

Enter(s) ==
  /\ up /\ body[s] = None /\ MayEnter(s)
  /\ body' = [body EXCEPT ![s] = anchor]
  /\ auth' = [auth EXCEPT ![s].prepared = None]
  /\ UNCHANGED <<level, disk, up, control, inbox, staged, writes, review, tool,
                 deferred, budget>>

\* tools/result
Result(s) ==
  /\ up /\ body[s] # None
  /\ body' = [body EXCEPT ![s] = None]
  /\ auth' = [auth EXCEPT ![s].basis = None]
  /\ UNCHANGED <<level, disk, up, control, inbox, staged, writes, review, tool,
                 deferred, budget>>

-----------------------------------------------------------------------------
(* Input review.                                                           *)

RootToolStarts == up /\ tool.step = "idle" /\ deferred = {}

\* lattice_review_input, up to the verification of the contract.
BeginReview ==
  /\ RootToolStarts /\ staged = {}
  /\ RevokeAll
  /\ tool' = [step |-> "review", live |-> TRUE, on |-> {}]
  /\ UNCHANGED <<level, disk, up, control, body, inbox, staged, writes, deferred,
                 budget>>

\* Its end: a receipt for the pending messages, or an error.
EndReview ==
  /\ up /\ tool.step = "review"
  /\ tool' = Idle
  /\ IF tool.live /\ Published /\ Pending(record) # {}
     THEN /\ review' = {[contract |-> record, through |-> Max(Pending(record)),
                         messages |-> Said(Pending(record))]}
          /\ control' = [control EXCEPT ![Root].contract = record]
     ELSE UNCHANGED <<review, control>>
  /\ UNCHANGED <<level, disk, up, auth, body, inbox, staged, writes, deferred,
                 budget>>

\* lattice_commit_input_review: the receipt is consumed, then the contract read.
BeginCommit ==
  /\ RootToolStarts /\ review # {}
  /\ review' = {}
  /\ tool' = IF staged = {} THEN [step |-> "commit", live |-> TRUE, on |-> review] ELSE Idle
  /\ UNCHANGED <<level, disk, up, control, auth, body, inbox, staged, writes,
                 deferred, budget>>

\* deferInputReviewMarker
Marker(c, through, messages, disposition) ==
  [kind |-> "marker", contract |-> c, through |-> through, messages |-> messages,
   disposition |-> disposition]

\* The receipt still names the accepted contract and the pending messages.
StillReviewed(r) ==
  /\ Published /\ record = r.contract
  /\ Pending(record) # {} /\ Max(Pending(record)) = r.through
  /\ Said(Pending(record)) = r.messages

EndCommit ==
  /\ up /\ tool.step = "commit"
  /\ tool' = Idle
  /\ \E r \in tool.on, disposition \in {"unchanged", "changed"} :
       IF StillReviewed(r) /\ (disposition = "unchanged" => ~control[Root].reframe)
       THEN /\ deferred' = {Marker(record, r.through, r.messages, disposition)}
            /\ staged' = {}
            /\ RevokeAll
            /\ control' = IF disposition = "changed" THEN AllMustReframe(control)
                          ELSE [s \in Session |-> [control[s] EXCEPT !.contract = record]]
       ELSE UNCHANGED <<deferred, staged, auth, review, control>>
  /\ UNCHANGED <<level, disk, up, body, inbox, writes, budget>>

\* The result of the tool is in the log, and then the marker.
MarkerFollows ==
  /\ up
  /\ \E marker \in deferred : log' = Append(log, marker)
  /\ deferred' = {}
  /\ UNCHANGED <<level, content, files, received, fence, up, control, auth, body,
                 inbox, staged, writes, review, tool, budget>>

-----------------------------------------------------------------------------
(* Reframe.                                                                *)

\* Whom the new contract replaces: what the process trusts if the task is
\* fenced, else the contract of the workspace.
Replaced == IF control[Root].reframe THEN control[Root].contract ELSE record

\* finalizePendingContract: the contract it replaces is the one in force.
MayReplace(previous, untrusted) ==
  IF untrusted THEN anchor = previous ELSE record = previous

NextRevision(previous) == previous + 1

\* lattice_reframe is called.  What it says is fixed from here on: known are the
\* delegated inputs in a log or fenced, which it can take up.  On a lattice it
\* names the receipt the root holds.
CallReframe ==
  /\ RootToolStarts /\ budget.reframes > 0
  /\ level = "lattice" => auth[Root].basis # None
  /\ tool' = [step |-> "called", live |-> TRUE, on |-> [known |-> received \cup Fenced]]
  /\ budget' = [budget EXCEPT !.reframes = @ - 1]
  /\ UNCHANGED <<level, disk, up, control, auth, body, inbox, staged, writes, review,
                 deferred>>

\* The framing stands: the task is fenced, and the tool captures the epoch it
\* will compare.  Questions, and lattice_commit_intake after them, only let time
\* pass.
Capture(framing) ==
  /\ tool' = [step |-> "framed", live |-> TRUE, on |-> framing]
  /\ RevokeAll
  /\ control' = [control EXCEPT ![Root].reframe = TRUE]

\* consumeFreshAuthorization: a receipt is consumed before it is compared.
Consume(framing, fenced) ==
  /\ control' = [control EXCEPT ![Root].reframe = fenced]
  /\ IF tool.live /\ (fenced \/ ~InputWaits(Root))
     THEN /\ auth' = [auth EXCEPT ![Root] = NoAuthority] /\ review' = {}
          /\ tool' = IF /\ auth[Root].basis = anchor
                        /\ IF fenced THEN anchor = control[Root].contract ELSE Published
                     THEN [step |-> "consumed", live |-> TRUE, on |-> framing] ELSE Idle
     ELSE tool' = Idle /\ UNCHANGED <<auth, review>>

\* The workspace is resolved: the tool reads whom it replaces, and fences the
\* task when the files of the contract disagree.
BeginReframe ==
  /\ up /\ tool.step = "called" /\ Replaced < MaxRevision
  /\ LET framing == [previous |-> Replaced, untrusted |-> control[Root].reframe,
                     known |-> tool.on.known]
     IN \/ level = "contract" /\ Capture(framing)
        \/ level = "lattice" /\ Consume(framing, control[Root].reframe \/ document # record)
  /\ UNCHANGED <<level, disk, up, body, inbox, staged, writes, deferred, budget>>

\* The receipt has been compared; nothing may have revoked the root meanwhile.
EndConsume ==
  /\ up /\ tool.step = "consumed"
  /\ tool' = IF tool.live THEN [tool EXCEPT !.step = "unleased"] ELSE Idle
  /\ UNCHANGED <<level, disk, up, control, auth, body, inbox, staged, writes, review,
                 deferred, budget>>

\* ensureNoActiveLease, or a check of the framing itself, refuses; or the framing
\* stands, whatever came in since.
Frame ==
  /\ up /\ tool.step = "unleased"
  /\ \/ tool' = Idle /\ UNCHANGED <<control, auth, review>>
     \/ Capture(tool.on)
  /\ UNCHANGED <<level, disk, up, body, inbox, staged, writes, deferred, budget>>

\* Mutant: the place the marker itself will have.
BoundaryAtTheMarker == Len(log) + 1

\* humanInputBoundary
Boundary == Max(Human \cup {0})

\* Mutant: the reviewed input is left to the marker.
RecordedWithoutReviewed(previous, known) ==
  [at |-> Len(log), sources |-> content[previous].sources, adopts |-> known]

\* What the new contract records.
Recorded(previous, known) ==
  [at |-> Len(log),
   sources |-> content[previous].sources \cup Said(Pending(previous)),
   adopts |-> known]

\* finalizePendingContract up to the first write.
Finalize ==
  /\ up /\ tool.step = "framed"
  /\ LET t == tool.on
         new == NextRevision(t.previous)
     IN IF tool.live /\ MayReplace(t.previous, t.untrusted) /\ staged = {}
        THEN /\ content' = [content EXCEPT ![new] = Recorded(t.previous, t.known)]
             /\ tool' = [step |-> "anchor", live |-> TRUE,
                         on |-> [new |-> new, messages |-> Said(Pending(t.previous)),
                                 through |-> Boundary, fences |-> {}]]
        ELSE tool' = Idle /\ UNCHANGED content
  /\ UNCHANGED <<level, files, log, received, fence, up, control, auth, body, inbox,
                 staged, writes, review, deferred, budget>>

\* Mutant: the document is written before the anchor.
WriteDocumentFirst ==
  /\ up /\ tool.step = "anchor"
  /\ document' = tool.on.new
  /\ tool' = [tool EXCEPT !.step = "document"]
  /\ UNCHANGED <<level, content, anchor, record, graph, log, received, fence, up,
                 control, auth, body, inbox, staged, writes, review, deferred, budget>>

\* persistConfirmedContract: anchor, authority check, document, record.
WriteAnchor ==
  /\ up /\ tool.step = "anchor"
  /\ anchor' = tool.on.new
  /\ tool' = [tool EXCEPT !.step = "document"]
  /\ UNCHANGED <<level, content, document, record, graph, log, received, fence, up,
                 control, auth, body, inbox, staged, writes, review, deferred,
                 budget>>

WriteDocument ==
  /\ up /\ tool.step = "document"
  /\ IF tool.live
     THEN document' = tool.on.new /\ tool' = [tool EXCEPT !.step = "record"]
     ELSE tool' = Idle /\ UNCHANGED document
  /\ UNCHANGED <<level, content, anchor, record, graph, log, received, fence, up,
                 control, auth, body, inbox, staged, writes, review, deferred,
                 budget>>

WriteRecord ==
  /\ up /\ tool.step = "record"
  /\ record' = tool.on.new
  /\ tool' = [tool EXCEPT !.step = "published"]
  /\ UNCHANGED <<level, content, anchor, document, graph, log, received, fence, up,
                 control, auth, body, inbox, staged, writes, review, deferred,
                 budget>>

\* On a lattice the graph is bound to the contract in one commit.
BindGraph ==
  /\ up /\ tool.step = "published" /\ level = "lattice"
  /\ IF tool.live
     THEN graph' = tool.on.new /\ tool' = [tool EXCEPT !.step = "bound"]
     ELSE tool' = Idle /\ UNCHANGED graph
  /\ UNCHANGED <<level, content, anchor, document, record, log, received, fence, up,
                 control, auth, body, inbox, staged, writes, review, deferred,
                 budget>>

\* Mutant: no check after the files have been written.
AuthorityIgnored == TRUE

\* The last authority check; then the fences being recorded are awaited.
AuthorityHeld == tool.live

Check ==
  /\ up
  /\ \/ level = "contract" /\ tool.step = "published"
     \/ level = "lattice" /\ tool.step = "bound"
  /\ tool' = IF ~AuthorityHeld THEN Idle
             ELSE IF level = "lattice" THEN [tool EXCEPT !.step = "release"]
             ELSE [tool EXCEPT !.step = "drain", !.on.fences = writes]
  /\ UNCHANGED <<level, disk, up, control, auth, body, inbox, staged, writes, review,
                 deferred, budget>>

\* releaseReframeFence and clearWorkspace
Release ==
  /\ up /\ tool.step = "release"
  /\ tool' = [tool EXCEPT !.step = "drain", !.on.fences = writes]
  /\ auth' = [s \in Session |-> NoAuthority]
  /\ UNCHANGED <<level, disk, up, control, body, inbox, staged, writes, review,
                 deferred, budget>>

\* awaitDelegatedInputFences
Drain ==
  /\ up /\ tool.step = "drain"
  /\ tool.on.fences \cap writes = {}
  /\ tool' = [tool EXCEPT !.step = "clear"]
  /\ UNCHANGED <<level, disk, up, control, auth, body, inbox, staged, writes, review,
                 deferred, budget>>

\* clearAfterContractAdoption loads the fences and checks all of them first.
Superseded(m, c) == fence[m] # Dangling /\ fence[m] < c

Clear ==
  /\ up /\ tool.step = "clear"
  /\ tool' = IF anchor = tool.on.new /\ \A m \in Fenced : Superseded(m, tool.on.new)
             THEN [tool EXCEPT !.step = "removing", !.on.fences = Fenced]
             ELSE Idle
  /\ UNCHANGED <<level, disk, up, control, auth, body, inbox, staged, writes, review,
                 deferred, budget>>

RemoveReference(m) ==
  /\ up /\ tool.step = "removing" /\ m \in tool.on.fences
  /\ fence' = [fence EXCEPT ![m] = None]
  /\ tool' = [tool EXCEPT !.on.fences = @ \ {m}]
  /\ UNCHANGED <<level, content, files, log, received, up, control, auth, body, inbox,
                 staged, writes, review, deferred, budget>>

\* The process adopts the contract, and a marker covers the input before it.
Adopt ==
  /\ up /\ tool.step = "removing" /\ tool.on.fences = {}
  /\ tool' = Idle
  /\ control' = [s \in Session |-> [contract |-> tool.on.new, reframe |-> FALSE]]
  /\ deferred' = {Marker(tool.on.new, tool.on.through, tool.on.messages, "reframed")}
  /\ staged' = {}
  /\ RevokeAll
  /\ UNCHANGED <<level, disk, up, body, inbox, writes, budget>>

-----------------------------------------------------------------------------
(* Crash and restart.                                                      *)

Blank == [s \in Session |-> [contract |-> None, reframe |-> FALSE]]
Nobody == [s \in Session |-> None]

Crash ==
  /\ up /\ budget.crashes > 0
  /\ budget' = [budget EXCEPT !.crashes = @ - 1]
  /\ up' = FALSE
  /\ control' = Blank
  /\ auth' = [s \in Session |-> NoAuthority]
  /\ body' = Nobody
  /\ inbox' = {} /\ staged' = {} /\ writes' = {} /\ review' = {} /\ deferred' = {}
  /\ tool' = Idle
  /\ UNCHANGED <<level, disk>>

\* Mutants: the anchor is not compared; fences are not looked for.
UntrustedFilesOnly ==
  document # record \/ Fenced # {} \/ (level = "lattice" /\ graph # anchor)
UntrustedUnfenced == ~Published \/ (level = "lattice" /\ graph # anchor)

\* installControl of the root: what makes the durable state untrusted.
Untrusted ==
  \/ ~Published
  \/ Fenced # {}
  \/ level = "lattice" /\ graph # anchor

\* Mutant: the workspace is trusted.
TrustedWorkspace == record

\* The contract it trusts.
Trusted == anchor

\* The delegated sessions inherit.
Restart ==
  /\ ~up
  /\ up' = TRUE
  /\ control' = [s \in Session |-> [contract |-> Trusted, reframe |-> Untrusted]]
  /\ UNCHANGED <<level, disk, auth, body, inbox, staged, writes, review, tool,
                 deferred, budget>>

-----------------------------------------------------------------------------
Init ==
  /\ budget \in Budgets /\ level = budget.level
  /\ content = [r \in Revision |-> [at |-> 0, sources |-> {}, adopts |-> {}]]
  /\ anchor = 1 /\ document = 1 /\ record = 1 /\ graph = 1
  /\ log = <<>>
  /\ received = {}
  /\ fence = [m \in ChildInput |-> None]
  /\ up = TRUE
  /\ control = [s \in Session |-> [contract |-> 1, reframe |-> FALSE]]
  /\ auth = [s \in Session |-> NoAuthority]
  /\ body = Nobody
  /\ inbox = {} /\ staged = {} /\ writes = {} /\ review = {} /\ deferred = {}
  /\ tool = Idle

Next ==
  \/ \E m \in Input : Insert(m) \/ Deliver(m)
  \/ \E s \in Session : Revoke(s) \/ Delegate(s)
  \/ \E w \in writes : Record(w)
  \/ \E s \in Session : Read(s) \/ Refresh(s) \/ Guard(s) \/ Enter(s) \/ Result(s)
  \/ BeginReview \/ EndReview \/ BeginCommit \/ EndCommit \/ MarkerFollows
  \/ CallReframe \/ BeginReframe \/ EndConsume \/ Frame \/ Finalize \/ WriteAnchor \/ WriteDocument \/ WriteRecord
  \/ BindGraph \/ Check \/ Release \/ Drain \/ Clear
  \/ \E m \in ChildInput : RemoveReference(m)
  \/ Adopt
  \/ Crash \/ Restart

Spec == Init /\ [][Next]_vars

-----------------------------------------------------------------------------
(* What must hold.                                                         *)

Contracts == [at : Nat, sources : SUBSET RootInput, adopts : SUBSET ChildInput]

\* The files and the memory of the process have the values the code gives them.
TypeOK ==
  /\ level \in {"contract", "lattice"} /\ budget \in Budget
  /\ content \in [Revision -> Contracts]
  /\ {anchor, document, record, graph} \subseteq Revision
  /\ \A i \in DOMAIN log :
       \/ log[i] \in [kind : {"input"}, input : RootInput]
       \/ /\ log[i].kind = "marker" /\ log[i].contract \in Revision
          /\ log[i].through \in 0..(i - 1) /\ log[i].messages \subseteq RootInput
  /\ received \subseteq ChildInput
  /\ fence \in [ChildInput -> Revision \cup {None, Dangling}]
  /\ control \in [Session -> [contract : Revision \cup {None}, reframe : BOOLEAN]]
  /\ auth \in [Session -> [basis : Revision \cup {None}, reading : Revision \cup {None},
                           prepared : Revision \cup {None}]]
  /\ body \in [Session -> Revision \cup {None}]
  /\ inbox \subseteq Input /\ staged \subseteq inbox
  /\ Cardinality(review) <= 1 /\ Cardinality(deferred) <= 1

\* A publication that stopped half way (an input, an operational notice or a
\* crash came in between, at any of its writes) leaves the root fenced until
\* a later one has gone through, and the process never takes the torn contract
\* for the accepted one.
InterruptedReframeStaysFenced ==
  (up /\ tool.step = "idle" /\ (~Published \/ (level = "lattice" /\ graph # anchor)))
    => control[Root].reframe

\* The anchor is the first file to change and the graph follows the contract,
\* whatever was interrupted before: nothing a workspace holds is ahead of
\* what the trust root holds.
AnchorLeads == record <= document /\ document <= anchor /\ graph <= record

\* A guarded body of s starts in this step.
Starts(s) == body[s] = None /\ body'[s] # None

\* The messages a marker in the log names.
Reviewed == UNION {log[i].messages : i \in {j \in DOMAIN log : log[j].kind = "marker"}}

\* When a guarded body starts, each human message in the root's log is an
\* authority source of the accepted contract or is named by a review: none is
\* lost to a message that came in while another one was reviewed, to a review
\* whose marker a crash swallowed, or to the change from one contract to the next.
EveryInputIsAnswered ==
  [][\A s \in Session : Starts(s) =>
       Said(Human) \subseteq content[anchor].sources \cup Reviewed]_vars

\* A fence disappears only when a contract that could take up its input has
\* been published and supersedes the one the input was fenced under
\* (finalizePendingContract, clearAfterContractAdoption).  Input that arrives in one
\* of the Windows is in neither comparison of epochs, and its fence is cleared
\* unanswered.
FenceClearedOnlyByAdoption ==
  [][\A m \in ChildInput : fence[m] # None /\ fence'[m] = None =>
       fence[m] < anchor /\ Published /\ m \in content[anchor].adopts]_vars

\* No guarded body of any session starts while a delegated input is fenced,
\* in the process that recorded it or after a restart.
FencesBlock == [][\A s \in Session : Starts(s) => Fenced = {}]_vars

\* After a restart the reframe the process asks for is not refused: what it
\* would replace is what the trust root or the workspace holds.
RestartAllowsReframe ==
  [][~up /\ up' => MayReplace(Replaced, control[Root].reframe)']_vars

\* Input reviewed as changing the contract blocks guarded work until the
\* contract has been replaced.
ChangedInputWaitsForReframe ==
  [][\A s \in Session : Starts(s) =>
       \A m \in Markers(anchor) : m.disposition # "changed"]_vars
=============================================================================
