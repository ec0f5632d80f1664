------------------------ MODULE ContractAdoptionProofs ------------------------
(***************************************************************************)
(* Theorems about ContractAdoption, for every set of sessions and inputs,  *)
(* every budget of crashes, revocations and faults, and every bound on the *)
(* revisions: the order in which the files of a contract change, the fence *)
(* over a publication that stopped half way, the fences over delegated     *)
(* inputs, and the review of what the human says.                          *)
(*                                                                         *)
(* What the tool in progress has written and still has to write is what    *)
(* makes the two inductive: ToolFollowsFiles says it step by step.         *)
(***************************************************************************)
EXTENDS ContractAdoption, FiniteSetTheorems, TLAPS

Closing == {"bound", "release", "drain", "clear", "removing"}
Publishing == {"anchor", "document", "record", "published"} \cup Closing
Framing == {"consumed", "unleased", "framed"}
Resting == {"idle", "review", "commit", "called"}

\* All that a workspace and its trust root hold is one contract.
Whole == Published /\ (level = "lattice" => graph = anchor)

\* The shapes of what the process keeps, as far as the files depend on them.
Shapes ==
  /\ {anchor, document, record, graph} \subseteq Int
  /\ anchor \in Revision /\ DOMAIN content = Revision
  /\ auth \in [Session -> [basis : Int, reading : Int, prepared : Int]]
  /\ control \in [Session -> [contract : Int, reframe : BOOLEAN]]
  /\ tool = [step |-> tool.step, live |-> tool.live, on |-> tool.on]
  /\ tool.step \in Resting \cup Framing \cup Publishing
  /\ tool.step \in Framing =>
       /\ tool.on = [previous |-> tool.on.previous, untrusted |-> tool.on.untrusted,
                     known |-> tool.on.known]
       /\ tool.on.previous \in Int /\ tool.on.previous < MaxRevision
  /\ tool.step \in Publishing =>
       /\ tool.on = [new |-> tool.on.new, messages |-> tool.on.messages,
                     through |-> tool.on.through, fences |-> tool.on.fences]
       /\ tool.on.new \in Revision

\* How far the files are at each step of a reframe, and that the root is
\* fenced from its beginning to its end.
ToolFollowsFiles ==
  /\ ~up => tool.step = "idle"
  /\ tool.step \in {"framed"} \cup Publishing => control[Root].reframe
  /\ tool.step \in Framing => tool.on.untrusted \/ Whole
  /\ tool.step = "anchor" => anchor <= tool.on.new
  /\ tool.step \in Publishing \ {"anchor"} => anchor = tool.on.new
  /\ tool.step \in Publishing \ {"anchor", "document"} => document = anchor
  /\ tool.step \in {"published"} \cup Closing => record = anchor
  /\ tool.step \in Closing /\ level = "lattice" => graph = anchor

\* A torn contract is fenced, whatever the root does that publishes nothing.
TornIsFenced ==
  up /\ tool.step \in Resting \cup Framing /\ ~Whole => control[Root].reframe

IInv == Shapes /\ AnchorLeads /\ ToolFollowsFiles /\ TornIsFenced

-----------------------------------------------------------------------------
(* Facts about what the handlers share.                                     *)

Authorities == [Session -> [basis : Int, reading : Int, prepared : Int]]
Controls == [Session -> [contract : Int, reframe : BOOLEAN]]

LEMMA RootIsSession == Root \in Session
BY DEF Session

\* Revoked authority is authority of nobody.
LEMMA RevokedShape == [s \in Session |-> NoAuthority] \in Authorities
BY DEF Authorities, NoAuthority, None

\* requireRootReframe fences every session of the task.
LEMMA AllMustReframeShape ==
  ASSUME NEW c \in Controls
  PROVE  AllMustReframe(c) \in Controls /\ AllMustReframe(c)[Root].reframe
<1>1. \A s \in Session : [c[s] EXCEPT !.reframe = TRUE] \in [contract : Int, reframe : BOOLEAN]
                         /\ [c[s] EXCEPT !.reframe = TRUE].reframe
  BY DEF Controls
<1> QED BY <1>1, RootIsSession DEF AllMustReframe, Controls

\* A new contract in one control leaves the fences of all.
LEMMA ContractKeepsFences ==
  ASSUME NEW c \in Controls, NEW s \in Session, NEW r \in Int
  PROVE  LET d == [c EXCEPT ![s] = [@ EXCEPT !.contract = r]] IN
         d \in Controls /\ d[Root].reframe = c[Root].reframe
<1>1. [c[s] EXCEPT !.contract = r] \in [contract : Int, reframe : BOOLEAN]
      /\ [c[s] EXCEPT !.contract = r].reframe = c[s].reframe
  BY DEF Controls
<1> QED BY <1>1, RootIsSession DEF Controls

\* The fence of one session leaves those of the others.
LEMMA FenceOfOne ==
  ASSUME NEW c \in Controls, NEW s \in Session
  PROVE  LET d == [c EXCEPT ![s] = [@ EXCEPT !.reframe = TRUE]] IN
         d \in Controls /\ (c[Root].reframe \/ s = Root => d[Root].reframe)
<1>1. [c[s] EXCEPT !.reframe = TRUE] \in [contract : Int, reframe : BOOLEAN]
      /\ [c[s] EXCEPT !.reframe = TRUE].reframe
  BY DEF Controls
<1> QED BY <1>1, RootIsSession DEF Controls

\* A step that leaves the files and the tool where they are keeps the
\* invariant if it takes no fence away from the root.
LEMMA FilesAtRest ==
  ASSUME IInv, UNCHANGED <<level, content, files, up>>, tool' = tool \/ tool' = Dead(tool),
         auth' \in Authorities, control' \in Controls,
         control[Root].reframe => control'[Root].reframe
  PROVE  IInv'
<1>1. tool' = [step |-> tool'.step, live |-> tool'.live, on |-> tool'.on]
      /\ tool'.step = tool.step /\ tool'.on = tool.on
  BY DEF IInv, Shapes, Dead
<1>2. Shapes'
  BY <1>1 DEF IInv, Shapes, Authorities, Controls, files
<1>3. AnchorLeads'
  BY DEF IInv, AnchorLeads, files
<1>4. ToolFollowsFiles'
  BY <1>1 DEF IInv, ToolFollowsFiles, Whole, Published, files
<1>5. TornIsFenced'
  BY <1>1 DEF IInv, TornIsFenced, Whole, Published, files
<1> QED BY <1>2, <1>3, <1>4, <1>5 DEF IInv

\* A tool that ends, wherever it was, leaves the root fenced or the files whole.
LEMMA ToolEnds ==
  ASSUME IInv, up, UNCHANGED <<level, content, files, up>>,
         tool' = [step |-> tool'.step, live |-> tool'.live, on |-> tool'.on],
         tool'.step \in Resting,
         auth' \in Authorities, control' \in Controls,
         control[Root].reframe => control'[Root].reframe
  PROVE  IInv'
<1>1. tool'.step \notin Publishing \cup Framing
  BY DEF Resting, Framing, Publishing, Closing
<1>2. Shapes'
  BY <1>1 DEF IInv, Shapes, Authorities, Controls, files
<1>3. AnchorLeads'
  BY DEF IInv, AnchorLeads, files
<1>4. ToolFollowsFiles'
  BY <1>1 DEF ToolFollowsFiles, Framing, Publishing
<1>5. TornIsFenced'
  <2>1. Whole' <=> Whole
    BY DEF Whole, Published, files
  <2>2. control[Root].reframe \/ Whole
    BY DEF IInv, Shapes, ToolFollowsFiles, TornIsFenced
  <2> QED BY <2>1, <2>2 DEF TornIsFenced
<1> QED BY <1>2, <1>3, <1>4, <1>5 DEF IInv

-----------------------------------------------------------------------------
(* The inductive invariant.                                                 *)

\* A task with an accepted contract starts with whole files and no tool.
LEMMA InitIInv == Init => IInv
<1> SUFFICES ASSUME Init PROVE IInv
  OBVIOUS
<1>1. Shapes
  BY ContractAssumption
     DEF Init, Shapes, Revision, NoAuthority, None, Idle, Resting, Framing, Publishing, Closing
<1>2. AnchorLeads
  BY DEF Init, AnchorLeads
<1>3. ToolFollowsFiles
  BY DEF Init, ToolFollowsFiles, Idle, Framing, Publishing, Closing
<1>4. TornIsFenced
  BY DEF Init, TornIsFenced, Whole, Published
<1> QED BY <1>1, <1>2, <1>3, <1>4 DEF IInv

\* Input, in the inbox or in a log, revokes the task and may fence it.
LEMMA InputKeeps ==
  ASSUME IInv, NEW m \in Input, Insert(m) \/ Deliver(m)
  PROVE  IInv'
<1>1. control \in Controls
  BY DEF IInv, Shapes, Controls
<1>2. auth' \in Authorities
  BY RevokedShape DEF Insert, Deliver, RevokeAll
<1>3. control' = control \/ control' = AllMustReframe(control)
  BY DEF Insert, Deliver
<1>4. control' \in Controls /\ (control[Root].reframe => control'[Root].reframe)
  BY <1>1, <1>3, AllMustReframeShape
<1>5. UNCHANGED <<level, content, files, up>> /\ tool' = Dead(tool)
  BY DEF Insert, Deliver, disk, files
<1> QED BY <1>2, <1>4, <1>5, FilesAtRest

\* Other revocations, and a delegated session that takes over the control.
LEMMA RevocationKeeps ==
  ASSUME IInv, NEW s \in Session, Revoke(s) \/ Delegate(s)
  PROVE  IInv'
<1>1. control \in Controls /\ auth \in Authorities
  BY DEF IInv, Shapes, Controls, Authorities
<1>2. CASE Revoke(s)
  <2>1. auth' \in Authorities
    BY <1>1, <1>2 DEF Revoke, Authorities, NoAuthority, None
  <2>2. UNCHANGED <<level, content, files, up, control>> /\ (tool' = tool \/ tool' = Dead(tool))
    BY <1>2 DEF Revoke, disk, files
  <2> QED BY <1>1, <2>1, <2>2, FilesAtRest
<1>3. CASE Delegate(s)
  <2>1. auth' \in Authorities
    BY <1>3, RevokedShape DEF Delegate, RevokeAll
  <2>2. control' = [control EXCEPT ![s] = control[Root]]
    BY <1>3 DEF Delegate
  <2>3. control' \in Controls /\ control'[Root] = control[Root]
    BY <1>1, <2>2, RootIsSession DEF Controls
  <2>4. UNCHANGED <<level, content, files, up>> /\ tool' = Dead(tool)
    BY <1>3 DEF Delegate, disk, files
  <2> QED BY <2>1, <2>3, <2>4, FilesAtRest
<1> QED BY <1>2, <1>3

\* Fences, guarded tools and the marker of a review touch no file of the
\* contract; a guarded tool that finds it changed fences its session.
LEMMA WorkKeeps ==
  ASSUME IInv,
         \/ \E w \in writes : Record(w)
         \/ \E s \in Session : Read(s) \/ Refresh(s) \/ Guard(s) \/ Enter(s) \/ Result(s)
         \/ MarkerFollows
  PROVE  IInv'
<1>1. control \in Controls /\ auth \in Authorities /\ anchor \in Int
  BY DEF IInv, Shapes, Controls, Authorities
<1>2. CASE \E w \in writes : Record(w)
  <2>1. UNCHANGED <<level, content, files, up, auth, tool>>
    BY <1>2 DEF Record, files
  <2>2. control' = control \/ control' = AllMustReframe(control)
    BY <1>2 DEF Record
  <2>3. control' \in Controls /\ (control[Root].reframe => control'[Root].reframe)
    BY <1>1, <2>2, AllMustReframeShape
  <2> QED BY <1>1, <2>1, <2>3, FilesAtRest
<1>3. ASSUME NEW s \in Session, Read(s) PROVE IInv'
  <2>1. UNCHANGED <<level, content, files, up, control, tool>>
    BY <1>3 DEF Read, disk, files
  <2>2. auth' \in Authorities
    BY <1>1, <1>3 DEF Read, Authorities
  <2> QED BY <1>1, <2>1, <2>2, FilesAtRest
<1>4. ASSUME NEW s \in Session, Refresh(s) PROVE IInv'
  <2>1. UNCHANGED <<level, content, files, up>> /\ (tool' = tool \/ tool' = Dead(tool))
    BY <1>4 DEF Refresh, disk, files
  <2>2. auth' \in Authorities /\ auth[s].reading \in Int
    BY <1>1, <1>4 DEF Refresh, Authorities, None
  <2>3. control' = [control EXCEPT ![s] = [@ EXCEPT !.contract = auth[s].reading]]
    BY <1>4 DEF Refresh
  <2>4. control' \in Controls /\ control'[Root].reframe = control[Root].reframe
    BY <1>1, <2>2, <2>3, ContractKeepsFences
  <2> QED BY <2>1, <2>2, <2>4, FilesAtRest
<1>5. ASSUME NEW s \in Session, Guard(s) PROVE IInv'
  <2>1. UNCHANGED <<level, content, files, up>> /\ (tool' = tool \/ tool' = Dead(tool))
    BY <1>5 DEF Guard, disk, files
  <2>2. auth' \in Authorities
    <3>1. \/ auth' = [auth EXCEPT ![s] = [NoAuthority EXCEPT !.prepared = auth[s].basis]]
          \/ auth' = [auth EXCEPT ![s] = NoAuthority]
      BY <1>5 DEF Guard
    <3>2. auth[s].basis \in Int
      BY <1>1 DEF Authorities
    <3> QED BY <1>1, <3>1, <3>2 DEF Authorities, NoAuthority, None
  <2>3. \/ control' = [control EXCEPT ![s] = [@ EXCEPT !.reframe = TRUE]]
        \/ control' = control
    BY <1>5 DEF Guard
  <2>4. control' \in Controls /\ (control[Root].reframe => control'[Root].reframe)
    BY <1>1, <2>3, FenceOfOne
  <2> QED BY <2>1, <2>2, <2>4, FilesAtRest
<1>6. ASSUME NEW s \in Session, Enter(s) \/ Result(s) PROVE IInv'
  <2>1. UNCHANGED <<level, content, files, up, control, tool>>
    BY <1>6 DEF Enter, Result, disk, files
  <2>2. auth' \in Authorities
    BY <1>1, <1>6 DEF Enter, Result, Authorities, None
  <2> QED BY <1>1, <2>1, <2>2, FilesAtRest
<1>7. CASE MarkerFollows
  <2>1. UNCHANGED <<level, content, files, up, control, tool, auth>>
    BY <1>7 DEF MarkerFollows, files
  <2> QED BY <1>1, <2>1, FilesAtRest
<1> QED BY <1>2, <1>3, <1>4, <1>5, <1>6, <1>7

\* A review publishes nothing and takes no fence away.
LEMMA ReviewKeeps ==
  ASSUME IInv, BeginReview \/ EndReview \/ BeginCommit \/ EndCommit
  PROVE  IInv'
<1>1. control \in Controls /\ auth \in Authorities /\ record \in Int
  BY DEF IInv, Shapes, Controls, Authorities
<1>2. up /\ UNCHANGED <<level, content, files, up>>
  BY DEF BeginReview, EndReview, BeginCommit, EndCommit, RootToolStarts, disk, files
<1>3. tool' = [step |-> tool'.step, live |-> tool'.live, on |-> tool'.on]
      /\ tool'.step \in Resting
  BY DEF BeginReview, EndReview, BeginCommit, EndCommit, Idle, Resting
<1>4. CASE BeginReview \/ BeginCommit
  <2>1. auth' \in Authorities /\ control' = control
    BY <1>1, <1>4, RevokedShape DEF BeginReview, BeginCommit, RevokeAll
  <2> QED BY <1>1, <1>2, <1>3, <2>1, ToolEnds
<1>5. CASE EndReview
  <2>1. \/ control' = [control EXCEPT ![Root] = [@ EXCEPT !.contract = record]]
        \/ control' = control
    BY <1>5 DEF EndReview
  <2>2. control' \in Controls /\ control'[Root].reframe = control[Root].reframe
    BY <1>1, <2>1, RootIsSession, ContractKeepsFences
  <2>3. auth' = auth
    BY <1>5 DEF EndReview
  <2> QED BY <1>1, <1>2, <1>3, <2>2, <2>3, ToolEnds
<1>6. CASE EndCommit
  <2> DEFINE adopted == [s \in Session |-> [control[s] EXCEPT !.contract = record]]
  <2>1. auth' = auth \/ auth' = [s \in Session |-> NoAuthority]
    BY <1>6 DEF EndCommit, RevokeAll
  <2>2. auth' \in Authorities
    BY <1>1, <2>1, RevokedShape
  <2>3. control' = control \/ control' = AllMustReframe(control) \/ control' = adopted
    BY <1>6 DEF EndCommit
  <2>4. adopted \in Controls /\ adopted[Root].reframe = control[Root].reframe
    <3>1. \A s \in Session :
            /\ [control[s] EXCEPT !.contract = record] \in [contract : Int, reframe : BOOLEAN]
            /\ [control[s] EXCEPT !.contract = record].reframe = control[s].reframe
      BY <1>1 DEF Controls
    <3> QED BY <3>1, RootIsSession DEF Controls
  <2>5. control' \in Controls /\ (control[Root].reframe => control'[Root].reframe)
    BY <1>1, <2>3, <2>4, AllMustReframeShape
  <2> QED BY <1>2, <1>3, <2>2, <2>5, ToolEnds
<1> QED BY <1>4, <1>5, <1>6

\* A framing may proceed when it replaces an untrusted contract or the files
\* are whole.
LEMMA FramingKeeps ==
  ASSUME IInv, up, UNCHANGED <<level, content, files, up>>,
         auth' \in Authorities, control' \in Controls,
         control[Root].reframe => control'[Root].reframe,
         tool.step \in Resting \cup Framing,
         NEW step \in Framing, NEW previous \in Int, NEW untrusted, NEW known,
         tool' = [step |-> step, live |-> TRUE,
                  on |-> [previous |-> previous, untrusted |-> untrusted, known |-> known]],
         previous < MaxRevision, untrusted \/ Whole,
         step = "framed" => control'[Root].reframe
  PROVE  IInv'
<1>1. Whole' <=> Whole
  BY DEF Whole, Published, files
<1>2. Shapes'
  BY DEF IInv, Shapes, Authorities, Controls, files, Framing, Publishing, Closing
<1>3. AnchorLeads'
  BY DEF IInv, AnchorLeads, files
<1>4. ToolFollowsFiles'
  BY <1>1 DEF ToolFollowsFiles, Framing, Publishing, Closing
<1>5. TornIsFenced'
  BY <1>1 DEF IInv, TornIsFenced
<1> QED BY <1>2, <1>3, <1>4, <1>5 DEF IInv

\* A reframe ends or proceeds with a framing; it need not know the files whole
\* only if the root was fenced before.
LEMMA BeginReframeKeeps ==
  ASSUME IInv, CallReframe \/ BeginReframe \/ EndConsume \/ Frame
  PROVE  IInv'
<1>1. control \in Controls /\ auth \in Authorities /\ record \in Int
  BY DEF IInv, Shapes, Controls, Authorities
<1>2. up /\ UNCHANGED <<level, content, files, up>>
  BY DEF CallReframe, RootToolStarts, BeginReframe, EndConsume, Frame, disk, files
<1>3. CASE CallReframe
  <2>1. UNCHANGED <<control, auth>> /\ tool'.step = "called"
        /\ tool' = [step |-> tool'.step, live |-> tool'.live, on |-> tool'.on]
    BY <1>3 DEF CallReframe
  <2> QED BY <1>1, <1>2, <2>1, ToolEnds DEF Resting
<1>4. CASE BeginReframe
  <2>1. tool.step = "called" /\ Replaced < MaxRevision
    BY <1>4 DEF BeginReframe
  <2>2. control[Root].reframe \/ Whole
    BY <1>2, <2>1 DEF IInv, TornIsFenced, Resting
  <2>3. Replaced \in Int
    BY <1>1, RootIsSession DEF Replaced, Controls
  <2>4. control' \in Controls /\ (control[Root].reframe => control'[Root].reframe)
    <3>1. \/ control' = [control EXCEPT ![Root] = [@ EXCEPT !.reframe = TRUE]]
          \/ control' = [control EXCEPT ![Root] = [@ EXCEPT !.reframe =
                          control[Root].reframe \/ document # record]]
      BY <1>4 DEF BeginReframe, Capture, Consume
    <3>2. CASE control' = [control EXCEPT ![Root] = [@ EXCEPT !.reframe = TRUE]]
      BY <1>1, <3>2, FenceOfOne, RootIsSession
    <3>3. CASE control' = [control EXCEPT ![Root] = [@ EXCEPT !.reframe =
                            control[Root].reframe \/ document # record]]
      <4>1. control[Root] \in [contract : Int, reframe : BOOLEAN]
        BY <1>1, RootIsSession DEF Controls
      <4>2. (control[Root].reframe \/ document # record) \in BOOLEAN
        OBVIOUS
      <4> QED BY <1>1, <3>3, <4>1, <4>2, RootIsSession DEF Controls
    <3> QED BY <3>1, <3>2, <3>3
  <2>5. auth' \in Authorities
    <3>1. auth' = [s \in Session |-> NoAuthority] \/ auth' = [auth EXCEPT ![Root] = NoAuthority]
          \/ auth' = auth
      BY <1>4 DEF BeginReframe, Capture, Consume, RevokeAll
    <3> QED BY <1>1, <3>1, RevokedShape DEF Authorities, NoAuthority, None
  <2>6. CASE tool' = Idle
    BY <1>2, <2>4, <2>5, <2>6, ToolEnds DEF Idle, Resting
  <2>7. CASE tool' # Idle
    <3>1. PICK step \in {"framed", "consumed"} :
            /\ tool' = [step |-> step, live |-> TRUE,
                        on |-> [previous |-> Replaced, untrusted |-> control[Root].reframe,
                                known |-> tool.on.known]]
            /\ step = "framed" => control' = [control EXCEPT ![Root] = [@ EXCEPT !.reframe = TRUE]]
      BY <1>4, <2>7 DEF BeginReframe, Capture, Consume
    <3>2. step \in Framing /\ (step = "framed" => control'[Root].reframe)
      BY <1>1, <3>1, FenceOfOne, RootIsSession DEF Framing
    <3>3. tool.step \in Resting \cup Framing
      BY <2>1 DEF Resting
    <3> QED BY <1>2, <2>1, <2>2, <2>3, <2>4, <2>5, <3>1, <3>2, <3>3, FramingKeeps
  <2> QED BY <2>6, <2>7
<1>5. CASE EndConsume \/ Frame
  <2>1. tool.step \in {"consumed", "unleased"}
    BY <1>5 DEF EndConsume, Frame
  <2>2. /\ tool = [step |-> tool.step, live |-> tool.live, on |-> tool.on]
        /\ tool.on = [previous |-> tool.on.previous, untrusted |-> tool.on.untrusted,
                      known |-> tool.on.known]
        /\ tool.on.previous \in Int /\ tool.on.previous < MaxRevision
        /\ tool.on.untrusted \/ Whole
    BY <2>1 DEF IInv, Shapes, ToolFollowsFiles, Framing
  <2>3. /\ auth' = auth \/ auth' = [s \in Session |-> NoAuthority]
        /\ \/ control' = control
           \/ control' = [control EXCEPT ![Root] = [@ EXCEPT !.reframe = TRUE]]
    BY <1>5 DEF EndConsume, Frame, Capture, RevokeAll
  <2>4. auth' \in Authorities /\ control' \in Controls
        /\ (control[Root].reframe => control'[Root].reframe)
    BY <1>1, <2>3, RevokedShape, FenceOfOne, RootIsSession
  <2>5. CASE tool' = Idle
    BY <1>2, <2>4, <2>5, ToolEnds DEF Idle, Resting
  <2>6. CASE tool' # Idle
    <3>1. PICK step \in {"unleased", "framed"} :
            /\ tool' = [step |-> step, live |-> TRUE, on |-> tool.on]
            /\ step = "framed" => control' = [control EXCEPT ![Root] = [@ EXCEPT !.reframe = TRUE]]
      BY <1>5, <2>2, <2>6 DEF EndConsume, Frame, Capture
    <3>2. step \in Framing /\ (step = "framed" => control'[Root].reframe)
      BY <1>1, <3>1, FenceOfOne, RootIsSession DEF Framing
    <3>3. tool.step \in Resting \cup Framing
      BY <2>1 DEF Framing
    <3> QED BY <1>2, <2>2, <2>4, <3>1, <3>2, <3>3, FramingKeeps
  <2> QED BY <2>5, <2>6
<1> QED BY <1>3, <1>4, <1>5

\* What finalizing compares makes the new revision the next one of the anchor.
LEMMA FinalizeKeeps ==
  ASSUME IInv, Finalize
  PROVE  IInv'
<1> DEFINE t == tool.on
           new == NextRevision(t.previous)
<1>1. up /\ tool.step = "framed" /\ UNCHANGED <<level, files, up, control, auth>>
  BY DEF Finalize
<1>2. control \in Controls /\ auth \in Authorities
  BY DEF IInv, Shapes, Controls, Authorities
<1>3. CASE tool' = Idle /\ content' = content
  BY <1>1, <1>2, <1>3, ToolEnds DEF Idle, Resting
<1>4. CASE ~(tool' = Idle /\ content' = content)
  <2>1. MayReplace(t.previous, t.untrusted)
        /\ content' = [content EXCEPT ![new] = Recorded(t.previous, t.known)]
    BY <1>4 DEF Finalize
  <2>2. tool' = [step |-> "anchor", live |-> TRUE,
                 on |-> [new |-> new, messages |-> Said(Pending(t.previous)),
                         through |-> Boundary, fences |-> {}]]
    BY <1>4 DEF Finalize
  <2>3. t.untrusted \/ Whole
    BY <1>1 DEF IInv, ToolFollowsFiles, Framing
  <2>4. anchor = t.previous
    BY <2>1, <2>3 DEF MayReplace, Whole, Published
  <2>5. anchor \in Revision /\ t.previous < MaxRevision
    BY <1>1 DEF IInv, Shapes, Framing
  <2>6. new \in Revision /\ anchor <= new
    BY <2>4, <2>5, ContractAssumption DEF NextRevision, Revision
  <2>7. Shapes'
    BY <1>1, <2>1, <2>2, <2>6 DEF IInv, Shapes, files, Framing, Publishing, Closing
  <2>8. AnchorLeads'
    BY <1>1 DEF IInv, AnchorLeads, files
  <2>9. ToolFollowsFiles'
    BY <1>1, <2>2, <2>6 DEF IInv, ToolFollowsFiles, files, Framing, Publishing, Closing
  <2>10. TornIsFenced'
    BY <2>2 DEF TornIsFenced, Resting, Framing
  <2> QED BY <2>7, <2>8, <2>9, <2>10 DEF IInv
<1> QED BY <1>3, <1>4

\* The three files are written in the order of AnchorLeads.
LEMMA WritesKeep ==
  ASSUME IInv, WriteAnchor \/ WriteDocument \/ WriteRecord \/ BindGraph
  PROVE  IInv'
<1>1. up /\ UNCHANGED <<level, content, up, control, auth>>
  BY DEF WriteAnchor, WriteDocument, WriteRecord, BindGraph
<1>2. control \in Controls /\ auth \in Authorities
  BY DEF IInv, Shapes, Controls, Authorities
<1>3. CASE tool' = Idle /\ UNCHANGED files
  BY <1>1, <1>2, <1>3, ToolEnds DEF Idle, Resting
<1>4. CASE ~(tool' = Idle /\ UNCHANGED files)
  <2>1. \/ /\ tool.step = "anchor" /\ tool'.step = "document"
           /\ anchor' = tool.on.new /\ UNCHANGED <<document, record, graph>>
        \/ /\ tool.step = "document" /\ tool'.step = "record"
           /\ document' = tool.on.new /\ UNCHANGED <<anchor, record, graph>>
        \/ /\ tool.step = "record" /\ tool'.step = "published"
           /\ record' = tool.on.new /\ UNCHANGED <<anchor, document, graph>>
        \/ /\ tool.step = "published" /\ tool'.step = "bound"
           /\ graph' = tool.on.new /\ UNCHANGED <<anchor, document, record>>
    BY <1>4 DEF IInv, Shapes, WriteAnchor, WriteDocument, WriteRecord, BindGraph, files
  <2>2. tool' = [step |-> tool'.step, live |-> tool'.live, on |-> tool'.on]
        /\ tool'.on = tool.on
    BY <1>4 DEF IInv, Shapes, WriteAnchor, WriteDocument, WriteRecord, BindGraph, files
  <2>3. tool.on.new \in Revision \cap Int /\ {anchor, document, record, graph} \subseteq Int
    BY <2>1 DEF IInv, Shapes, Framing, Publishing, Closing, Revision
  <2>4. Shapes'
    BY <1>1, <2>1, <2>2, <2>3 DEF IInv, Shapes, Framing, Publishing, Closing
  <2>5. control[Root].reframe
    BY <2>1 DEF IInv, ToolFollowsFiles, Framing, Publishing, Closing
  <2>6. /\ tool.step = "anchor" => anchor <= tool.on.new
        /\ tool.step # "anchor" => anchor = tool.on.new
        /\ tool.step \in {"record", "published"} => document = anchor
        /\ tool.step = "published" => record = anchor
    BY <2>1 DEF IInv, ToolFollowsFiles, Framing, Publishing, Closing
  <2>7. AnchorLeads'
    BY <2>1, <2>3, <2>6 DEF IInv, AnchorLeads
  <2>8. ToolFollowsFiles'
    BY <1>1, <2>1, <2>2, <2>5, <2>6 DEF ToolFollowsFiles, Framing, Publishing, Closing
  <2>9. TornIsFenced'
    BY <2>1 DEF TornIsFenced, Resting, Framing
  <2> QED BY <2>4, <2>7, <2>8, <2>9 DEF IInv
<1> QED BY <1>3, <1>4

\* From the last check to the removal of the fences the files are whole.
LEMMA ClosingKeeps ==
  ASSUME IInv,
         Check \/ Release \/ Drain \/ Clear \/ \E m \in ChildInput : RemoveReference(m)
  PROVE  IInv'
<1>1. up /\ UNCHANGED <<level, content, files, up, control>>
  BY DEF Check, Release, Drain, Clear, RemoveReference, disk, files
<1>2. control \in Controls
  BY DEF IInv, Shapes, Controls
<1>3. auth' \in Authorities
  BY RevokedShape DEF IInv, Shapes, Authorities, Check, Release, Drain, Clear, RemoveReference
<1>4. CASE tool' = Idle
  BY <1>1, <1>2, <1>3, <1>4, ToolEnds DEF Idle, Resting
<1>5. CASE tool' # Idle
  <2>1. /\ tool.step \in {"published"} \cup Closing /\ tool'.step \in Closing
        /\ tool.step = "published" => level # "lattice"
    BY <1>5 DEF IInv, Shapes, Check, Release, Drain, Clear, RemoveReference, Closing
  <2>2. tool' = [step |-> tool'.step, live |-> tool'.live, on |-> tool'.on]
        /\ tool'.on = [new |-> tool.on.new, messages |-> tool.on.messages,
                       through |-> tool.on.through, fences |-> tool'.on.fences]
    BY <1>5, <2>1 DEF IInv, Shapes, Check, Release, Drain, Clear, RemoveReference,
                      Framing, Publishing, Closing
  <2>3. Shapes'
    BY <1>1, <1>3, <2>1, <2>2 DEF IInv, Shapes, Authorities, files, Framing, Publishing, Closing
  <2>4. AnchorLeads'
    BY <1>1 DEF IInv, AnchorLeads, files
  <2>5. ToolFollowsFiles'
    BY <1>1, <2>1, <2>2 DEF IInv, ToolFollowsFiles, files, Framing, Publishing, Closing
  <2>6. TornIsFenced'
    BY <2>1 DEF TornIsFenced, Resting, Closing, Framing
  <2> QED BY <2>3, <2>4, <2>5, <2>6 DEF IInv
<1> QED BY <1>4, <1>5

\* Only whole files are adopted, so that the fence may go.
LEMMA AdoptKeeps ==
  ASSUME IInv, Adopt
  PROVE  IInv'
<1>1. up /\ tool.step = "removing" /\ tool' = Idle /\ UNCHANGED <<level, content, files, up>>
  BY DEF Adopt, disk, files
<1>2. tool.on.new \in Int
  BY <1>1 DEF IInv, Shapes, Framing, Publishing, Closing, Revision
<1>3. control' \in Controls
  BY <1>2 DEF Adopt, Controls
<1>4. auth' \in Authorities
  BY RevokedShape DEF Adopt, RevokeAll
<1>5. Whole'
  BY <1>1 DEF IInv, ToolFollowsFiles, Whole, Published, files, Framing, Publishing, Closing
<1>6. Shapes'
  BY <1>1, <1>3, <1>4 DEF IInv, Shapes, Authorities, Controls, files, Idle, Resting,
                          Framing, Publishing, Closing
<1>7. AnchorLeads'
  BY <1>1 DEF IInv, AnchorLeads, files
<1>8. ToolFollowsFiles'
  BY <1>1 DEF ToolFollowsFiles, Idle, Framing, Publishing, Closing
<1>9. TornIsFenced'
  BY <1>5 DEF TornIsFenced
<1> QED BY <1>6, <1>7, <1>8, <1>9 DEF IInv

\* A crash forgets the fence; a restart finds the torn files and sets it again.
LEMMA CrashAndRestartKeep ==
  ASSUME IInv, Crash \/ Restart
  PROVE  IInv'
<1>1. UNCHANGED <<level, content, files>> /\ anchor \in Int
  BY DEF IInv, Shapes, Crash, Restart, disk, files
<1>2. CASE Crash
  <2>1. ~up' /\ tool' = Idle
    BY <1>2 DEF Crash
  <2>2. control' \in Controls
    BY <1>2 DEF Crash, Blank, None, Controls
  <2>3. auth' \in Authorities
    BY <1>2, RevokedShape DEF Crash
  <2>4. Shapes'
    BY <1>1, <2>1, <2>2, <2>3 DEF IInv, Shapes, Authorities, Controls, files, Idle,
                                  Resting, Framing, Publishing, Closing
  <2>5. ToolFollowsFiles' /\ TornIsFenced'
    BY <2>1 DEF ToolFollowsFiles, TornIsFenced, Idle, Framing, Publishing, Closing
  <2> QED BY <1>1, <2>4, <2>5 DEF IInv, AnchorLeads, files
<1>3. CASE Restart
  <2>1. UNCHANGED <<tool, auth>> /\ tool.step = "idle"
    BY <1>3 DEF IInv, ToolFollowsFiles, Restart
  <2>2. control' = [s \in Session |-> [contract |-> anchor, reframe |-> Untrusted]]
    BY <1>3 DEF Restart, Trusted
  <2>3. control' \in Controls
    <3>1. Untrusted \in BOOLEAN
      BY DEF Untrusted
    <3> QED BY <1>1, <2>2, <3>1 DEF Controls
  <2>4. ~Whole' => control'[Root].reframe
    <3>1. Whole' <=> Whole
      BY <1>1 DEF Whole, Published, files
    <3>2. ~Whole => Untrusted
      BY DEF Whole, Untrusted
    <3> QED BY <2>2, <3>1, <3>2, RootIsSession
  <2>5. Shapes'
    BY <1>1, <2>1, <2>3 DEF IInv, Shapes, Controls, files
  <2>6. ToolFollowsFiles' /\ TornIsFenced'
    BY <2>1, <2>4 DEF ToolFollowsFiles, TornIsFenced, Framing, Publishing, Closing
  <2> QED BY <1>1, <2>5, <2>6 DEF IInv, AnchorLeads, files
<1> QED BY <1>2, <1>3

\* Every step keeps the invariant.
LEMMA NextIInv == IInv /\ [Next]_vars => IInv'
<1> SUFFICES ASSUME IInv, [Next]_vars PROVE IInv'
  OBVIOUS
<1>1. ASSUME NEW m \in Input, Insert(m) \/ Deliver(m) PROVE IInv'
  BY <1>1, InputKeeps
<1>2. ASSUME NEW s \in Session, Revoke(s) \/ Delegate(s) PROVE IInv'
  BY <1>2, RevocationKeeps
<1>3. CASE \/ \E w \in writes : Record(w)
           \/ \E s \in Session : Read(s) \/ Refresh(s) \/ Guard(s) \/ Enter(s) \/ Result(s)
           \/ MarkerFollows
  BY <1>3, WorkKeeps
<1>4. CASE BeginReview \/ EndReview \/ BeginCommit \/ EndCommit
  BY <1>4, ReviewKeeps
<1>5. CASE CallReframe \/ BeginReframe \/ EndConsume \/ Frame
  BY <1>5, BeginReframeKeeps
<1>6. CASE Finalize
  BY <1>6, FinalizeKeeps
<1>7. CASE WriteAnchor \/ WriteDocument \/ WriteRecord \/ BindGraph
  BY <1>7, WritesKeep
<1>8. CASE Check \/ Release \/ Drain \/ Clear \/ \E m \in ChildInput : RemoveReference(m)
  BY <1>8, ClosingKeeps
<1>9. CASE Adopt
  BY <1>9, AdoptKeeps
<1>10. CASE Crash \/ Restart
  BY <1>10, CrashAndRestartKeep
<1>11. CASE UNCHANGED vars
  BY <1>11 DEF vars, disk, files, IInv, Shapes, AnchorLeads, ToolFollowsFiles,
               TornIsFenced, Whole, Published
<1> QED BY <1>1, <1>2, <1>3, <1>4, <1>5, <1>6, <1>7, <1>8, <1>9, <1>10, <1>11 DEF Next

-----------------------------------------------------------------------------
(* Guarded bodies.                                                          *)

\* Every session has its own body.
BodyOfEach == DOMAIN body = Session

LEMMA InitBody == Init => BodyOfEach
BY DEF Init, Nobody, BodyOfEach

\* Only the start and the end of a body, and a crash, change it.
LEMMA BodySteps ==
  ASSUME Next
  PROVE  body' = body \/ (\E s \in Session : Enter(s) \/ Result(s)) \/ Crash
BY DEF Next, Insert, Deliver, Revoke, Delegate, Record, Read, Refresh, Guard, BeginReview,
       EndReview, BeginCommit, EndCommit, MarkerFollows, CallReframe, BeginReframe,
         Capture, Consume, EndConsume, Frame, Finalize,
       WriteAnchor, WriteDocument, WriteRecord, BindGraph, Check, Release, Drain, Clear,
       RemoveReference, Adopt, Restart

LEMMA NextBody == BodyOfEach /\ [Next]_vars => BodyOfEach'
<1>1. ASSUME BodyOfEach, Next PROVE BodyOfEach'
  BY <1>1, BodySteps DEF BodyOfEach, Enter, Result, Crash, Nobody
<1>2. ASSUME BodyOfEach, UNCHANGED vars PROVE BodyOfEach'
  BY <1>2 DEF BodyOfEach, vars
<1> QED BY <1>1, <1>2

\* A guarded body starts only where tools/execute lets it in.
LEMMA OnlyEnterStarts ==
  ASSUME BodyOfEach, Next, NEW s \in Session, Starts(s)
  PROVE  Enter(s)
<1>1. body[s] = None /\ body' # body /\ body'[s] # None
  BY DEF Starts
<1>2. \E r \in Session : Enter(r) \/ Result(r) \/ Crash
  BY <1>1, BodySteps, RootIsSession
<1>3. ~Crash
  BY <1>1 DEF Crash, Nobody
<1>4. \A r \in Session : ~Result(r)
  BY <1>1 DEF Result, BodyOfEach
<1>5. PICK r \in Session : Enter(r)
  BY <1>2, <1>3, <1>4
<1>6. r = s
  BY <1>1, <1>5 DEF Enter
<1> QED BY <1>5, <1>6

-----------------------------------------------------------------------------
(* The theorems.                                                            *)

\* For every task: the anchor under the trust root is never behind the files
\* of the workspace, nor those behind the graph, whatever inputs, revocations
\* and crashes interrupted the publications before.
THEOREM AnchorStaysAhead == Spec => []AnchorLeads
<1>1. IInv => AnchorLeads
  BY DEF IInv
<1> QED BY <1>1, InitIInv, NextIInv, PTL DEF Spec

\* For every task: while the process runs and no tool of the root is under
\* way, a contract whose files or graph disagree keeps the root fenced, in the
\* process that left it so and in every later one.
THEOREM TornContractIsFenced == Spec => []InterruptedReframeStaysFenced
<1>1. IInv => InterruptedReframeStaysFenced
  BY DEF IInv, TornIsFenced, InterruptedReframeStaysFenced, Whole, Resting
<1> QED BY <1>1, InitIInv, NextIInv, PTL DEF Spec

\* For every task: the reframe a restarted process asks for is not refused.
\* What it would replace is what the trust root holds, or, when the process
\* trusts the workspace, the contract of the workspace.
THEOREM RestartMayReframe == Spec => RestartAllowsReframe
<1>1. [Next]_vars => [~up /\ up' => MayReplace(Replaced, control[Root].reframe)']_vars
  <2> SUFFICES ASSUME Next, ~up, up' PROVE MayReplace(Replaced, control[Root].reframe)'
    OBVIOUS
  <2>1. Restart
    BY DEF Next, Insert, Deliver, Revoke, Delegate, Record, Read, Refresh, Guard, Enter,
           Result, RootToolStarts, BeginReview, EndReview, BeginCommit, EndCommit,
           MarkerFollows, CallReframe, BeginReframe,
         Capture, Consume, EndConsume, Frame, Finalize, WriteAnchor, WriteDocument, WriteRecord,
           BindGraph, Check, Release, Drain, Clear, RemoveReference, Adopt, Crash
  <2>2. control'[Root] = [contract |-> anchor', reframe |-> Untrusted]
    BY <2>1, RootIsSession DEF Restart, Trusted, disk, files
  <2>3. CASE control'[Root].reframe
    BY <2>2, <2>3 DEF MayReplace, Replaced
  <2>4. CASE ~control'[Root].reframe
    BY <2>4 DEF MayReplace, Replaced
  <2> QED BY <2>3, <2>4
<1> QED BY <1>1, PTL DEF Spec, RestartAllowsReframe
-----------------------------------------------------------------------------
(* The fences of delegated input, as long as no such input arrives where    *)
(* no epoch watches it.  Past the last authority check of the tool that     *)
(* adopts or commits, none may arrive at all: while one is fenced no        *)
(* guarded body starts.  If none arrives before a reframe captures its      *)
(* epoch either, a fence disappears only for a contract that took its input *)
(* up.  A write of a fence is in progress long before its reference is      *)
(* linked, so the invariant speaks of the inputs that are fenced or will be. *)

\* The delegated inputs that are fenced or being fenced.
Recording == {w.input : w \in writes}
Waiting == Fenced \cup Recording

AllFenced == \A s \in Session : control[s].reframe

\* From the last authority check on, the tool compares no epoch.
Unchecked == {"release", "drain", "clear", "removing"}

\* The shapes of the fences, and that a process that died records none.
FenceShapes ==
  /\ DOMAIN fence = ChildInput
  /\ Recording \subseteq ChildInput
  /\ ~up => writes = {}

\* A fence being recorded is of an input still staged or already logged.
RecordedIsKnown == Recording \subseteq staged \cup received

\* Input that is waiting blocks guarded work: staged, by itself, and once it
\* is in a log, by the fence in every control.
WaitingBlocks == up => \A m \in Waiting : m \in staged \/ AllFenced

\* The contract in the making takes up what is waiting, as long as the tool
\* holds its authority or no epoch watches it.
WaitingIsTakenUp ==
  Windows = {} =>
  /\ tool.step \in {"called"} \cup Framing /\ (tool.live \/ Unwatched = {"framing"}) =>
       Waiting \subseteq tool.on.known \cup staged
  /\ tool.step \in Publishing /\ (tool.live \/ tool.step \in Unchecked) =>
       Waiting \subseteq content[tool.on.new].adopts

\* After the last check the writes drain, and what Clear found is all there is.
NothingIsMissed ==
  /\ tool.step = "commit" => staged \cap ChildInput = {}
  /\ tool.step = "drain" => writes \subseteq tool.on.fences
  /\ tool.step \in {"clear", "removing"} => writes = {}
  /\ tool.step = "removing" =>
       \A m \in Fenced : m \in tool.on.fences /\ Superseded(m, anchor)

FenceInv ==
  /\ IInv
  /\ FenceShapes /\ RecordedIsKnown /\ WaitingBlocks /\ WaitingIsTakenUp
  /\ NothingIsMissed

fences == <<level, anchor, content, received, fence, staged, writes, up>>

-----------------------------------------------------------------------------
(* Facts about what the handlers share.                                     *)

\* A dead tool is where it was.
LEMMA DeadTool ==
  ASSUME Shapes
  PROVE  Dead(tool).step = tool.step /\ Dead(tool).on = tool.on /\ ~Dead(tool).live
BY DEF Shapes, Dead

\* requireRootReframe fences every session.
LEMMA AllMustReframeFences ==
  ASSUME NEW c \in Controls
  PROVE  \A s \in Session : AllMustReframe(c)[s].reframe
BY DEF AllMustReframe, Controls

\* What is waiting is the same as long as its writes and fences are.
LEMMA SameWaiting ==
  ASSUME UNCHANGED <<fence, writes>>
  PROVE  Fenced' = Fenced /\ Recording' = Recording /\ Waiting' = Waiting
BY DEF Fenced, Recording, Waiting

\* A step that touches neither fences nor the place of the tool keeps the
\* invariant if it leaves a task fenced that was.
LEMMA FencesAtRest ==
  ASSUME FenceInv, IInv', UNCHANGED fences, tool' = tool \/ tool' = Dead(tool),
         AllFenced => AllFenced'
  PROVE  FenceInv'
<1>1. tool'.step = tool.step /\ tool'.on = tool.on /\ (tool'.live => tool.live)
  BY DeadTool DEF FenceInv, IInv
<1>2. Fenced' = Fenced /\ Recording' = Recording /\ Waiting' = Waiting
  BY SameWaiting DEF fences
<1>3. FenceShapes' /\ RecordedIsKnown'
  BY <1>2 DEF FenceInv, FenceShapes, RecordedIsKnown, fences
<1>4. WaitingBlocks'
  BY <1>2 DEF FenceInv, WaitingBlocks, fences
<1>5. WaitingIsTakenUp'
  <2>1. Unwatched' = Unwatched
    BY <1>1 DEF Unwatched, fences
  <2> QED BY <1>1, <1>2, <2>1 DEF FenceInv, WaitingIsTakenUp, fences
<1>6. NothingIsMissed'
  BY <1>1, <1>2 DEF FenceInv, NothingIsMissed, Superseded, fences
<1> QED BY <1>3, <1>4, <1>5, <1>6 DEF FenceInv

\* A tool that ends, or only reviews, owes nothing to the fences.
LEMMA FencesAfterTool ==
  ASSUME FenceInv, IInv', UNCHANGED fences, tool'.step \in {"idle", "review"},
         AllFenced => AllFenced'
  PROVE  FenceInv'
<1>1. Fenced' = Fenced /\ Recording' = Recording /\ Waiting' = Waiting
  BY SameWaiting DEF fences
<1>2. FenceShapes' /\ RecordedIsKnown'
  BY <1>1 DEF FenceInv, FenceShapes, RecordedIsKnown, fences
<1>3. WaitingBlocks'
  BY <1>1 DEF FenceInv, WaitingBlocks, fences
<1>4. WaitingIsTakenUp' /\ NothingIsMissed'
  BY DEF WaitingIsTakenUp, NothingIsMissed, Framing, Publishing, Closing
<1> QED BY <1>2, <1>3, <1>4 DEF FenceInv

-----------------------------------------------------------------------------
(* The inductive invariant.                                                 *)

\* A task starts without fences.
LEMMA InitFenceInv == Init => FenceInv
<1> SUFFICES ASSUME Init PROVE FenceInv
  OBVIOUS
<1>1. IInv
  BY InitIInv
<1>2. Fenced = {} /\ Recording = {} /\ Waiting = {}
  BY DEF Init, Fenced, Recording, Waiting, None
<1>3. FenceShapes
  BY <1>2 DEF Init, FenceShapes
<1>4. RecordedIsKnown /\ WaitingBlocks
  BY <1>2 DEF RecordedIsKnown, WaitingBlocks
<1>5. WaitingIsTakenUp /\ NothingIsMissed
  BY <1>2 DEF Init, Idle, WaitingIsTakenUp, NothingIsMissed, Framing, Publishing, Closing
<1> QED BY <1>1, <1>3, <1>4, <1>5 DEF FenceInv

\* Input that waits is staged first and fences the task when it is delivered.
LEMMA InputKeepsFences ==
  ASSUME FenceInv, "release" \notin Windows, NEW m \in Input, Insert(m) \/ Deliver(m)
  PROVE  FenceInv'
<1>1. IInv'
  BY InputKeeps DEF FenceInv
<1>2. UNCHANGED <<level, anchor, content, fence, up>> /\ up /\ tool' = Dead(tool)
  BY DEF Insert, Deliver, disk, files
<1>3. tool'.step = tool.step /\ tool'.on = tool.on /\ ~tool'.live
  BY <1>2, DeadTool DEF FenceInv, IInv
<1>4. m \in ChildInput => tool.step \notin Unchecked \cup {"commit"}
  BY DEF Insert, Deliver, Unwatched, Unchecked
<1>5. /\ writes \subseteq writes'
      /\ Recording' \subseteq Recording \cup ({m} \cap ChildInput)
      /\ m \notin ChildInput => writes' = writes
  <2>1. m \notin ChildInput => m \in RootInput
    BY DEF Input
  <2>2. \/ writes' = writes
        \/ /\ writes' = writes \cup {[input |-> m, basis |-> control[Recipient[m]].contract]}
           /\ m \in ChildInput
    BY ContractAssumption, <2>1 DEF Insert, Deliver, Queued, Input
  <2>3. m \notin ChildInput => writes' = writes
    BY <2>2
  <2> QED BY <2>2, <2>3 DEF Recording
<1>6. Fenced' = Fenced
  BY <1>2 DEF Fenced
<1>7. Waiting' \subseteq Waiting \cup ({m} \cap ChildInput)
  BY <1>5, <1>6 DEF Waiting
<1>8. FenceShapes'
  BY <1>2, <1>5 DEF FenceInv, FenceShapes
<1>9. control \in Controls
  BY DEF FenceInv, IInv, Shapes, Controls
<1>10. control' = control \/ control' = AllMustReframe(control)
  BY DEF Insert, Deliver
<1>11. AllFenced => AllFenced'
  BY <1>9, <1>10, AllMustReframeFences DEF AllFenced
<1>12. m \in ChildInput => \/ m \in staged'
                           \/ m \in received' /\ AllFenced'
  <2>1. CASE Insert(m)
    BY <2>1 DEF Insert
  <2>2. CASE Deliver(m)
    <3>1. m \in ChildInput => m \in received' /\ control' = AllMustReframe(control)
      BY <2>2, ContractAssumption DEF Deliver
    <3> QED BY <1>9, <3>1, AllMustReframeFences DEF AllFenced
  <2> QED BY <2>1, <2>2
<1>13. staged \subseteq staged' \cup {m} /\ received \subseteq received'
       /\ staged' \subseteq staged \cup {m}
  BY DEF Insert, Deliver, disk
<1>14. RecordedIsKnown'
  <2> SUFFICES ASSUME NEW n \in Recording' PROVE n \in staged' \cup received'
    BY DEF RecordedIsKnown
  <2>1. n \in ChildInput /\ (n = m \/ n \in Recording)
    BY <1>5, <1>8 DEF FenceShapes
  <2>2. n \in Recording => n \in staged \cup received
    BY DEF FenceInv, RecordedIsKnown
  <2> QED BY <1>12, <1>13, <2>1, <2>2
<1>15. WaitingBlocks'
  <2>1. Fenced \subseteq ChildInput /\ Waiting' \subseteq ChildInput
    BY <1>6, <1>8 DEF Fenced, Waiting, FenceShapes
  <2>2. \A n \in Waiting' : n = m \/ n \in Waiting
    BY <1>7
  <2>3. \A n \in Waiting : n \in staged \/ AllFenced
    BY <1>2 DEF FenceInv, WaitingBlocks
  <2> QED BY <1>11, <1>12, <1>13, <2>1, <2>2, <2>3 DEF WaitingBlocks
<1>16. WaitingIsTakenUp'
  <2> SUFFICES ASSUME Windows = {} PROVE WaitingIsTakenUp'
    BY DEF WaitingIsTakenUp
  <2>1. Unwatched' = Unwatched
    BY <1>2, <1>3 DEF Unwatched
  <2>2. Unwatched # {} => m \notin ChildInput
    BY DEF Insert, Deliver
  <2>3. Unwatched # {} => Waiting' \subseteq Waiting
    BY <1>7, <2>2
  <2>4. Waiting \subseteq ChildInput
    BY DEF FenceInv, FenceShapes, Waiting, Fenced
  <2>5. /\ tool.step \in {"called"} \cup Framing /\ Unwatched = {"framing"} =>
             Waiting' \subseteq tool.on.known \cup staged'
    BY <1>13, <2>2, <2>3, <2>4 DEF FenceInv, WaitingIsTakenUp
  <2>6. tool.step \in Unchecked => Waiting' \subseteq Waiting
    BY <1>4, <1>7
  <2> QED BY <1>2, <1>3, <2>1, <2>5, <2>6 DEF FenceInv, WaitingIsTakenUp, Framing, Publishing, Closing
<1>17. NothingIsMissed'
  <2>1. tool.step \in Unchecked => writes' = writes
    BY <1>4, <1>5
  <2>2. tool.step = "commit" => staged' \cap ChildInput \subseteq staged \cap ChildInput
    BY <1>4, <1>13
  <2> QED BY <1>2, <1>3, <1>6, <2>1, <2>2
          DEF FenceInv, NothingIsMissed, Superseded, Unchecked
<1> QED BY <1>1, <1>8, <1>14, <1>15, <1>16, <1>17 DEF FenceInv

\* Recording turns a write into a fence, or, when it fails, into a reframe of
\* the whole task; it adds nothing to what is waiting.
LEMMA RecordKeepsFences ==
  ASSUME FenceInv, NEW w \in writes, Record(w)
  PROVE  FenceInv'
<1>1. IInv'
  BY WorkKeeps DEF FenceInv
<1>2. UNCHANGED <<level, anchor, content, received, staged, up, tool>> /\ up
      /\ writes' = writes \ {w}
  BY DEF Record, files
<1>3. \/ fence' = fence
      \/ fence[w.input] = None /\ \E b : fence' = [fence EXCEPT ![w.input] = b]
  BY DEF Record
<1>4. w.input \in Recording /\ Recording' \subseteq Recording
  BY <1>2 DEF Recording
<1>5. Fenced' \subseteq Fenced \cup {w.input} /\ Fenced' \subseteq ChildInput
  BY <1>3 DEF FenceInv, FenceShapes, Fenced
<1>6. Waiting' \subseteq Waiting
  BY <1>4, <1>5 DEF Waiting
<1>7. control \in Controls
  BY DEF FenceInv, IInv, Shapes, Controls
<1>8. control' = control \/ control' = AllMustReframe(control)
  BY DEF Record
<1>9. AllFenced => AllFenced'
  BY <1>7, <1>8, AllMustReframeFences DEF AllFenced
<1>10. FenceShapes' /\ RecordedIsKnown'
  BY <1>2, <1>3, <1>4 DEF FenceInv, FenceShapes, RecordedIsKnown
<1>11. WaitingBlocks'
  BY <1>2, <1>6, <1>9 DEF FenceInv, WaitingBlocks
<1>12. WaitingIsTakenUp'
  BY <1>2, <1>6 DEF FenceInv, WaitingIsTakenUp, Unwatched
<1>13. NothingIsMissed'
  <2>1. tool.step \notin {"clear", "removing"}
    BY DEF FenceInv, NothingIsMissed
  <2> QED BY <1>2, <2>1 DEF FenceInv, NothingIsMissed
<1> QED BY <1>1, <1>10, <1>11, <1>12, <1>13 DEF FenceInv

\* Guarded tools, other revocations and the marker leave the fences alone.
LEMMA WorkKeepsFences ==
  ASSUME FenceInv,
         \/ \E s \in Session : Revoke(s) \/ Delegate(s)
         \/ \E s \in Session : Read(s) \/ Refresh(s) \/ Guard(s) \/ Enter(s) \/ Result(s)
         \/ MarkerFollows
  PROVE  FenceInv'
<1>1. IInv'
  BY RevocationKeeps, WorkKeeps DEF FenceInv
<1>2. UNCHANGED fences /\ (tool' = tool \/ tool' = Dead(tool))
  BY DEF Revoke, Delegate, Read, Refresh, Guard, Enter, Result, MarkerFollows,
         fences, disk, files
<1>3. control \in Controls
  BY DEF FenceInv, IInv, Shapes, Controls
<1>4. AllFenced => AllFenced'
  <2>1. \/ control' = control
        \/ \E s \in Session : control' = [control EXCEPT ![s] = control[Root]]
        \/ \E s \in Session : \E r : control' = [control EXCEPT ![s] = [@ EXCEPT !.contract = r]]
        \/ \E s \in Session : control' = [control EXCEPT ![s] = [@ EXCEPT !.reframe = TRUE]]
    BY DEF Revoke, Delegate, Read, Refresh, Guard, Enter, Result, MarkerFollows
  <2> QED BY <1>3, <2>1, RootIsSession DEF AllFenced, Controls
<1> QED BY <1>1, <1>2, <1>4, FencesAtRest

\* A review ends with nothing of a delegated session staged.
LEMMA ReviewKeepsFences ==
  ASSUME FenceInv, BeginReview \/ EndReview \/ BeginCommit \/ EndCommit
  PROVE  FenceInv'
<1>1. IInv'
  BY ReviewKeeps DEF FenceInv
<1>2. control \in Controls
  BY DEF FenceInv, IInv, Shapes, Controls
<1>3. CASE BeginReview
  <2>1. UNCHANGED fences /\ UNCHANGED control /\ tool'.step = "review"
    BY <1>3 DEF BeginReview, fences, disk, files
  <2> QED BY <1>1, <2>1, FencesAfterTool DEF AllFenced
<1>4. CASE EndReview
  <2>1. UNCHANGED fences /\ tool'.step = "idle"
    BY <1>4 DEF EndReview, fences, disk, files, Idle
  <2>2. \/ control' = [control EXCEPT ![Root] = [@ EXCEPT !.contract = record]]
        \/ control' = control
    BY <1>4 DEF EndReview
  <2>3. AllFenced => AllFenced'
    BY <1>2, <2>2, RootIsSession DEF AllFenced, Controls
  <2> QED BY <1>1, <2>1, <2>3, FencesAfterTool
<1>5. CASE BeginCommit
  <2>1. UNCHANGED fences /\ UNCHANGED control
    BY <1>5 DEF BeginCommit, fences, disk, files
  <2>2. CASE tool'.step = "idle"
    BY <1>1, <2>1, <2>2, FencesAfterTool DEF AllFenced
  <2>3. CASE tool'.step = "commit" /\ staged = {}
    <3>1. Fenced' = Fenced /\ Recording' = Recording /\ Waiting' = Waiting
      BY <2>1, SameWaiting DEF fences
    <3>2. FenceShapes' /\ RecordedIsKnown' /\ WaitingBlocks'
      BY <2>1, <3>1 DEF FenceInv, FenceShapes, RecordedIsKnown, WaitingBlocks, AllFenced, fences
    <3>3. WaitingIsTakenUp' /\ NothingIsMissed'
      BY <2>1, <2>3 DEF WaitingIsTakenUp, NothingIsMissed, Framing, Publishing, Closing, fences
    <3> QED BY <1>1, <3>2, <3>3 DEF FenceInv
  <2> QED BY <1>5, <2>2, <2>3 DEF BeginCommit, Idle
<1>6. CASE EndCommit
  <2>1. /\ UNCHANGED <<level, anchor, content, received, fence, writes, up>>
        /\ up /\ tool.step = "commit" /\ tool'.step = "idle"
        /\ staged' = staged \/ staged' = {}
    BY <1>6 DEF EndCommit, disk, files, Idle
  <2>2. Fenced' = Fenced /\ Recording' = Recording /\ Waiting' = Waiting
    BY <2>1, SameWaiting
  <2>3. Waiting \subseteq ChildInput /\ staged \cap ChildInput = {}
    BY <2>1 DEF FenceInv, FenceShapes, NothingIsMissed, Waiting, Fenced
  <2>4. \/ control' = control
        \/ control' = AllMustReframe(control)
        \/ control' = [s \in Session |-> [control[s] EXCEPT !.contract = record]]
    BY <1>6 DEF EndCommit
  <2>5. AllFenced => AllFenced'
    BY <1>2, <2>4, AllMustReframeFences DEF AllFenced, Controls
  <2>6. FenceShapes' /\ RecordedIsKnown'
    BY <2>1, <2>2, <2>3 DEF FenceInv, FenceShapes, RecordedIsKnown, Waiting
  <2>7. WaitingBlocks'
    BY <2>1, <2>2, <2>3, <2>5 DEF FenceInv, WaitingBlocks
  <2>8. WaitingIsTakenUp' /\ NothingIsMissed'
    BY <2>1 DEF WaitingIsTakenUp, NothingIsMissed, Framing, Publishing, Closing
  <2> QED BY <1>1, <2>6, <2>7, <2>8 DEF FenceInv
<1> QED BY <1>3, <1>4, <1>5, <1>6

\* A reframe can take up all that is in a log or fenced when it is called; what is
\* still being recorded is in a log or staged, and nothing is added until the
\* framing stands.
LEMMA BeginReframeKeepsFences ==
  ASSUME FenceInv, CallReframe \/ BeginReframe \/ EndConsume \/ Frame
  PROVE  FenceInv'
<1>1. IInv'
  BY BeginReframeKeeps DEF FenceInv
<1>2. UNCHANGED fences
  BY DEF CallReframe, BeginReframe, EndConsume, Frame, fences, disk, files
<1>3. control \in Controls
  BY DEF FenceInv, IInv, Shapes, Controls
<1>4. Fenced' = Fenced /\ Recording' = Recording /\ Waiting' = Waiting
  BY <1>2, SameWaiting DEF fences
<1>5. AllFenced => AllFenced'
  <2>1. \/ control' = control
        \/ control' = [control EXCEPT ![Root] = [@ EXCEPT !.reframe = TRUE]]
        \/ control' = [control EXCEPT ![Root] = [@ EXCEPT !.reframe =
                        control[Root].reframe \/ document # record]]
    BY DEF CallReframe, BeginReframe, Capture, Consume, EndConsume, Frame
  <2> QED BY <1>3, <2>1, RootIsSession DEF AllFenced, Controls
<1>6. FenceShapes' /\ RecordedIsKnown' /\ WaitingBlocks'
  BY <1>2, <1>4, <1>5 DEF FenceInv, FenceShapes, RecordedIsKnown, WaitingBlocks, fences
<1>7. NothingIsMissed' /\ tool'.step \in {"idle", "called"} \cup Framing
  BY DEF CallReframe, BeginReframe, Capture, Consume, EndConsume, Frame, Idle,
         FenceInv, IInv, Shapes, NothingIsMissed, Framing
<1>8. WaitingIsTakenUp'
  <2> SUFFICES ASSUME Windows = {}, tool'.step \in {"called"} \cup Framing
               PROVE  Waiting \subseteq tool'.on.known \cup staged
    BY <1>2, <1>4, <1>7 DEF WaitingIsTakenUp, Framing, Publishing, Closing, fences
  <2>1. CASE CallReframe
    <3>1. tool'.on.known = received \cup Fenced
      BY <2>1 DEF CallReframe
    <3> QED BY <3>1 DEF FenceInv, RecordedIsKnown, Waiting
  <2>2. CASE ~CallReframe
    <3>1. tool.step \in {"called", "consumed", "unleased"} /\ tool'.on.known = tool.on.known
      BY <2>2 DEF BeginReframe, Capture, Consume, EndConsume, Frame, Idle,
                  FenceInv, IInv, Shapes, Framing
    <3>2. tool.live \/ Unwatched = {"framing"}
      BY <2>2 DEF BeginReframe, Consume, EndConsume, Frame, Idle, Unwatched, Framing
    <3> QED BY <3>1, <3>2 DEF FenceInv, WaitingIsTakenUp, Framing
  <2> QED BY <2>1, <2>2
<1> QED BY <1>1, <1>6, <1>7, <1>8 DEF FenceInv

\* What the new contract adopts is all that waits when it is finalized.
LEMMA FinalizeKeepsFences ==
  ASSUME FenceInv, Finalize
  PROVE  FenceInv'
<1> DEFINE t == tool.on
           new == NextRevision(t.previous)
<1>1. IInv'
  BY FinalizeKeeps DEF FenceInv
<1>2. UNCHANGED <<level, anchor, received, fence, staged, writes, up, control>>
      /\ tool.step = "framed"
  BY DEF Finalize, files
<1>3. CASE tool' = Idle /\ content' = content
  BY <1>1, <1>2, <1>3, FencesAfterTool DEF fences, AllFenced, Idle
<1>4. CASE ~(tool' = Idle /\ content' = content)
  <2>1. tool.live /\ MayReplace(t.previous, t.untrusted) /\ staged = {}
        /\ content' = [content EXCEPT ![new] = Recorded(t.previous, t.known)]
        /\ tool' = [step |-> "anchor", live |-> TRUE,
                    on |-> [new |-> new, messages |-> Said(Pending(t.previous)),
                            through |-> Boundary, fences |-> {}]]
    BY <1>4 DEF Finalize
  <2>2. Fenced' = Fenced /\ Recording' = Recording /\ Waiting' = Waiting
    BY <1>2, SameWaiting
  <2>3. anchor = t.previous
    BY <1>2, <2>1 DEF FenceInv, IInv, ToolFollowsFiles, MayReplace, Whole, Published, Framing
  <2>4. new \in Revision
    BY <1>2, <2>3, ContractAssumption
       DEF FenceInv, IInv, Shapes, NextRevision, Revision, Framing
  <2>5. content'[new].adopts = t.known
    BY <2>1, <2>4 DEF FenceInv, IInv, Shapes, Recorded
  <2>6. Windows = {} => Waiting \subseteq t.known
    BY <1>2, <2>1 DEF FenceInv, WaitingIsTakenUp, Framing
  <2>7. FenceShapes'
    BY <1>2, <2>1, <2>2 DEF FenceInv, FenceShapes
  <2>8. RecordedIsKnown' /\ WaitingBlocks'
    BY <1>2, <2>2 DEF FenceInv, RecordedIsKnown, WaitingBlocks, AllFenced
  <2>9. WaitingIsTakenUp' /\ NothingIsMissed'
    BY <2>1, <2>2, <2>4, <2>5, <2>6 DEF WaitingIsTakenUp, NothingIsMissed, Framing
  <2> QED BY <1>1, <2>7, <2>8, <2>9 DEF FenceInv
<1> QED BY <1>3, <1>4

\* Writing the files changes nothing that waits.
LEMMA WritesKeepFences ==
  ASSUME FenceInv, WriteAnchor \/ WriteDocument \/ WriteRecord \/ BindGraph
  PROVE  FenceInv'
<1>1. IInv'
  BY WritesKeep DEF FenceInv
<1>2. UNCHANGED <<level, content, received, fence, staged, writes, up, control>>
  BY DEF WriteAnchor, WriteDocument, WriteRecord, BindGraph
<1>3. CASE tool'.step = "idle" /\ anchor' = anchor
  BY <1>1, <1>2, <1>3, FencesAfterTool DEF fences, AllFenced
<1>4. CASE ~(tool'.step = "idle" /\ anchor' = anchor)
  <2>1. /\ tool.step \in {"anchor", "document", "record", "published"}
        /\ tool'.step \in {"document", "record", "published", "bound"}
        /\ tool'.on = tool.on /\ tool'.live = tool.live
        /\ anchor' = anchor \/ anchor' = tool.on.new
    BY <1>4 DEF FenceInv, IInv, Shapes, WriteAnchor, WriteDocument, WriteRecord,
                BindGraph, Idle
  <2>2. Fenced' = Fenced /\ Recording' = Recording /\ Waiting' = Waiting
    BY <1>2, SameWaiting
  <2>3. FenceShapes'
    BY <1>2, <2>2 DEF FenceInv, FenceShapes
  <2>4. RecordedIsKnown' /\ WaitingBlocks'
    BY <1>2, <2>2 DEF FenceInv, RecordedIsKnown, WaitingBlocks, AllFenced
  <2>5. WaitingIsTakenUp'
    BY <1>2, <2>1, <2>2 DEF FenceInv, WaitingIsTakenUp, Framing, Publishing, Closing, Unchecked
  <2>6. NothingIsMissed'
    BY <2>1 DEF NothingIsMissed
  <2> QED BY <1>1, <2>3, <2>4, <2>5, <2>6 DEF FenceInv
<1> QED BY <1>3, <1>4

\* Between the last check and the load of the fences the writes drain.
LEMMA ClosingKeepsFences ==
  ASSUME FenceInv, Check \/ Release \/ Drain \/ Clear
  PROVE  FenceInv'
<1>1. IInv'
  BY ClosingKeeps DEF FenceInv
<1>2. UNCHANGED fences /\ UNCHANGED control
  BY DEF Check, Release, Drain, Clear, fences, disk, files
<1>3. CASE tool'.step = "idle"
  BY <1>1, <1>2, <1>3, FencesAfterTool DEF AllFenced
<1>4. CASE tool'.step # "idle"
  <2>1. /\ tool.step \in Publishing
        /\ tool.live \/ tool.step \in Unchecked
    BY <1>4 DEF Check, Release, Drain, Clear, AuthorityHeld, Idle, Publishing,
                Closing, Unchecked
  <2>2. /\ tool = [step |-> tool.step, live |-> tool.live, on |-> tool.on]
        /\ tool.on = [new |-> tool.on.new, messages |-> tool.on.messages,
                       through |-> tool.on.through, fences |-> tool.on.fences]
    BY <2>1 DEF FenceInv, IInv, Shapes
  <2>3. \/ tool' = [tool EXCEPT !.step = "release"]
        \/ tool' = [tool EXCEPT !.step = "drain", !.on.fences = writes]
        \/ tool' = [tool EXCEPT !.step = "clear"]
        \/ tool' = [tool EXCEPT !.step = "removing", !.on.fences = Fenced]
    BY <1>4 DEF Check, Release, Drain, Clear, Idle
  <2>4. tool'.step \in Unchecked /\ tool'.on.new = tool.on.new
        /\ (tool'.step = "drain" => tool'.on.fences = writes)
        /\ (tool'.step = "removing" => tool'.on.fences = Fenced)
    BY <2>3, <2>2 DEF Unchecked
  <2>5. Fenced' = Fenced /\ Recording' = Recording /\ Waiting' = Waiting
    BY <1>2, SameWaiting DEF fences
  <2>6. FenceShapes' /\ RecordedIsKnown' /\ WaitingBlocks'
    BY <1>2, <2>5 DEF FenceInv, FenceShapes, RecordedIsKnown, WaitingBlocks, AllFenced, fences
  <2>7. WaitingIsTakenUp'
    BY <1>2, <2>1, <2>4, <2>5 DEF FenceInv, WaitingIsTakenUp, Framing, Publishing, Closing, Unchecked, fences
  <2>8. NothingIsMissed'
    <3>1. CASE Check \/ Release
      <4>1. \/ tool' = [tool EXCEPT !.step = "release"]
            \/ tool' = [tool EXCEPT !.step = "drain", !.on.fences = writes]
        BY <1>4, <3>1 DEF Check, Release, Idle
      <4>2. tool'.step \in {"release", "drain"}
        BY <4>1 DEF FenceInv, IInv, Shapes
      <4> QED BY <1>2, <2>4, <4>2 DEF NothingIsMissed, fences
    <3>2. CASE Drain
      <4>1. tool'.step = "clear" /\ writes = {}
        BY <3>2 DEF FenceInv, IInv, Shapes, NothingIsMissed, Drain
      <4> QED BY <1>2, <4>1 DEF NothingIsMissed, fences
    <3>3. CASE Clear
      <4>1. tool.step = "clear" /\ tool'.step = "removing" /\ tool'.on.fences = Fenced
            /\ anchor = tool.on.new /\ \A m \in Fenced : Superseded(m, anchor)
        BY <1>4, <2>4, <3>3 DEF FenceInv, IInv, Shapes, Clear, Idle, Framing, Publishing, Closing
      <4>2. writes = {}
        BY <4>1 DEF FenceInv, NothingIsMissed
      <4> QED BY <1>2, <2>5, <4>1, <4>2 DEF NothingIsMissed, Superseded, fences
    <3> QED BY <3>1, <3>2, <3>3
  <2> QED BY <1>1, <2>6, <2>7, <2>8 DEF FenceInv
<1> QED BY <1>3, <1>4

\* The references found are removed one by one.
LEMMA RemovalKeepsFences ==
  ASSUME FenceInv, NEW m \in ChildInput, RemoveReference(m)
  PROVE  FenceInv'
<1>1. IInv'
  BY ClosingKeeps DEF FenceInv
<1>2. UNCHANGED <<anchor, content, received, staged, writes, up, control>>
      /\ tool.step = "removing" /\ tool'.step = "removing" /\ tool'.on.new = tool.on.new
      /\ tool'.on.fences = tool.on.fences \ {m}
      /\ fence' = [fence EXCEPT ![m] = None]
  BY DEF FenceInv, IInv, Shapes, RemoveReference, files, Framing, Publishing, Closing
<1>3. Fenced' = Fenced \ {m} /\ \A n \in Fenced' : fence'[n] = fence[n]
  BY <1>2 DEF FenceInv, FenceShapes, Fenced
<1>4. Recording' = Recording /\ Waiting' \subseteq Waiting
  BY <1>2, <1>3 DEF Recording, Waiting
<1>5. FenceShapes' /\ RecordedIsKnown'
  BY <1>2, <1>4 DEF FenceInv, FenceShapes, RecordedIsKnown
<1>6. WaitingBlocks'
  BY <1>2, <1>4 DEF FenceInv, WaitingBlocks, AllFenced
<1>7. WaitingIsTakenUp'
  BY <1>2, <1>4 DEF FenceInv, WaitingIsTakenUp, Unchecked, Framing, Publishing, Closing
<1>8. NothingIsMissed'
  BY <1>2, <1>3 DEF FenceInv, NothingIsMissed, Superseded
<1> QED BY <1>1, <1>5, <1>6, <1>7, <1>8 DEF FenceInv

\* When the contract is adopted nothing waits any more.
LEMMA AdoptKeepsFences ==
  ASSUME FenceInv, Adopt
  PROVE  FenceInv'
<1>1. IInv'
  BY AdoptKeeps DEF FenceInv
<1>2. UNCHANGED <<level, anchor, content, received, fence, writes, up>>
      /\ tool.step = "removing" /\ tool.on.fences = {} /\ tool'.step = "idle"
  BY DEF Adopt, disk, files, Idle
<1>3. writes = {} /\ Fenced = {}
  BY <1>2 DEF FenceInv, NothingIsMissed
<1>4. Fenced' = {} /\ Recording' = {} /\ Waiting' = {}
  BY <1>2, <1>3 DEF Fenced, Recording, Waiting
<1>5. FenceShapes'
  BY <1>2, <1>3, <1>4 DEF FenceInv, FenceShapes
<1>6. RecordedIsKnown' /\ WaitingBlocks'
  BY <1>4 DEF RecordedIsKnown, WaitingBlocks
<1>7. WaitingIsTakenUp' /\ NothingIsMissed'
  BY <1>2 DEF WaitingIsTakenUp, NothingIsMissed, Framing, Publishing, Closing
<1> QED BY <1>1, <1>5, <1>6, <1>7 DEF FenceInv

\* A crash keeps the fences of the disk, and a restart puts all sessions under
\* them.
LEMMA CrashAndRestartKeepFences ==
  ASSUME FenceInv, Crash \/ Restart
  PROVE  FenceInv'
<1>1. IInv'
  BY CrashAndRestartKeep DEF FenceInv
<1>2. UNCHANGED <<anchor, content, received, fence>> /\ tool'.step = "idle"
  BY DEF FenceInv, IInv, ToolFollowsFiles, Crash, Restart, disk, files, Idle
<1>3. writes' = {}
  BY DEF FenceInv, FenceShapes, Crash, Restart
<1>4. Fenced' = Fenced /\ Recording' = {} /\ Waiting' = Fenced
  BY <1>2, <1>3 DEF Fenced, Recording, Waiting
<1>5. FenceShapes' /\ RecordedIsKnown'
  BY <1>2, <1>3, <1>4 DEF FenceInv, FenceShapes, RecordedIsKnown
<1>6. WaitingBlocks'
  <2>1. CASE Crash
    BY <2>1 DEF Crash, WaitingBlocks
  <2>2. CASE Restart
    <3>1. Fenced # {} => Untrusted
      BY DEF Untrusted
    <3> QED BY <1>4, <2>2, <3>1 DEF Restart, WaitingBlocks, AllFenced
  <2> QED BY <2>1, <2>2
<1>7. WaitingIsTakenUp' /\ NothingIsMissed'
  BY <1>2 DEF WaitingIsTakenUp, NothingIsMissed, Framing, Publishing, Closing
<1> QED BY <1>1, <1>5, <1>6, <1>7 DEF FenceInv

\* Every step keeps the invariant.
LEMMA NextFenceInv == "release" \notin Windows /\ FenceInv /\ [Next]_vars => FenceInv'
<1> SUFFICES ASSUME "release" \notin Windows, FenceInv, [Next]_vars PROVE FenceInv'
  OBVIOUS
<1>1. ASSUME NEW m \in Input, Insert(m) \/ Deliver(m) PROVE FenceInv'
  BY <1>1, InputKeepsFences
<1>2. ASSUME NEW w \in writes, Record(w) PROVE FenceInv'
  BY <1>2, RecordKeepsFences
<1>3. CASE \/ \E s \in Session : Revoke(s) \/ Delegate(s)
           \/ \E s \in Session : Read(s) \/ Refresh(s) \/ Guard(s) \/ Enter(s) \/ Result(s)
           \/ MarkerFollows
  BY <1>3, WorkKeepsFences
<1>4. CASE BeginReview \/ EndReview \/ BeginCommit \/ EndCommit
  BY <1>4, ReviewKeepsFences
<1>5. CASE CallReframe \/ BeginReframe \/ EndConsume \/ Frame
  BY <1>5, BeginReframeKeepsFences
<1>6. CASE Finalize
  BY <1>6, FinalizeKeepsFences
<1>7. CASE WriteAnchor \/ WriteDocument \/ WriteRecord \/ BindGraph
  BY <1>7, WritesKeepFences
<1>8. CASE Check \/ Release \/ Drain \/ Clear
  BY <1>8, ClosingKeepsFences
<1>9. ASSUME NEW m \in ChildInput, RemoveReference(m) PROVE FenceInv'
  BY <1>9, RemovalKeepsFences
<1>10. CASE Adopt
  BY <1>10, AdoptKeepsFences
<1>11. CASE Crash \/ Restart
  BY <1>11, CrashAndRestartKeepFences
<1>12. CASE UNCHANGED vars
  <2>1. IInv'
    BY <1>12, NextIInv DEF FenceInv
  <2>2. UNCHANGED fences /\ UNCHANGED control /\ tool' = tool
    BY <1>12 DEF vars, disk, files, fences
  <2> QED BY <2>1, <2>2, FencesAtRest DEF AllFenced
<1> QED BY <1>1, <1>2, <1>3, <1>4, <1>5, <1>6, <1>7, <1>8, <1>9, <1>10, <1>11, <1>12
        DEF Next

-----------------------------------------------------------------------------
(* The theorems.                                                            *)

\* While a delegated input is fenced no guarded body of any session starts,
\* in the process that recorded the fence or in a later one: until its message
\* is in a log the input is staged, and afterwards every control is fenced.
THEOREM FencesBlockWork ==
  ASSUME "release" \notin Windows
  PROVE  Spec => FencesBlock
<1>1. FenceInv /\ BodyOfEach /\ [Next]_vars => [\A s \in Session : Starts(s) => Fenced = {}]_vars
  <2> SUFFICES ASSUME FenceInv, BodyOfEach, Next, NEW s \in Session, Starts(s) PROVE Fenced = {}
    OBVIOUS
  <2>1. Enter(s)
    BY OnlyEnterStarts
  <2>2. up /\ staged = {} /\ ~control[s].reframe
    BY <2>1 DEF Enter, MayEnter, InputWaits
  <2>3. Waiting = {}
    BY <2>2 DEF FenceInv, WaitingBlocks, AllFenced
  <2> QED BY <2>3 DEF Waiting
<1>2. FenceInv /\ [Next]_vars => FenceInv'
  BY NextFenceInv
<1> QED BY <1>1, <1>2, InitFenceInv, InitBody, NextBody, PTL DEF Spec, FencesBlock

\* A fence disappears only when a contract has been published that supersedes
\* the one the input was fenced under and that could take the input up: what
\* waited when lattice_reframe was called, and no epoch passed since.  Both windows
\* in which the code compares no epochs are shut: before the reframe captures its
\* own, and after its last check.
THEOREM FencesAreAnswered ==
  ASSUME Windows = {}
  PROVE  Spec => FenceClearedOnlyByAdoption
<1>1. FenceInv /\ [Next]_vars =>
        [\A m \in ChildInput : fence[m] # None /\ fence'[m] = None =>
           fence[m] < anchor /\ Published /\ m \in content[anchor].adopts]_vars
  <2> SUFFICES ASSUME FenceInv, Next, NEW m \in ChildInput,
                      fence[m] # None, fence'[m] = None
               PROVE  fence[m] < anchor /\ Published /\ m \in content[anchor].adopts
    OBVIOUS
  <2>1. RemoveReference(m)
    <3>1. \/ \E n \in ChildInput : RemoveReference(n)
          \/ \E w \in writes : Record(w)
      BY DEF Next, Insert, Deliver, Revoke, Delegate, Read, Refresh, Guard, Enter, Result,
             BeginReview, EndReview, BeginCommit, EndCommit, MarkerFollows, CallReframe, BeginReframe, Capture, Consume,
         EndConsume, Frame,
             Finalize, WriteAnchor, WriteDocument, WriteRecord, BindGraph, Check,
             Release, Drain, Clear, Adopt, Crash, Restart, disk
    <3>2. ASSUME NEW w \in writes, Record(w) PROVE FALSE
      <4>1. \/ fence' = fence
            \/ fence[w.input] = None /\ \E b : fence' = [fence EXCEPT ![w.input] = b]
        BY <3>2 DEF Record
      <4> QED BY <4>1 DEF FenceInv, FenceShapes
    <3>3. PICK n \in ChildInput : RemoveReference(n)
      BY <3>1, <3>2
    <3>4. n = m
      BY <3>3 DEF RemoveReference, FenceInv, FenceShapes
    <3> QED BY <3>3, <3>4
  <2>2. tool.step = "removing" /\ m \in Fenced
    BY <2>1 DEF RemoveReference, Fenced
  <2>3. Superseded(m, anchor)
    BY <2>2 DEF FenceInv, NothingIsMissed
  <2>4. anchor = tool.on.new /\ Published
    BY <2>2 DEF FenceInv, IInv, ToolFollowsFiles, Published, Framing, Publishing, Closing
  <2>5. m \in content[anchor].adopts
    BY <2>2, <2>4 DEF FenceInv, WaitingIsTakenUp, Waiting, Framing, Publishing, Closing, Unchecked
  <2> QED BY <2>3, <2>4, <2>5 DEF Superseded
<1>2. FenceInv /\ [Next]_vars => FenceInv'
  BY NextFenceInv
<1> QED BY <1>1, <1>2, InitFenceInv, PTL DEF Spec, FenceClearedOnlyByAdoption
-----------------------------------------------------------------------------
(* No human message of the root is lost: when a guarded body starts, each  *)
(* one in the log is a source of the accepted contract or named by a       *)
(* review.  Two promises carry it.  A contract answers what was said up to *)
(* the place it records, and a marker what was said up to its boundary,    *)
(* once the marker itself is in the log.  What neither covers is pending.  *)

Entry == [kind : {"input"}, input : Input]
         \cup [kind : {"marker"}, contract : Revision, through : Nat,
               messages : SUBSET Input, disposition : {"unchanged", "changed", "reframed"}]

InLog == {log[i] : i \in {j \in DOMAIN log : log[j].kind = "marker"}}

\* The message at place i is answered under the contract of revision r.
Answered(i, r) == log[i].input \in content[r].sources \cup Reviewed

LogShapes ==
  /\ log \in Seq(Entry)
  /\ \A marker \in deferred : marker \in Entry /\ marker.kind = "marker"
  /\ tool.step = "anchor" => tool.on.new = anchor + 1
  /\ tool.step \in Publishing =>
       /\ tool.on.through \in Nat /\ tool.on.messages \subseteq Input

\* Contracts that have been finalized.
Finalized == {r \in Revision : r <= anchor \/ (tool.step = "anchor" /\ r = tool.on.new)}

\* A contract answers what was said up to the place it records.
ContractsAnswer ==
  \A r \in Finalized :
    /\ content[r].at \in Nat /\ content[r].at <= Len(log)
    /\ \A i \in Human : i <= content[r].at => Answered(i, r)

\* A marker, in the log or on its way, answers what was said up to its boundary.
MarkersAnswer ==
  \A marker \in InLog \cup deferred :
    /\ marker.contract <= anchor /\ marker.through <= Len(log)
    /\ \A i \in Human : i <= marker.through =>
         Answered(i, marker.contract) \/ log[i].input \in marker.messages

\* The marker of a reframe reaches no further than its contract.
BoundaryIsRecorded ==
  tool.step \in Publishing => tool.on.through <= content[tool.on.new].at

AnswerInv ==
  /\ IInv
  /\ LogShapes /\ ContractsAnswer /\ MarkersAnswer /\ BoundaryIsRecorded

-----------------------------------------------------------------------------
(* Facts about the log.                                                     *)

\* A set of naturals with a bound holds its own maximum.
LEMMA MaxIsIn ==
  ASSUME NEW n \in Nat, NEW S \in SUBSET (0..n), S # {}
  PROVE  Max(S) \in S /\ \A y \in S : Max(S) >= y
<1> DEFINE above == {x..n : x \in S}
<1>1. above \subseteq SUBSET (0..n) /\ above # {}
  <2>1. \A x \in S : x..n \in SUBSET (0..n)
    OBVIOUS
  <2> QED BY <2>1
<1>2. PICK d \in above : \A e \in above : ~(<<e, d>> \in StrictSubsetOrdering(0..n))
  <2> HIDE DEF above
  <2>1. IsFiniteSet(0..n)
    BY FS_Interval
  <2>2. IsWellFoundedOn(StrictSubsetOrdering(0..n), SUBSET (0..n))
    BY <2>1, FS_StrictSubsetOrderingWellFounded, FS_FiniteSubsetsOfFinite
  <2> QED BY <1>1, <2>2, WFMin
<1>3. \A e \in above : e \subseteq d => e = d
  <2> HIDE DEF above
  <2> QED BY <1>1, <1>2 DEF StrictSubsetOrdering
<1>4. PICK x \in S : d = x..n
  OBVIOUS
<1>5. ASSUME NEW y \in S, ~(x >= y) PROVE FALSE
  <2>1. y..n \subseteq x..n /\ x \notin y..n /\ x \in x..n
    BY <1>5
  <2> QED BY <1>3, <1>4, <2>1
<1> QED BY <1>5 DEF Max

\* The places of human messages are places of the log.
LEMMA HumanPlaces ==
  ASSUME log \in Seq(Entry)
  PROVE  /\ Len(log) \in Nat /\ DOMAIN log = 1..Len(log)
         /\ Human \subseteq 1..Len(log)
         /\ \A i \in Human : log[i].input \in Input
         /\ \A marker \in InLog : marker \in Entry /\ marker.through \in Nat
                                  /\ marker.messages \subseteq Reviewed
<1>1. Len(log) \in Nat /\ DOMAIN log = 1..Len(log) /\ \A i \in 1..Len(log) : log[i] \in Entry
  OBVIOUS
<1>2. \A e \in Entry : /\ e.kind = "input" => e.input \in Input
                       /\ e.kind = "marker" => e.through \in Nat
  BY DEF Entry
<1>3. \A marker \in InLog : marker.messages \subseteq Reviewed
  BY DEF InLog, Reviewed
<1> QED BY <1>1, <1>2, <1>3 DEF Human, InLog

\* What a contract in force does not leave pending is answered.
LEMMA PendingIsTheRest ==
  ASSUME AnswerInv, NEW r \in Revision, r <= anchor, NEW i \in Human, i \notin Pending(r)
  PROVE  Answered(i, r)
<1>1. log \in Seq(Entry) /\ r \in Finalized
  BY DEF AnswerInv, LogShapes, Finalized
<1>2. i \in Nat /\ Len(log) \in Nat
  BY <1>1, HumanPlaces
<1>3. CASE Markers(r) = {}
  <2>1. i <= content[r].at
    BY <1>1, <1>2, <1>3 DEF Pending, AnswerInv, ContractsAnswer
  <2> QED BY <1>1, <2>1 DEF AnswerInv, ContractsAnswer
<1>4. CASE Markers(r) # {}
  <2> DEFINE S == {m.through : m \in Markers(r)}
  <2>1. Markers(r) \subseteq InLog /\ \A m \in Markers(r) : m.contract = r
    BY DEF Markers, InLog
  <2>2. S \in SUBSET (0..Len(log)) /\ S # {}
    BY <1>1, <1>2, <1>4, <2>1, HumanPlaces DEF AnswerInv, MarkersAnswer
  <2>3. PICK b \in S : b = Max(S)
    <3> HIDE DEF S
    <3> QED BY <1>2, <2>2, MaxIsIn
  <2>4. i <= b
    <3>1. Pending(r) = {h \in Human : h > b}
      BY <1>4, <2>3 DEF Pending
    <3>2. b \in 0..Len(log)
      BY <2>2
    <3> QED BY <1>2, <3>1, <3>2
  <2>5. PICK m \in Markers(r) : m.through = b
    OBVIOUS
  <2>6. Answered(i, r) \/ log[i].input \in m.messages
    <3> HIDE DEF S
    <3> QED BY <2>1, <2>4, <2>5 DEF AnswerInv, MarkersAnswer
  <2>7. m.messages \subseteq Reviewed
    BY <1>1, <2>1, HumanPlaces
  <2> QED BY <2>6, <2>7 DEF Answered
<1> QED BY <1>3, <1>4

\* A step that adds nothing to the log and leaves the contract in the making
\* as it is keeps the promises.
LEMMA AnswersAtRest ==
  ASSUME AnswerInv, IInv', UNCHANGED <<log, content, anchor>>, deferred' \subseteq deferred,
         \/ tool'.step \in Resting \cup Framing
         \/ /\ tool.step \in Publishing
            /\ tool'.step = "anchor" => tool.step = "anchor"
            /\ tool'.on.new = tool.on.new /\ tool'.on.through = tool.on.through
            /\ tool'.on.messages = tool.on.messages
  PROVE  AnswerInv'
<1>1. Human' = Human /\ Reviewed' = Reviewed /\ InLog' = InLog
  BY DEF Human, Reviewed, InLog
<1>2. \A i, r : Answered(i, r)' <=> Answered(i, r)
  BY <1>1 DEF Answered
<1>3. LogShapes'
  BY DEF AnswerInv, LogShapes, Resting, Framing, Publishing, Closing
<1>4. ContractsAnswer'
  <2>1. Finalized' \subseteq Finalized
    BY DEF Finalized, Resting, Framing
  <2> QED BY <1>1, <1>2, <2>1 DEF AnswerInv, ContractsAnswer
<1>5. MarkersAnswer'
  BY <1>1, <1>2 DEF AnswerInv, MarkersAnswer
<1>6. BoundaryIsRecorded'
  BY DEF AnswerInv, BoundaryIsRecorded, Resting, Framing, Publishing, Closing
<1> QED BY <1>3, <1>4, <1>5, <1>6 DEF AnswerInv

-----------------------------------------------------------------------------
(* The inductive invariant.                                                 *)

\* A task starts with an empty log.
LEMMA InitAnswerInv == Init => AnswerInv
<1> SUFFICES ASSUME Init PROVE AnswerInv
  OBVIOUS
<1>1. IInv
  BY InitIInv
<1>2. log = <<>> /\ deferred = {} /\ tool.step = "idle"
      /\ content = [r \in Revision |-> [at |-> 0, sources |-> {}, adopts |-> {}]]
  BY DEF Init, Idle
<1>3. Human = {} /\ InLog = {} /\ Len(log) = 0 /\ log \in Seq(Entry)
  BY <1>2 DEF Human, InLog
<1>4. LogShapes /\ BoundaryIsRecorded
  BY <1>2, <1>3 DEF LogShapes, BoundaryIsRecorded, Framing, Publishing, Closing
<1>5. ContractsAnswer
  BY <1>2, <1>3 DEF ContractsAnswer, Finalized
<1>6. MarkersAnswer
  BY <1>2, <1>3 DEF MarkersAnswer
<1> QED BY <1>1, <1>4, <1>5, <1>6 DEF AnswerInv

\* A message that reaches the log lies beyond every boundary.
LEMMA DeliveryKeepsAnswers ==
  ASSUME AnswerInv, NEW m \in Input, Insert(m) \/ Deliver(m)
  PROVE  AnswerInv'
<1>1. IInv'
  BY InputKeeps DEF AnswerInv
<1>2. UNCHANGED <<content, anchor, deferred>> /\ tool' = Dead(tool)
  BY DEF Insert, Deliver, disk, files
<1>3. tool'.step = tool.step /\ tool'.on = tool.on
  BY <1>2 DEF AnswerInv, IInv, Shapes, Dead
<1>4. tool.step \in Resting \cup Framing \cup Publishing
  BY DEF AnswerInv, IInv, Shapes
<1>5. CASE log' = log
  BY <1>1, <1>2, <1>3, <1>4, <1>5, AnswersAtRest
<1>6. CASE log' # log
  <2> DEFINE e == [kind |-> "input", input |-> m]
             n == Len(log) + 1
  <2>1. log' = Append(log, e) /\ e \in Entry
    BY <1>6 DEF Insert, Deliver, disk, Entry
  <2>2. log \in Seq(Entry)
    BY DEF AnswerInv, LogShapes
  <2>3. /\ Len(log) \in Nat /\ Len(log)' = n /\ log' \in Seq(Entry)
        /\ log'[n] = e /\ \A i \in 1..Len(log) : log'[i] = log[i]
        /\ DOMAIN log = 1..Len(log) /\ DOMAIN log' = 1..n
    BY <2>1, <2>2
  <2>4. Human' = Human \cup {n} /\ Human \subseteq 1..Len(log)
    BY <2>3 DEF Human
  <2>5. InLog' = InLog /\ Reviewed' = Reviewed
    <3>1. {j \in DOMAIN log' : log'[j].kind = "marker"} = {j \in DOMAIN log : log[j].kind = "marker"}
      BY <2>3
    <3>2. {j \in DOMAIN log : log[j].kind = "marker"} \subseteq 1..Len(log)
      BY <2>3
    <3> QED BY <2>3, <3>1, <3>2 DEF InLog, Reviewed
  <2>6. \A i \in Human : \A r : Answered(i, r)' <=> Answered(i, r)
    BY <1>2, <2>3, <2>4, <2>5 DEF Answered
  <2>7. LogShapes'
    BY <1>2, <1>3, <2>3 DEF AnswerInv, LogShapes
  <2>8. ContractsAnswer'
    <3> SUFFICES ASSUME NEW r \in Finalized'
                 PROVE  /\ content'[r].at \in Nat /\ content'[r].at <= Len(log')
                        /\ \A i \in Human' : i <= content'[r].at => Answered(i, r)'
      BY DEF ContractsAnswer
    <3>1. r \in Finalized
      BY <1>2, <1>3 DEF Finalized
    <3>2. content[r].at \in Nat /\ content[r].at <= Len(log)
      BY <3>1 DEF AnswerInv, ContractsAnswer
    <3> QED BY <1>2, <2>3, <2>4, <2>6, <3>1, <3>2 DEF AnswerInv, ContractsAnswer
  <2>9. MarkersAnswer'
    <3> SUFFICES ASSUME NEW k \in InLog \cup deferred
                 PROVE  /\ k.contract <= anchor /\ k.through <= n
                        /\ \A i \in Human' : i <= k.through =>
                             Answered(i, k.contract)' \/ log'[i].input \in k.messages
      BY <1>2, <2>3, <2>5 DEF MarkersAnswer
    <3>1. k.through \in Nat
      BY <2>2, HumanPlaces DEF AnswerInv, LogShapes, Entry
    <3>2. k.contract <= anchor /\ k.through <= Len(log)
      BY DEF AnswerInv, MarkersAnswer
    <3> QED BY <2>3, <2>4, <2>6, <3>1, <3>2 DEF AnswerInv, MarkersAnswer
  <2>10. BoundaryIsRecorded'
    BY <1>2, <1>3 DEF AnswerInv, BoundaryIsRecorded
  <2> QED BY <1>1, <2>7, <2>8, <2>9, <2>10 DEF AnswerInv
<1> QED BY <1>5, <1>6

\* In the log, the messages a marker names are reviewed.
LEMMA MarkerKeepsAnswers ==
  ASSUME AnswerInv, MarkerFollows
  PROVE  AnswerInv'
<1>1. IInv'
  BY WorkKeeps DEF AnswerInv
<1>2. UNCHANGED <<content, anchor, tool>> /\ deferred' = {}
  BY DEF MarkerFollows, files
<1>3. PICK e \in deferred : log' = Append(log, e)
  BY DEF MarkerFollows
<1> DEFINE n == Len(log) + 1
<1>4. log \in Seq(Entry) /\ e \in Entry /\ e.kind = "marker"
  BY DEF AnswerInv, LogShapes
<1>5. /\ Len(log) \in Nat /\ Len(log)' = n /\ log' \in Seq(Entry)
      /\ log'[n] = e /\ \A i \in 1..Len(log) : log'[i] = log[i]
      /\ DOMAIN log = 1..Len(log) /\ DOMAIN log' = 1..n
  BY <1>3, <1>4
<1>6. Human' = Human /\ Human \subseteq 1..Len(log)
  BY <1>4, <1>5 DEF Human
<1>7. InLog' = InLog \cup {e} /\ Reviewed' = Reviewed \cup e.messages
  <2> DEFINE J == {j \in DOMAIN log : log[j].kind = "marker"}
             K == {j \in DOMAIN log' : log'[j].kind = "marker"}
  <2>1. K = J \cup {n} /\ J \subseteq 1..Len(log)
    BY <1>4, <1>5
  <2>2. \A j \in J : log'[j] = log[j]
    BY <1>5, <2>1
  <2>3. InLog = {log[i] : i \in J} /\ InLog' = {log'[i] : i \in K}
    BY DEF InLog
  <2>4. Reviewed = UNION {log[i].messages : i \in J}
        /\ Reviewed' = UNION {log'[i].messages : i \in K}
    BY DEF Reviewed
  <2> HIDE DEF J, K
  <2>5. InLog' = InLog \cup {e}
    BY <1>5, <2>1, <2>2, <2>3
  <2>6. Reviewed' = Reviewed \cup e.messages
    BY <1>5, <2>1, <2>2, <2>4
  <2> QED BY <2>5, <2>6
<1>8. \A i \in Human : \A r : Answered(i, r)' <=> Answered(i, r) \/ log[i].input \in e.messages
  BY <1>2, <1>5, <1>6, <1>7 DEF Answered
<1>9. LogShapes'
  BY <1>2, <1>5 DEF AnswerInv, LogShapes
<1>10. ContractsAnswer'
  <2>1. Finalized' = Finalized
    BY <1>2 DEF Finalized
  <2> QED BY <1>2, <1>5, <1>6, <1>8, <2>1 DEF AnswerInv, ContractsAnswer
<1>11. MarkersAnswer'
  <2> SUFFICES ASSUME NEW k \in InLog \cup deferred
               PROVE  /\ k.contract <= anchor /\ k.through <= n
                      /\ \A i \in Human : i <= k.through =>
                           Answered(i, k.contract)' \/ log'[i].input \in k.messages
    BY <1>2, <1>5, <1>6, <1>7 DEF MarkersAnswer
  <2>1. k.through \in Nat
    BY <1>4, HumanPlaces DEF AnswerInv, LogShapes, Entry
  <2>2. k.contract <= anchor /\ k.through <= Len(log)
    BY DEF AnswerInv, MarkersAnswer
  <2> QED BY <1>5, <1>6, <1>8, <2>1, <2>2 DEF AnswerInv, MarkersAnswer
<1>12. BoundaryIsRecorded'
  BY <1>2 DEF AnswerInv, BoundaryIsRecorded
<1> QED BY <1>1, <1>9, <1>10, <1>11, <1>12 DEF AnswerInv

\* Guarded tools, fences, revocations and the beginning of a review promise
\* nothing, and neither does a crash or a restart.
LEMMA WorkKeepsAnswers ==
  ASSUME AnswerInv,
         \/ \E s \in Session : Revoke(s) \/ Delegate(s)
         \/ \E w \in writes : Record(w)
         \/ \E s \in Session : Read(s) \/ Refresh(s) \/ Guard(s) \/ Enter(s) \/ Result(s)
  PROVE  AnswerInv'
<1>1. IInv'
  BY RevocationKeeps, WorkKeeps DEF AnswerInv
<1>2. UNCHANGED <<log, content, anchor, deferred>> /\ (tool' = tool \/ tool' = Dead(tool))
  BY DEF Revoke, Delegate, Record, Read, Refresh, Guard, Enter, Result, disk, files
<1>3. tool'.step = tool.step /\ tool'.on = tool.on
  BY <1>2 DEF AnswerInv, IInv, Shapes, Dead
<1>4. tool.step \in Resting \cup Framing \cup Publishing
  BY DEF AnswerInv, IInv, Shapes
<1> QED BY <1>1, <1>2, <1>3, <1>4, AnswersAtRest

LEMMA OthersKeepAnswers ==
  ASSUME AnswerInv,
         \/ BeginReview \/ EndReview \/ BeginCommit
         \/ CallReframe \/ BeginReframe \/ EndConsume \/ Frame \/ Crash \/ Restart
  PROVE  AnswerInv'
<1>1. IInv'
  BY ReviewKeeps, BeginReframeKeeps, CrashAndRestartKeep DEF AnswerInv
<1>2. UNCHANGED <<log, content, anchor>> /\ deferred' \subseteq deferred
  BY DEF BeginReview, EndReview, BeginCommit, CallReframe, BeginReframe, EndConsume, Frame,
         Crash, Restart, disk, files
<1>3. tool'.step \in Resting \cup Framing
  BY DEF AnswerInv, IInv, ToolFollowsFiles, BeginReview, EndReview, BeginCommit,
         CallReframe, BeginReframe, Capture, Consume, EndConsume, Frame, Crash, Restart,
         Idle, Resting, Framing, Shapes
<1> QED BY <1>1, <1>2, <1>3, AnswersAtRest

\* The marker of a review names all that was pending up to its boundary, and
\* the rest was answered before.
LEMMA CommitKeepsAnswers ==
  ASSUME AnswerInv, EndCommit
  PROVE  AnswerInv'
<1>1. IInv'
  BY ReviewKeeps DEF AnswerInv
<1>2. UNCHANGED <<log, content, anchor>> /\ tool'.step = "idle"
  BY DEF EndCommit, disk, files, Idle
<1>3. CASE deferred' = deferred
  BY <1>1, <1>2, <1>3, AnswersAtRest DEF Resting
<1>4. CASE deferred' # deferred
  <2>1. PICK r \in tool.on, disposition \in {"unchanged", "changed"} :
          /\ StillReviewed(r)
          /\ deferred' = {Marker(record, r.through, r.messages, disposition)}
    BY <1>4 DEF EndCommit
  <2> DEFINE k == Marker(record, r.through, r.messages, disposition)
             P == Pending(record)
  <2>2. log \in Seq(Entry)
    BY DEF AnswerInv, LogShapes
  <2>3. /\ Len(log) \in Nat /\ Human \subseteq 1..Len(log)
        /\ \A i \in Human : log[i].input \in Input
    BY <2>2, HumanPlaces
  <2>4. P \subseteq Human
    BY DEF Pending
  <2>5. record = anchor /\ anchor \in Revision
    BY <2>1 DEF StillReviewed, Published, AnswerInv, IInv, Shapes
  <2>6. r.through \in 1..Len(log)
    <3>1. P # {} /\ r.through = Max(P)
      BY <2>1, Zenon DEF StillReviewed
    <3> HIDE DEF P
    <3>2. P \in SUBSET (0..Len(log))
      BY <2>3, <2>4
    <3>3. Max(P) \in P
      BY <2>3, <3>1, <3>2, MaxIsIn
    <3> QED BY <2>3, <2>4, <3>1, <3>3
  <2>7. r.messages = {log[i].input : i \in P}
    BY <2>1 DEF StillReviewed, Said
  <2>8. k \in Entry /\ k.kind = "marker"
    <3>1. r.through \in Nat /\ record \in Revision
      BY <2>3, <2>5, <2>6
    <3>2. r.messages \in SUBSET Input
      BY <2>3, <2>4, <2>7
    <3> QED BY <3>1, <3>2 DEF Marker, Entry
  <2>9. \A i \in Human : Answered(i, anchor) \/ log[i].input \in k.messages
    <3>1. ASSUME NEW i \in Human, i \notin P PROVE Answered(i, anchor)
      <4>1. i \notin Pending(anchor) /\ anchor <= anchor
        BY <2>5, <3>1 DEF Revision
      <4> QED BY <2>5, <4>1, PendingIsTheRest
    <3>2. \A i \in P : log[i].input \in k.messages
      BY <2>7 DEF Marker
    <3> QED BY <3>1, <3>2
  <2>10. Human' = Human /\ Reviewed' = Reviewed /\ InLog' = InLog
    BY <1>2 DEF Human, Reviewed, InLog
  <2>11. \A i, c : Answered(i, c)' <=> Answered(i, c)
    BY <1>2, <2>10 DEF Answered
  <2>12. LogShapes'
    BY <1>2, <2>1, <2>2, <2>8 DEF LogShapes, Framing, Publishing, Closing
  <2>13. ContractsAnswer'
    <3>1. Finalized' \subseteq Finalized
      BY <1>2 DEF Finalized
    <3> QED BY <1>2, <2>10, <2>11, <3>1 DEF AnswerInv, ContractsAnswer
  <2>14. MarkersAnswer'
    <3>1. k.contract = anchor /\ k.through <= Len(log)
      BY <2>3, <2>5, <2>6 DEF Marker
    <3>2. anchor <= anchor
      BY <2>5 DEF Revision
    <3> HIDE DEF k
    <3>3. deferred' = {k}
      BY <2>1 DEF k
    <3> QED BY <1>2, <2>9, <2>10, <2>11, <3>1, <3>2, <3>3 DEF AnswerInv, MarkersAnswer
  <2>15. BoundaryIsRecorded'
    BY <1>2 DEF BoundaryIsRecorded, Framing, Publishing, Closing
  <2> QED BY <1>1, <2>12, <2>13, <2>14, <2>15 DEF AnswerInv
<1> QED BY <1>3, <1>4

\* A new contract takes up the sources of the one it replaces and all that is
\* pending under it, so it answers everything in the log.
LEMMA FinalizeKeepsAnswers ==
  ASSUME AnswerInv, Finalize
  PROVE  AnswerInv'
<1> DEFINE t == tool.on
<1>1. IInv'
  BY FinalizeKeeps DEF AnswerInv
<1>2. UNCHANGED <<log, anchor, deferred>> /\ tool.step = "framed"
  BY DEF Finalize, files
<1>3. CASE tool' = Idle /\ content' = content
  BY <1>1, <1>2, <1>3, AnswersAtRest DEF Idle, Resting
<1>4. CASE ~(tool' = Idle /\ content' = content)
  <2>1. MayReplace(t.previous, t.untrusted)
        /\ content' = [content EXCEPT ![NextRevision(t.previous)] = Recorded(t.previous, t.known)]
        /\ tool' = [step |-> "anchor", live |-> TRUE,
                    on |-> [new |-> NextRevision(t.previous), messages |-> Said(Pending(t.previous)),
                            through |-> Boundary, fences |-> {}]]
    BY <1>4 DEF Finalize
  <2>2. anchor = t.previous /\ anchor \in Revision
    BY <1>2, <2>1 DEF AnswerInv, IInv, Shapes, ToolFollowsFiles, MayReplace, Whole, Published, Framing
  <2>3. PICK new \in Revision :
          new = NextRevision(t.previous) /\ new = anchor + 1 /\ anchor <= anchor
    <3>1. t.previous < MaxRevision
      BY <1>2 DEF AnswerInv, IInv, Shapes, Framing
    <3>2. anchor + 1 \in Revision /\ anchor <= anchor
      BY <2>2, <3>1, ContractAssumption DEF Revision
    <3> QED BY <2>2, <3>2 DEF NextRevision
  <2>4. /\ content'[new] = Recorded(anchor, t.known)
        /\ \A r \in Revision : r # new => content'[r] = content[r]
    BY <2>1, <2>2, <2>3 DEF AnswerInv, IInv, Shapes
  <2>5. log \in Seq(Entry)
    BY DEF AnswerInv, LogShapes
  <2>6. /\ Len(log) \in Nat /\ Human \subseteq 1..Len(log)
        /\ \A i \in Human : log[i].input \in Input
    BY <2>5, HumanPlaces
  <2>7. Boundary \in 0..Len(log)
    <3>1. Human \cup {0} \in SUBSET (0..Len(log)) /\ Human \cup {0} # {}
      BY <2>6
    <3>2. Max(Human \cup {0}) \in Human \cup {0}
      BY <2>6, <3>1, MaxIsIn
    <3> QED BY <3>1, <3>2 DEF Boundary
  <2>8. Said(Pending(t.previous)) \subseteq Input
    BY <2>6 DEF Said, Pending
  <2>9. Human' = Human /\ Reviewed' = Reviewed /\ InLog' = InLog
    BY <1>2 DEF Human, Reviewed, InLog
  <2>10. \A i \in Human : Answered(i, new)'
    <3> SUFFICES ASSUME NEW i \in Human PROVE Answered(i, new)'
      OBVIOUS
    <3>1. content'[new].sources = content[anchor].sources \cup Said(Pending(anchor))
      BY <2>4 DEF Recorded
    <3>2. i \in Pending(anchor) => log[i].input \in Said(Pending(anchor))
      BY DEF Said
    <3>3. i \notin Pending(anchor) => Answered(i, anchor)
      BY <2>2, <2>3, PendingIsTheRest
    <3> QED BY <1>2, <2>9, <3>1, <3>2, <3>3 DEF Answered
  <2>11. \A r \in Revision : r <= anchor =>
           content'[r] = content[r] /\ \A i : Answered(i, r)' <=> Answered(i, r)
    <3>1. \A r \in Revision : r <= anchor => r # new
      BY <2>2, <2>3 DEF Revision
    <3> QED BY <1>2, <2>4, <2>9, <3>1 DEF Answered
  <2>12. tool'.step = "anchor" /\ tool'.on.new = new /\ tool'.on.through = Boundary
         /\ tool'.on.messages = Said(Pending(t.previous))
    BY <2>1, <2>3
  <2>13. LogShapes'
    BY <1>2, <2>3, <2>5, <2>7, <2>8, <2>12 DEF AnswerInv, LogShapes
  <2>14. content'[new].at = Len(log)
    BY <2>4 DEF Recorded
  <2>15. ContractsAnswer'
    <3> SUFFICES ASSUME NEW r \in Finalized'
                 PROVE  /\ content'[r].at \in Nat /\ content'[r].at <= Len(log)
                        /\ \A i \in Human : i <= content'[r].at => Answered(i, r)'
      BY <1>2, <2>9 DEF ContractsAnswer
    <3>1. CASE r = new
      BY <2>6, <2>10, <2>14, <3>1
    <3>2. CASE r # new
      <4>1. r \in Revision /\ r <= anchor /\ r \in Finalized
        BY <1>2, <2>12, <3>2 DEF Finalized
      <4> QED BY <2>11, <4>1 DEF AnswerInv, ContractsAnswer
    <3> QED BY <3>1, <3>2
  <2>16. MarkersAnswer'
    <3> SUFFICES ASSUME NEW k \in InLog \cup deferred
                 PROVE  /\ k.contract <= anchor /\ k.through <= Len(log)
                        /\ \A i \in Human : i <= k.through =>
                             Answered(i, k.contract)' \/ log[i].input \in k.messages
      BY <1>2, <2>9 DEF MarkersAnswer
    <3>1. k.contract \in Revision
      <4>1. k \in Entry /\ k.kind = "marker"
        BY <2>5, HumanPlaces DEF AnswerInv, LogShapes, InLog
      <4> QED BY <4>1 DEF Entry
    <3>2. k.contract <= anchor
      BY DEF AnswerInv, MarkersAnswer
    <3> QED BY <2>11, <3>1, <3>2 DEF AnswerInv, MarkersAnswer
  <2>17. BoundaryIsRecorded'
    BY <2>6, <2>7, <2>12, <2>14 DEF BoundaryIsRecorded
  <2> QED BY <1>1, <2>13, <2>15, <2>16, <2>17 DEF AnswerInv
<1> QED BY <1>3, <1>4

\* The anchor moves to the contract just finalized; the later steps of a
\* publication move nothing the promises speak of.
LEMMA PublishingKeepsAnswers ==
  ASSUME AnswerInv,
         \/ WriteAnchor \/ WriteDocument \/ WriteRecord \/ BindGraph
         \/ Check \/ Release \/ Drain \/ Clear \/ \E m \in ChildInput : RemoveReference(m)
  PROVE  AnswerInv'
<1>1. IInv'
  BY WritesKeep, ClosingKeeps DEF AnswerInv
<1>2. UNCHANGED <<log, content, deferred>>
  BY DEF WriteAnchor, WriteDocument, WriteRecord, BindGraph, Check, Release, Drain, Clear,
         RemoveReference, disk
<1>3. tool.step \in Publishing
  BY DEF WriteAnchor, WriteDocument, WriteRecord, BindGraph, Check, Release, Drain, Clear,
         RemoveReference, Framing, Publishing, Closing
<1>4. tool = [step |-> tool.step, live |-> tool.live, on |-> tool.on]
      /\ tool.on = [new |-> tool.on.new, messages |-> tool.on.messages,
                    through |-> tool.on.through, fences |-> tool.on.fences]
  BY <1>3 DEF AnswerInv, IInv, Shapes
<1>5. \/ tool' = Idle
      \/ \E step \in Publishing \ {"anchor"} : tool' = [tool EXCEPT !.step = step]
      \/ \E step \in Publishing \ {"anchor"} : \E f :
           tool' = [tool EXCEPT !.step = step, !.on.fences = f]
      \/ \E f : tool.step = "removing" /\ tool' = [tool EXCEPT !.on.fences = f]
  BY DEF WriteAnchor, WriteDocument, WriteRecord, BindGraph, Check, Release, Drain, Clear,
         RemoveReference, Framing, Publishing, Closing
<1>6. \/ tool'.step \in Resting
      \/ /\ tool'.step # "anchor"
         /\ tool'.on.new = tool.on.new /\ tool'.on.through = tool.on.through
         /\ tool'.on.messages = tool.on.messages
  <2>1. ASSUME NEW step \in Publishing \ {"anchor"}, NEW f,
               tool' = [tool EXCEPT !.step = step, !.on.fences = f]
        PROVE  /\ tool'.step # "anchor"
               /\ tool'.on.new = tool.on.new /\ tool'.on.through = tool.on.through
               /\ tool'.on.messages = tool.on.messages
    BY <1>4, <2>1
  <2>2. ASSUME NEW f, tool.step = "removing", tool' = [tool EXCEPT !.on.fences = f]
        PROVE  /\ tool'.step # "anchor"
               /\ tool'.on.new = tool.on.new /\ tool'.on.through = tool.on.through
               /\ tool'.on.messages = tool.on.messages
    BY <1>4, <2>2
  <2>3. ASSUME NEW step \in Publishing \ {"anchor"}, tool' = [tool EXCEPT !.step = step]
        PROVE  tool'.step # "anchor" /\ tool'.on = tool.on
    BY <1>4, <2>3
  <2>4. CASE tool' = Idle
    BY <2>4 DEF Idle, Resting
  <2>5. CASE tool' # Idle
    BY <1>5, <2>1, <2>2, <2>3, <2>5
  <2> QED BY <2>4, <2>5
<1>7. CASE anchor' = anchor
  BY <1>1, <1>2, <1>3, <1>6, <1>7, AnswersAtRest
<1>8. CASE anchor' # anchor
  <2>1. WriteAnchor
    BY <1>8 DEF WriteDocument, WriteRecord, BindGraph, Check, Release, Drain, Clear,
                RemoveReference, disk, files
  <2>2. tool.step = "anchor" /\ anchor' = tool.on.new /\ tool'.step = "document"
        /\ tool'.on = tool.on
    BY <1>4, <2>1 DEF WriteAnchor
  <2>3. anchor' = anchor + 1 /\ anchor \in Revision /\ anchor' \in Revision
    BY <1>3, <2>2 DEF AnswerInv, LogShapes, IInv, Shapes
  <2>4. Human' = Human /\ Reviewed' = Reviewed /\ InLog' = InLog
    BY <1>2 DEF Human, Reviewed, InLog
  <2>5. \A i, r : Answered(i, r)' <=> Answered(i, r)
    BY <1>2, <2>4 DEF Answered
  <2>6. LogShapes'
    BY <1>2, <1>3, <2>2 DEF AnswerInv, LogShapes, Framing, Publishing, Closing
  <2>7. ContractsAnswer'
    <3>1. Finalized' \subseteq Finalized
      BY <2>2, <2>3 DEF Finalized, Revision
    <3> QED BY <1>2, <2>4, <2>5, <3>1 DEF AnswerInv, ContractsAnswer
  <2>8. MarkersAnswer'
    <3> SUFFICES ASSUME NEW k \in InLog \cup deferred PROVE k.contract <= anchor'
      BY <1>2, <2>4, <2>5 DEF AnswerInv, MarkersAnswer
    <3>1. log \in Seq(Entry)
      BY DEF AnswerInv, LogShapes
    <3>2. k \in Entry /\ k.kind = "marker"
      BY <3>1, HumanPlaces DEF AnswerInv, LogShapes, InLog
    <3>3. k.contract \in Revision /\ k.contract <= anchor
      BY <3>2 DEF Entry, AnswerInv, MarkersAnswer
    <3> QED BY <2>3, <3>3 DEF Revision
  <2>9. BoundaryIsRecorded'
    BY <1>2, <2>2 DEF AnswerInv, BoundaryIsRecorded, Framing, Publishing, Closing
  <2> QED BY <1>1, <2>6, <2>7, <2>8, <2>9 DEF AnswerInv
<1> QED BY <1>7, <1>8

\* The marker of a reframe stays within what its contract records.
LEMMA AdoptKeepsAnswers ==
  ASSUME AnswerInv, Adopt
  PROVE  AnswerInv'
<1> DEFINE k == Marker(tool.on.new, tool.on.through, tool.on.messages, "reframed")
           new == tool.on.new
<1>1. IInv'
  BY AdoptKeeps DEF AnswerInv
<1>2. UNCHANGED <<log, content, anchor>> /\ tool.step = "removing" /\ tool'.step = "idle"
      /\ deferred' = {k}
  BY DEF Adopt, disk, files, Idle
<1>3. anchor = new /\ new \in Revision
  BY <1>2 DEF AnswerInv, IInv, Shapes, ToolFollowsFiles, Framing, Publishing, Closing
<1>4. tool.on.through \in Nat /\ tool.on.messages \subseteq Input
      /\ tool.on.through <= content[new].at
  BY <1>2 DEF AnswerInv, LogShapes, BoundaryIsRecorded, Framing, Publishing, Closing
<1>5. new \in Finalized
  BY <1>3 DEF Finalized, Revision
<1>6. content[new].at \in Nat /\ content[new].at <= Len(log) /\ Len(log) \in Nat
      /\ Human \subseteq 1..Len(log)
  BY <1>5, HumanPlaces DEF AnswerInv, LogShapes, ContractsAnswer
<1>7. k \in Entry /\ k.kind = "marker" /\ k.contract = anchor /\ k.through = tool.on.through
  BY <1>3, <1>4 DEF Marker, Entry
<1>8. k.through <= Len(log)
  BY <1>4, <1>6, <1>7
<1>9. \A i \in Human : i <= k.through => Answered(i, anchor)
  <2>1. \A i \in Human : i <= k.through => i <= content[new].at
    BY <1>4, <1>6, <1>7
  <2> QED BY <1>3, <1>5, <2>1 DEF AnswerInv, ContractsAnswer
<1>10. Human' = Human /\ Reviewed' = Reviewed /\ InLog' = InLog
  BY <1>2 DEF Human, Reviewed, InLog
<1>11. \A i, c : Answered(i, c)' <=> Answered(i, c)
  BY <1>2, <1>10 DEF Answered
<1> HIDE DEF k
<1>12. LogShapes'
  BY <1>2, <1>7 DEF AnswerInv, LogShapes, Framing, Publishing, Closing
<1>13. ContractsAnswer'
  <2>1. Finalized' \subseteq Finalized
    BY <1>2 DEF Finalized
  <2> QED BY <1>2, <1>10, <1>11, <2>1 DEF AnswerInv, ContractsAnswer
<1>14. MarkersAnswer'
  <2>1. anchor <= anchor
    BY <1>3 DEF Revision
  <2> QED BY <1>2, <1>7, <1>8, <1>9, <1>10, <1>11, <2>1 DEF AnswerInv, MarkersAnswer
<1>15. BoundaryIsRecorded'
  BY <1>2 DEF BoundaryIsRecorded, Framing, Publishing, Closing
<1> QED BY <1>1, <1>12, <1>13, <1>14, <1>15 DEF AnswerInv

\* Every step keeps the invariant.
LEMMA NextAnswerInv == AnswerInv /\ [Next]_vars => AnswerInv'
<1> SUFFICES ASSUME AnswerInv, [Next]_vars PROVE AnswerInv'
  OBVIOUS
<1>1. ASSUME NEW m \in Input, Insert(m) \/ Deliver(m) PROVE AnswerInv'
  BY <1>1, DeliveryKeepsAnswers
<1>2. CASE \/ \E s \in Session : Revoke(s) \/ Delegate(s)
           \/ \E w \in writes : Record(w)
           \/ \E s \in Session : Read(s) \/ Refresh(s) \/ Guard(s) \/ Enter(s) \/ Result(s)
  BY <1>2, WorkKeepsAnswers
<1>3. CASE MarkerFollows
  BY <1>3, MarkerKeepsAnswers
<1>4. CASE \/ BeginReview \/ EndReview \/ BeginCommit
         \/ CallReframe \/ BeginReframe \/ EndConsume \/ Frame \/ Crash \/ Restart
  BY <1>4, OthersKeepAnswers
<1>5. CASE EndCommit
  BY <1>5, CommitKeepsAnswers
<1>6. CASE Finalize
  BY <1>6, FinalizeKeepsAnswers
<1>7. CASE \/ WriteAnchor \/ WriteDocument \/ WriteRecord \/ BindGraph
           \/ Check \/ Release \/ Drain \/ Clear \/ \E m \in ChildInput : RemoveReference(m)
  BY <1>7, PublishingKeepsAnswers
<1>8. CASE Adopt
  BY <1>8, AdoptKeepsAnswers
<1>9. CASE UNCHANGED vars
  <2>1. IInv'
    BY <1>9, NextIInv DEF AnswerInv
  <2>2. UNCHANGED <<log, content, anchor, deferred, tool>>
    BY <1>9 DEF vars, disk, files
  <2>3. tool.step \in Resting \cup Framing \cup Publishing
    BY DEF AnswerInv, IInv, Shapes
  <2> QED BY <2>1, <2>2, <2>3, AnswersAtRest
<1> QED BY <1>1, <1>2, <1>3, <1>4, <1>5, <1>6, <1>7, <1>8, <1>9 DEF Next

-----------------------------------------------------------------------------
(* The theorem.                                                             *)

\* When a guarded body starts, each human message in the root's log is an
\* authority source of the accepted contract or is named by a review in the
\* log, whatever came in while another one was reviewed, whatever marker a
\* crash swallowed, and however often the contract was replaced.
THEOREM NoInputIsLost == Spec => EveryInputIsAnswered
<1>1. AnswerInv /\ BodyOfEach /\ [Next]_vars =>
        [\A s \in Session : Starts(s) =>
           Said(Human) \subseteq content[anchor].sources \cup Reviewed]_vars
  <2> SUFFICES ASSUME AnswerInv, BodyOfEach, Next, NEW s \in Session, Starts(s)
               PROVE  Said(Human) \subseteq content[anchor].sources \cup Reviewed
    OBVIOUS
  <2>1. Enter(s)
    BY OnlyEnterStarts
  <2>2. Pending(anchor) = {}
    BY <2>1 DEF Enter, MayEnter, InputWaits
  <2>3. anchor \in Revision /\ anchor <= anchor
    BY DEF AnswerInv, IInv, Shapes, Revision
  <2>4. \A i \in Human : Answered(i, anchor)
    BY <2>2, <2>3, PendingIsTheRest
  <2> QED BY <2>4 DEF Said, Answered
<1> QED BY <1>1, InitAnswerInv, NextAnswerInv, InitBody, NextBody, PTL
        DEF Spec, EveryInputIsAnswered
-----------------------------------------------------------------------------
(* Type correctness.  TypeOK is inductive with the shapes of what is       *)
(* carried from one step to the next: the fences being recorded, a marker  *)
(* on its way to the log, and the contract in the making.                  *)

Written == Revision \cup {None}

CarriedShapes ==
  /\ \A w \in writes : w.input \in ChildInput /\ w.basis \in Written
  /\ \A marker \in deferred : marker.messages \subseteq RootInput
  /\ tool.step \in {"called"} \cup Framing => tool.on.known \subseteq ChildInput
  /\ tool.step \in Publishing => tool.on.messages \subseteq RootInput

TypeInv == AnswerInv /\ TypeOK /\ CarriedShapes

\* Which actions change what is on disk and what waits in the process.
LEMMA WhoWrites ==
  ASSUME Shapes, Next
  PROVE  /\ content' = content \/ Finalize
         /\ log' = log \/ (\E m \in Input : Deliver(m)) \/ MarkerFollows
         /\ received' = received \/ \E m \in Input : Deliver(m)
         /\ fence' = fence \/ (\E w \in writes : Record(w)) \/ \E m \in ChildInput : RemoveReference(m)
<1>1. content' = content \/ Finalize
  BY DEF Next, Insert, Deliver, Revoke, Delegate, Record, Read, Refresh, Guard, Enter, Result, BeginReview,
         EndReview, BeginCommit, EndCommit, MarkerFollows, CallReframe, BeginReframe, Capture, Consume,
         EndConsume, Frame,
         WriteAnchor, WriteDocument, WriteRecord, BindGraph, Check, Release, Drain, Clear,
         RemoveReference, Adopt, Crash, Restart, disk
<1>2. log' = log \/ (\E m \in Input : Deliver(m)) \/ MarkerFollows
  BY DEF Next, Insert, Revoke, Delegate, Record, Read, Refresh, Guard, Enter, Result, BeginReview,
         EndReview, BeginCommit, EndCommit, CallReframe, BeginReframe,
         Capture, Consume, EndConsume, Frame, Finalize,
         WriteAnchor, WriteDocument, WriteRecord, BindGraph, Check, Release, Drain, Clear,
         RemoveReference, Adopt, Crash, Restart, disk
<1>3. received' = received \/ \E m \in Input : Deliver(m)
  BY DEF Next, Insert, Revoke, Delegate, Record, Read, Refresh, Guard, Enter, Result, BeginReview,
         EndReview, BeginCommit, EndCommit, MarkerFollows, CallReframe, BeginReframe,
         Capture, Consume, EndConsume, Frame, Finalize,
         WriteAnchor, WriteDocument, WriteRecord, BindGraph, Check, Release, Drain, Clear,
         RemoveReference, Adopt, Crash, Restart, disk
<1>4. fence' = fence \/ (\E w \in writes : Record(w)) \/ \E m \in ChildInput : RemoveReference(m)
  BY DEF Next, Insert, Deliver, Revoke, Delegate, Read, Refresh, Guard, Enter, Result, BeginReview,
         EndReview, BeginCommit, EndCommit, MarkerFollows, CallReframe, BeginReframe,
         Capture, Consume, EndConsume, Frame, Finalize,
         WriteAnchor, WriteDocument, WriteRecord, BindGraph, Check, Release, Drain, Clear,
         Adopt, Crash, Restart, disk
<1> QED BY <1>1, <1>2, <1>3, <1>4

\* What was said and is pending was said to the root.
LEMMA SaidIsInput ==
  ASSUME TypeOK, NEW places, places \subseteq Human
  PROVE  Said(places) \subseteq RootInput
<1> SUFFICES ASSUME NEW i \in places PROVE log[i].input \in RootInput
  BY DEF Said
<1>1. i \in DOMAIN log /\ log[i].kind = "input"
  BY DEF Human
<1> QED BY <1>1 DEF TypeOK

LEMMA PendingIsHuman ==
  ASSUME NEW c
  PROVE  Pending(c) \subseteq Human
BY DEF Pending

LEMMA FilesTyped ==
  ASSUME TypeInv, Next
  PROVE  {anchor, document, record, graph}' \subseteq Revision
<1>1. IInv' /\ IInv /\ Shapes
  BY NextIInv DEF TypeInv, AnswerInv, IInv
<1>2. document' = document \/ document' \in Revision
  BY <1>1 DEF Next, Insert, Deliver, Revoke, Delegate, Record, Read, Refresh, Guard, Enter, Result,
         BeginReview, EndReview, BeginCommit, EndCommit, MarkerFollows, CallReframe, BeginReframe,
         Capture, Consume, EndConsume, Frame, Finalize,
         WriteAnchor, WriteDocument, WriteRecord, BindGraph, Check, Release, Drain, Clear,
         RemoveReference, Adopt, Crash, Restart, disk, files, Shapes, Publishing
<1>3. record' = record \/ record' \in Revision
  BY <1>1 DEF Next, Insert, Deliver, Revoke, Delegate, Record, Read, Refresh, Guard, Enter, Result,
         BeginReview, EndReview, BeginCommit, EndCommit, MarkerFollows, CallReframe, BeginReframe,
         Capture, Consume, EndConsume, Frame, Finalize,
         WriteAnchor, WriteDocument, WriteRecord, BindGraph, Check, Release, Drain, Clear,
         RemoveReference, Adopt, Crash, Restart, disk, files, Shapes, Publishing
<1>4. graph' = graph \/ graph' \in Revision
  BY <1>1 DEF Next, Insert, Deliver, Revoke, Delegate, Record, Read, Refresh, Guard, Enter, Result,
         BeginReview, EndReview, BeginCommit, EndCommit, MarkerFollows, CallReframe, BeginReframe,
         Capture, Consume, EndConsume, Frame, Finalize,
         WriteAnchor, WriteDocument, WriteRecord, BindGraph, Check, Release, Drain, Clear,
         RemoveReference, Adopt, Crash, Restart, disk, files, Shapes, Publishing
<1>5. anchor' \in Revision
  BY <1>1 DEF IInv, Shapes
<1> QED BY <1>2, <1>3, <1>4, <1>5 DEF TypeInv, TypeOK

LEMMA ContentTyped ==
  ASSUME TypeInv, Next
  PROVE  content' \in [Revision -> Contracts]
<1>1. CASE content' = content
  BY <1>1 DEF TypeInv, TypeOK
<1>2. CASE Finalize
  <2> DEFINE t == tool.on
             new == NextRevision(t.previous)
             r == Recorded(t.previous, t.known)
  <2>1. CASE content' = [content EXCEPT ![new] = r] /\ MayReplace(t.previous, t.untrusted)
    <3>1. t.previous \in Revision
      BY <2>1 DEF MayReplace, TypeInv, TypeOK
    <3>2. Len(log) \in Nat
      BY DEF TypeInv, AnswerInv, LogShapes
    <3>3. content[t.previous].sources \subseteq RootInput
      BY <3>1 DEF TypeInv, TypeOK, Contracts
    <3>4. Said(Pending(t.previous)) \subseteq RootInput
      BY PendingIsHuman, SaidIsInput DEF TypeInv
    <3>5. t.known \subseteq ChildInput
      BY <1>2 DEF TypeInv, CarriedShapes, Finalize, Framing
    <3>6. r \in Contracts
      BY <3>2, <3>3, <3>4, <3>5 DEF Recorded, Contracts
    <3> HIDE DEF r, new
    <3> QED BY <2>1, <3>6 DEF TypeInv, TypeOK
  <2>2. CASE content' = content
    BY <2>2, <1>1
  <2> QED BY <1>2, <2>1, <2>2 DEF Finalize
<1> QED BY <1>1, <1>2, WhoWrites DEF TypeInv, AnswerInv, IInv

\* An entry of the log has the shape its writer gave it.
LogTyped ==
  \A i \in DOMAIN log :
    \/ log[i] \in [kind : {"input"}, input : RootInput]
    \/ /\ log[i].kind = "marker" /\ log[i].contract \in Revision
       /\ log[i].through \in 0..(i - 1) /\ log[i].messages \subseteq RootInput

LEMMA LogStaysTyped ==
  ASSUME TypeInv, Next
  PROVE  LogTyped'
<1>1. LogTyped /\ log \in Seq(Entry) /\ Len(log) \in Nat /\ DOMAIN log = 1..Len(log)
  BY DEF TypeInv, TypeOK, LogTyped, AnswerInv, LogShapes
<1>2. ASSUME NEW e \in Entry, log' = Append(log, e),
             \/ e \in [kind : {"input"}, input : RootInput]
             \/ /\ e.kind = "marker" /\ e.contract \in Revision
                /\ e.through \in 0..Len(log) /\ e.messages \subseteq RootInput
      PROVE  LogTyped'
  <2>1. /\ DOMAIN log' = 1..(Len(log) + 1) /\ log'[Len(log) + 1] = e
        /\ \A i \in 1..Len(log) : log'[i] = log[i]
    BY <1>1, <1>2
  <2> SUFFICES ASSUME NEW i \in 1..(Len(log) + 1)
               PROVE  \/ log'[i] \in [kind : {"input"}, input : RootInput]
                      \/ /\ log'[i].kind = "marker" /\ log'[i].contract \in Revision
                         /\ log'[i].through \in 0..(i - 1) /\ log'[i].messages \subseteq RootInput
    BY <2>1 DEF LogTyped
  <2>2. CASE i = Len(log) + 1
    BY <1>1, <1>2, <2>1, <2>2
  <2>3. CASE i # Len(log) + 1
    <3>1. i \in 1..Len(log)
      BY <1>1, <2>3
    <3> QED BY <1>1, <2>1, <3>1 DEF LogTyped
  <2> QED BY <2>2, <2>3
<1>3. CASE log' = log
  BY <1>1, <1>3 DEF LogTyped
<1>4. ASSUME NEW m \in Input, Deliver(m) PROVE LogTyped'
  <2>1. CASE m \in RootInput
    <3> DEFINE e == [kind |-> "input", input |-> m]
    <3>1. log' = Append(log, e)
      BY <1>4, <2>1 DEF Deliver
    <3>2. e \in Entry /\ e \in [kind : {"input"}, input : RootInput]
      BY <2>1 DEF Entry
    <3> HIDE DEF e
    <3> QED BY <1>2, <3>1, <3>2
  <2>2. CASE m \notin RootInput
    BY <1>3, <1>4, <2>2 DEF Deliver
  <2> QED BY <2>1, <2>2
<1>5. CASE MarkerFollows
  <2>1. PICK marker \in deferred : log' = Append(log, marker)
    BY <1>5 DEF MarkerFollows
  <2>2. marker \in Entry /\ marker.kind = "marker" /\ marker.messages \subseteq RootInput
    BY DEF TypeInv, CarriedShapes, AnswerInv, LogShapes
  <2>3. marker.through <= Len(log)
    BY DEF TypeInv, AnswerInv, MarkersAnswer
  <2>4. marker.contract \in Revision /\ marker.through \in Nat
    BY <2>2 DEF Entry
  <2>5. marker.through \in 0..Len(log)
    BY <1>1, <2>3, <2>4
  <2> QED BY <1>2, <2>1, <2>2, <2>4, <2>5
<1> QED BY <1>3, <1>4, <1>5, WhoWrites DEF TypeInv, AnswerInv, IInv

LEMMA FencesTyped ==
  ASSUME TypeInv, Next
  PROVE  received' \subseteq ChildInput /\ fence' \in [ChildInput -> Written \cup {Dangling}]
<1>1. Shapes /\ received \subseteq ChildInput /\ fence \in [ChildInput -> Written \cup {Dangling}]
  BY DEF TypeInv, TypeOK, AnswerInv, IInv, Written
<1>2. received' \subseteq ChildInput
  BY <1>1, WhoWrites, ContractAssumption DEF Deliver, Input
<1>3. ASSUME NEW w \in writes, Record(w) PROVE fence' \in [ChildInput -> Written \cup {Dangling}]
  <2>1. w.input \in ChildInput /\ w.basis \in Written
    BY DEF TypeInv, CarriedShapes
  <2>2. fence' \in {fence, [fence EXCEPT ![w.input] = w.basis], [fence EXCEPT ![w.input] = Dangling]}
    BY <1>3 DEF Record
  <2> QED BY <1>1, <2>1, <2>2
<1>4. ASSUME NEW m \in ChildInput, RemoveReference(m)
      PROVE  fence' \in [ChildInput -> Written \cup {Dangling}]
  BY <1>1, <1>4 DEF RemoveReference, Written
<1> QED BY <1>1, <1>2, <1>3, <1>4, WhoWrites

\* What a session holds names contracts that were published, or none.
SessionsTyped ==
  /\ control \in [Session -> [contract : Written, reframe : BOOLEAN]]
  /\ auth \in [Session -> [basis : Written, reading : Written, prepared : Written]]
  /\ body \in [Session -> Written]

LEMMA SessionsStayTyped ==
  ASSUME TypeInv, Next
  PROVE  SessionsTyped'
<1> DEFINE Cs == [Session -> [contract : Written, reframe : BOOLEAN]]
           As == [Session -> [basis : Written, reading : Written, prepared : Written]]
           Bs == [Session -> Written]
<1>1. control \in Cs /\ auth \in As /\ body \in Bs /\ SessionsTyped
  BY DEF TypeInv, TypeOK, Written, SessionsTyped
<1>2. anchor \in Written /\ record \in Written /\ None \in Written /\ Root \in Session
  BY RootIsSession DEF TypeInv, TypeOK, Written
<1>3. AllMustReframe(control) \in Cs
  BY <1>1 DEF AllMustReframe
<1>4. [s \in Session |-> NoAuthority] \in As /\ NoAuthority \in [basis : Written, reading : Written, prepared : Written]
  BY <1>2 DEF NoAuthority
<1>5. ASSUME NEW m \in Input, Insert(m) \/ Deliver(m) PROVE SessionsTyped'
  BY <1>1, <1>3, <1>4, <1>5 DEF Insert, Deliver, RevokeAll, SessionsTyped
<1>6. ASSUME NEW s \in Session, Revoke(s) \/ Delegate(s) PROVE SessionsTyped'
  BY <1>1, <1>2, <1>4, <1>6 DEF Revoke, Delegate, RevokeAll, SessionsTyped
<1>7. ASSUME NEW w \in writes, Record(w) PROVE SessionsTyped'
  BY <1>1, <1>3, <1>7 DEF Record, SessionsTyped
<1>8. ASSUME NEW s \in Session, Read(s) \/ Refresh(s) \/ Enter(s) \/ Result(s) PROVE SessionsTyped'
  <2> DEFINE A == [basis : Written, reading : Written, prepared : Written]
  <2>1. auth[s] \in A /\ auth[s] = [basis |-> auth[s].basis, reading |-> auth[s].reading, prepared |-> auth[s].prepared]
    BY <1>1
  <2>2. CASE Read(s)
    BY <1>1, <1>2, <2>2 DEF Read, SessionsTyped
  <2>3. CASE Refresh(s)
    <3> DEFINE a == [auth[s] EXCEPT !.reading = None, !.basis = auth[s].reading]
    <3>1. a \in A
      BY <1>2, <2>1
    <3>2. auth' = [auth EXCEPT ![s] = a] /\ body' = body
          /\ control' = [control EXCEPT ![s].contract = auth[s].reading]
      BY <2>3 DEF Refresh
    <3> HIDE DEF a
    <3>3. auth' \in As
      BY <1>1, <3>1, <3>2
    <3>4. control' \in Cs
      BY <1>1, <2>1, <3>2
    <3> QED BY <1>1, <3>2, <3>3, <3>4 DEF SessionsTyped
  <2>4. CASE Enter(s)
    BY <1>1, <1>2, <2>4 DEF Enter, SessionsTyped
  <2>5. CASE Result(s)
    BY <1>1, <1>2, <2>5 DEF Result, SessionsTyped
  <2> QED BY <1>8, <2>2, <2>3, <2>4, <2>5
<1>9. ASSUME NEW s \in Session, Guard(s) PROVE SessionsTyped'
  <2> DEFINE consumed == [NoAuthority EXCEPT !.prepared = auth[s].basis]
  <2>1. consumed \in [basis : Written, reading : Written, prepared : Written]
    BY <1>1, <1>2 DEF NoAuthority
  <2>2. auth' \in {[auth EXCEPT ![s] = consumed], [auth EXCEPT ![s] = NoAuthority]}
        /\ control' \in {control, [control EXCEPT ![s].reframe = TRUE]} /\ body' = body
    BY <1>9 DEF Guard
  <2> HIDE DEF consumed
  <2>3. auth' \in As
    BY <1>1, <1>4, <2>1, <2>2
  <2>4. control' \in Cs
    BY <1>1, <2>2
  <2> QED BY <1>1, <2>2, <2>3, <2>4 DEF SessionsTyped
<1>10. CASE BeginReview \/ EndReview \/ BeginCommit
  BY <1>1, <1>2, <1>4, <1>10 DEF BeginReview, EndReview, BeginCommit, RevokeAll, SessionsTyped
<1>11. CASE EndCommit
  <2>1. auth' \in {auth, [s \in Session |-> NoAuthority]} /\ body' = body
        /\ control' \in {control, AllMustReframe(control),
                         [s \in Session |-> [control[s] EXCEPT !.contract = record]]}
    BY <1>11 DEF EndCommit, RevokeAll
  <2>2. [s \in Session |-> [control[s] EXCEPT !.contract = record]] \in Cs
    BY <1>1, <1>2
  <2> QED BY <1>1, <1>3, <1>4, <2>1, <2>2 DEF SessionsTyped
<1>12. CASE CallReframe \/ BeginReframe \/ EndConsume \/ Frame
  <2>1. auth' \in {auth, [s \in Session |-> NoAuthority], [auth EXCEPT ![Root] = NoAuthority]}
        /\ control' \in {control, [control EXCEPT ![Root].reframe = TRUE],
              [control EXCEPT ![Root].reframe = control[Root].reframe \/ document # record]}
        /\ body' = body
    BY <1>12 DEF CallReframe, BeginReframe, Capture, Consume, EndConsume, Frame, RevokeAll
  <2>2. (control[Root].reframe \/ document # record) \in BOOLEAN
    OBVIOUS
  <2> QED BY <1>1, <1>2, <1>4, <2>1, <2>2 DEF SessionsTyped
<1>13. CASE Adopt
  <2>1. tool.on.new \in Written
    BY <1>13 DEF Adopt, TypeInv, AnswerInv, IInv, Shapes, Framing, Publishing, Closing, Written
  <2> QED BY <1>1, <1>4, <1>13, <2>1 DEF Adopt, RevokeAll, SessionsTyped
<1>14. CASE Crash \/ Restart
  <2>1. CASE Crash
    BY <1>2, <1>4, <2>1 DEF Crash, Blank, Nobody, SessionsTyped
  <2>2. CASE Restart
    <3>1. Trusted \in Written /\ Untrusted \in BOOLEAN
      BY <1>2 DEF Trusted, Untrusted
    <3> QED BY <1>1, <2>2, <3>1 DEF Restart, SessionsTyped
  <2> QED BY <1>14, <2>1, <2>2
<1>15. CASE Release
  BY <1>1, <1>4, <1>15 DEF Release, SessionsTyped
<1>16. CASE \/ MarkerFollows \/ Finalize \/ WriteAnchor \/ WriteDocument \/ WriteRecord \/ BindGraph
            \/ Check \/ Drain \/ Clear \/ \E m \in ChildInput : RemoveReference(m)
  <2>1. UNCHANGED <<control, auth, body>>
    BY <1>16 DEF MarkerFollows, Finalize, WriteAnchor, WriteDocument, WriteRecord, BindGraph, Check,
                 Drain, Clear, RemoveReference
  <2> QED BY <1>1, <2>1 DEF SessionsTyped
<1> QED BY <1>5, <1>6, <1>7, <1>8, <1>9, <1>10, <1>11, <1>12, <1>13, <1>14, <1>15, <1>16 DEF Next

\* What waits in the process: input, reviews and the marker of one tool.
WaitingTyped ==
  /\ inbox \subseteq Input /\ staged \subseteq inbox
  /\ Cardinality(review) <= 1 /\ Cardinality(deferred) <= 1

LEMMA AtMostOne ==
  ASSUME NEW S, NEW e, S = {} \/ S = {e}
  PROVE  Cardinality(S) <= 1
BY FS_EmptySet, FS_Singleton

LEMMA WaitingStaysTyped ==
  ASSUME TypeInv, Next
  PROVE  WaitingTyped'
<1>1. WaitingTyped /\ inbox \subseteq Input /\ staged \subseteq inbox
  BY DEF TypeInv, TypeOK, WaitingTyped
<1>2. inbox' \subseteq Input /\ staged' \subseteq inbox'
  <2>1. ASSUME NEW m \in Input, Insert(m) \/ Deliver(m) PROVE inbox' \subseteq Input /\ staged' \subseteq inbox'
    BY <1>1, <2>1 DEF Insert, Deliver
  <2>2. \/ \E m \in Input : Insert(m) \/ Deliver(m)
        \/ inbox' = inbox /\ staged' \in {staged, {}}
        \/ inbox' = {} /\ staged' = {}
    BY DEF Next, Revoke, Delegate, Record, Read, Refresh, Guard, Enter, Result,
           BeginReview, EndReview, BeginCommit, EndCommit, MarkerFollows, CallReframe, BeginReframe,
         Capture, Consume, EndConsume, Frame, Finalize,
           WriteAnchor, WriteDocument, WriteRecord, BindGraph, Check, Release, Drain, Clear,
           RemoveReference, Adopt, Crash, Restart
  <2> QED BY <1>1, <2>1, <2>2
<1>3. Cardinality(review') <= 1
  <2>1. review' = review \/ review' = {} \/ \E e : review' = {e}
    BY DEF Next, Insert, Deliver, Revoke, Delegate, Record, Read, Refresh, Guard, Enter, Result,
           BeginReview, EndReview, BeginCommit, EndCommit, MarkerFollows, CallReframe, BeginReframe,
         Capture, Consume, EndConsume, Frame, Finalize,
           WriteAnchor, WriteDocument, WriteRecord, BindGraph, Check, Release, Drain, Clear,
           RemoveReference, Adopt, Crash, Restart, RevokeAll
  <2> QED BY <1>1, <2>1, AtMostOne DEF WaitingTyped
<1>4. Cardinality(deferred') <= 1
  <2>1. deferred' = deferred \/ deferred' = {} \/ \E e : deferred' = {e}
    BY DEF Next, Insert, Deliver, Revoke, Delegate, Record, Read, Refresh, Guard, Enter, Result,
           BeginReview, EndReview, BeginCommit, EndCommit, MarkerFollows, CallReframe, BeginReframe,
         Capture, Consume, EndConsume, Frame, Finalize,
           WriteAnchor, WriteDocument, WriteRecord, BindGraph, Check, Release, Drain, Clear,
           RemoveReference, Adopt, Crash, Restart
  <2> QED BY <1>1, <2>1, AtMostOne DEF WaitingTyped
<1> QED BY <1>2, <1>3, <1>4 DEF WaitingTyped

LEMMA BudgetTyped ==
  ASSUME TypeInv, Next
  PROVE  level' \in {"contract", "lattice"} /\ budget' \in Budget
<1>1. level \in {"contract", "lattice"} /\ budget \in Budget
  BY DEF TypeInv, TypeOK
<1>2. level' = level
  BY DEF Next, Insert, Deliver, Revoke, Delegate, Record, Read, Refresh, Guard, Enter, Result,
         BeginReview, EndReview, BeginCommit, EndCommit, MarkerFollows, CallReframe, BeginReframe,
         Capture, Consume, EndConsume, Frame, Finalize,
         WriteAnchor, WriteDocument, WriteRecord, BindGraph, Check, Release, Drain, Clear,
         RemoveReference, Adopt, Crash, Restart
<1>3. \/ budget' = budget
      \/ budget.revocations > 0 /\ budget' = [budget EXCEPT !.revocations = @ - 1]
      \/ budget.faults > 0 /\ budget' = [budget EXCEPT !.faults = @ - 1]
      \/ budget.reframes > 0 /\ budget' = [budget EXCEPT !.reframes = @ - 1]
      \/ budget.crashes > 0 /\ budget' = [budget EXCEPT !.crashes = @ - 1]
  BY DEF Next, Insert, Deliver, Revoke, Delegate, Record, Read, Refresh, Guard, Enter, Result,
         BeginReview, EndReview, BeginCommit, EndCommit, MarkerFollows, CallReframe, BeginReframe,
         Capture, Consume, EndConsume, Frame, Finalize,
         WriteAnchor, WriteDocument, WriteRecord, BindGraph, Check, Release, Drain, Clear,
         RemoveReference, Adopt, Crash, Restart
<1>4. budget' \in Budget
  BY <1>1, <1>3 DEF Budget
<1> QED BY <1>1, <1>2, <1>4

LEMMA CarriedStaysShaped ==
  ASSUME TypeInv, Next
  PROVE  CarriedShapes'
<1>1. CarriedShapes /\ Shapes /\ IInv' /\ SessionsTyped /\ SessionsTyped'
  BY NextIInv, SessionsStayTyped DEF TypeInv, AnswerInv, IInv, SessionsTyped, TypeOK, Written
<1>2. received \subseteq ChildInput /\ Fenced \subseteq ChildInput
  BY DEF TypeInv, TypeOK, Fenced
<1>3. \A w \in writes' : w.input \in ChildInput /\ w.basis \in Written
  <2>1. ASSUME NEW m \in ChildInput PROVE \A w \in Queued(m) : w.input \in ChildInput /\ w.basis \in Written
    <3>1. Recipient[m] \in Session
      BY ContractAssumption DEF Session
    <3>2. control[Recipient[m]].contract \in Written
      BY <1>1, <3>1 DEF SessionsTyped
    <3> QED BY <1>1, <3>2 DEF Queued, CarriedShapes
  <2>2. \/ \E m \in ChildInput : writes' = Queued(m)
        \/ writes' \subseteq writes
    <3>1. ASSUME NEW m \in Input, Insert(m) \/ Deliver(m)
          PROVE  (\E n \in ChildInput : writes' = Queued(n)) \/ writes' \subseteq writes
      BY <3>1 DEF Insert, Deliver, Input
    <3>2. (\E m \in Input : Insert(m) \/ Deliver(m)) \/ writes' \subseteq writes
      BY DEF Next, Revoke, Delegate, Record, Read, Refresh, Guard, Enter, Result,
             BeginReview, EndReview, BeginCommit, EndCommit, MarkerFollows, CallReframe, BeginReframe,
         Capture, Consume, EndConsume, Frame, Finalize,
             WriteAnchor, WriteDocument, WriteRecord, BindGraph, Check, Release, Drain, Clear,
             RemoveReference, Adopt, Crash, Restart
    <3> QED BY <3>1, <3>2
  <2> QED BY <1>1, <2>1, <2>2 DEF CarriedShapes
<1>4. \A marker \in deferred' : marker.messages \subseteq RootInput
  <2>1. deferred' \subseteq deferred \/ EndCommit \/ Adopt
    BY DEF Next, Insert, Deliver, Revoke, Delegate, Record, Read, Refresh, Guard, Enter, Result,
           BeginReview, EndReview, BeginCommit, MarkerFollows, CallReframe, BeginReframe,
         Capture, Consume, EndConsume, Frame, Finalize,
           WriteAnchor, WriteDocument, WriteRecord, BindGraph, Check, Release, Drain, Clear,
           RemoveReference, Crash, Restart
  <2>2. ASSUME EndCommit, NEW marker \in deferred' PROVE marker.messages \subseteq RootInput
    <3>1. CASE deferred' = deferred
      BY <1>1, <3>1 DEF CarriedShapes
    <3>2. CASE deferred' # deferred
      <4>1. PICK r \in tool.on, d \in {"unchanged", "changed"} :
              StillReviewed(r) /\ deferred' = {Marker(record, r.through, r.messages, d)}
        BY <2>2, <3>2 DEF EndCommit
      <4>2. marker.messages = Said(Pending(record))
        BY <4>1 DEF Marker, StillReviewed
      <4> QED BY <4>2, PendingIsHuman, SaidIsInput DEF TypeInv
    <3> QED BY <3>1, <3>2
  <2>3. ASSUME Adopt, NEW marker \in deferred' PROVE marker.messages \subseteq RootInput
    <3>1. tool.on.messages \subseteq RootInput
      BY <1>1, <2>3 DEF Adopt, CarriedShapes, Framing, Publishing, Closing
    <3> QED BY <2>3, <3>1 DEF Adopt, Marker
  <2> QED BY <1>1, <2>1, <2>2, <2>3 DEF CarriedShapes
<1>5. /\ tool'.step \in {"called"} \cup Framing => tool'.on.known \subseteq ChildInput
      /\ tool'.step \in Publishing => tool'.on.messages \subseteq RootInput
  <2>1. CASE CallReframe \/ BeginReframe \/ EndConsume \/ Frame
    <3>1. tool'.step \in {"idle", "called"} \cup Framing
      BY <1>1, <2>1 DEF CallReframe, BeginReframe, Capture, Consume, EndConsume, Frame, Idle,
                  Framing, Shapes
    <3>2. \/ tool'.step = "idle"
          \/ tool'.on.known = received \cup Fenced
          \/ tool'.on.known = tool.on.known /\ tool.step \in {"called"} \cup Framing
      BY <1>1, <2>1 DEF CallReframe, BeginReframe, Capture, Consume, EndConsume, Frame, Idle,
                  Framing, Shapes
    <3> QED BY <1>1, <1>2, <3>1, <3>2 DEF CarriedShapes, Framing, Publishing, Closing
  <2>2. CASE Finalize
    <3>1. \/ tool' = Idle
          \/ tool'.step = "anchor" /\ tool'.on.messages = Said(Pending(tool.on.previous))
      BY <2>2 DEF Finalize
    <3>2. Said(Pending(tool.on.previous)) \subseteq RootInput
      BY PendingIsHuman, SaidIsInput DEF TypeInv
    <3> QED BY <3>1, <3>2 DEF Idle, Framing, Publishing, Closing
  <2>3. CASE ~CallReframe /\ ~BeginReframe /\ ~EndConsume /\ ~Frame /\ ~Finalize
    <3>1. \/ tool' = tool \/ tool' = Dead(tool)
          \/ tool'.step \in Resting \ {"called"}
          \/ /\ tool.step \in Publishing /\ tool'.step \notin {"called"} \cup Framing
             /\ tool'.on.messages = tool.on.messages
      <4>1. CASE \/ \E m \in Input : Insert(m) \/ Deliver(m)
                 \/ \E s \in Session : Revoke(s) \/ Delegate(s)
                 \/ \E w \in writes : Record(w)
                 \/ \E s \in Session : Read(s) \/ Refresh(s) \/ Guard(s) \/ Enter(s) \/ Result(s)
        BY <4>1 DEF Insert, Deliver, Revoke, Delegate, Record, Read, Refresh, Guard, Enter, Result
      <4>2. CASE \/ BeginReview \/ EndReview \/ BeginCommit \/ EndCommit \/ MarkerFollows
                 \/ Adopt \/ Crash \/ Restart
        BY <4>2 DEF BeginReview, EndReview, BeginCommit, EndCommit, MarkerFollows,
                    Adopt, Crash, Restart, Resting, Idle
      <4>3. CASE WriteAnchor \/ WriteDocument \/ WriteRecord \/ BindGraph \/ Drain
        BY <1>1, <4>3 DEF WriteAnchor, WriteDocument, WriteRecord, BindGraph, Drain,
                    Resting, Framing, Publishing, Closing, Idle, Shapes
      <4>4. CASE Check \/ Release \/ Clear \/ \E m \in ChildInput : RemoveReference(m)
        <5>1. tool = [step |-> tool.step, live |-> tool.live, on |-> tool.on]
          BY <1>1 DEF Shapes
        <5>2. tool.step \in Publishing
          BY <4>4 DEF Check, Release, Clear, RemoveReference, Framing, Publishing, Closing
        <5>3. tool.on = [new |-> tool.on.new, messages |-> tool.on.messages,
                         through |-> tool.on.through, fences |-> tool.on.fences]
          BY <1>1, <5>2 DEF Shapes
        <5>4. \/ tool' = Idle
              \/ tool' = [tool EXCEPT !.step = "release"]
              \/ \E p \in {"drain", "removing"} : \E f : tool' = [tool EXCEPT !.step = p, !.on.fences = f]
              \/ \E f : tool' = [tool EXCEPT !.on.fences = f]
          BY <4>4 DEF Check, Release, Clear, RemoveReference
        <5>5. \/ tool' = Idle
              \/ tool'.step \in {"release", "drain", "removing", tool.step} /\ tool'.on.messages = tool.on.messages
          BY <5>1, <5>3, <5>4
        <5> QED BY <5>2, <5>5 DEF Idle, Resting, Framing, Publishing, Closing
      <4> QED BY <2>3, <4>1, <4>2, <4>3, <4>4 DEF Next
    <3>2. Dead(tool).step = tool.step /\ Dead(tool).on = tool.on
      BY <1>1, DeadTool
    <3> QED BY <1>1, <3>1, <3>2 DEF CarriedShapes, Resting, Framing, Publishing, Closing
  <2> QED BY <2>1, <2>2, <2>3
<1> QED BY <1>3, <1>4, <1>5 DEF CarriedShapes

LEMMA NextTypeInv == TypeInv /\ [Next]_vars => TypeInv'
<1>1. ASSUME TypeInv, Next PROVE TypeInv'
  <2>1. AnswerInv'
    BY <1>1, NextAnswerInv DEF TypeInv
  <2>2. TypeOK'
    BY <1>1, BudgetTyped, FilesTyped, ContentTyped, LogStaysTyped, FencesTyped, SessionsStayTyped,
       WaitingStaysTyped DEF TypeOK, LogTyped, SessionsTyped, WaitingTyped, Written
  <2> QED BY <1>1, <2>1, <2>2, CarriedStaysShaped DEF TypeInv
<1>2. ASSUME TypeInv, UNCHANGED vars PROVE TypeInv'
  <2>1. AnswerInv'
    BY <1>2, NextAnswerInv DEF TypeInv
  <2> QED BY <1>2, <2>1 DEF TypeInv, TypeOK, CarriedShapes, vars, disk, files
<1> QED BY <1>1, <1>2

\* Files, log and memory keep their types: no contract, fence, marker or
\* authority ever names a revision that was not published, a review boundary
\* lies before its marker, and one receipt and one marker wait at most.
THEOREM ContractTypeCorrect == Spec => []TypeOK
<1>1. Init => TypeInv
  <2> SUFFICES ASSUME Init PROVE TypeInv
    OBVIOUS
  <2>1. AnswerInv
    BY InitAnswerInv
  <2>2. 1 \in Revision /\ 1 \in Written /\ None \in Written
    BY ContractAssumption DEF Revision, Written
  <2>3. level \in {"contract", "lattice"} /\ budget \in Budget
    BY ContractAssumption DEF Init, Budget
  <2>4. content \in [Revision -> Contracts]
    BY DEF Init, Contracts
  <2>5. SessionsTyped /\ fence \in [ChildInput -> Written \cup {Dangling}]
    BY <2>2 DEF Init, SessionsTyped, NoAuthority, Nobody
  <2>6. WaitingTyped
    BY FS_EmptySet DEF Init, WaitingTyped
  <2>7. log = <<>> /\ received = {} /\ anchor = 1 /\ document = 1 /\ record = 1 /\ graph = 1
    BY DEF Init
  <2>8. TypeOK
    BY <2>2, <2>3, <2>4, <2>5, <2>6, <2>7 DEF TypeOK, SessionsTyped, WaitingTyped, Written
  <2>9. CarriedShapes
    BY DEF Init, Idle, CarriedShapes, Framing, Publishing, Closing
  <2> QED BY <2>1, <2>8, <2>9 DEF TypeInv
<1>2. TypeInv => TypeOK
  BY DEF TypeInv
<1> QED BY <1>1, <1>2, NextTypeInv, PTL DEF Spec
=============================================================================
