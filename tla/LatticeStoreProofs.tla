-------------------------- MODULE LatticeStoreProofs --------------------------
(***************************************************************************)
(* Theorems about LatticeStore, for every number of writers, readers and   *)
(* processes, every bound on mutations and crashes, and graphs of every    *)
(* size: the files can always be read back to the committed graph, commits *)
(* only extend it, what failed stays out of it, and reads return it.       *)
(*                                                                         *)
(* Materializing is a fold over ledger lines.  What it computes from a     *)
(* ledger whose first lines are the right ones is shown once (Replay and   *)
(* Materialize below); then FileInv says of each place of a writer what    *)
(* the files hold there, the first lines of the ledger among it.  Only the *)
(* owner of the lock is at such a place, so that a step is checked against *)
(* its own place alone (WriterStep).                                       *)
(***************************************************************************)
EXTENDS LatticeStore, FiniteSetTheorems, SequenceTheorems, TLAPS

\* A sequence is a beginning of another one.
Starts(s, g) == Len(s) <= Len(g) /\ \A i \in 1..Len(s) : s[i] = g[i]

\* The first lines of a ledger are the mutations of g from revision a + 1 to n.
Holds(lines, a, g, n) ==
  /\ Len(lines) >= n - a
  /\ \A i \in 1..(n - a) : lines[i] = [revision |-> a + i, id |-> g[a + i]]

\* The snapshot and the whole ledger are the first n mutations of g.
Exact(g, n) ==
  /\ snapshot # NoFile /\ Starts(snapshot, g) /\ Len(snapshot) <= n
  /\ Len(Lines(ledger)) = n - Len(snapshot)
  /\ Holds(Lines(ledger), Len(snapshot), g, n)

\* The places of a writer that holds the lock, and of a reader.
Mutating == {"load", "normalize", "apply", "append", "commit", "publish", "compact", "truncate"}
Removing == {"removeSnapshot", "removeLedger", "removeVersion"}
Staging == {"stageSnapshot", "stageLedger", "createCommit"}
Locked == Mutating \cup Removing \cup Staging \cup {"createCheck", "mark", "release"}
Reading == {"readLock", "readVersion", "readLedger", "readSnapshot", "readAgain", "readUnlocked"}

\* The shapes of the files, and of what tasks work with.
FileShape ==
  /\ version \in Nat \cup {NoFile} /\ snapshot \in Seq(Nat) \cup {NoFile}
  /\ ledger \in Seq(Line) \cup {NoFile}
  /\ committed \in Seq(Nat) /\ mutations \in Nat
WriterShape ==
  /\ pc \in [Task -> {"idle", "acquire"} \cup Locked \cup Reading]
  /\ base \in [Task -> Seq(Nat)]
  /\ \A t \in Writer : pc[t] \notin Reading
  /\ \A t \in Reader \cup SyncReader : pc[t] \in {"idle"} \cup Reading

\* A writer past its acquisition is the only one and owns the lock.
Exclusive ==
  \A t \in Writer : pc[t] \in Locked =>
    lock = Proc(t) /\ \A u \in Writer : u # t => pc[u] \notin Locked
Committed == version # NoFile /\ version # Pending

\* The ledger continues some beginning of the snapshot, so that lines older
\* than the snapshot (a compaction not finished) and lines after the version
\* (an append not committed) are both allowed for.
FilesSay ==
  /\ Committed => /\ version = Len(committed) /\ snapshot # NoFile
                  /\ Starts(snapshot, committed)
                  /\ \E a \in 0..Len(snapshot) : Holds(Lines(ledger), a, committed, version)
  /\ version = Pending => committed = <<>>
  /\ version = NoFile => committed = IF snapshot = NoFile THEN <<>> ELSE snapshot

\* What the files hold at each place of the writer, and the graph it has.
WriterHas(t) ==
  /\ pc[t] \in Mutating \ {"load"} => version # Pending /\ Starts(committed, base[t])
  /\ pc[t] \in {"normalize", "publish", "compact", "truncate"} => Committed /\ base[t] = committed
  /\ pc[t] = "apply" => Exact(base[t], Len(base[t])) /\ (version # NoFile => base[t] = committed)
  /\ pc[t] \in {"append", "commit"} => /\ Len(committed) < Len(base[t])
                                       /\ version # NoFile => Len(base[t]) = version + 1
  /\ pc[t] = "append" => Exact(base[t], Len(base[t]) - 1)
  /\ pc[t] = "commit" => Exact(base[t], Len(base[t]))
  /\ pc[t] = "truncate" => snapshot = committed
  /\ pc[t] \in Removing \cup Staging => version = Pending
  /\ pc[t] \in {"removeLedger", "removeVersion", "mark"} => snapshot = NoFile
  /\ pc[t] = "mark" => version = NoFile
  /\ pc[t] \in Staging => Len(base[t]) = 1
  /\ pc[t] \in {"stageLedger", "createCommit"} => snapshot = base[t]
  /\ pc[t] = "createCommit" => ledger = <<>>
Writers == \A t \in Writer : WriterHas(t)
-----------------------------------------------------------------------------
(* What materializing computes.                                            *)

LEMMA LeastOf ==
  ASSUME NEW N \in Nat, NEW B \in SUBSET (0..N), B # {}
  PROVE  \E m \in B : \A k \in B : m <= k
<1> DEFINE below == {0..k : k \in B}
<1>1. below \subseteq SUBSET (0..N) /\ below # {}
  <2>1. \A k \in B : 0..k \in SUBSET (0..N)
    OBVIOUS
  <2> QED BY <2>1
<1>2. PICK d \in below : \A e \in below : ~(<<e, d>> \in StrictSubsetOrdering(0..N))
  <2> HIDE DEF below
  <2>1. IsFiniteSet(0..N)
    BY FS_Interval
  <2>2. IsWellFoundedOn(StrictSubsetOrdering(0..N), SUBSET (0..N))
    BY <2>1, FS_StrictSubsetOrderingWellFounded, FS_FiniteSubsetsOfFinite
  <2> QED BY <1>1, <2>2, WFMin
<1>3. \A e \in below : e \subseteq d => e = d
  <2> HIDE DEF below
  <2> QED BY <1>1, <1>2 DEF StrictSubsetOrdering
<1>4. PICK m \in B : d = 0..m
  OBVIOUS
<1>5. ASSUME NEW k \in B, ~(m <= k) PROVE FALSE
  <2>1. 0..k \subseteq 0..m /\ m \notin 0..k /\ m \in 0..m
    BY <1>5
  <2> QED BY <1>3, <1>4, <2>1
<1> QED BY <1>5

\* The states of the materialization, one after each line.
Start(ver, snap) == [ok |-> snap # NoFile /\ ver # Pending, tail |-> FALSE,
                     graph |-> IF snap = NoFile THEN <<>> ELSE snap, kept |-> <<>>]
Replay(ver, lines, snap) ==
  CHOOSE after : after = [i \in 0..Len(lines) |->
    IF i = 0 THEN Start(ver, snap) ELSE ApplyLine(ver, snap, after[i - 1], lines[i])]

LEMMA ReplayIs ==
  ASSUME NEW ver, NEW lines, NEW snap, Len(lines) \in Nat
  PROVE  /\ Replay(ver, lines, snap)[0] = Start(ver, snap)
         /\ \A i \in 1..Len(lines) :
              Replay(ver, lines, snap)[i] = ApplyLine(ver, snap, Replay(ver, lines, snap)[i - 1], lines[i])
<1> DEFINE Walk(f, N) == f = [i \in 0..N |-> IF i = 0 THEN Start(ver, snap)
                                            ELSE ApplyLine(ver, snap, f[i - 1], lines[i])]
           missing == {N \in 0..Len(lines) : ~\E f : Walk(f, N)}
<1>1. missing = {}
  <2> SUFFICES ASSUME missing # {} PROVE FALSE
    OBVIOUS
  <2>1. PICK N \in missing : \A k \in missing : N <= k
    <3> missing \in SUBSET (0..Len(lines)) /\ Len(lines) \in Nat
      OBVIOUS
    <3> HIDE DEF missing
    <3> QED BY LeastOf
  <2>2. N # 0
    <3>1. Walk([k \in 0..0 |-> Start(ver, snap)], 0)
      OBVIOUS
    <3> QED BY <3>1
  <2>3. N \in 1..Len(lines) /\ N - 1 \in 0..Len(lines) /\ N - 1 \notin missing
    <3>1. N \in 0..Len(lines)
      OBVIOUS
    <3>2. N - 1 \notin missing
      <4> HIDE DEF missing
      <4> QED BY <2>1, <3>1
    <3> QED BY <2>2, <3>1, <3>2
  <2>4. PICK f : Walk(f, N - 1)
    BY <2>3
  <2> DEFINE next == [k \in 0..N |-> IF k = N THEN ApplyLine(ver, snap, f[N - 1], lines[N]) ELSE f[k]]
  <2>5. Walk(next, N)
    <3>1. \A k \in 0..(N - 1) : next[k] = f[k] /\ k \in 0..N
      BY <2>3
    <3>2. \A k \in 0..(N - 1) :
            f[k] = IF k = 0 THEN Start(ver, snap) ELSE ApplyLine(ver, snap, f[k - 1], lines[k])
      BY <2>4
    <3>3. next[N] = ApplyLine(ver, snap, next[N - 1], lines[N])
      BY <2>3, <3>1
    <3>4. \A k \in 0..N :
            next[k] = IF k = 0 THEN Start(ver, snap) ELSE ApplyLine(ver, snap, next[k - 1], lines[k])
      <4> SUFFICES ASSUME NEW k \in 0..N
                   PROVE  next[k] = IF k = 0 THEN Start(ver, snap) ELSE ApplyLine(ver, snap, next[k - 1], lines[k])
        OBVIOUS
      <4>1. CASE k = N
        BY <2>2, <3>3, <4>1
      <4>2. CASE k # N
        <5>1. k \in 0..(N - 1) /\ (k # 0 => k - 1 \in 0..(N - 1))
          BY <2>3, <4>2
        <5> HIDE DEF next
        <5> QED BY <3>1, <3>2, <5>1
      <4> QED BY <4>1, <4>2
    <3>5. next = [k \in 0..N |-> next[k]]
      OBVIOUS
    <3> HIDE DEF next
    <3> QED BY <3>4, <3>5
  <2> QED BY <2>1, <2>5
<1>2. \E f : Walk(f, Len(lines))
  <2>1. Len(lines) \in 0..Len(lines)
    OBVIOUS
  <2> QED BY <1>1, <2>1
<1>3. Walk(Replay(ver, lines, snap), Len(lines))
  BY <1>2 DEF Replay
<1> QED BY <1>3

LEMMA MaterializeIs ==
  ASSUME NEW ver, NEW led, NEW snap
  PROVE  Materialize(ver, led, snap) =
           LET result == Replay(ver, Lines(led), snap)[Len(Lines(led))] IN
           IF ~Start(ver, snap).ok THEN Start(ver, snap)
           ELSE [result EXCEPT !.ok = result.ok /\ (ver # NoFile => Len(result.graph) = ver)]
BY DEF Materialize, Replay, Start
-----------------------------------------------------------------------------
Result == [ok : BOOLEAN, tail : BOOLEAN, graph : Seq(Nat), kept : Seq(Line)]
\* A materialization that has read g up to revision r.
Reached(m, snap, g, r) ==
  /\ m \in Result /\ m.ok /\ ~m.tail
  /\ Len(m.graph) = r /\ Starts(m.graph, g)
  /\ Len(m.kept) = r - Len(snap)
  /\ \A j \in 1..(r - Len(snap)) : m.kept[j] = [revision |-> Len(snap) + j, id |-> g[Len(snap) + j]]

LEMMA AppendFacts ==
  ASSUME NEW S, NEW s \in Seq(S), NEW e \in S
  PROVE  /\ Append(s, e) \in Seq(S) /\ Len(Append(s, e)) = Len(s) + 1
         /\ \A j \in 1..Len(s) : Append(s, e)[j] = s[j]
         /\ Append(s, e)[Len(s) + 1] = e
OBVIOUS

LEMMA LineApplied ==
  ASSUME NEW g \in Seq(Nat), NEW n \in 1..Len(g), NEW snap \in Seq(Nat), NEW r \in Nat, Len(snap) <= r, r < n,
         NEW m, Reached(m, snap, g, r)
  PROVE  Reached(ApplyCommitted(n, Len(snap), m, [revision |-> r + 1, id |-> g[r + 1]]), snap, g, r + 1)
<1> DEFINE e == [revision |-> r + 1, id |-> g[r + 1]]
           graph == Append(m.graph, e.id)
           keeps == Append(m.kept, e)
           next == [m EXCEPT !.graph = graph, !.kept = keeps]
<1>1. e \in Line /\ e # Torn /\ e.revision = r + 1 /\ e.id \in Nat /\ e.id = g[r + 1]
  BY DEF Line, Torn
<1>2. m.graph \in Seq(Nat) /\ m.kept \in Seq(Line) /\ Len(m.graph) = r
  BY DEF Reached, Result
<1> HIDE DEF e
<1>3. /\ graph \in Seq(Nat) /\ Len(graph) = r + 1
      /\ \A j \in 1..r : graph[j] = m.graph[j]
      /\ graph[r + 1] = g[r + 1]
  BY <1>1, <1>2, AppendFacts
<1>4. /\ keeps \in Seq(Line) /\ Len(keeps) = r - Len(snap) + 1
      /\ \A j \in 1..(r - Len(snap)) : keeps[j] = m.kept[j]
      /\ keeps[r - Len(snap) + 1] = e
  BY <1>1, <1>2, AppendFacts DEF Reached
<1>5. ApplyCommitted(n, Len(snap), m, e) = next
  BY <1>1, <1>2 DEF ApplyCommitted, Reached
<1> HIDE DEF graph, keeps
<1>6. next \in Result /\ next.ok /\ ~next.tail /\ next.graph = graph /\ next.kept = keeps
  BY <1>3, <1>4 DEF Result, Reached
<1> HIDE DEF next
<1>7. Starts(graph, g)
  BY <1>2, <1>3 DEF Starts, Reached
<1>8. \A j \in 1..(r + 1 - Len(snap)) : keeps[j] = [revision |-> Len(snap) + j, id |-> g[Len(snap) + j]]
  <2> SUFFICES ASSUME NEW j \in 1..(r + 1 - Len(snap))
               PROVE  keeps[j] = [revision |-> Len(snap) + j, id |-> g[Len(snap) + j]]
    OBVIOUS
  <2>1. CASE j = r + 1 - Len(snap)
    BY <1>4, <2>1 DEF e
  <2>2. CASE j # r + 1 - Len(snap)
    <3>1. j \in 1..(r - Len(snap)) /\ Len(snap) \in Nat
      BY <2>2
    <3> HIDE DEF e
    <3> QED
      BY <1>4, <3>1 DEF Reached
  <2> QED
    BY <2>1, <2>2
<1>9. Reached(next, snap, g, r + 1)
  <2>1. Len(keeps) = r + 1 - Len(snap)
    BY <1>4
  <2> QED
    BY <1>3, <1>6, <1>7, <1>8, <2>1 DEF Reached
<1> QED
  BY <1>5, <1>9 DEF e

LEMMA LinesIgnored ==
  ASSUME NEW n \in Nat, NEW snap \in Seq(Nat), NEW g, NEW r \in Nat, NEW m, Reached(m, snap, g, r), NEW e \in Line,
         r = n \/ (1 <= e.revision /\ e.revision <= Len(snap))
  PROVE  ApplyCommitted(n, Len(snap), m, e) = m
BY DEF ApplyCommitted, Reached, Torn, Line

\* What the first i lines make of the snapshot: from revision a on, up to n.
Upto(a, s, n, i) == IF a + i <= s THEN s ELSE IF a + i >= n THEN n ELSE a + i

LEMMA UptoStep ==
  ASSUME NEW s \in Nat, NEW n \in Nat, NEW a \in 0..s, NEW i \in Nat \ {0}, s <= n, Upto(a, s, n, i - 1) # n
  PROVE  /\ i <= n - a
         /\ a + i <= s => Upto(a, s, n, i) = s /\ Upto(a, s, n, i - 1) = s
         /\ a + i > s => Upto(a, s, n, i) = a + i /\ Upto(a, s, n, i - 1) = a + i - 1
BY DEF Upto

LEMMA CommittedReplay ==
  ASSUME NEW g \in Seq(Nat), NEW n \in 1..Len(g), NEW snap \in Seq(Nat), Starts(snap, g), Len(snap) <= n,
         NEW lines \in Seq(Line), NEW a \in 0..Len(snap), Holds(lines, a, g, n)
  PROVE  \A i \in 0..Len(lines) : Reached(Replay(n, lines, snap)[i], snap, g, Upto(a, Len(snap), n, i))
<1> DEFINE f == Replay(n, lines, snap)
           wrong == {i \in 0..Len(lines) : ~Reached(f[i], snap, g, Upto(a, Len(snap), n, i))}
<1>0. Len(lines) \in Nat /\ Len(snap) \in Nat
  OBVIOUS
<1>1. snap # NoFile /\ n # NoFile /\ n # Pending
  BY FileAssumption DEF Pending
<1>2. f[0] = Start(n, snap) /\ \A i \in 1..Len(lines) : f[i] = ApplyCommitted(n, Len(snap), f[i - 1], lines[i])
  BY <1>0, <1>1, ReplayIs DEF ApplyLine
<1> HIDE DEF f
<1>3. Reached(f[0], snap, g, Upto(a, Len(snap), n, 0))
  <2> DEFINE m == Start(n, snap)
  <2>1. m = [ok |-> TRUE, tail |-> FALSE, graph |-> snap, kept |-> <<>>]
    BY <1>1 DEF Start
  <2>5. <<>> \in Seq(Line) /\ Len(<<>>) = 0
    OBVIOUS
  <2>6. m \in Result /\ m.ok /\ ~m.tail /\ m.graph = snap /\ m.kept = <<>>
    BY <2>1, <2>5 DEF Result
  <2>2. Upto(a, Len(snap), n, 0) = Len(snap)
    BY DEF Upto
  <2> HIDE DEF m
  <2>3. Reached(m, snap, g, Len(snap))
    BY <2>5, <2>6 DEF Reached
  <2> QED
    BY <1>2, <2>2, <2>3 DEF m
<1>4. ASSUME NEW i \in 1..Len(lines), Reached(f[i - 1], snap, g, Upto(a, Len(snap), n, i - 1))
      PROVE  Reached(f[i], snap, g, Upto(a, Len(snap), n, i))
  <2>1. f[i] = ApplyCommitted(n, Len(snap), f[i - 1], lines[i]) /\ lines[i] \in Line
    BY <1>2
  <2>2. CASE Upto(a, Len(snap), n, i - 1) = n
    <3>1. Upto(a, Len(snap), n, i) = n
      BY <1>0, <2>2 DEF Upto
    <3>2. Reached(f[i - 1], snap, g, n)
      BY <1>4, <2>2
    <3>3. ApplyCommitted(n, Len(snap), f[i - 1], lines[i]) = f[i - 1]
      BY <2>1, <3>2, LinesIgnored
    <3> QED
      BY <2>1, <3>1, <3>2, <3>3
  <2>3. CASE Upto(a, Len(snap), n, i - 1) # n
    <3>0. n \in Nat /\ i \in Nat \ {0} /\ Len(snap) <= n /\ a \in 0..Len(snap)
      OBVIOUS
    <3>5. /\ i <= n - a
          /\ a + i <= Len(snap) => Upto(a, Len(snap), n, i) = Len(snap) /\ Upto(a, Len(snap), n, i - 1) = Len(snap)
          /\ a + i > Len(snap) => Upto(a, Len(snap), n, i) = a + i /\ Upto(a, Len(snap), n, i - 1) = a + i - 1
      BY <1>0, <2>3, <3>0, UptoStep, SMTT(60)
    <3>1. i \in 1..(n - a)
      BY <3>0, <3>5
    <3>2. lines[i] = [revision |-> a + i, id |-> g[a + i]]
      BY <3>1 DEF Holds
    <3>3. CASE a + i <= Len(snap)
      <4>1. Upto(a, Len(snap), n, i) = Len(snap) /\ Upto(a, Len(snap), n, i - 1) = Len(snap)
        BY <3>3, <3>5
      <4>2. lines[i].revision = a + i
        BY <3>2
      <4>3. Reached(f[i - 1], snap, g, Len(snap))
        BY <1>4, <4>1
      <4>4. ApplyCommitted(n, Len(snap), f[i - 1], lines[i]) = f[i - 1]
        BY <1>0, <2>1, <3>3, <4>2, <4>3, LinesIgnored
      <4> QED
        BY <2>1, <4>1, <4>3, <4>4
    <3>4. CASE a + i > Len(snap)
      <4>1. Upto(a, Len(snap), n, i - 1) = a + i - 1 /\ Upto(a, Len(snap), n, i) = a + i
        BY <3>4, <3>5
      <4>2. PICK r \in Nat : r = a + i - 1
        BY <3>1
      <4>3. Len(snap) <= r /\ r < n /\ Reached(f[i - 1], snap, g, r) /\ a + i = r + 1
        BY <1>0, <1>4, <3>1, <3>4, <4>1, <4>2
      <4> QED
        BY <2>1, <3>2, <4>1, <4>3, LineApplied
    <3> QED
      BY <1>0, <3>3, <3>4
  <2> QED
    BY <2>2, <2>3
<1>5. wrong = {}
  <2> SUFFICES ASSUME wrong # {} PROVE FALSE
    OBVIOUS
  <2>1. PICK k \in wrong : \A j \in wrong : k <= j
    <3>1. wrong \in SUBSET (0..Len(lines)) /\ Len(lines) \in Nat
      OBVIOUS
    <3> HIDE DEF wrong
    <3> QED BY <3>1, LeastOf
  <2>2. k # 0
    BY <1>3
  <2>3. k \in 1..Len(lines) /\ k - 1 \in 0..Len(lines)
    BY <1>0, <2>2
  <2>4. k - 1 \notin wrong
    <3> HIDE DEF wrong
    <3> QED BY <2>1, <2>3
  <2> QED
    BY <1>4, <2>3, <2>4
<1> QED
  BY <1>5 DEF f

LEMMA CommittedMaterialize ==
  ASSUME NEW g \in Seq(Nat), NEW n \in 1..Len(g), NEW snap \in Seq(Nat), Starts(snap, g), Len(snap) <= n,
         NEW led \in Seq(Line) \cup {NoFile}, NEW a \in 0..Len(snap), Holds(Lines(led), a, g, n)
  PROVE  /\ Materialize(n, led, snap).ok
         /\ Materialize(n, led, snap).graph \in Seq(Nat)
         /\ Len(Materialize(n, led, snap).graph) = n
         /\ Starts(Materialize(n, led, snap).graph, g)
         /\ Materialize(n, led, snap).kept \in Seq(Line)
         /\ Len(Materialize(n, led, snap).kept) = n - Len(snap)
         /\ Holds(Materialize(n, led, snap).kept, Len(snap), g, n)
<1> DEFINE lines == Lines(led)
           last == Replay(n, lines, snap)[Len(lines)]
           m == Materialize(n, led, snap)
<1>1. lines \in Seq(Line)
  <2>1. <<>> \in Seq(Line)
    OBVIOUS
  <2> QED BY <2>1, FileAssumption DEF Lines
<1>2. Len(lines) \in 0..Len(lines) /\ Len(snap) \in Nat /\ n \in Nat /\ n # NoFile /\ snap # NoFile /\ n # Pending
  BY <1>1, FileAssumption DEF Pending
<1>3. Upto(a, Len(snap), n, Len(lines)) = n
  <2>1. Len(lines) >= n - a
    BY DEF Holds
  <2> HIDE DEF lines
  <2> QED BY <1>2, <2>1 DEF Upto
<1>4. Reached(last, snap, g, n)
  <2>1. Holds(lines, a, g, n)
    OBVIOUS
  <2> HIDE DEF lines
  <2>2. \A i \in 0..Len(lines) : Reached(Replay(n, lines, snap)[i], snap, g, Upto(a, Len(snap), n, i))
    BY <1>1, <2>1, CommittedReplay
  <2> QED BY <1>2, <1>3, <2>2
<1>5. m = [last EXCEPT !.ok = last.ok /\ (n # NoFile => Len(last.graph) = n)]
  BY <1>2, MaterializeIs DEF Start
<1> HIDE DEF last, m
<1>6. m.ok /\ m.graph = last.graph /\ m.kept = last.kept
  BY <1>4, <1>5 DEF Reached, Result
<1>7. last.graph \in Seq(Nat) /\ last.kept \in Seq(Line)
  BY <1>4 DEF Reached, Result
<1>8. Holds(last.kept, Len(snap), g, n)
  BY <1>2, <1>4, <1>7 DEF Reached, Holds
<1> QED
  BY <1>4, <1>6, <1>7, <1>8 DEF Reached, m

\* A materialization that has read all of the first i lines of a legacy ledger.
LegacyAt(m, snap, lines, i) ==
  /\ m \in Result /\ Len(m.graph) = Len(snap) + i /\ Starts(snap, m.graph)
  /\ Len(m.kept) = i
  /\ \A j \in 1..i : m.kept[j] = lines[j] /\ lines[j] = [revision |-> Len(snap) + j, id |-> m.graph[Len(snap) + j]]

LEMMA LegacyLine ==
  ASSUME NEW snap \in Seq(Nat), NEW lines \in Seq(Line), NEW i \in 1..Len(lines),
         NEW m, m.ok => LegacyAt(m, snap, lines, i - 1), ApplyLegacy(m, lines[i]).ok
  PROVE  LegacyAt(ApplyLegacy(m, lines[i]), snap, lines, i)
<1> DEFINE e == lines[i]
           graph == Append(m.graph, e.id)
           keeps == Append(m.kept, e)
           next == [m EXCEPT !.graph = graph, !.kept = keeps]
           s == Len(snap)
<1>1. m.ok
  <2>1. CASE ~m.ok
    <3>1. ApplyLegacy(m, e) = [m EXCEPT !.ok = FALSE]
      BY <2>1 DEF ApplyLegacy
    <3> QED BY <2>1, <3>1
  <2> QED BY <2>1
<1>2. m \in Result /\ Len(m.graph) = s + (i - 1) /\ Len(m.kept) = i - 1 /\ Starts(snap, m.graph)
  BY <1>1 DEF LegacyAt
<1>3. m.graph \in Seq(Nat) /\ m.kept \in Seq(Line) /\ e \in Line /\ e.id \in Nat /\ e.revision \in Nat /\ s \in Nat
  <2>1. m.graph \in Seq(Nat) /\ m.kept \in Seq(Line)
    BY <1>2 DEF Result
  <2>2. e \in Line /\ s \in Nat
    OBVIOUS
  <2>3. e.id \in Nat /\ e.revision \in Nat
    BY <2>2 DEF Line
  <2> QED BY <2>1, <2>2, <2>3
<1>4. e.revision = s + i
  <2>1. CASE e.revision # Len(m.graph) + 1
    <3>1. ApplyLegacy(m, e) = [m EXCEPT !.ok = FALSE]
      BY <2>1 DEF ApplyLegacy
    <3> QED BY <1>2, <3>1 DEF Result
  <2> QED BY <1>2, <1>3, <2>1
<1>5. ApplyLegacy(m, e) = next
  BY <1>1, <1>2, <1>3, <1>4 DEF ApplyLegacy
<1>6. /\ graph \in Seq(Nat) /\ Len(graph) = s + i
      /\ \A j \in 1..(s + (i - 1)) : graph[j] = m.graph[j]
      /\ graph[s + i] = e.id
  BY <1>2, <1>3, AppendFacts
<1>7. /\ keeps \in Seq(Line) /\ Len(keeps) = i
      /\ \A j \in 1..(i - 1) : keeps[j] = m.kept[j]
      /\ keeps[i] = e
  BY <1>2, <1>3, AppendFacts
<1> HIDE DEF graph, keeps
<1>8. next \in Result /\ next.graph = graph /\ next.kept = keeps
  BY <1>2, <1>6, <1>7 DEF Result
<1>9. Starts(snap, graph)
  BY <1>2, <1>3, <1>6 DEF Starts
<1>10. \A j \in 1..i : keeps[j] = lines[j] /\ lines[j] = [revision |-> s + j, id |-> graph[s + j]]
  <2> SUFFICES ASSUME NEW j \in 1..i
               PROVE  keeps[j] = lines[j] /\ lines[j] = [revision |-> s + j, id |-> graph[s + j]]
    OBVIOUS
  <2>1. CASE j = i
    BY <1>3, <1>4, <1>6, <1>7, <2>1 DEF Line
  <2>2. CASE j # i
    <3>1. j \in 1..(i - 1) /\ s + j \in 1..(s + (i - 1))
      BY <1>3, <2>2
    <3>2. m.kept[j] = lines[j] /\ lines[j] = [revision |-> s + j, id |-> m.graph[s + j]]
      BY <1>1, <3>1 DEF LegacyAt
    <3> QED BY <1>6, <1>7, <3>1, <3>2
  <2> QED BY <2>1, <2>2
<1> HIDE DEF next
<1>11. LegacyAt(next, snap, lines, i)
  BY <1>6, <1>7, <1>8, <1>9, <1>10 DEF LegacyAt
<1> QED
  BY <1>5, <1>11

LEMMA LegacyReplay ==
  ASSUME NEW snap \in Seq(Nat), NEW lines \in Seq(Line)
  PROVE  \A i \in 0..Len(lines) :
           /\ "ok" \in DOMAIN Replay(NoFile, lines, snap)[i]
           /\ Replay(NoFile, lines, snap)[i].ok => LegacyAt(Replay(NoFile, lines, snap)[i], snap, lines, i)
<1> DEFINE f == Replay(NoFile, lines, snap)
           wrong == {i \in 0..Len(lines) : ~("ok" \in DOMAIN f[i] /\ (f[i].ok => LegacyAt(f[i], snap, lines, i)))}
<1>0. Len(lines) \in Nat /\ Len(snap) \in Nat
  OBVIOUS
<1>1. snap # NoFile /\ NoFile # Pending
  BY FileAssumption DEF Pending
<1>2. f[0] = Start(NoFile, snap) /\ \A i \in 1..Len(lines) : f[i] = ApplyLegacy(f[i - 1], lines[i])
  BY <1>0, ReplayIs DEF ApplyLine
<1> HIDE DEF f
<1>3. "ok" \in DOMAIN f[0] /\ LegacyAt(f[0], snap, lines, 0)
  <2>1. f[0] = [ok |-> TRUE, tail |-> FALSE, graph |-> snap, kept |-> <<>>]
    BY <1>1, <1>2 DEF Start
  <2>2. <<>> \in Seq(Line) /\ Len(<<>>) = 0
    OBVIOUS
  <2>3. f[0] \in Result /\ f[0].graph = snap /\ f[0].kept = <<>>
    BY <2>1, <2>2 DEF Result
  <2> QED BY <1>0, <2>1, <2>2, <2>3 DEF LegacyAt, Starts
<1>4. ASSUME NEW i \in 1..Len(lines), "ok" \in DOMAIN f[i - 1], f[i - 1].ok => LegacyAt(f[i - 1], snap, lines, i - 1)
      PROVE  "ok" \in DOMAIN f[i] /\ (f[i].ok => LegacyAt(f[i], snap, lines, i))
  <2>1. "ok" \in DOMAIN f[i]
    BY <1>2, <1>4 DEF ApplyLegacy
  <2> QED BY <1>2, <1>4, <2>1, LegacyLine
<1>5. wrong = {}
  <2> SUFFICES ASSUME wrong # {} PROVE FALSE
    OBVIOUS
  <2>1. PICK k \in wrong : \A j \in wrong : k <= j
    <3>1. wrong \in SUBSET (0..Len(lines)) /\ Len(lines) \in Nat
      OBVIOUS
    <3> HIDE DEF wrong
    <3> QED BY <3>1, LeastOf
  <2>2. k # 0
    BY <1>3
  <2>3. k \in 1..Len(lines) /\ k - 1 \in 0..Len(lines)
    BY <1>0, <2>2
  <2>4. k - 1 \notin wrong
    <3> HIDE DEF wrong
    <3> QED BY <2>1, <2>3
  <2> QED
    BY <1>4, <2>3, <2>4
<1> QED
  BY <1>5 DEF f

LEMMA SameGraph ==
  ASSUME NEW S, NEW s \in Seq(S), NEW g \in Seq(S), Starts(s, g), Len(s) = Len(g)
  PROVE  s = g
BY DEF Starts

LEMMA LegacyMaterialize ==
  ASSUME NEW snap \in Seq(Nat) \cup {NoFile}, NEW led \in Seq(Line) \cup {NoFile}, Materialize(NoFile, led, snap).ok
  PROVE  /\ snap \in Seq(Nat)
         /\ Materialize(NoFile, led, snap).graph \in Seq(Nat)
         /\ Starts(snap, Materialize(NoFile, led, snap).graph)
         /\ Materialize(NoFile, led, snap).kept = Lines(led)
         /\ Len(Lines(led)) = Len(Materialize(NoFile, led, snap).graph) - Len(snap)
         /\ Holds(Lines(led), Len(snap), Materialize(NoFile, led, snap).graph, Len(Materialize(NoFile, led, snap).graph))
<1> DEFINE lines == Lines(led)
           last == Replay(NoFile, lines, snap)[Len(lines)]
           m == Materialize(NoFile, led, snap)
<1>1. lines \in Seq(Line)
  <2>1. <<>> \in Seq(Line)
    OBVIOUS
  <2> QED BY <2>1, FileAssumption DEF Lines
<1>2. Start(NoFile, snap).ok
  <2>1. ~Start(NoFile, snap).ok => m = Start(NoFile, snap)
    BY MaterializeIs
  <2> QED BY <2>1
<1>3. snap \in Seq(Nat)
  BY <1>2 DEF Start
<1>4. m = [last EXCEPT !.ok = last.ok /\ (NoFile # NoFile => Len(last.graph) = NoFile)]
  BY <1>2, MaterializeIs
<1>5. "ok" \in DOMAIN last /\ (last.ok => LegacyAt(last, snap, lines, Len(lines)))
  <2>1. Len(lines) \in 0..Len(lines)
    BY <1>1
  <2> HIDE DEF lines
  <2> QED BY <1>1, <1>3, <2>1, LegacyReplay
<1>6. LegacyAt(last, snap, lines, Len(lines)) /\ m.graph = last.graph /\ m.kept = last.kept
  <2> HIDE DEF last
  <2>1. CASE last.ok
    <3>1. last \in Result
      BY <1>5, <2>1 DEF LegacyAt
    <3>2. m.graph = last.graph /\ m.kept = last.kept
      BY <1>4, <3>1 DEF Result
    <3> QED BY <1>5, <2>1, <3>2
  <2>2. CASE ~last.ok
    <3>1. ~m.ok
      BY <1>4, <1>5, <2>2
    <3> QED BY <3>1
  <2> QED BY <2>1, <2>2
<1> HIDE DEF last, m, lines
<1>7. last.graph \in Seq(Nat) /\ last.kept \in Seq(Line) /\ Len(last.graph) = Len(snap) + Len(lines)
  BY <1>6 DEF LegacyAt, Result
<1>8. last.kept = lines
  <2>1. Len(last.kept) = Len(lines) /\ Starts(last.kept, lines)
    <3>1. Len(last.kept) = Len(lines) /\ \A j \in 1..Len(lines) : last.kept[j] = lines[j]
      BY <1>6 DEF LegacyAt
    <3> QED BY <1>1, <1>7, <3>1 DEF Starts
  <2> QED BY <1>1, <1>7, <2>1, SameGraph
<1>9. Holds(lines, Len(snap), last.graph, Len(last.graph))
  BY <1>1, <1>3, <1>6, <1>7 DEF LegacyAt, Holds
<1>10. Len(lines) = Len(last.graph) - Len(snap)
  BY <1>1, <1>3, <1>7
<1>11. Starts(snap, last.graph)
  BY <1>6 DEF LegacyAt
<1> QED
  BY <1>3, <1>6, <1>7, <1>8, <1>9, <1>10, <1>11 DEF m, lines

LEMMA PrefixIsStart ==
  ASSUME NEW S, NEW s \in Seq(S), NEW g \in Seq(S)
  PROVE  IsPrefix(s, g) <=> Starts(s, g)
<1>0. Len(s) \in Nat /\ Len(g) \in Nat /\ SubSeq(s, 1, Len(s)) = s
  BY SubSeqFull
<1>1. ASSUME Len(s) <= Len(g)
      PROVE  /\ SubSeq(g, 1, Len(s)) \in Seq(S) /\ Len(SubSeq(g, 1, Len(s))) = Len(s)
             /\ \A i \in 1..Len(s) : SubSeq(g, 1, Len(s))[i] = g[i]
  <2>1. \A i \in 1..Len(s) : g[i] \in S
    BY <1>0, <1>1
  <2>2. /\ SubSeq(g, 1, Len(s)) \in Seq(S)
        /\ Len(SubSeq(g, 1, Len(s))) = IF 1 <= Len(s) THEN Len(s) - 1 + 1 ELSE 0
        /\ \A i \in 1..(Len(s) - 1 + 1) : SubSeq(g, 1, Len(s))[i] = g[1 + i - 1]
    <3>1. 1 \in Int /\ Len(s) \in Int
      BY <1>0
    <3> QED BY <2>1, <3>1, SubSeqProperties
  <2> QED BY <1>0, <2>2
<1>2. CASE Starts(s, g)
  <2>1. Len(s) <= Len(g) /\ \A i \in 1..Len(s) : s[i] = g[i]
    BY <1>2 DEF Starts
  <2>2. Starts(s, SubSeq(g, 1, Len(s)))
    BY <1>0, <1>1, <2>1 DEF Starts
  <2>3. s = SubSeq(g, 1, Len(s))
    BY <1>1, <2>1, <2>2, SameGraph
  <2> QED BY <1>0, <1>2, <2>1, <2>3 DEF IsPrefix
<1>3. CASE IsPrefix(s, g)
  BY <1>0, <1>1, <1>3 DEF IsPrefix, Starts
<1> QED BY <1>2, <1>3

LEMMA StartsTransitive ==
  ASSUME NEW S, NEW a \in Seq(S), NEW b \in Seq(S), NEW c \in Seq(S), Starts(a, b), Starts(b, c)
  PROVE  Starts(a, c)
BY DEF Starts
-----------------------------------------------------------------------------
\* What the theorems about the files rest on.
FileInv == FileShape /\ WriterShape /\ Exclusive /\ FilesSay /\ Writers

LEMMA TaskFacts ==
  ASSUME NEW t \in Writer
  PROVE  t \in Task /\ t \notin Reader \cup SyncReader /\ ProcOf[t] \in Process /\ ProcOf[t] # "free" /\ ProcOf[t] # "dead"
BY TaskAssumption, LockAssumption DEF Task

LEMMA LinesShape ==
  ASSUME NEW led \in Seq(Line) \cup {NoFile}
  PROVE  Lines(led) \in Seq(Line)
<1>1. <<>> \in Seq(Line)
  OBVIOUS
<1> QED BY <1>1 DEF Lines

LEMMA HoldsShape ==
  ASSUME NEW lines \in Seq(Line), NEW a \in Nat, NEW n \in Nat, NEW g, Holds(lines, a, g, n), NEW e \in Line
  PROVE  Holds(Append(lines, e), a, g, n)
<1>1. Len(Append(lines, e)) = Len(lines) + 1 /\ \A j \in 1..Len(lines) : Append(lines, e)[j] = lines[j]
  BY AppendFacts
<1>2. 1..(n - a) \subseteq 1..Len(lines)
  BY DEF Holds
<1> QED BY <1>1, <1>2 DEF Holds

\* A graph and its ledger agree with a graph that only has more mutations.
LEMMA ExactLonger ==
  ASSUME NEW g \in Seq(Nat), NEW h \in Seq(Nat), Starts(g, h), snapshot \in Seq(Nat) \cup {NoFile}, Exact(g, Len(g))
  PROVE  Exact(h, Len(g))
<1>1. snapshot \in Seq(Nat) /\ Len(snapshot) \in Nat /\ Len(g) \in Nat /\ Len(snapshot) <= Len(g) /\ Len(g) <= Len(h)
  BY DEF Exact, Starts
<1>2. Starts(snapshot, h)
  BY <1>1 DEF Exact, Starts
<1>3. \A i \in 1..(Len(g) - Len(snapshot)) : g[Len(snapshot) + i] = h[Len(snapshot) + i]
  <2>1. \A i \in 1..(Len(g) - Len(snapshot)) : Len(snapshot) + i \in 1..Len(g)
    BY <1>1
  <2> QED BY <2>1 DEF Starts
<1> QED
  BY <1>1, <1>2, <1>3 DEF Exact, Holds

\* A writer without the lock has nothing to say of the files.
LEMMA AwayWriter ==
  ASSUME NEW u, pc'[u] \notin Locked
  PROVE  WriterHas(u)'
BY DEF WriterHas, Locked, Mutating, Removing, Staging

\* A writer that holds the lock takes a step: the others are out of the way.
LEMMA WriterStep ==
  ASSUME FileInv, NEW t \in Writer, pc[t] \in Locked, NEW label \in {"idle"} \cup Locked, Goto(t, label),
         base' \in [Task -> Seq(Nat)], lock' = lock \/ label = "idle",
         FileShape', FilesSay', WriterHas(t)'
  PROVE  FileInv'
<1>1. /\ pc \in [Task -> {"idle", "acquire"} \cup Locked \cup Reading] /\ t \in Task
      /\ pc' = [pc EXCEPT ![t] = label]
  BY TaskFacts DEF FileInv, WriterShape, Goto
<1>2. \A u \in Writer \ {t} : pc'[u] = pc[u] /\ pc[u] \notin Locked /\ u \in Task
  BY <1>1, TaskFacts DEF FileInv, Exclusive
<1>3. pc'[t] = label /\ \A u \in Reader \cup SyncReader : pc'[u] = pc[u]
  BY <1>1, TaskFacts DEF Task
<1>4. WriterShape'
  <2>1. pc' \in [Task -> {"idle", "acquire"} \cup Locked \cup Reading]
    BY <1>1
  <2>2. \A u \in Writer : pc'[u] \notin Reading
    <3>1. label \notin Reading
      BY DEF Locked, Mutating, Removing, Staging, Reading
    <3> QED BY <1>2, <1>3, <3>1 DEF FileInv, WriterShape
  <2>3. \A u \in Reader \cup SyncReader : pc'[u] \in {"idle"} \cup Reading
    BY <1>3 DEF FileInv, WriterShape
  <2> QED BY <2>1, <2>2, <2>3 DEF WriterShape
<1>5. Exclusive'
  <2>1. pc'[t] \in Locked => lock' = ProcOf[t]
    <3>1. "idle" \notin Locked
      BY DEF Locked, Mutating, Removing, Staging
    <3> QED BY <1>3, <3>1 DEF FileInv, Exclusive, Proc
  <2> QED BY <1>2, <2>1 DEF Exclusive, Proc
<1>6. Writers'
  <2>1. \A u \in Writer \ {t} : WriterHas(u)'
    BY <1>2, AwayWriter
  <2> QED BY <2>1 DEF Writers
<1> QED
  BY <1>4, <1>5, <1>6 DEF FileInv

\* Where a writer stands that has nothing to say of the files.
Plain == {"idle", "acquire", "load", "createCheck", "release"}
LEMMA PlainWriter ==
  ASSUME NEW t, pc'[t] \in Plain
  PROVE  WriterHas(t)'
BY DEF WriterHas, Plain, Mutating, Removing, Staging

\* A step that leaves the files alone and leads a writer to a plain place.
LEMMA PlainStep ==
  ASSUME FileInv, NEW t \in Writer, pc[t] \in Locked, NEW label \in {"load", "createCheck", "release", "idle"}, Goto(t, label),
         base' \in [Task -> Seq(Nat)], lock' = lock \/ label = "idle", FileShape', FilesSay'
  PROVE  FileInv'
<1>1. label \in {"idle"} \cup Locked
  BY DEF Locked, Mutating
<1>2. pc'[t] = label
  BY TaskFacts DEF FileInv, WriterShape, Goto
<1>3. WriterHas(t)'
  BY <1>2, PlainWriter DEF Plain
<1> QED
  BY <1>1, <1>3, WriterStep

LEMMA FilesKept ==
  ASSUME FileInv, UNCHANGED files, UNCHANGED committed, UNCHANGED mutations
  PROVE  FileShape' /\ FilesSay'
BY DEF FileInv, FileShape, FilesSay, files, Committed

\* How an operation ends, whatever it did to the files.
Ending(t) == Throw(t) \/ ThrowRetaining(t)
LEMMA EndingStep ==
  ASSUME FileInv, NEW t \in Writer, pc[t] \in Locked, Ending(t), FileShape', FilesSay'
  PROVE  FileInv'
<1>1. base \in [Task -> Seq(Nat)] /\ <<>> \in Seq(Nat)
  BY DEF FileInv, WriterShape
<1>2. CASE Throw(t)
  <2>1. Goto(t, "release") /\ base' = base /\ lock' = lock
    BY <1>2 DEF Throw, writing
  <2> QED BY <1>1, <2>1, PlainStep
<1>3. CASE ThrowRetaining(t)
  <2>1. Goto(t, "idle") /\ base' = [base EXCEPT ![t] = <<>>] /\ lock' = lock
    BY <1>3 DEF ThrowRetaining, Leave
  <2>2. base' \in [Task -> Seq(Nat)]
    BY <1>1, <2>1
  <2> QED BY <2>1, <2>2, PlainStep
<1> QED
  BY <1>2, <1>3 DEF Ending

\* The files as a writer in "mutate" finds them, once it has loaded them.
LEMMA CommittedFacts ==
  ASSUME FileInv, Committed
  PROVE  /\ version \in 1..Len(committed) /\ version = Len(committed) /\ snapshot \in Seq(Nat)
         /\ Len(snapshot) <= version /\ Starts(snapshot, committed)
         /\ committed \in Seq(Nat) /\ ledger \in Seq(Line) \cup {NoFile}
         /\ \E a \in 0..Len(snapshot) : Holds(Lines(ledger), a, committed, version)
<1>1. version = Len(committed) /\ snapshot \in Seq(Nat) /\ Starts(snapshot, committed) /\ committed \in Seq(Nat)
  BY DEF FileInv, FilesSay, FileShape
<1>2. Len(committed) \in Nat /\ Len(committed) # 0
  BY <1>1 DEF Committed, Pending
<1> QED
  BY <1>1, <1>2 DEF FileInv, FilesSay, FileShape, Starts

\* Materializing the files of a committed graph gives that graph.
LEMMA CommittedGraph ==
  ASSUME FileInv, Committed
  PROVE  /\ Materialize(version, ledger, snapshot).ok
         /\ Materialize(version, ledger, snapshot).graph = committed
         /\ Materialize(version, ledger, snapshot).kept \in Seq(Line)
         /\ Len(Materialize(version, ledger, snapshot).kept) = version - Len(snapshot)
         /\ Holds(Materialize(version, ledger, snapshot).kept, Len(snapshot), committed, version)
<1>1. PICK a \in 0..Len(snapshot) :
        /\ version \in 1..Len(committed) /\ version = Len(committed) /\ snapshot \in Seq(Nat)
        /\ Len(snapshot) <= version /\ Starts(snapshot, committed)
        /\ committed \in Seq(Nat) /\ ledger \in Seq(Line) \cup {NoFile}
        /\ Holds(Lines(ledger), a, committed, version)
  BY CommittedFacts
<1>2. ASSUME NEW m, m = Materialize(version, ledger, snapshot)
      PROVE  /\ m.ok /\ m.graph = committed /\ m.kept \in Seq(Line) /\ Len(m.kept) = version - Len(snapshot)
             /\ Holds(m.kept, Len(snapshot), committed, version)
  <2>1. /\ m.ok /\ m.graph \in Seq(Nat) /\ Len(m.graph) = version /\ Starts(m.graph, committed)
        /\ m.kept \in Seq(Line) /\ Len(m.kept) = version - Len(snapshot)
        /\ Holds(m.kept, Len(snapshot), committed, version)
    <3>1. ASSUME NEW n, n = version, NEW g, g = committed, NEW snap, snap = snapshot, NEW led, led = ledger
          PROVE  /\ Materialize(n, led, snap).ok /\ Materialize(n, led, snap).graph \in Seq(Nat)
                 /\ Len(Materialize(n, led, snap).graph) = n /\ Starts(Materialize(n, led, snap).graph, g)
                 /\ Materialize(n, led, snap).kept \in Seq(Line) /\ Len(Materialize(n, led, snap).kept) = n - Len(snap)
                 /\ Holds(Materialize(n, led, snap).kept, Len(snap), g, n)
      <4>1. /\ g \in Seq(Nat) /\ n \in 1..Len(g) /\ snap \in Seq(Nat) /\ Starts(snap, g) /\ Len(snap) <= n
            /\ led \in Seq(Line) \cup {NoFile} /\ a \in 0..Len(snap) /\ Holds(Lines(led), a, g, n)
        BY <1>1, <3>1
      <4> QED BY <4>1, CommittedMaterialize
    <3> QED BY <1>2, <3>1
  <2> QED BY <1>1, <2>1, SameGraph
<1> QED BY <1>2
-----------------------------------------------------------------------------
(* mutate keeps FileInv.                                                   *)

LEMMA LoadStep ==
  ASSUME FileInv, NEW t \in Writer, MutateLoad(t)
  PROVE  FileInv'
<1> DEFINE m == Materialize(version, ledger, snapshot)
<1>1. pc[t] = "load" /\ pc[t] \in Locked /\ FileShape' /\ FilesSay'
  BY FilesKept DEF MutateLoad, Locked, Mutating, history
<1>2. CASE Throw(t)
  BY <1>1, <1>2, EndingStep DEF Ending
<1>3. ASSUME m.ok, base' = [base EXCEPT ![t] = m.graph], lock' = lock,
             Goto(t, IF m.kept = Lines(ledger) THEN "apply" ELSE "normalize")
      PROVE  FileInv'
  <2> DEFINE label == IF m.kept = Lines(ledger) THEN "apply" ELSE "normalize"
  <2>1. base \in [Task -> Seq(Nat)] /\ pc \in [Task -> {"idle", "acquire"} \cup Locked \cup Reading] /\ t \in Task
    BY TaskFacts DEF FileInv, WriterShape
  <2>2. pc'[t] = label
    BY <1>3, <2>1 DEF Goto
  <2>3. version # Pending
    <3>1. ~Start(version, snapshot).ok => m = Start(version, snapshot)
      BY MaterializeIs
    <3>2. Start(version, snapshot).ok <=> (snapshot # NoFile /\ version # Pending)
      BY DEF Start
    <3> HIDE DEF m
    <3> QED BY <1>3, <3>1, <3>2
  <2>4. /\ m.graph \in Seq(Nat) /\ Starts(committed, m.graph)
        /\ version # NoFile => m.graph = committed
        /\ version = NoFile => m.kept = Lines(ledger)
        /\ m.kept = Lines(ledger) => Exact(m.graph, Len(m.graph))
    <3>1. CASE version = NoFile
      <4>1. ledger \in Seq(Line) \cup {NoFile} /\ snapshot \in Seq(Nat) \cup {NoFile} /\ Materialize(NoFile, ledger, snapshot).ok
        BY <1>3, <3>1 DEF FileInv, FileShape
      <4>2. /\ snapshot \in Seq(Nat) /\ m.graph \in Seq(Nat) /\ Starts(snapshot, m.graph) /\ m.kept = Lines(ledger)
            /\ Len(Lines(ledger)) = Len(m.graph) - Len(snapshot)
            /\ Holds(Lines(ledger), Len(snapshot), m.graph, Len(m.graph))
        BY <3>1, <4>1, LegacyMaterialize
      <4>3. committed = snapshot /\ snapshot # NoFile /\ Len(snapshot) <= Len(m.graph)
        BY <3>1, <4>2, FileAssumption DEF FileInv, FilesSay, Starts
      <4> HIDE DEF m
      <4> QED BY <3>1, <4>2, <4>3 DEF Exact
    <3>2. CASE version # NoFile
      <4>1. PICK a \in 0..Len(snapshot) :
              /\ version \in 1..Len(committed) /\ version = Len(committed) /\ snapshot \in Seq(Nat)
              /\ Len(snapshot) <= version /\ Starts(snapshot, committed)
              /\ committed \in Seq(Nat) /\ ledger \in Seq(Line) \cup {NoFile}
              /\ Holds(Lines(ledger), a, committed, version)
        BY <2>3, <3>2, CommittedFacts DEF Committed
      <4>2. m.graph = committed /\ Len(m.kept) = version - Len(snapshot) /\ Holds(m.kept, Len(snapshot), committed, version)
        BY <2>3, <3>2, CommittedGraph DEF Committed
      <4> HIDE DEF m
      <4>3. m.graph \in Seq(Nat)
        BY <4>1, <4>2
      <4>4. Starts(committed, committed)
        BY <4>1 DEF Starts
      <4>5. m.kept = Lines(ledger) => Exact(m.graph, Len(m.graph))
        BY <4>1, <4>2, <4>3, FileAssumption DEF Exact
      <4> QED BY <3>2, <4>2, <4>3, <4>4, <4>5
    <3> QED BY <3>1, <3>2
  <2>5. base' \in [Task -> Seq(Nat)] /\ base'[t] = m.graph
    BY <1>3, <2>1, <2>4
  <2>6. label \in {"apply", "normalize"} /\ (label = "apply" => m.kept = Lines(ledger)) /\ (label = "normalize" => m.kept # Lines(ledger))
    OBVIOUS
  <2>7. UNCHANGED <<version, snapshot, ledger, committed>>
    BY DEF MutateLoad, files, history
  <2> HIDE DEF m, label
  <2>8. label = "apply" => Exact(base[t], Len(base[t]))'
    BY <2>4, <2>5, <2>6, <2>7 DEF Exact
  <2>9. WriterHas(t)'
    BY <2>2, <2>3, <2>4, <2>5, <2>6, <2>7, <2>8 DEF WriterHas, Committed, Mutating, Removing, Staging
  <2>10. label \in {"idle"} \cup Locked /\ Goto(t, label)
    BY <1>3, <2>6 DEF Locked, Mutating, label, m
  <2> QED
    BY <1>1, <1>3, <2>5, <2>9, <2>10, WriterStep
<1> QED
  BY <1>2, <1>3 DEF MutateLoad

LEMMA RenamedStep ==
  ASSUME FileInv, NEW t \in Writer, pc[t] \in Locked, NEW next \in Locked, Renamed(t, next), FileShape', FilesSay',
         pc' = [pc EXCEPT ![t] = next] /\ base' = base => WriterHas(t)'
  PROVE  FileInv'
<1>1. CASE ThrowRetaining(t)
  BY <1>1, EndingStep DEF Ending
<1>2. CASE Goto(t, next) /\ UNCHANGED <<lock, cache, writing, reading>>
  <2>1. base' = base /\ lock' = lock /\ base \in [Task -> Seq(Nat)]
    BY <1>2 DEF writing, FileInv, WriterShape
  <2>2. WriterHas(t)'
    BY <1>2, <2>1 DEF Goto
  <2> QED BY <1>2, <2>1, <2>2, WriterStep
<1> QED
  BY <1>1, <1>2 DEF Renamed

LEMMA WriterFacts ==
  ASSUME FileInv, NEW t \in Writer
  PROVE  /\ t \in Task /\ base[t] \in Seq(Nat) /\ WriterHas(t)
         /\ base \in [Task -> Seq(Nat)] /\ pc \in [Task -> {"idle", "acquire"} \cup Locked \cup Reading]
         /\ \A label : Goto(t, label) => pc'[t] = label
BY TaskFacts DEF FileInv, WriterShape, Writers, Goto

LEMMA NormalizeStep ==
  ASSUME FileInv, NEW t \in Writer, MutateNormalize(t)
  PROVE  FileInv'
<1> DEFINE m == Materialize(version, ledger, snapshot)
<1>1. pc[t] = "normalize" /\ pc[t] \in Locked /\ UNCHANGED <<version, snapshot, committed, mutations>>
  BY DEF MutateNormalize, Locked, Mutating, history
<1>2. CASE UNCHANGED ledger /\ Throw(t)
  BY <1>1, <1>2, EndingStep, FilesKept DEF Ending, files
<1>3. ASSUME ledger' = m.kept, Renamed(t, "apply") PROVE FileInv'
  <2>1. Committed /\ base[t] = committed
    BY <1>1, WriterFacts DEF WriterHas
  <2>2. PICK a \in 0..Len(snapshot) :
          /\ version \in 1..Len(committed) /\ version = Len(committed) /\ snapshot \in Seq(Nat)
          /\ Len(snapshot) <= version /\ Starts(snapshot, committed)
          /\ committed \in Seq(Nat) /\ ledger \in Seq(Line) \cup {NoFile}
          /\ Holds(Lines(ledger), a, committed, version)
    BY <2>1, CommittedFacts
  <2>3. m.kept \in Seq(Line) /\ Len(m.kept) = version - Len(snapshot) /\ Holds(m.kept, Len(snapshot), committed, version)
    BY <2>1, CommittedGraph
  <2> HIDE DEF m
  <2>4. Lines(ledger') = m.kept /\ ledger' \in Seq(Line)
    BY <1>3, <2>3, FileAssumption DEF Lines
  <2>5. FileShape'
    BY <1>1, <2>4 DEF FileInv, FileShape
  <2>6. FilesSay'
    <3>1. Len(snapshot) \in 0..Len(snapshot) /\ snapshot # NoFile
      BY <2>2, FileAssumption
    <3>2. version # NoFile /\ version # Pending
      BY <2>1 DEF Committed
    <3> QED BY <1>1, <2>2, <2>3, <2>4, <3>1, <3>2 DEF FilesSay, Committed
  <2>7. pc'[t] = "apply" /\ base' = base => WriterHas(t)'
    <3> SUFFICES ASSUME pc'[t] = "apply", base' = base PROVE WriterHas(t)'
      OBVIOUS
    <3>1. Exact(base[t], Len(base[t]))'
      BY <1>1, <2>1, <2>2, <2>3, <2>4, FileAssumption DEF Exact
    <3>2. Starts(committed, base[t])
      BY <1>1, WriterFacts DEF WriterHas, Mutating
    <3> QED BY <1>1, <2>1, <3>1, <3>2 DEF WriterHas, Committed, Mutating, Removing, Staging
  <2>8. pc' = [pc EXCEPT ![t] = "apply"] /\ base' = base => WriterHas(t)'
    BY <2>7, WriterFacts
  <2>9. "apply" \in Locked
    BY DEF Locked, Mutating
  <2> QED BY <1>1, <1>3, <2>5, <2>6, <2>8, <2>9, RenamedStep
<1> QED
  BY <1>2, <1>3 DEF MutateNormalize

LEMMA ApplyStep ==
  ASSUME FileInv, NEW t \in Writer, MutateApply(t)
  PROVE  FileInv'
<1>1. /\ pc[t] = "apply" /\ pc[t] \in Locked /\ UNCHANGED <<version, snapshot, ledger, committed, lock>>
      /\ mutations' = mutations + 1 /\ Goto(t, "append") /\ base' = [base EXCEPT ![t] = Append(base[t], mutations')]
  BY DEF MutateApply, Locked, Mutating, files
<1>2. FileShape' /\ FilesSay' /\ mutations' \in Nat
  BY <1>1 DEF FileInv, FileShape, FilesSay, Committed
<1>3. /\ base[t] \in Seq(Nat) /\ base' \in [Task -> Seq(Nat)] /\ base'[t] = Append(base[t], mutations')
      /\ base'[t] \in Seq(Nat) /\ Len(base'[t]) = Len(base[t]) + 1 /\ Starts(base[t], base'[t])
  <2>1. base[t] \in Seq(Nat) /\ t \in Task /\ base \in [Task -> Seq(Nat)]
    BY WriterFacts
  <2>2. base'[t] = Append(base[t], mutations')
    BY <1>1, <2>1
  <2>3. /\ base'[t] \in Seq(Nat) /\ Len(base'[t]) = Len(base[t]) + 1
        /\ \A j \in 1..Len(base[t]) : base'[t][j] = base[t][j]
    BY <1>2, <2>1, <2>2, AppendFacts
  <2>4. base' \in [Task -> Seq(Nat)]
    BY <1>1, <2>1, <2>2, <2>3
  <2>5. Starts(base[t], base'[t])
    BY <2>1, <2>3 DEF Starts
  <2> QED BY <2>1, <2>2, <2>3, <2>4, <2>5
<1>4. /\ Starts(committed, base[t]) /\ version # Pending /\ Exact(base[t], Len(base[t]))
      /\ version # NoFile => base[t] = committed
      /\ committed \in Seq(Nat) /\ snapshot \in Seq(Nat) \cup {NoFile}
  BY <1>1, WriterFacts DEF WriterHas, Mutating, FileInv, FileShape
<1>5. Starts(committed, base'[t]) /\ Len(committed) <= Len(base[t])
  BY <1>3, <1>4, StartsTransitive DEF Starts
<1>6. Exact(base'[t], Len(base[t]))
  BY <1>3, <1>4, ExactLonger
<1>7. version # NoFile => Len(base'[t]) = version + 1
  BY <1>3, <1>4, CommittedFacts DEF Committed
<1>8. pc'[t] = "append"
  BY <1>1, WriterFacts
<1>9. Exact(base[t], Len(base[t]) - 1)'
  <2>1. Len(base'[t]) - 1 = Len(base[t])
    BY <1>3
  <2> QED BY <1>1, <1>6, <2>1 DEF Exact
<1>10. Len(committed) < Len(base'[t])
  BY <1>3, <1>4, <1>5
<1>11. WriterHas(t)'
  BY <1>1, <1>4, <1>5, <1>7, <1>8, <1>9, <1>10 DEF WriterHas, Committed, Mutating, Removing, Staging
<1>12. "append" \in Locked
  BY DEF Locked, Mutating
<1> QED
  BY <1>1, <1>2, <1>3, <1>11, <1>12, WriterStep

LEMMA EntryShape ==
  ASSUME FileInv, NEW t \in Writer, pc[t] = "append"
  PROVE  /\ Entry(t) = [revision |-> Len(base[t]), id |-> base[t][Len(base[t])]] /\ Entry(t) \in Line
         /\ Torn \in Line /\ Len(base[t]) >= 1
<1>1. base[t] \in Seq(Nat) /\ Len(base[t]) > Len(committed) /\ committed \in Seq(Nat)
  BY WriterFacts DEF WriterHas, FileInv, FileShape
<1>2. Len(base[t]) \in Nat /\ Len(base[t]) >= 1 /\ base[t][Len(base[t])] \in Nat
  BY <1>1
<1> QED
  BY <1>2 DEF Entry, Last, Line, Torn

\* More lines than the committed ones change nothing.
LEMMA LongerLedger ==
  ASSUME FileInv, NEW e \in Line, ledger' = Append(Lines(ledger), e), UNCHANGED <<version, snapshot, committed, mutations>>
  PROVE  FileShape' /\ FilesSay'
<1>1. Lines(ledger) \in Seq(Line) /\ ledger' \in Seq(Line) /\ Lines(ledger') = ledger'
  <2>1. Lines(ledger) \in Seq(Line)
    BY LinesShape DEF FileInv, FileShape
  <2>2. ledger' \in Seq(Line)
    BY <2>1, AppendFacts
  <2> QED BY <2>1, <2>2, FileAssumption DEF Lines
<1>2. FileShape'
  BY <1>1 DEF FileInv, FileShape
<1>3. Committed => \E a \in 0..Len(snapshot) : Holds(Lines(ledger'), a, committed, version)
  <2> SUFFICES ASSUME Committed PROVE \E a \in 0..Len(snapshot) : Holds(Lines(ledger'), a, committed, version)
    OBVIOUS
  <2>1. PICK a \in 0..Len(snapshot) : Holds(Lines(ledger), a, committed, version)
    BY CommittedFacts
  <2>2. a \in Nat /\ version \in Nat
    BY CommittedFacts
  <2>3. Holds(Append(Lines(ledger), e), a, committed, version)
    BY <1>1, <2>1, <2>2, HoldsShape
  <2> QED BY <1>1, <2>3
<1>4. FilesSay'
  BY <1>3 DEF FilesSay, FileInv, Committed
<1> QED
  BY <1>2, <1>4

LEMMA AppendStep ==
  ASSUME FileInv, NEW t \in Writer, MutateAppend(t)
  PROVE  FileInv'
<1>1. pc[t] = "append" /\ pc[t] \in Locked /\ UNCHANGED <<version, snapshot>>
  BY DEF MutateAppend, Locked, Mutating
<1>2. CASE ledger' = Append(Lines(ledger), Entry(t)) /\ Goto(t, "commit") /\ UNCHANGED <<lock, cache, history, writing, reading>>
  <2>1. base' = base /\ lock' = lock /\ committed' = committed /\ mutations' = mutations
    BY <1>2 DEF writing, history
  <2>2. FileShape' /\ FilesSay'
    BY <1>1, <1>2, <2>1, EntryShape, LongerLedger
  <2>3. /\ base[t] \in Seq(Nat) /\ Len(base[t]) \in Nat /\ Len(base[t]) >= 1 /\ Exact(base[t], Len(base[t]) - 1) /\ pc'[t] = "commit"
        /\ Entry(t) = [revision |-> Len(base[t]), id |-> base[t][Len(base[t])]] /\ Entry(t) \in Line
        /\ Lines(ledger) \in Seq(Line) /\ snapshot \in Seq(Nat)
    <3>1. Exact(base[t], Len(base[t]) - 1) /\ pc'[t] = "commit" /\ base[t] \in Seq(Nat)
      BY <1>1, <1>2, WriterFacts DEF WriterHas
    <3>2. Lines(ledger) \in Seq(Line) /\ snapshot \in Seq(Nat)
      BY <3>1, LinesShape DEF FileInv, FileShape, Exact
    <3> QED BY <1>1, <3>1, <3>2, EntryShape
  <2>4. /\ Len(ledger') = Len(Lines(ledger)) + 1 /\ ledger' \in Seq(Line) /\ Lines(ledger') = ledger'
        /\ \A j \in 1..Len(Lines(ledger)) : ledger'[j] = Lines(ledger)[j]
        /\ ledger'[Len(Lines(ledger)) + 1] = Entry(t)
    <3>1. /\ Len(ledger') = Len(Lines(ledger)) + 1 /\ ledger' \in Seq(Line)
          /\ \A j \in 1..Len(Lines(ledger)) : ledger'[j] = Lines(ledger)[j]
          /\ ledger'[Len(Lines(ledger)) + 1] = Entry(t)
      BY <1>2, <2>3, AppendFacts
    <3>2. Lines(ledger') = ledger'
      BY <3>1, FileAssumption DEF Lines
    <3> QED BY <3>1, <3>2
  <2>5. Exact(base[t], Len(base[t]))'
    <3> DEFINE g == base[t]
               s == Len(snapshot)
               old == Lines(ledger)
    <3>0. g \in Seq(Nat) /\ s \in Nat /\ Len(g) \in Nat /\ old \in Seq(Line)
      BY <2>3
    <3>1. snapshot # NoFile /\ Starts(snapshot, g) /\ s <= Len(g) - 1 /\ Len(old) = Len(g) - 1 - s
      BY <2>3 DEF Exact
    <3>2. \A i \in 1..(Len(g) - 1 - s) : old[i] = [revision |-> s + i, id |-> g[s + i]]
      BY <2>3 DEF Exact, Holds
    <3>3. Len(ledger') = Len(g) - s
      BY <2>4, <3>0, <3>1
    <3>4. \A i \in 1..(Len(g) - s) : ledger'[i] = [revision |-> s + i, id |-> g[s + i]]
      <4> SUFFICES ASSUME NEW i \in 1..(Len(g) - s) PROVE ledger'[i] = [revision |-> s + i, id |-> g[s + i]]
        OBVIOUS
      <4>1. CASE i = Len(old) + 1
        <5>1. s + i = Len(g)
          BY <3>0, <3>1, <4>1
        <5>2. Entry(t) = [revision |-> Len(g), id |-> g[Len(g)]]
          BY <2>3
        <5> QED BY <2>4, <4>1, <5>1, <5>2
      <4>2. CASE i # Len(old) + 1
        <5>1. i \in 1..Len(old) /\ i \in 1..(Len(g) - 1 - s)
          BY <3>0, <3>1, <4>2
        <5> QED BY <2>4, <3>2, <5>1
      <4> QED BY <4>1, <4>2
    <3>5. Holds(ledger', s, g, Len(g))
      BY <3>3, <3>4, <3>0 DEF Holds
    <3>6. s <= Len(g)
      BY <3>0, <3>1
    <3> HIDE DEF old
    <3> QED BY <1>1, <2>1, <2>4, <3>1, <3>3, <3>5, <3>6 DEF Exact
  <2>6. WriterHas(t)'
    <3>1. /\ version # Pending /\ Starts(committed, base[t]) /\ Len(committed) < Len(base[t])
          /\ version # NoFile => Len(base[t]) = version + 1
      BY <1>1, WriterFacts DEF WriterHas, Mutating
    <3> QED BY <1>1, <2>1, <2>3, <2>5, <3>1 DEF WriterHas, Committed, Mutating, Removing, Staging
  <2>7. "commit" \in Locked /\ base' \in [Task -> Seq(Nat)]
    BY <2>1, WriterFacts DEF Locked, Mutating
  <2> QED BY <1>1, <1>2, <2>1, <2>2, <2>6, <2>7, WriterStep
<1>3. CASE ledger' \in {ledger, Append(Lines(ledger), Torn), Append(Lines(ledger), Entry(t))} /\ Reject(t) /\ Throw(t)
  <2>1. UNCHANGED <<committed, mutations>>
    BY <1>3 DEF Reject
  <2>2. CASE ledger' = ledger
    BY <1>1, <1>3, <2>1, <2>2, FilesKept, EndingStep DEF files, Ending
  <2>3. CASE ledger' = Append(Lines(ledger), Torn)
    BY <1>1, <1>3, <2>1, <2>3, EntryShape, LongerLedger, EndingStep DEF Ending
  <2>4. CASE ledger' = Append(Lines(ledger), Entry(t))
    BY <1>1, <1>3, <2>1, <2>4, EntryShape, LongerLedger, EndingStep DEF Ending
  <2> QED BY <1>3, <2>2, <2>3, <2>4
<1> QED
  BY <1>2, <1>3 DEF MutateAppend

LEMMA CommitStep ==
  ASSUME FileInv, NEW t \in Writer, MutateCommit(t)
  PROVE  FileInv' /\ IsPrefix(committed, committed')
<1>1. pc[t] = "commit" /\ pc[t] \in Locked /\ UNCHANGED <<snapshot, ledger>>
  BY DEF MutateCommit, Locked, Mutating
<1>2. /\ base[t] \in Seq(Nat) /\ committed \in Seq(Nat) /\ Starts(committed, base[t])
      /\ Len(committed) < Len(base[t]) /\ Exact(base[t], Len(base[t]))
      /\ snapshot \in Seq(Nat) /\ mutations \in Nat /\ ledger \in Seq(Line) \cup {NoFile}
  BY <1>1, WriterFacts DEF WriterHas, Mutating, FileInv, FileShape, Exact
<1>3. CASE UNCHANGED version /\ Reject(t) /\ Throw(t)
  <2>1. UNCHANGED <<committed, mutations>>
    BY <1>3 DEF Reject
  <2>2. IsPrefix(committed, committed')
    BY <1>2, <2>1, PrefixIsStart DEF Starts
  <2> QED BY <1>1, <1>3, <2>1, <2>2, FilesKept, EndingStep DEF files, Ending
<1>4. CASE version' = Len(base[t]) /\ committed' = base[t] /\ UNCHANGED <<rejected, mutations>> /\ Renamed(t, "publish")
  <2>1. version' \in Nat /\ version' # NoFile /\ version' # Pending /\ version' = Len(committed')
    BY <1>2, <1>4, FileAssumption DEF Pending
  <2>2. FileShape'
    BY <1>1, <1>2, <1>4, <2>1 DEF FileShape
  <2>3. FilesSay'
    <3>1. Len(snapshot) \in 0..Len(snapshot) /\ snapshot # NoFile /\ Starts(snapshot, base[t]) /\ Holds(Lines(ledger), Len(snapshot), base[t], Len(base[t]))
      BY <1>2 DEF Exact
    <3> QED BY <1>1, <1>4, <2>1, <3>1 DEF FilesSay, Committed
  <2>4. Starts(base[t], base[t])
    BY <1>2 DEF Starts
  <2>5. pc' = [pc EXCEPT ![t] = "publish"] /\ base' = base => WriterHas(t)'
    <3> SUFFICES ASSUME pc' = [pc EXCEPT ![t] = "publish"], base' = base PROVE WriterHas(t)'
      OBVIOUS
    <3>1. pc'[t] = "publish"
      BY WriterFacts
    <3> QED BY <1>4, <2>1, <2>4, <3>1 DEF WriterHas, Committed, Mutating, Removing, Staging
  <2>6. "publish" \in Locked
    BY DEF Locked, Mutating
  <2>7. FileInv'
    BY <1>1, <1>4, <2>2, <2>3, <2>5, <2>6, RenamedStep
  <2>8. IsPrefix(committed, committed')
    BY <1>2, <1>4, PrefixIsStart
  <2> QED BY <2>7, <2>8
<1> QED
  BY <1>3, <1>4 DEF MutateCommit

LEMMA PublishStep ==
  ASSUME FileInv, NEW t \in Writer, MutatePublish(t)
  PROVE  FileInv'
<1>1. /\ pc[t] = "publish" /\ pc[t] \in Locked /\ UNCHANGED <<files, lock, committed, mutations>> /\ base' = base
      /\ FileShape' /\ FilesSay'
  BY FilesKept DEF MutatePublish, Locked, Mutating, history, writing
<1>2. PICK label \in {"compact", "release"} : Goto(t, label)
  BY DEF MutatePublish
<1>3. base' \in [Task -> Seq(Nat)] /\ pc'[t] = label
  BY <1>1, <1>2, WriterFacts
<1>4. CASE label = "release"
  BY <1>1, <1>2, <1>3, <1>4, PlainStep
<1>5. CASE label = "compact"
  <2>1. version # Pending /\ version # NoFile /\ Starts(committed, base[t]) /\ base[t] = committed
    BY <1>1, WriterFacts DEF WriterHas, Committed, Mutating
  <2>2. WriterHas(t)'
    BY <1>1, <1>3, <1>5, <2>1 DEF WriterHas, Committed, Mutating, Removing, Staging, files
  <2>3. label \in {"idle"} \cup Locked
    BY <1>5 DEF Locked, Mutating
  <2> QED BY <1>1, <1>2, <1>3, <2>2, <2>3, WriterStep
<1> QED
  BY <1>2, <1>4, <1>5

LEMMA CompactStep ==
  ASSUME FileInv, NEW t \in Writer, MutateCompact(t)
  PROVE  FileInv'
<1>1. /\ pc[t] = "compact" /\ pc[t] \in Locked /\ UNCHANGED <<version, ledger, lock, committed, mutations>> /\ base' = base
      /\ snapshot' \in {snapshot, base[t]}
  BY DEF MutateCompact, Locked, Mutating, history, writing
<1>2. Committed /\ base[t] = committed /\ Starts(committed, base[t])
  BY <1>1, WriterFacts DEF WriterHas, Mutating
<1>3. PICK a \in 0..Len(snapshot) :
        /\ version \in 1..Len(committed) /\ version = Len(committed) /\ snapshot \in Seq(Nat)
        /\ Len(snapshot) <= version /\ Starts(snapshot, committed)
        /\ committed \in Seq(Nat) /\ ledger \in Seq(Line) \cup {NoFile}
        /\ Holds(Lines(ledger), a, committed, version)
  BY <1>2, CommittedFacts
<1>4. /\ snapshot' \in Seq(Nat) /\ snapshot' # NoFile /\ Starts(snapshot', committed)
      /\ a \in 0..Len(snapshot')
  BY <1>1, <1>2, <1>3, FileAssumption
<1>5. FileShape' /\ FilesSay'
  <2>1. FileShape'
    BY <1>1, <1>4 DEF FileShape, FileInv
  <2>2. version # Pending /\ version # NoFile
    BY <1>2 DEF Committed
  <2> QED BY <1>1, <1>3, <1>4, <2>1, <2>2 DEF FilesSay, Committed
<1>6. base' \in [Task -> Seq(Nat)] /\ \A label : Goto(t, label) => pc'[t] = label
  BY <1>1, WriterFacts
<1>7. CASE snapshot' = base[t] /\ Goto(t, "truncate") /\ UNCHANGED cache
  <2>1. WriterHas(t)'
    BY <1>1, <1>2, <1>6, <1>7 DEF WriterHas, Committed, Mutating, Removing, Staging
  <2>2. "truncate" \in Locked
    BY DEF Locked, Mutating
  <2> QED BY <1>1, <1>5, <1>6, <1>7, <2>1, <2>2, WriterStep
<1>8. CASE Goto(t, "release")
  BY <1>1, <1>5, <1>6, <1>8, PlainStep
<1> QED
  BY <1>7, <1>8 DEF MutateCompact

LEMMA TruncateStep ==
  ASSUME FileInv, NEW t \in Writer, MutateTruncate(t)
  PROVE  FileInv'
<1>1. /\ pc[t] = "truncate" /\ pc[t] \in Locked /\ UNCHANGED <<version, snapshot, lock, committed, mutations>> /\ base' = base
      /\ ledger' \in {ledger, <<>>} /\ Goto(t, "release")
  BY DEF MutateTruncate, Locked, Mutating, history, writing
<1>2. Committed /\ snapshot = committed
  BY <1>1, WriterFacts DEF WriterHas
<1>3. PICK a \in 0..Len(snapshot) :
        /\ version \in 1..Len(committed) /\ version = Len(committed) /\ snapshot \in Seq(Nat)
        /\ Len(snapshot) <= version /\ Starts(snapshot, committed)
        /\ committed \in Seq(Nat) /\ ledger \in Seq(Line) \cup {NoFile}
        /\ Holds(Lines(ledger), a, committed, version)
  BY <1>2, CommittedFacts
<1>4. <<>> \in Seq(Line) /\ Len(<<>>) = 0
  OBVIOUS
<1>5. FileShape'
  BY <1>1, <1>4 DEF FileShape, FileInv
<1>6. \E b \in 0..Len(snapshot) : Holds(Lines(ledger'), b, committed, version)
  <2>1. CASE ledger' = ledger
    BY <1>3, <2>1
  <2>2. CASE ledger' = <<>>
    <3>1. Lines(ledger') = <<>>
      BY <2>2 DEF Lines
    <3>2. Len(committed) \in 0..Len(snapshot) /\ version - Len(committed) = 0
      BY <1>2, <1>3
    <3>3. Holds(Lines(ledger'), Len(committed), committed, version)
      BY <1>4, <3>1, <3>2 DEF Holds
    <3> QED BY <3>2, <3>3
  <2> QED BY <1>1, <2>1, <2>2
<1>7. FilesSay'
  BY <1>1, <1>2, <1>6 DEF FilesSay, FileInv, Committed
<1> QED
  BY <1>1, <1>5, <1>7, PlainStep, WriterFacts

LEMMA MutateStep ==
  ASSUME FileInv, NEW t \in Writer, Mutate(t)
  PROVE  FileInv' /\ IsPrefix(committed, committed')
<1>1. committed \in Seq(Nat) /\ IsPrefix(committed, committed)
  <2>1. committed \in Seq(Nat) /\ Starts(committed, committed)
    BY DEF FileInv, FileShape, Starts
  <2> QED BY <2>1, PrefixIsStart
<1>2. CASE MutateLoad(t)
  BY <1>1, <1>2, LoadStep DEF MutateLoad, history
<1>3. CASE MutateNormalize(t)
  BY <1>1, <1>3, NormalizeStep DEF MutateNormalize, history
<1>4. CASE MutateApply(t)
  BY <1>1, <1>4, ApplyStep DEF MutateApply
<1>5. CASE MutateRefuse(t)
  <2>1. pc[t] \in Locked /\ Ending(t) /\ FileShape' /\ FilesSay' /\ committed' = committed
    BY <1>5, FilesKept DEF MutateRefuse, Locked, Mutating, Ending, history
  <2> QED BY <1>1, <2>1, EndingStep
<1>6. CASE MutateAppend(t)
  <2>1. committed' = committed
    BY <1>6 DEF MutateAppend, history, Reject
  <2> QED BY <1>1, <1>6, <2>1, AppendStep
<1>7. CASE MutateCommit(t)
  BY <1>7, CommitStep
<1>8. CASE MutatePublish(t)
  BY <1>1, <1>8, PublishStep DEF MutatePublish, history
<1>9. CASE MutateCompact(t)
  BY <1>1, <1>9, CompactStep DEF MutateCompact, history
<1>10. CASE MutateTruncate(t)
  BY <1>1, <1>10, TruncateStep DEF MutateTruncate, history
<1> QED
  BY <1>2, <1>3, <1>4, <1>5, <1>6, <1>7, <1>8, <1>9, <1>10 DEF Mutate
-----------------------------------------------------------------------------
(* create keeps FileInv.                                                   *)

\* Under the pending marker, and with no version at all, the files say little.
LEMMA PendingFiles ==
  ASSUME committed' = <<>>, version' = Pending \/ (version' = NoFile /\ snapshot' = NoFile)
  PROVE  FilesSay'
BY FileAssumption DEF FilesSay, Committed, Pending

LEMMA CheckStep ==
  ASSUME FileInv, NEW t \in Writer, CreateCheck(t)
  PROVE  FileInv'
<1>1. pc[t] \in Locked /\ FileShape' /\ FilesSay' /\ UNCHANGED <<version, snapshot>>
  BY FilesKept DEF CreateCheck, Locked, files, history
<1>2. CASE Throw(t)
  BY <1>1, <1>2, EndingStep DEF Ending
<1>3. ASSUME NEW label \in {"removeSnapshot", "mark"}, Goto(t, label), UNCHANGED <<lock, cache, writing, reading>>,
             label = "removeSnapshot" => version = Pending,
             label = "mark" => version = NoFile /\ snapshot = NoFile
      PROVE  FileInv'
  <2>1. base' \in [Task -> Seq(Nat)] /\ lock' = lock /\ pc'[t] = label /\ label \in Locked
    BY <1>3, WriterFacts DEF writing, Locked, Removing
  <2>2. WriterHas(t)'
    BY <1>1, <1>3, <2>1 DEF WriterHas, Mutating, Removing, Staging
  <2> QED BY <1>1, <1>3, <2>1, <2>2, WriterStep
<1> QED
  BY <1>2, <1>3 DEF CreateCheck

LEMMA RemoveStep ==
  ASSUME FileInv, NEW t \in Writer, RemoveSnapshot(t) \/ RemoveLedger(t) \/ RemoveVersion(t)
  PROVE  FileInv'
<1>1. /\ pc[t] \in Removing /\ pc[t] \in Locked /\ UNCHANGED <<committed, mutations>>
      /\ version = Pending /\ committed = <<>> /\ base \in [Task -> Seq(Nat)]
  <2>1. pc[t] \in Removing
    BY DEF RemoveSnapshot, RemoveLedger, RemoveVersion, Removing
  <2>2. version = Pending
    BY <2>1, WriterFacts DEF WriterHas
  <2> QED
    BY <2>1, <2>2, WriterFacts DEF RemoveSnapshot, RemoveLedger, RemoveVersion, FileInv, FilesSay, Locked, history
<1>2. FileShape'
  BY <1>1 DEF RemoveSnapshot, RemoveLedger, RemoveVersion, FileShape, FileInv
<1>3. pc[t] = "removeVersion" => snapshot = NoFile /\ snapshot' = NoFile
  BY WriterFacts DEF WriterHas, RemoveVersion, RemoveSnapshot, RemoveLedger
<1>4. FilesSay'
  <2>1. CASE RemoveVersion(t)
    <3>1. pc[t] = "removeVersion" /\ version' \in {version, NoFile}
      BY <2>1 DEF RemoveVersion
    <3> QED BY <1>1, <1>3, <3>1, PendingFiles
  <2>2. CASE version' = version
    BY <1>1, <2>2, PendingFiles
  <2> QED BY <2>1, <2>2 DEF RemoveSnapshot, RemoveLedger
<1>5. CASE Throw(t)
  BY <1>1, <1>2, <1>4, <1>5, EndingStep DEF Ending
<1>6. ASSUME NEW label \in {"removeLedger", "removeVersion", "mark", "release"}, Goto(t, label), UNCHANGED <<lock, cache, writing, reading>>,
             label \in {"removeLedger", "removeVersion"} => version' = Pending /\ snapshot' = NoFile,
             label = "mark" => version' = NoFile /\ snapshot' = NoFile
      PROVE  FileInv'
  <2>1. base' \in [Task -> Seq(Nat)] /\ lock' = lock /\ pc'[t] = label /\ label \in Locked
    BY <1>1, <1>6, WriterFacts DEF writing, Locked, Removing
  <2>2. WriterHas(t)'
    BY <1>6, <2>1 DEF WriterHas, Mutating, Removing, Staging
  <2> QED BY <1>1, <1>2, <1>4, <1>6, <2>1, <2>2, WriterStep
<1>7. CASE RemoveSnapshot(t)
  BY <1>1, <1>5, <1>6, <1>7 DEF RemoveSnapshot
<1>8. CASE RemoveLedger(t)
  <2>1. snapshot = NoFile
    BY <1>8, WriterFacts DEF WriterHas, RemoveLedger
  <2> QED BY <1>1, <1>5, <1>6, <1>8, <2>1 DEF RemoveLedger
<1>9. CASE RemoveVersion(t)
  <2>1. PICK label \in {"mark", "release"} : Throw(t) \/ (version' = NoFile /\ Goto(t, label) /\ UNCHANGED <<lock, cache, writing, reading>>)
    BY <1>9 DEF RemoveVersion
  <2>2. snapshot' = NoFile
    BY <1>3, <1>9 DEF RemoveVersion
  <2> QED BY <1>5, <1>6, <2>1, <2>2
<1> QED
  BY <1>7, <1>8, <1>9

LEMMA MarkStep ==
  ASSUME FileInv, NEW t \in Writer, CreateMark(t)
  PROVE  FileInv'
<1>1. /\ pc[t] = "mark" /\ pc[t] \in Locked /\ UNCHANGED <<snapshot, ledger, committed>>
      /\ version = NoFile /\ snapshot = NoFile /\ committed = <<>>
  BY WriterFacts DEF CreateMark, Locked, WriterHas, FileInv, FilesSay
<1>2. CASE UNCHANGED <<version, mutations>> /\ Throw(t)
  BY <1>1, <1>2, FilesKept, EndingStep DEF files, Ending
<1>3. CASE mutations' = mutations + 1 /\ version' = Pending
  <2>1. FileShape' /\ FilesSay' /\ mutations' \in Nat
    BY <1>1, <1>3, PendingFiles DEF FileInv, FileShape, Pending
  <2>2. CASE ThrowRetaining(t)
    BY <1>1, <2>1, <2>2, EndingStep DEF Ending
  <2>3. CASE base' = [base EXCEPT ![t] = <<mutations'>>] /\ Goto(t, "stageSnapshot") /\ UNCHANGED <<lock, cache, kept, reading>>
    <3>1. <<mutations'>> \in Seq(Nat) /\ Len(<<mutations'>>) = 1
      BY <2>1
    <3>2. base' \in [Task -> Seq(Nat)] /\ base'[t] = <<mutations'>> /\ pc'[t] = "stageSnapshot"
      BY <2>3, <3>1, WriterFacts
    <3>3. WriterHas(t)'
      BY <1>3, <3>1, <3>2 DEF WriterHas, Mutating, Removing, Staging
    <3>4. "stageSnapshot" \in Locked
      BY DEF Locked, Staging
    <3> QED BY <1>1, <2>1, <2>3, <3>2, <3>3, <3>4, WriterStep
  <2> QED BY <1>3, <2>2, <2>3, <1>2 DEF CreateMark
<1> QED
  BY <1>2, <1>3 DEF CreateMark

LEMMA AbortStep ==
  ASSUME FileInv, NEW t \in Writer, pc[t] \in Locked, Abort(t), version' = Pending, FileShape', FilesSay'
  PROVE  FileInv'
<1>1. base' \in [Task -> Seq(Nat)] /\ lock' = lock /\ pc'[t] = "removeSnapshot" /\ Goto(t, "removeSnapshot")
  BY WriterFacts DEF Abort, writing
<1>2. WriterHas(t)'
  BY <1>1 DEF WriterHas, Mutating, Removing, Staging
<1>3. "removeSnapshot" \in Locked
  BY DEF Locked, Removing
<1> QED
  BY <1>1, <1>2, <1>3, WriterStep

LEMMA StageStep ==
  ASSUME FileInv, NEW t \in Writer, CreateStageSnapshot(t) \/ CreateStageLedger(t)
  PROVE  FileInv'
<1>1. /\ pc[t] \in Locked /\ version' = version /\ version = Pending /\ committed = <<>> /\ UNCHANGED <<committed, mutations>>
      /\ base[t] \in Seq(Nat) /\ Len(base[t]) = 1
  <2>1. pc[t] \in Staging /\ version' = version /\ UNCHANGED <<committed, mutations>>
    BY DEF CreateStageSnapshot, CreateStageLedger, Staging, history, Abort, Reject
  <2> QED BY <2>1, WriterFacts DEF WriterHas, Locked, FileInv, FilesSay
<1>2. FileShape' /\ FilesSay'
  <2>1. <<>> \in Seq(Line)
    OBVIOUS
  <2> QED BY <1>1, <2>1, PendingFiles DEF CreateStageSnapshot, CreateStageLedger, FileShape, FileInv
<1>3. CASE Abort(t)
  BY <1>1, <1>2, <1>3, AbortStep
<1>4. CASE pc[t] = "stageSnapshot" /\ snapshot' = base[t] /\ Renamed(t, "stageLedger")
  <2>1. pc' = [pc EXCEPT ![t] = "stageLedger"] /\ base' = base => WriterHas(t)'
    <3> SUFFICES ASSUME pc' = [pc EXCEPT ![t] = "stageLedger"], base' = base PROVE WriterHas(t)'
      OBVIOUS
    <3>1. pc'[t] = "stageLedger"
      BY WriterFacts
    <3> QED BY <1>1, <1>4, <3>1 DEF WriterHas, Mutating, Removing, Staging
  <2>2. "stageLedger" \in Locked
    BY DEF Locked, Staging
  <2> QED BY <1>1, <1>2, <1>4, <2>1, <2>2, RenamedStep
<1>5. CASE pc[t] = "stageLedger" /\ snapshot' = snapshot /\ ledger' = <<>> /\ Renamed(t, "createCommit")
  <2>1. pc' = [pc EXCEPT ![t] = "createCommit"] /\ base' = base => WriterHas(t)'
    <3> SUFFICES ASSUME pc' = [pc EXCEPT ![t] = "createCommit"], base' = base PROVE WriterHas(t)'
      OBVIOUS
    <3>1. pc'[t] = "createCommit"
      BY WriterFacts
    <3>2. snapshot = base[t]
      BY <1>5, WriterFacts DEF WriterHas
    <3> QED BY <1>1, <1>5, <3>1, <3>2 DEF WriterHas, Mutating, Removing, Staging
  <2>2. "createCommit" \in Locked
    BY DEF Locked, Staging
  <2> QED BY <1>1, <1>2, <1>5, <2>1, <2>2, RenamedStep
<1> QED
  BY <1>3, <1>4, <1>5 DEF CreateStageSnapshot, CreateStageLedger

LEMMA CreateCommitStep ==
  ASSUME FileInv, NEW t \in Writer, CreateCommit(t)
  PROVE  FileInv' /\ IsPrefix(committed, committed')
<1>1. /\ pc[t] = "createCommit" /\ pc[t] \in Locked /\ UNCHANGED <<snapshot, ledger>>
      /\ version = Pending /\ committed = <<>> /\ base[t] \in Seq(Nat) /\ Len(base[t]) = 1
      /\ snapshot = base[t] /\ ledger = <<>> /\ mutations \in Nat
  BY WriterFacts DEF CreateCommit, Locked, WriterHas, Staging, FileInv, FilesSay, FileShape
<1>2. CASE UNCHANGED version /\ Abort(t)
  <2>1. UNCHANGED <<committed, mutations>>
    BY <1>2 DEF Abort, Reject
  <2>2. FileShape' /\ FilesSay'
    BY <1>1, <1>2, <2>1, FilesKept DEF files
  <2>3. IsPrefix(committed, committed')
    <3>1. <<>> \in Seq(Nat) /\ Starts(<<>>, <<>>)
      BY DEF Starts
    <3> QED BY <1>1, <2>1, <3>1, PrefixIsStart
  <2> QED BY <1>1, <1>2, <2>2, <2>3, AbortStep
<1>3. CASE version' = Len(base[t]) /\ committed' = base[t] /\ UNCHANGED <<rejected, mutations>>
           /\ (ThrowRetaining(t) \/ (Goto(t, "release") /\ UNCHANGED <<lock, writing, reading>>))
  <2>1. version' \in Nat /\ version' = 1 /\ version' # NoFile /\ version' # Pending /\ <<>> \in Seq(Line) /\ Len(<<>>) = 0
    BY <1>1, <1>3, FileAssumption DEF Pending
  <2>2. FileShape'
    BY <1>1, <1>3, <2>1 DEF FileShape
  <2>3. Starts(base[t], base[t]) /\ Lines(ledger) = <<>>
    BY <1>1 DEF Starts, Lines
  <2>4. Holds(Lines(ledger), 1, base[t], 1)
    BY <2>1, <2>3 DEF Holds
  <2>5. FilesSay'
    <3>1. 1 \in 0..Len(snapshot) /\ snapshot # NoFile
      <4>1. Len(snapshot) = 1
        BY <1>1
      <4>2. base[t] \in Seq(Nat) /\ snapshot = base[t]
        BY <1>1
      <4>3. snapshot # NoFile
        BY <4>2, FileAssumption
      <4> QED BY <4>1, <4>3
    <3> QED BY <1>1, <1>3, <2>1, <2>3, <2>4, <3>1 DEF FilesSay, Committed
  <2>6. FileInv'
    <3>1. CASE ThrowRetaining(t)
      BY <1>1, <2>2, <2>5, <3>1, EndingStep DEF Ending
    <3>2. CASE Goto(t, "release") /\ UNCHANGED <<lock, writing, reading>>
      <4>1. base' \in [Task -> Seq(Nat)] /\ lock' = lock
        BY <3>2, WriterFacts DEF writing
      <4> QED BY <1>1, <2>2, <2>5, <3>2, <4>1, PlainStep
    <3> QED BY <1>3, <3>1, <3>2
  <2>7. IsPrefix(committed, committed')
    <3>1. <<>> \in Seq(Nat) /\ Starts(<<>>, base[t])
      BY <1>1 DEF Starts
    <3> QED BY <1>1, <1>3, <3>1, PrefixIsStart
  <2> QED BY <2>6, <2>7
<1> QED
  BY <1>2, <1>3 DEF CreateCommit

LEMMA CreateStep ==
  ASSUME FileInv, NEW t \in Writer, Create(t)
  PROVE  FileInv' /\ IsPrefix(committed, committed')
<1>1. committed \in Seq(Nat) /\ IsPrefix(committed, committed)
  <2>1. committed \in Seq(Nat) /\ Starts(committed, committed)
    BY DEF FileInv, FileShape, Starts
  <2> QED BY <2>1, PrefixIsStart
<1>2. CASE CreateCheck(t)
  BY <1>1, <1>2, CheckStep DEF CreateCheck, history
<1>3. CASE RemoveSnapshot(t) \/ RemoveLedger(t) \/ RemoveVersion(t)
  BY <1>1, <1>3, RemoveStep DEF RemoveSnapshot, RemoveLedger, RemoveVersion, history
<1>4. CASE CreateMark(t)
  BY <1>1, <1>4, MarkStep DEF CreateMark
<1>5. CASE CreateStageSnapshot(t) \/ CreateStageLedger(t)
  BY <1>1, <1>5, StageStep DEF CreateStageSnapshot, CreateStageLedger, history, Abort, Reject
<1>6. CASE CreateCommit(t)
  BY <1>6, CreateCommitStep
<1> QED
  BY <1>2, <1>3, <1>4, <1>5, <1>6 DEF Create
-----------------------------------------------------------------------------
(* The lock, the readers and crashes keep FileInv.                         *)

LEMMA LockingStep ==
  ASSUME FileInv, NEW t \in Writer, Locking(t)
  PROVE  FileInv'
<1>1. FileShape' /\ FilesSay'
  BY FilesKept DEF Locking, Call, Acquire, AcquireRecover, AcquireTimeOut, Release, history
<1>2. CASE Release(t)
  <2>1. pc[t] \in Locked /\ Goto(t, "idle") /\ base' = [base EXCEPT ![t] = <<>>] /\ <<>> \in Seq(Nat)
    BY <1>2 DEF Release, Leave, Locked
  <2>2. base' \in [Task -> Seq(Nat)]
    BY <2>1, WriterFacts
  <2> QED BY <1>1, <2>1, <2>2, PlainStep
<1>3. ASSUME NEW label \in {"idle", "acquire", "load", "createCheck"}, pc' = [pc EXCEPT ![t] = label], base' = base, pc[t] \in {"idle", "acquire"},
             \/ lock' = lock /\ label \in {"idle", "acquire"}
             \/ lock = "free" /\ lock' = Proc(t)
      PROVE  FileInv'
  <2>1. /\ t \in Task /\ pc \in [Task -> {"idle", "acquire"} \cup Locked \cup Reading] /\ base \in [Task -> Seq(Nat)]
        /\ label \in {"idle", "acquire"} \cup Locked /\ label \notin Reading
    BY WriterFacts DEF Locked, Mutating, Reading
  <2>2. pc'[t] = label /\ \A u \in Task \ {t} : pc'[u] = pc[u]
    BY <1>3, <2>1
  <2>3. WriterShape'
    <3>1. pc' \in [Task -> {"idle", "acquire"} \cup Locked \cup Reading] /\ base' \in [Task -> Seq(Nat)]
      BY <1>3, <2>1
    <3> QED BY <2>1, <2>2, <3>1, TaskFacts DEF WriterShape, FileInv, Task
  <2>4. Exclusive'
    <3>1. CASE lock' = lock /\ label \in {"idle", "acquire"}
      <4>1. label \notin Locked
        BY <3>1 DEF Locked, Mutating, Removing, Staging
      <4> QED BY <2>2, <3>1, <4>1, TaskFacts DEF Exclusive, FileInv, Proc
    <3>2. CASE lock = "free" /\ lock' = Proc(t)
      <4>1. \A u \in Writer : pc[u] \notin Locked
        BY <3>2, TaskFacts DEF Exclusive, FileInv, Proc
      <4> QED BY <2>2, <3>2, <4>1, TaskFacts DEF Exclusive
    <3> QED BY <1>3, <3>1, <3>2
  <2>5. \A u \in Writer : WriterHas(u)'
    <3>1. WriterHas(t)'
      BY <2>2, PlainWriter DEF Plain
    <3>2. ASSUME NEW u \in Writer \ {t} PROVE WriterHas(u)'
      <4>1. pc'[u] = pc[u] /\ WriterHas(u) /\ base'[u] = base[u]
        BY <1>3, <2>2, WriterFacts
      <4>2. UNCHANGED <<version, snapshot, ledger, committed>>
        BY <1>3 DEF Locking, Call, Acquire, AcquireRecover, AcquireTimeOut, Release, files, history
      <4> QED BY <4>1, <4>2 DEF WriterHas, Exact, Committed
    <3> QED BY <3>1, <3>2
  <2> QED BY <1>1, <2>3, <2>4, <2>5 DEF FileInv, Writers
<1>4. CASE Call(t)
  BY <1>3, <1>4 DEF Call, Goto, writing
<1>5. CASE Acquire(t)
  BY <1>3, <1>5 DEF Acquire, Goto, writing
<1>6. CASE AcquireTimeOut(t)
  BY <1>3, <1>6 DEF AcquireTimeOut, Goto, writing
<1>7. CASE AcquireRecover(t)
  <2>1. \A u \in Writer : pc[u] \notin Locked
    BY <1>7, TaskFacts DEF AcquireRecover, Exclusive, FileInv, Proc
  <2>2. UNCHANGED <<files, history, pc, base>>
    BY <1>7 DEF AcquireRecover, writing
  <2>3. WriterShape' /\ Exclusive' /\ Writers'
    BY <2>1, <2>2 DEF WriterShape, Exclusive, Writers, WriterHas, Exact, Committed, FileInv, files, history
  <2> QED BY <1>1, <2>3 DEF FileInv
<1> QED
  BY <1>2, <1>4, <1>5, <1>6, <1>7 DEF Locking

LEMMA ReadsLeaveWriters ==
  ASSUME FileInv, NEW t \in Reader \cup SyncReader, Read(t)
  PROVE  \E label \in {"idle"} \cup Reading :
           /\ t \in Task /\ t \notin Writer /\ pc \in [Task -> {"idle", "acquire"} \cup Locked \cup Reading]
           /\ pc' = [pc EXCEPT ![t] = label] /\ pc'[t] = label
           /\ (\A u \in Task \ {t} : pc'[u] = pc[u]) /\ (\A u \in Writer : pc'[u] = pc[u])
<1>1. PICK label \in {"idle"} \cup Reading : Goto(t, label)
  <2>1. CASE ReadCall(t)
    BY <2>1 DEF ReadCall, Reading
  <2>2. CASE SyncReadLock(t)
    BY <2>2 DEF SyncReadLock, Reading, Fail
  <2>3. CASE ReadVersion(t)
    BY <2>3 DEF ReadVersion, Reading, Answer
  <2>4. CASE ReadLedger(t) \/ ReadSnapshot(t)
    BY <2>4 DEF ReadLedger, ReadSnapshot, Reading
  <2>5. CASE ReadAgain(t) \/ SyncReadAgain(t) \/ SyncReadUnlocked(t)
    BY <2>5 DEF ReadAgain, SyncReadAgain, SyncReadUnlocked, Reading, Answer, Fail
  <2> QED BY <2>1, <2>2, <2>3, <2>4, <2>5 DEF Read
<1>2. /\ t \in Task /\ t \notin Writer /\ pc \in [Task -> {"idle", "acquire"} \cup Locked \cup Reading]
      /\ pc' = [pc EXCEPT ![t] = label]
  BY <1>1, TaskAssumption DEF Task, FileInv, WriterShape, Goto
<1>3. pc'[t] = label /\ \A u \in Task \ {t} : pc'[u] = pc[u]
  BY <1>2
<1>4. \A u \in Writer : pc'[u] = pc[u]
  BY <1>2, <1>3, TaskFacts
<1> QED
  BY <1>2, <1>3, <1>4

LEMMA ReadStep ==
  ASSUME FileInv, NEW t \in Reader \cup SyncReader, Read(t)
  PROVE  FileInv'
<1>1. UNCHANGED <<files, history, base>>
  BY DEF Read, ReadCall, SyncReadLock, ReadVersion, ReadLedger, ReadSnapshot, ReadAgain, SyncReadAgain, SyncReadUnlocked, writing
<1>2. FileShape' /\ FilesSay'
  BY <1>1, FilesKept DEF history
<1>3. lock' = lock \/ lock \in {"free", "dead"}
  BY DEF Read, ReadCall, SyncReadLock, ReadVersion, ReadLedger, ReadSnapshot, ReadAgain, SyncReadAgain, SyncReadUnlocked
<1>5. PICK label \in {"idle"} \cup Reading :
        /\ t \in Task /\ t \notin Writer /\ pc \in [Task -> {"idle", "acquire"} \cup Locked \cup Reading]
        /\ pc' = [pc EXCEPT ![t] = label] /\ pc'[t] = label
        /\ (\A u \in Task \ {t} : pc'[u] = pc[u]) /\ (\A u \in Writer : pc'[u] = pc[u])
  BY ReadsLeaveWriters
<1>8. WriterShape'
  <2>1. pc' \in [Task -> {"idle", "acquire"} \cup Locked \cup Reading] /\ base' \in [Task -> Seq(Nat)]
    BY <1>1, <1>5 DEF FileInv, WriterShape
  <2>2. \A u \in Reader \cup SyncReader : pc'[u] \in {"idle"} \cup Reading
    BY <1>5 DEF FileInv, WriterShape, Task
  <2> QED BY <1>5, <2>1, <2>2 DEF FileInv, WriterShape
<1>9. Exclusive'
  <2>1. CASE lock' = lock
    BY <1>5, <2>1 DEF Exclusive, FileInv, Proc
  <2>2. CASE lock \in {"free", "dead"}
    <3>1. \A u \in Writer : pc[u] \notin Locked
      BY <2>2, TaskFacts DEF Exclusive, FileInv, Proc
    <3> QED BY <1>5, <3>1 DEF Exclusive
  <2> QED BY <1>3, <2>1, <2>2
<1>10. Writers'
  BY <1>1, <1>5 DEF Writers, WriterHas, Exact, Committed, FileInv, files, history
<1> QED
  BY <1>2, <1>8, <1>9, <1>10 DEF FileInv

LEMMA CrashStep ==
  ASSUME FileInv, NEW p \in Process, Crash(p)
  PROVE  FileInv'
<1>1. /\ UNCHANGED <<version, snapshot, committed, mutations>>
      /\ pc' = [u \in Task |-> IF Proc(u) = p THEN "idle" ELSE pc[u]]
      /\ base' = [u \in Task |-> IF Proc(u) = p THEN <<>> ELSE base[u]]
      /\ lock' = IF lock = p THEN "dead" ELSE lock
  BY DEF Crash
<1>2. \A u \in Task : pc[u] \in Locked => u \in Writer /\ lock = Proc(u)
  <2>1. Locked \cap ({"idle"} \cup Reading) = {}
    BY DEF Locked, Mutating, Removing, Staging, Reading
  <2>2. \A u \in Reader \cup SyncReader : pc[u] \notin Locked
    BY <2>1 DEF FileInv, WriterShape
  <2> QED BY <2>2 DEF Task, FileInv, Exclusive
<1>3. \/ ledger' = ledger
      \/ lock = p /\ \E e \in Line : ledger' = Append(Lines(ledger), e)
  <2>1. \/ ledger' = ledger
        \/ \E u \in Task : Proc(u) = p /\ pc[u] = "append" /\ ledger' \in {Append(Lines(ledger), Torn), Append(Lines(ledger), Entry(u))}
    BY DEF Crash
  <2>2. ASSUME NEW u \in Task, Proc(u) = p, pc[u] = "append", ledger' \in {Append(Lines(ledger), Torn), Append(Lines(ledger), Entry(u))}
        PROVE  lock = p /\ \E e \in Line : ledger' = Append(Lines(ledger), e)
    <3>1. u \in Writer /\ lock = p
      BY <1>2, <2>2 DEF Locked, Mutating
    <3>2. Entry(u) \in Line /\ Torn \in Line
      BY <2>2, <3>1, EntryShape
    <3> QED BY <2>2, <3>1, <3>2
  <2> QED BY <2>1, <2>2
<1>4. FileShape' /\ FilesSay'
  <2>1. CASE ledger' = ledger
    BY <1>1, <2>1, FilesKept DEF files
  <2>2. CASE \E e \in Line : ledger' = Append(Lines(ledger), e)
    BY <1>1, <2>2, LongerLedger
  <2> QED BY <1>3, <2>1, <2>2
<1>5. /\ pc \in [Task -> {"idle", "acquire"} \cup Locked \cup Reading] /\ base \in [Task -> Seq(Nat)] /\ <<>> \in Seq(Nat)
      /\ Writer \subseteq Task /\ Reader \cup SyncReader \subseteq Task
  BY TaskFacts DEF FileInv, WriterShape, Task
<1>6. \A u \in Task : pc'[u] = "idle" \/ (Proc(u) # p /\ pc'[u] = pc[u] /\ base'[u] = base[u])
  BY <1>1, <1>5
<1>7. WriterShape'
  <2>1. pc' \in [Task -> {"idle", "acquire"} \cup Locked \cup Reading] /\ base' \in [Task -> Seq(Nat)]
    BY <1>1, <1>5
  <2>2. "idle" \notin Reading
    BY DEF Reading
  <2> QED BY <1>5, <1>6, <2>1, <2>2 DEF FileInv, WriterShape
<1>8. "idle" \notin Locked
  BY DEF Locked, Mutating, Removing, Staging
<1>9. Exclusive'
  BY <1>1, <1>2, <1>5, <1>6, <1>8 DEF Exclusive, FileInv, Proc
<1>10. ASSUME NEW u \in Writer PROVE WriterHas(u)'
  <2>1. CASE pc'[u] \notin Locked
    BY <2>1, AwayWriter
  <2>2. CASE pc'[u] \in Locked
    <3>1. pc'[u] = pc[u] /\ base'[u] = base[u] /\ lock # p /\ WriterHas(u)
      BY <1>2, <1>5, <1>6, <1>8, <2>2, WriterFacts
    <3>2. ledger' = ledger
      BY <1>3, <3>1
    <3> QED BY <1>1, <3>1, <3>2 DEF WriterHas, Exact, Committed
  <2> QED BY <2>1, <2>2
<1> QED
  BY <1>4, <1>7, <1>9, <1>10 DEF FileInv, Writers
-----------------------------------------------------------------------------
LEMMA InitFiles == Init => FileInv
<1> SUFFICES ASSUME Init PROVE FileInv
  OBVIOUS
<1>1. <<0>> \in Seq(Nat) /\ Len(<<0>>) = 1 /\ <<>> \in Seq(Nat) /\ <<>> \in Seq(Line) /\ Len(<<>>) = 0
  OBVIOUS
<1>2. <<0>> # NoFile /\ 1 # NoFile /\ Pending # NoFile /\ 1 # Pending
  <2>1. <<0>> # NoFile
    <3>1. PICK s \in Seq(Nat) : s = <<0>>
      BY <1>1
    <3>2. s # NoFile
      BY FileAssumption
    <3> QED BY <3>1, <3>2
  <2>2. 1 # NoFile /\ 0 # NoFile
    BY FileAssumption
  <2> QED BY <1>1, <2>1, <2>2 DEF Pending
<1>3. scenario.beginning \in {"none", "legacy", "graph"}
  BY ScenarioAssumption DEF Init, Scenario
<1>4. FileShape
  BY <1>1, <1>3 DEF Init, FileShape
<1>5. \A t \in Task : pc[t] = "idle"
  BY DEF Init
<1>6. WriterShape
  <2>1. pc \in [Task -> {"idle", "acquire"} \cup Locked \cup Reading] /\ base \in [Task -> Seq(Nat)]
    BY <1>1 DEF Init
  <2> QED BY <1>5, <2>1, TaskFacts DEF WriterShape, Reading, Task
<1>7. \A t \in Writer : pc[t] \notin Locked
  BY <1>5, TaskFacts DEF Locked, Mutating, Removing, Staging
<1>8. Exclusive /\ Writers
  BY <1>7 DEF Exclusive, Writers, WriterHas, Locked, Mutating, Removing, Staging
<1>9. FilesSay
  <2>1. CASE scenario.beginning = "none"
    BY <1>2, <2>1 DEF Init, FilesSay, Committed
  <2>2. CASE scenario.beginning = "legacy"
    BY <1>2, <2>2 DEF Init, FilesSay, Committed
  <2>3. CASE scenario.beginning = "graph"
    <3>1. version = 1 /\ snapshot = <<0>> /\ ledger = <<>> /\ committed = <<0>>
      BY <2>3 DEF Init
    <3>2. Starts(<<0>>, <<0>>) /\ Lines(ledger) = <<>> /\ Holds(<<>>, 1, <<0>>, 1) /\ 1 \in 0..Len(<<0>>)
      <4>1. Lines(ledger) = <<>>
        BY <3>1 DEF Lines
      <4> QED BY <1>1, <4>1 DEF Starts, Holds
    <3> QED BY <1>1, <1>2, <3>1, <3>2 DEF FilesSay, Committed
  <2> QED BY <1>3, <2>1, <2>2, <2>3
<1> QED
  BY <1>4, <1>6, <1>8, <1>9 DEF FileInv

LEMMA FilesStep == FileInv /\ [Next]_vars => FileInv' /\ IsPrefix(committed, committed')
<1> SUFFICES ASSUME FileInv, [Next]_vars PROVE FileInv' /\ IsPrefix(committed, committed')
  OBVIOUS
<1>0. committed' = committed => IsPrefix(committed, committed')
  <2>1. committed \in Seq(Nat) /\ Starts(committed, committed)
    BY DEF FileInv, FileShape, Starts
  <2> QED BY <2>1, PrefixIsStart
<1>1. ASSUME NEW t \in Writer, Locking(t) PROVE FileInv' /\ IsPrefix(committed, committed')
  BY <1>0, <1>1, LockingStep DEF Locking, Call, Acquire, AcquireRecover, AcquireTimeOut, Release, history
<1>2. ASSUME NEW t \in Writer, Mutate(t) PROVE FileInv' /\ IsPrefix(committed, committed')
  BY <1>2, MutateStep
<1>3. ASSUME NEW t \in Writer, Create(t) PROVE FileInv' /\ IsPrefix(committed, committed')
  BY <1>3, CreateStep
<1>4. ASSUME NEW t \in Reader \cup SyncReader, Read(t) PROVE FileInv' /\ IsPrefix(committed, committed')
  <2>1. committed' = committed
    BY <1>4 DEF Read, ReadCall, SyncReadLock, ReadVersion, ReadLedger, ReadSnapshot, ReadAgain, SyncReadAgain, SyncReadUnlocked, history
  <2> QED BY <1>0, <1>4, <2>1, ReadStep
<1>5. ASSUME NEW p \in Process, Crash(p) PROVE FileInv' /\ IsPrefix(committed, committed')
  <2>1. committed' = committed
    BY <1>5 DEF Crash
  <2> QED BY <1>0, <1>5, <2>1, CrashStep
<1>6. CASE UNCHANGED vars
  <2>1. UNCHANGED <<version, snapshot, ledger, committed, mutations, pc, base, lock>>
    BY <1>6 DEF vars, files, history, writing
  <2>2. FileInv'
    BY <2>1 DEF FileInv, FileShape, WriterShape, Exclusive, FilesSay, Writers, WriterHas, Exact, Committed
  <2> QED BY <1>0, <2>1, <2>2
<1> QED
  BY <1>1, <1>2, <1>3, <1>4, <1>5, <1>6 DEF Next

LEMMA FilesAlways == Spec => []FileInv
BY InitFiles, FilesStep, PTL DEF Spec

\* Whatever was interrupted, a version file that names a revision, the ledger
\* and the snapshot materialize to the last committed graph: for any number of
\* writers, readers, processes and crashes, and any graph on disk at first.
THEOREM GraphIsRecoverable == Spec => []Recoverable
<1>1. FileInv => Recoverable
  BY CommittedGraph DEF Recoverable, Committed
<1> QED
  BY <1>1, FilesAlways, PTL

\* A commit point, the rename of the version file, only adds a mutation to
\* the graph that was committed: the writer worked on that graph and no other.
THEOREM CommitsOnlyExtend == Spec => CommitsExtendTheLog
<1>1. FileInv /\ [Next]_vars => [IsPrefix(committed, committed')]_vars
  BY FilesStep
<1> QED
  BY <1>1, FilesAlways, PTL DEF Spec, CommitsExtendTheLog
-----------------------------------------------------------------------------
(* What failed stays out of the graph, unless the ledger is a legacy one.  *)

NoLegacy ==
  /\ version = NoFile => snapshot = NoFile
  /\ \A t \in Writer : pc[t] \in Mutating \ {"load"} => version # NoFile

LEMMA OthersAway ==
  ASSUME FileInv, NEW t \in Writer, pc[t] \in Locked, NEW label, Goto(t, label)
  PROVE  pc'[t] = label /\ \A u \in Writer \ {t} : pc'[u] = pc[u] /\ pc[u] \notin Locked
BY TaskFacts DEF FileInv, Exclusive, WriterShape, Goto

\* Where the writer that takes a locked step ends up.
LEMMA LockedLabel ==
  ASSUME NEW t \in Writer, Mutate(t) \/ Create(t) \/ Release(t)
  PROVE  pc[t] \in Locked /\ \E label \in {"idle"} \cup Locked : Goto(t, label)
<1>1. ASSUME Release(t) PROVE pc[t] \in Locked /\ Goto(t, "idle")
  BY <1>1 DEF Release, Leave, Locked
<1>2. ASSUME Mutate(t) PROVE pc[t] \in Locked
  BY <1>2 DEF Mutate, MutateLoad, MutateNormalize, MutateApply, MutateRefuse, MutateAppend, MutateCommit, MutatePublish,
     MutateCompact, MutateTruncate, Locked, Mutating
<1>3. ASSUME Create(t) PROVE pc[t] \in Locked
  BY <1>3 DEF Create, CreateCheck, RemoveSnapshot, RemoveLedger, RemoveVersion, CreateMark, CreateStageSnapshot,
     CreateStageLedger, CreateCommit, Locked, Removing, Staging
<1>4. ASSUME Throw(t) \/ ThrowRetaining(t) PROVE \E label \in {"idle"} \cup Locked : Goto(t, label)
  BY <1>4 DEF Throw, ThrowRetaining, Leave, Locked
<1>5. ASSUME NEW next \in {"apply", "publish", "stageLedger", "createCommit"}, Renamed(t, next)
      PROVE  \E label \in {"idle"} \cup Locked : Goto(t, label)
  BY <1>4, <1>5 DEF Renamed, Locked, Mutating, Staging
<1>6. ASSUME Mutate(t) PROVE \E label \in {"idle"} \cup Locked : Goto(t, label)
  <2>1. CASE MutateLoad(t)
    BY <1>4, <2>1 DEF MutateLoad, Locked, Mutating
  <2>2. CASE MutateNormalize(t)
    BY <1>4, <1>5, <2>2 DEF MutateNormalize
  <2>3. CASE MutateApply(t) \/ MutateRefuse(t)
    BY <1>4, <2>3 DEF MutateApply, MutateRefuse, Locked, Mutating
  <2>4. CASE MutateAppend(t)
    BY <1>4, <2>4 DEF MutateAppend, Locked, Mutating
  <2>5. CASE MutateCommit(t)
    BY <1>4, <1>5, <2>5 DEF MutateCommit
  <2>6. CASE MutatePublish(t) \/ MutateCompact(t) \/ MutateTruncate(t)
    BY <2>6 DEF MutatePublish, MutateCompact, MutateTruncate, Locked, Mutating
  <2> QED BY <1>6, <2>1, <2>2, <2>3, <2>4, <2>5, <2>6 DEF Mutate
<1>7. ASSUME Create(t) PROVE \E label \in {"idle"} \cup Locked : Goto(t, label)
  <2>1. CASE CreateCheck(t) \/ RemoveSnapshot(t) \/ RemoveLedger(t) \/ RemoveVersion(t)
    BY <1>4, <2>1 DEF CreateCheck, RemoveSnapshot, RemoveLedger, RemoveVersion, Locked, Removing
  <2>2. CASE CreateMark(t)
    BY <1>4, <2>2 DEF CreateMark, Locked, Staging
  <2>3. CASE CreateStageSnapshot(t) \/ CreateStageLedger(t)
    BY <1>5, <2>3 DEF CreateStageSnapshot, CreateStageLedger, Abort, Locked, Removing
  <2>4. CASE CreateCommit(t)
    BY <1>4, <2>4 DEF CreateCommit, Abort, Locked, Removing
  <2> QED BY <1>7, <2>1, <2>2, <2>3, <2>4 DEF Create
<1> QED
  BY <1>1, <1>2, <1>3, <1>6, <1>7

LEMMA NoLegacyStep == FileInv /\ NoLegacy /\ [Next]_vars => NoLegacy'
<1> SUFFICES ASSUME FileInv, NoLegacy, [Next]_vars PROVE NoLegacy'
  OBVIOUS
<1>1. ASSUME NEW t \in Writer, pc[t] \in Locked, NEW label, Goto(t, label),
             version' = NoFile => snapshot' = NoFile,
             label \in Mutating \ {"load"} => version' # NoFile
      PROVE  NoLegacy'
  <2>1. Mutating \subseteq Locked
    BY DEF Locked
  <2> QED BY <1>1, <2>1, OthersAway DEF NoLegacy
<1>2. ASSUME UNCHANGED <<version, snapshot>>, \A t \in Writer : pc'[t] \in Mutating \ {"load"} => pc[t] \in Mutating \ {"load"}
      PROVE  NoLegacy'
  BY <1>2 DEF NoLegacy
<1>3. ASSUME NEW t \in Writer, Call(t) \/ Acquire(t) \/ AcquireRecover(t) \/ AcquireTimeOut(t) PROVE NoLegacy'
  <2>1. UNCHANGED <<version, snapshot>> /\ (pc' = pc \/ \E label \in {"idle", "acquire", "load", "createCheck"} : Goto(t, label))
    BY <1>3 DEF Call, Acquire, AcquireRecover, AcquireTimeOut, files
  <2>2. \A u \in Writer : pc'[u] \in Mutating \ {"load"} => pc[u] \in Mutating \ {"load"}
    BY <2>1, TaskFacts DEF Goto, FileInv, WriterShape, Mutating
  <2> QED BY <1>2, <2>1, <2>2
<1>4. ASSUME NEW t \in Writer, Mutate(t) \/ Create(t) \/ Release(t) PROVE NoLegacy'
  <2>1. PICK label : Goto(t, label)
    BY <1>4, LockedLabel
  <2>2. pc[t] \in Locked /\ WriterHas(t) /\ base[t] \in Seq(Nat) /\ pc'[t] = label /\ version \in Nat \cup {NoFile}
    BY <1>4, <2>1, LockedLabel, WriterFacts, OthersAway DEF FileInv, FileShape
  <2>3. NoFile \notin Nat /\ Pending \in Nat
    BY FileAssumption DEF Pending
  <2>4. Len(base[t]) \in Nat
    BY <2>2
  <2>5. (version' = NoFile => snapshot' = NoFile) /\ (label \in Mutating \ {"load"} => version' # NoFile)
    <3>1. CASE MutateLoad(t)
      <4>1. UNCHANGED <<version, snapshot>>
        BY <3>1 DEF MutateLoad, files
      <4>2. label \in Mutating \ {"load"} => Materialize(version, ledger, snapshot).ok
        BY <2>2, <3>1, WriterFacts DEF MutateLoad, Throw, Mutating
      <4>3. Materialize(version, ledger, snapshot).ok => snapshot # NoFile
        <5>1. ~Start(version, snapshot).ok => Materialize(version, ledger, snapshot) = Start(version, snapshot)
          BY MaterializeIs
        <5>2. Start(version, snapshot).ok <=> (snapshot # NoFile /\ version # Pending)
          BY DEF Start
        <5> QED BY <5>1, <5>2
      <4> QED BY <4>1, <4>2, <4>3 DEF NoLegacy
    <3>2. CASE pc[t] \in Mutating \ {"load"} /\ (Mutate(t) \/ Release(t))
      <4>1. version' \in Nat
        BY <2>2, <2>3, <2>4, <3>2 DEF NoLegacy, Mutate, Release, MutateNormalize, MutateApply, MutateRefuse, MutateAppend, MutateCommit, MutatePublish,
           MutateCompact, MutateTruncate, MutateLoad, files
      <4> QED BY <2>3, <4>1
    <3>3. CASE Release(t)
      BY <2>2, <3>3, WriterFacts DEF Release, Leave, Mutating, NoLegacy, files
    <3>4. CASE CreateCheck(t)
      BY <2>2, <3>4, WriterFacts DEF CreateCheck, Throw, Mutating, NoLegacy, files
    <3>5. CASE RemoveSnapshot(t) \/ RemoveLedger(t)
      BY <2>2, <2>3, <3>5, WriterFacts DEF RemoveSnapshot, RemoveLedger, Throw, Mutating, WriterHas, Removing
    <3>6. CASE RemoveVersion(t)
      BY <2>2, <3>6, WriterFacts DEF RemoveVersion, Throw, Mutating, WriterHas, Removing
    <3>7. CASE CreateMark(t)
      BY <2>2, <3>7, WriterFacts DEF CreateMark, Throw, ThrowRetaining, Leave, Mutating, WriterHas
    <3>8. CASE CreateStageSnapshot(t) \/ CreateStageLedger(t)
      BY <2>2, <2>3, <3>8, WriterFacts DEF CreateStageSnapshot, CreateStageLedger, Renamed, Abort, ThrowRetaining, Leave, Mutating, WriterHas, Staging
    <3>9. CASE CreateCommit(t)
      BY <2>2, <2>3, <2>4, <3>9, WriterFacts DEF CreateCommit, Abort, ThrowRetaining, Leave, Mutating, WriterHas, Staging
    <3>10. Mutate(t) => MutateLoad(t) \/ pc[t] \in Mutating \ {"load"}
      BY DEF Mutate, MutateLoad, MutateNormalize, MutateApply, MutateRefuse, MutateAppend, MutateCommit, MutatePublish,
         MutateCompact, MutateTruncate, Mutating
    <3> QED BY <1>4, <3>1, <3>2, <3>3, <3>4, <3>5, <3>6, <3>7, <3>8, <3>9, <3>10 DEF Create
  <2> QED BY <1>1, <2>1, <2>2, <2>5
<1>5. ASSUME NEW t \in Reader \cup SyncReader, Read(t) PROVE NoLegacy'
  <2>1. UNCHANGED <<version, snapshot>>
    BY <1>5 DEF Read, ReadCall, SyncReadLock, ReadVersion, ReadLedger, ReadSnapshot, ReadAgain, SyncReadAgain, SyncReadUnlocked, files
  <2>2. \A u \in Writer : pc'[u] = pc[u]
    BY <1>5, ReadsLeaveWriters
  <2> QED BY <1>2, <2>1, <2>2
<1>6. ASSUME NEW p \in Process, Crash(p) PROVE NoLegacy'
  <2>1. UNCHANGED <<version, snapshot>> /\ \A u \in Writer : pc'[u] = "idle" \/ pc'[u] = pc[u]
    BY <1>6, TaskFacts DEF Crash
  <2> QED BY <1>2, <2>1 DEF Mutating
<1>7. CASE UNCHANGED vars
  BY <1>2, <1>7 DEF vars, files
<1> QED
  BY <1>3, <1>4, <1>5, <1>6, <1>7 DEF Next, Locking

Minted == {"append", "commit"} \cup Staging
Fresh(x) == x \in 1..mutations /\ x \notin rejected /\ \A i \in 1..Len(committed) : committed[i] # x
Ids ==
  /\ rejected \subseteq 0..mutations
  /\ \A i \in 1..Len(committed) : committed[i] \in 0..mutations /\ committed[i] \notin rejected
  /\ \A t \in Writer : pc[t] \in Minted => Fresh(base[t][Len(base[t])])

\* The four ways a step bears on the identities of mutations.
LEMMA QuietIds ==
  ASSUME Ids, UNCHANGED <<committed, rejected, mutations>>,
         \A u \in Writer : pc'[u] \in Minted => pc[u] \in Minted /\ base'[u] = base[u]
  PROVE  Ids'
BY DEF Ids, Fresh

LEMMA MintedIds ==
  ASSUME FileInv, Ids, NEW t \in Writer, UNCHANGED <<committed, rejected>>, mutations' = mutations + 1,
         \A u \in Writer \ {t} : pc'[u] \notin Minted,
         pc'[t] \in Minted => base'[t][Len(base'[t])] = mutations + 1
  PROVE  Ids'
<1>1. mutations \in Nat
  BY DEF FileInv, FileShape
<1>2. rejected' \subseteq 0..mutations' /\ 0..mutations \subseteq 0..mutations'
  BY <1>1 DEF Ids
<1>3. \A i \in 1..Len(committed') : committed'[i] \in 0..mutations' /\ committed'[i] \notin rejected'
  BY <1>2 DEF Ids
<1>4. pc'[t] \in Minted => Fresh(base[t][Len(base[t])])'
  <2>1. PICK x : x = mutations + 1
    OBVIOUS
  <2>2. x \in 1..mutations' /\ x \notin 0..mutations
    BY <1>1, <2>1
  <2>3. x \notin rejected' /\ \A i \in 1..Len(committed') : committed'[i] # x
    BY <2>2 DEF Ids
  <2>4. Fresh(x)'
    BY <2>2, <2>3 DEF Fresh
  <2>5. pc'[t] \in Minted => base'[t][Len(base'[t])] = x
    BY <2>1
  <2> QED BY <2>4, <2>5 DEF Fresh
<1>5. \A u \in Writer : pc'[u] \in Minted => Fresh(base[u][Len(base[u])])'
  BY <1>4
<1> QED
  BY <1>2, <1>3, <1>5 DEF Ids

LEMMA RejectedIds ==
  ASSUME FileInv, Ids, NEW t \in Writer, pc[t] \in Minted, Reject(t), \A u \in Writer : pc'[u] \notin Minted
  PROVE  Ids'
<1>1. rejected' = rejected \cup {base[t][Len(base[t])]} /\ UNCHANGED <<committed, mutations>>
  BY DEF Reject, Last
<1>2. Fresh(base[t][Len(base[t])]) /\ mutations \in Nat
  BY DEF Ids, FileInv, FileShape
<1>3. PICK x : x = base[t][Len(base[t])]
  OBVIOUS
<1>4. rejected' \subseteq 0..mutations
  <2>1. 1..mutations \subseteq 0..mutations /\ rejected \subseteq 0..mutations
    BY <1>2 DEF Ids
  <2> QED BY <1>1, <1>2, <2>1 DEF Fresh
<1>5. \A i \in 1..Len(committed) : committed[i] \in 0..mutations /\ committed[i] \notin rejected'
  <2>1. rejected' = rejected \cup {x} /\ \A i \in 1..Len(committed) : committed[i] # x
    BY <1>1, <1>2, <1>3 DEF Fresh
  <2> QED BY <2>1 DEF Ids
<1> QED
  BY <1>1, <1>4, <1>5 DEF Ids

LEMMA CommittedIds ==
  ASSUME FileInv, Ids, NEW t \in Writer, pc[t] \in Minted, committed' = base[t], UNCHANGED <<rejected, mutations>>,
         base[t] \in Seq(Nat), Starts(committed, base[t]), Len(base[t]) = Len(committed) + 1,
         \A u \in Writer : pc'[u] \notin Minted
  PROVE  Ids'
<1>1. Fresh(base[t][Len(base[t])]) /\ mutations \in Nat /\ Len(committed) \in Nat
  BY DEF Ids, FileInv, FileShape
<1>2. ASSUME NEW i \in 1..Len(base[t]) PROVE base[t][i] \in 0..mutations /\ base[t][i] \notin rejected
  <2>1. CASE i = Len(base[t])
    BY <1>1, <2>1 DEF Fresh
  <2>2. CASE i # Len(base[t])
    <3>1. i \in 1..Len(committed) /\ base[t][i] = committed[i]
      BY <1>1, <2>2 DEF Starts
    <3> QED BY <3>1 DEF Ids
  <2> QED BY <2>1, <2>2
<1> QED
  BY <1>2 DEF Ids

LEMMA IdsStep == FileInv /\ NoLegacy /\ Ids /\ [Next]_vars => Ids'
<1> SUFFICES ASSUME FileInv, NoLegacy, Ids, [Next]_vars PROVE Ids'
  OBVIOUS
<1>0. Minted \subseteq Locked
  BY DEF Minted, Locked, Mutating
<1>1. ASSUME NEW t \in Writer, Call(t) \/ Acquire(t) \/ AcquireRecover(t) \/ AcquireTimeOut(t) PROVE Ids'
  <2>1. /\ UNCHANGED <<committed, rejected, mutations, base>>
        /\ pc' = pc \/ \E label \in {"idle", "acquire", "load", "createCheck"} : Goto(t, label)
    BY <1>1 DEF Call, Acquire, AcquireRecover, AcquireTimeOut, history, writing
  <2>2. \A u \in Writer : pc'[u] \in Minted => pc[u] \in Minted
    BY <2>1, TaskFacts DEF Goto, FileInv, WriterShape, Minted, Staging
  <2> QED BY <2>1, <2>2, QuietIds
<1>2. ASSUME NEW t \in Writer, Mutate(t) \/ Create(t) \/ Release(t) PROVE Ids'
  <2>1. PICK label : Goto(t, label)
    BY <1>2, LockedLabel
  <2>2. /\ pc[t] \in Locked /\ WriterHas(t) /\ base[t] \in Seq(Nat) /\ pc'[t] = label /\ t \in Task /\ mutations \in Nat
        /\ base \in [Task -> Seq(Nat)] /\ (\A l : Goto(t, l) => pc'[t] = l)
    BY <1>2, <2>1, LockedLabel, WriterFacts, OthersAway DEF FileInv, FileShape
  <2>3. \A u \in Writer \ {t} : pc'[u] \notin Minted
    BY <1>0, <1>2, <2>1, LockedLabel, OthersAway
  <2>4. ASSUME UNCHANGED <<committed, rejected, mutations>>, label \in Minted => pc[t] \in Minted /\ base' = base PROVE Ids'
    BY <2>2, <2>3, <2>4, QuietIds
  <2>5. ASSUME pc[t] \in Minted, Reject(t), label \notin Minted PROVE Ids'
    BY <2>2, <2>3, <2>5, RejectedIds
  <2>6. CASE MutateLoad(t) \/ MutateNormalize(t) \/ MutateRefuse(t) \/ MutatePublish(t) \/ MutateCompact(t) \/ MutateTruncate(t)
    <3>1. UNCHANGED <<committed, rejected, mutations>>
      BY <2>6 DEF MutateLoad, MutateNormalize, MutateRefuse, MutatePublish, MutateCompact, MutateTruncate, history
    <3>2. label \notin Minted
      BY <2>2, <2>6 DEF MutateLoad, MutateNormalize, MutateRefuse, MutatePublish, MutateCompact, MutateTruncate, Renamed,
         Throw, ThrowRetaining, Leave, Minted, Staging
    <3> QED BY <2>4, <3>1, <3>2
  <2>7. CASE MutateApply(t)
    <3>1. UNCHANGED <<committed, rejected>> /\ mutations' = mutations + 1 /\ base' = [base EXCEPT ![t] = Append(base[t], mutations')]
      BY <2>7 DEF MutateApply
    <3>2. base'[t] = Append(base[t], mutations + 1) /\ mutations + 1 \in Nat
      BY <2>2, <3>1
    <3>3. base'[t][Len(base'[t])] = mutations + 1
      BY <2>2, <3>2, AppendFacts
    <3> QED BY <2>3, <3>1, <3>3, MintedIds
  <2>8. CASE MutateAppend(t)
    <3>1. CASE Goto(t, "commit") /\ UNCHANGED <<lock, cache, history, writing, reading>>
      BY <2>4, <2>8, <3>1 DEF MutateAppend, history, writing, Minted
    <3>2. CASE Reject(t) /\ Throw(t)
      <4>1. pc[t] \in Minted /\ label \notin Minted
        BY <2>2, <2>8, <3>2 DEF MutateAppend, Throw, Minted, Staging
      <4> QED BY <2>5, <3>2, <4>1
    <3> QED BY <2>8, <3>1, <3>2 DEF MutateAppend
  <2>9. CASE MutateCommit(t)
    <3>1. pc[t] = "commit" /\ pc[t] \in Minted
      BY <2>9 DEF MutateCommit, Minted
    <3>2. label \notin Minted
      BY <2>2, <2>9 DEF MutateCommit, Renamed, Throw, ThrowRetaining, Leave, Minted, Staging
    <3>3. CASE committed' = base[t] /\ UNCHANGED <<rejected, mutations>>
      <4>1. Starts(committed, base[t]) /\ version # NoFile /\ version # Pending /\ Len(base[t]) = version + 1
        BY <2>2, <3>1 DEF WriterHas, Mutating, NoLegacy
      <4>2. version = Len(committed)
        BY <4>1, CommittedFacts DEF Committed
      <4> QED BY <2>2, <2>3, <3>1, <3>2, <3>3, <4>1, <4>2, CommittedIds
    <3>4. CASE Reject(t)
      BY <2>5, <3>1, <3>2, <3>4
    <3> QED BY <2>9, <3>3, <3>4 DEF MutateCommit
  <2>10. CASE CreateCheck(t) \/ RemoveSnapshot(t) \/ RemoveLedger(t) \/ RemoveVersion(t) \/ Release(t)
    <3>1. UNCHANGED <<committed, rejected, mutations>>
      BY <2>10 DEF CreateCheck, RemoveSnapshot, RemoveLedger, RemoveVersion, Release, history
    <3>2. label \notin Minted
      BY <2>2, <2>10 DEF CreateCheck, RemoveSnapshot, RemoveLedger, RemoveVersion, Release, Throw, Leave, Minted, Staging
    <3> QED BY <2>4, <3>1, <3>2
  <2>11. CASE CreateMark(t)
    <3>1. CASE UNCHANGED <<version, mutations>> /\ Throw(t)
      <4>1. label \notin Minted /\ UNCHANGED <<committed, rejected, mutations>>
        BY <2>2, <2>11, <3>1 DEF CreateMark, Throw, Minted, Staging
      <4> QED BY <2>4, <4>1
    <3>2. CASE mutations' = mutations + 1 /\ base' = [base EXCEPT ![t] = <<mutations'>>]
      <4>1. UNCHANGED <<committed, rejected>> /\ base'[t] = <<mutations + 1>>
        BY <2>2, <2>11, <3>2 DEF CreateMark
      <4>2. base'[t][Len(base'[t])] = mutations + 1
        BY <4>1
      <4> QED BY <2>3, <3>2, <4>1, <4>2, MintedIds
    <3>3. CASE mutations' = mutations + 1 /\ ThrowRetaining(t)
      <4>1. UNCHANGED <<committed, rejected>> /\ label \notin Minted
        BY <2>2, <2>11, <3>3 DEF CreateMark, ThrowRetaining, Leave, Minted, Staging
      <4> QED BY <2>2, <2>3, <3>3, <4>1, MintedIds
    <3> QED BY <2>11, <3>1, <3>2, <3>3 DEF CreateMark
  <2>12. CASE CreateStageSnapshot(t) \/ CreateStageLedger(t)
    <3>1. pc[t] \in Minted
      BY <2>12 DEF CreateStageSnapshot, CreateStageLedger, Minted, Staging
    <3>2. CASE Abort(t)
      <4>1. Reject(t) /\ label \notin Minted
        BY <2>2, <3>2 DEF Abort, Minted, Staging
      <4> QED BY <2>5, <3>1, <4>1
    <3>3. CASE UNCHANGED history /\ \E next \in {"stageLedger", "createCommit"} : Renamed(t, next)
      <4>1. UNCHANGED <<committed, rejected, mutations>>
        BY <3>3 DEF history
      <4>2. label \in Minted => base' = base
        BY <2>2, <3>3 DEF Renamed, ThrowRetaining, Leave, writing, Minted, Staging
      <4> QED BY <2>4, <3>1, <4>1, <4>2
    <3> QED BY <2>12, <3>2, <3>3 DEF CreateStageSnapshot, CreateStageLedger
  <2>13. CASE CreateCommit(t)
    <3>1. pc[t] = "createCommit" /\ pc[t] \in Minted
      BY <2>13 DEF CreateCommit, Minted, Staging
    <3>2. label \notin Minted
      BY <2>2, <2>13 DEF CreateCommit, Abort, ThrowRetaining, Leave, Minted, Staging
    <3>3. CASE committed' = base[t] /\ UNCHANGED <<rejected, mutations>>
      <4>1. version = Pending /\ Len(base[t]) = 1
        BY <2>2, <3>1 DEF WriterHas, Staging
      <4>2. committed = <<>>
        BY <4>1 DEF FileInv, FilesSay
      <4>3. Starts(committed, base[t]) /\ Len(base[t]) = Len(committed) + 1
        BY <4>1, <4>2 DEF Starts
      <4> QED BY <2>2, <2>3, <3>1, <3>2, <3>3, <4>3, CommittedIds
    <3>4. CASE Reject(t)
      BY <2>5, <3>1, <3>2, <3>4
    <3> QED BY <2>13, <3>3, <3>4 DEF CreateCommit, Abort
  <2> QED
    BY <1>2, <2>6, <2>7, <2>8, <2>9, <2>10, <2>11, <2>12, <2>13 DEF Mutate, Create
<1>3. ASSUME NEW t \in Reader \cup SyncReader, Read(t) PROVE Ids'
  <2>1. UNCHANGED <<committed, rejected, mutations, base>>
    BY <1>3 DEF Read, ReadCall, SyncReadLock, ReadVersion, ReadLedger, ReadSnapshot, ReadAgain, SyncReadAgain, SyncReadUnlocked, history, writing
  <2>2. \A u \in Writer : pc'[u] = pc[u]
    BY <1>3, ReadsLeaveWriters
  <2> QED BY <2>1, <2>2, QuietIds
<1>4. ASSUME NEW p \in Process, Crash(p) PROVE Ids'
  <2> DEFINE lost == {u \in Task : Proc(u) = p /\ pc[u] \in {"append", "commit", "stageSnapshot", "stageLedger", "createCommit"}}
  <2>1. /\ UNCHANGED <<committed, mutations>> /\ rejected' = rejected \cup {Last(base[u]) : u \in lost}
        /\ pc' = [u \in Task |-> IF Proc(u) = p THEN "idle" ELSE pc[u]]
        /\ base' = [u \in Task |-> IF Proc(u) = p THEN <<>> ELSE base[u]]
    BY <1>4 DEF Crash
  <2>2. \A u \in lost : u \in Writer /\ pc[u] \in Minted /\ lock = p
    BY <1>0 DEF Minted, Staging, FileInv, WriterShape, Exclusive, Reading, Task, Proc, Locked, Mutating
  <2>3. \A u \in lost : Fresh(Last(base[u]))
    BY <2>2 DEF Ids, Last
  <2>4. \A u \in Writer : pc'[u] \in Minted => pc[u] \in Minted /\ base'[u] = base[u] /\ Proc(u) # p /\ lost = {}
    <3>1. \A u \in Writer : pc'[u] \in Minted => pc[u] \in Minted /\ base'[u] = base[u] /\ Proc(u) # p
      BY <2>1, TaskFacts DEF Minted, Staging
    <3>2. \A u \in Writer : pc[u] \in Minted => lock = Proc(u)
      BY <1>0 DEF FileInv, Exclusive
    <3> HIDE DEF lost
    <3> QED BY <2>2, <3>1, <3>2
  <2> HIDE DEF lost
  <2>5. \A x \in rejected' : x \in rejected \/ Fresh(x)
    BY <2>1, <2>3
  <2>6. rejected' \subseteq 0..mutations'
    <3>1. mutations \in Nat /\ 1..mutations \subseteq 0..mutations
      BY DEF FileInv, FileShape
    <3> QED BY <2>1, <2>5, <3>1 DEF Ids, Fresh
  <2>7. \A i \in 1..Len(committed') : committed'[i] \in 0..mutations' /\ committed'[i] \notin rejected'
    BY <2>1, <2>5 DEF Ids, Fresh
  <2>8. \A u \in Writer : pc'[u] \in Minted => Fresh(base[u][Len(base[u])])'
    <3> SUFFICES ASSUME NEW u \in Writer, pc'[u] \in Minted PROVE Fresh(base[u][Len(base[u])])'
      OBVIOUS
    <3>1. Fresh(base[u][Len(base[u])]) /\ base'[u] = base[u] /\ lost = {}
      BY <2>4 DEF Ids
    <3>2. rejected' = rejected
      BY <2>1, <3>1
    <3> QED BY <2>1, <3>1, <3>2 DEF Fresh
  <2> QED BY <2>6, <2>7, <2>8 DEF Ids
<1>5. CASE UNCHANGED vars
  BY <1>5, QuietIds DEF vars, history, writing
<1> QED
  BY <1>1, <1>2, <1>3, <1>4, <1>5 DEF Next, Locking

\* A mutation or a creation that failed, or died with its process, before its
\* version file was renamed is never in the graph.  Without a legacy graph on
\* disk: a ledger without a version file has no commit marker, so that what a
\* failed append left of it counts.
THEOREM FailedMutationsStayOut ==
  ASSUME \A s \in Scenarios : s.beginning # "legacy"
  PROVE  Spec => []FailedStaysOut
<1>1. Init => NoLegacy /\ Ids
  <2> SUFFICES ASSUME Init PROVE NoLegacy /\ Ids
    OBVIOUS
  <2>1. scenario.beginning \in {"none", "graph"}
    BY ScenarioAssumption DEF Init, Scenario
  <2>2. \A t \in Writer : pc[t] = "idle"
    BY TaskFacts DEF Init
  <2>3. NoLegacy
    BY <2>1, <2>2, FileAssumption DEF Init, NoLegacy, Mutating
  <2>4. committed = <<>> \/ committed = <<0>>
    BY DEF Init
  <2>5. \A i \in 1..Len(committed) : committed[i] = 0
    BY <2>4
  <2>6. Ids
    BY <2>2, <2>5 DEF Init, Ids, Minted, Staging
  <2> QED BY <2>3, <2>6
<1>2. FileInv /\ Ids => FailedStaysOut
  <2> SUFFICES ASSUME FileInv, Ids PROVE FailedStaysOut
    OBVIOUS
  <2>1. DOMAIN committed = 1..Len(committed)
    BY DEF FileInv, FileShape
  <2> QED BY <2>1 DEF FailedStaysOut, Ids
<1> QED
  BY <1>1, <1>2, NoLegacyStep, IdsStep, FilesAlways, PTL DEF Spec
-----------------------------------------------------------------------------
(* What readers see.                                                       *)

SeenFiles == [version : Nat \cup {NoFile}, ledger : Seq(Line) \cup {NoFile}, snapshot : Seq(Nat) \cup {NoFile}]
ReadShape ==
  /\ since \in [Task -> Nat] /\ seen \in [Task -> SeenFiles] /\ got = [t \in Task |-> got[t]]
  /\ cache = [p \in Process |-> cache[p]]
\* The version and the ledger in s, with a snapshot, make a prefix of g.
Fits(s, snap, g) ==
  /\ snap \in Seq(Nat) /\ Starts(snap, g) /\ Len(snap) <= s.version
  /\ \E a \in 0..Len(snap) : Holds(Lines(s.ledger), a, g, s.version)
Looking == {"readLedger", "readSnapshot", "readAgain", "readUnlocked"}
ReaderHas(t) ==
  /\ pc[t] # "idle" => scenario.readers # {}
  /\ since[t] <= Len(committed)
  /\ pc[t] \in Looking => seen[t].version \in 1..Len(committed) /\ since[t] <= seen[t].version
  /\ pc[t] = "readSnapshot" /\ seen[t].version = version => Fits(seen[t], snapshot, committed)
  /\ pc[t] = "readUnlocked" \/ (pc[t] = "readAgain" /\ seen[t].version = version) =>
       Fits(seen[t], seen[t].snapshot, committed)
\* A cached graph is the one that was committed as its generation, unless a
\* mutation of its process is changing it.
CacheFits(c) ==
  c.generation # NoFile =>
    c.graph \in Seq(Nat) /\ Starts(c.graph, committed) /\ Len(c.graph) = c.generation
InPlace == {"append", "commit", "publish"}
CacheHas(p) == Changing(p) \/ CacheFits(cache[p])
Reads ==
  /\ ReadShape
  /\ scenario.readers # {} => Committed
  /\ \A t \in Reader \cup SyncReader : ReaderHas(t)
  /\ \A p \in Process : CacheHas(p)

LEMMA FitsLonger ==
  ASSUME NEW s \in SeenFiles, NEW snap, NEW g \in Seq(Nat), NEW h \in Seq(Nat), Starts(g, h),
         s.version \in 1..Len(g), Fits(s, snap, g)
  PROVE  Fits(s, snap, h)
<1>1. snap \in Seq(Nat) /\ Starts(snap, h) /\ Len(snap) <= s.version /\ Len(g) \in Nat
  BY StartsTransitive DEF Fits
<1>2. PICK a \in 0..Len(snap) : Holds(Lines(s.ledger), a, g, s.version)
  BY DEF Fits
<1>3. \A i \in 1..(s.version - a) : a + i \in 1..Len(g) /\ g[a + i] = h[a + i]
  <2>1. \A i \in 1..(s.version - a) : a + i \in 1..Len(g)
    BY <1>1, <1>2
  <2> QED BY <2>1 DEF Starts
<1>4. Holds(Lines(s.ledger), a, h, s.version)
  BY <1>2, <1>3 DEF Holds
<1> QED
  BY <1>1, <1>4 DEF Fits

\* What a reader has seen, when it fits, materializes.
LEMMA SeenGraph ==
  ASSUME FileInv, NEW t, seen[t] \in SeenFiles, seen[t].version \in 1..Len(committed),
         Fits(seen[t], seen[t].snapshot, committed)
  PROVE  /\ Seen(t).graph \in Seq(Nat) /\ Len(Seen(t).graph) = seen[t].version
         /\ Starts(Seen(t).graph, committed) /\ ~Absent(seen[t])
<1>1. PICK a \in 0..Len(seen[t].snapshot) : Holds(Lines(seen[t].ledger), a, committed, seen[t].version)
  BY DEF Fits
<1>2. ASSUME NEW n, n = seen[t].version, NEW g, g = committed, NEW snap, snap = seen[t].snapshot, NEW led, led = seen[t].ledger
      PROVE  /\ Materialize(n, led, snap).graph \in Seq(Nat) /\ Len(Materialize(n, led, snap).graph) = n
             /\ Starts(Materialize(n, led, snap).graph, g) /\ n # NoFile
  <2>1. /\ g \in Seq(Nat) /\ n \in 1..Len(g) /\ snap \in Seq(Nat) /\ Starts(snap, g) /\ Len(snap) <= n
        /\ led \in Seq(Line) \cup {NoFile} /\ a \in 0..Len(snap) /\ Holds(Lines(led), a, g, n)
    BY <1>1, <1>2 DEF Fits, SeenFiles, FileInv, FileShape
  <2>2. n # NoFile
    BY <2>1, FileAssumption
  <2> QED BY <2>1, <2>2, CommittedMaterialize
<1> QED
  BY <1>2 DEF Seen, Absent

\* A step that leaves the readers alone, and the files as they fit together.
LEMMA ReadersKept ==
  ASSUME FileInv, FileInv', Reads, Starts(committed, committed'), scenario'.readers = scenario.readers, UNCHANGED reading,
         \A r \in Reader \cup SyncReader : pc'[r] = pc[r],
         Committed => Committed' /\ \/ version' = version /\ (snapshot' = snapshot \/ snapshot' = committed)
                                    \/ version' > Len(committed),
         cache' = [p \in Process |-> cache'[p]], \A p \in Process : CacheHas(p)'
  PROVE  Reads'
<1>1. committed \in Seq(Nat) /\ committed' \in Seq(Nat) /\ Len(committed) \in Nat /\ Len(committed) <= Len(committed')
  BY DEF FileInv, FileShape, Starts
<1>2. ReadShape' /\ (scenario'.readers # {} => Committed')
  BY DEF Reads, ReadShape, reading
<1>3. ASSUME NEW t \in Reader \cup SyncReader PROVE ReaderHas(t)'
  <2>1. ReaderHas(t) /\ t \in Task /\ since[t] \in Nat /\ seen[t] \in SeenFiles
    BY DEF Reads, ReadShape, Task
  <2>2. UNCHANGED <<pc[t], since[t], seen[t], got[t]>>
    BY DEF reading
  <2>3. pc[t] # "idle" => scenario'.readers # {} /\ Committed
    BY <2>1 DEF ReaderHas, Reads
  <2>4. since[t] <= Len(committed')
    BY <1>1, <2>1 DEF ReaderHas
  <2>5. pc[t] \in Looking => /\ seen[t].version \in 1..Len(committed') /\ since[t] <= seen[t].version
                             /\ seen[t].version \in 1..Len(committed) /\ Committed
    BY <1>1, <2>1, <2>3 DEF ReaderHas, Looking
  <2>6. ASSUME pc[t] = "readSnapshot", seen[t].version = version' PROVE Fits(seen[t], snapshot', committed')
    <3>1. seen[t].version \in 1..Len(committed) /\ Committed
      BY <2>5, <2>6 DEF Looking
    <3>2. version' = version /\ (snapshot' = snapshot \/ snapshot' = committed)
      BY <1>1, <2>6, <3>1
    <3>3. Fits(seen[t], snapshot, committed)
      BY <2>1, <2>6, <3>2 DEF ReaderHas
    <3>4. Fits(seen[t], snapshot', committed)
      <4>1. CASE snapshot' = snapshot
        BY <3>3, <4>1
      <4>2. CASE snapshot' = committed
        <5>1. Starts(committed, committed) /\ Len(committed) <= seen[t].version
          BY <1>1, <2>6, <3>1, <3>2, CommittedFacts DEF Starts
        <5>2. PICK a \in 0..Len(snapshot) : Holds(Lines(seen[t].ledger), a, committed, seen[t].version)
          BY <3>3 DEF Fits
        <5>3. a \in 0..Len(committed)
          BY <1>1, <3>3, <5>2 DEF Fits, Starts
        <5> QED BY <1>1, <4>2, <5>1, <5>2, <5>3 DEF Fits
      <4> QED BY <3>2, <4>1, <4>2
    <3> QED BY <1>1, <2>1, <3>1, <3>4, FitsLonger
  <2>7. ASSUME pc[t] = "readUnlocked" \/ (pc[t] = "readAgain" /\ seen[t].version = version')
        PROVE  Fits(seen[t], seen[t].snapshot, committed')
    <3>1. seen[t].version \in 1..Len(committed) /\ Committed
      BY <2>5, <2>7 DEF Looking
    <3>2. pc[t] = "readUnlocked" \/ seen[t].version = version
      BY <1>1, <2>7, <3>1
    <3>3. Fits(seen[t], seen[t].snapshot, committed)
      BY <2>1, <2>7, <3>2 DEF ReaderHas
    <3> QED BY <1>1, <2>1, <3>1, <3>3, FitsLonger
  <2> QED BY <2>2, <2>3, <2>4, <2>5, <2>6, <2>7 DEF ReaderHas
<1> QED
  BY <1>2, <1>3 DEF Reads

\* What a writer's step has to do with readers: nothing but its own cache.
Aside(w) ==
  /\ UNCHANGED <<reading, scenario>>
  /\ cache' = cache \/ \E c : cache' = [cache EXCEPT ![Proc(w)] = c]

LEMMA WriterAside ==
  ASSUME NEW w \in Writer, Locking(w) \/ Mutate(w) \/ Create(w)
  PROVE  Aside(w)
<1>1. Throw(w) \/ ThrowRetaining(w) \/ Abort(w) =>
        UNCHANGED reading /\ \E c : cache' = [cache EXCEPT ![Proc(w)] = c]
  BY DEF Throw, ThrowRetaining, Abort, DropCache, Leave
<1>2. ASSUME NEW next, Renamed(w, next) PROVE UNCHANGED reading /\ (cache' = cache \/ \E c : cache' = [cache EXCEPT ![Proc(w)] = c])
  BY <1>1, <1>2 DEF Renamed
<1>3. CASE Locking(w)
  BY <1>3 DEF Locking, Call, Acquire, AcquireRecover, AcquireTimeOut, Release, Leave, Aside
<1>4. CASE MutateLoad(w) \/ MutateRefuse(w) \/ MutatePublish(w)
  BY <1>1, <1>4 DEF MutateLoad, MutateRefuse, MutatePublish, SetCache, Aside
<1>5. CASE MutateNormalize(w)
  BY <1>1, <1>2, <1>5 DEF MutateNormalize, Aside
<1>6. CASE MutateApply(w)
  <2>1. UNCHANGED <<reading, scenario>>
    BY <1>6 DEF MutateApply
  <2>2. cache' = cache \/ \E c : cache' = [cache EXCEPT ![Proc(w)] = c]
    BY <1>6 DEF MutateApply, SetCache
  <2> QED BY <2>1, <2>2 DEF Aside
<1>7. CASE MutateAppend(w)
  BY <1>1, <1>7 DEF MutateAppend, Aside
<1>8. CASE MutateCommit(w)
  BY <1>1, <1>2, <1>8 DEF MutateCommit, Aside
<1>9. CASE MutateCompact(w) \/ MutateTruncate(w)
  BY <1>9 DEF MutateCompact, MutateTruncate, SetCache, DropCache, Aside
<1>10. CASE CreateCheck(w) \/ RemoveSnapshot(w) \/ RemoveLedger(w) \/ RemoveVersion(w)
  BY <1>1, <1>10 DEF CreateCheck, RemoveSnapshot, RemoveLedger, RemoveVersion, Aside
<1>11. CASE CreateMark(w)
  BY <1>1, <1>11 DEF CreateMark, Aside
<1>12. CASE CreateStageSnapshot(w) \/ CreateStageLedger(w)
  BY <1>1, <1>2, <1>12 DEF CreateStageSnapshot, CreateStageLedger, Aside
<1>13. CASE CreateCommit(w)
  BY <1>1, <1>13 DEF CreateCommit, SetCache, Aside
<1> QED
  BY <1>3, <1>4, <1>5, <1>6, <1>7, <1>8, <1>9, <1>10, <1>11, <1>12, <1>13 DEF Mutate, Create

\* Once a graph is committed a writer's step commits more, compacts, or leaves
\* the version and the snapshot alone.
LEMMA WriterFiles ==
  ASSUME FileInv, Committed, NEW w \in Writer, Locking(w) \/ Mutate(w) \/ Create(w)
  PROVE  /\ Committed'
         /\ \/ version' = version /\ (snapshot' = snapshot \/ snapshot' = committed)
            \/ version' > Len(committed)
<1>0. WriterHas(w) /\ version # NoFile /\ version # Pending /\ committed \in Seq(Nat) /\ Len(committed) \in Nat /\ base[w] \in Seq(Nat)
  BY WriterFacts DEF Committed, FileInv, FileShape
<1>1. CASE UNCHANGED <<version, snapshot>>
  BY <1>0, <1>1 DEF Committed
<1>2. CASE MutateCommit(w)
  <2>1. CASE UNCHANGED version
    BY <1>1, <1>2, <2>1 DEF MutateCommit
  <2>2. CASE version' = Len(base[w])
    <3>1. pc[w] = "commit"
      BY <1>2 DEF MutateCommit
    <3>2. Len(committed) < Len(base[w]) /\ Len(base[w]) \in Nat
      BY <1>0, <3>1 DEF WriterHas
    <3>3. version' # NoFile /\ version' # Pending
      BY <1>0, <2>2, <3>2, FileAssumption DEF Pending
    <3> QED BY <2>2, <3>2, <3>3 DEF Committed
  <2> QED BY <1>2, <2>1, <2>2 DEF MutateCommit
<1>3. CASE MutateCompact(w)
  <2>1. version' = version /\ snapshot' \in {snapshot, base[w]} /\ base[w] = committed
    BY <1>0, <1>3 DEF MutateCompact, WriterHas
  <2> QED BY <1>0, <2>1 DEF Committed
<1>4. CASE Locking(w)
  BY <1>1, <1>4 DEF Locking, Call, Acquire, AcquireRecover, AcquireTimeOut, Release, files
<1>5. CASE MutateLoad(w) \/ MutateNormalize(w) \/ MutateApply(w) \/ MutateRefuse(w) \/ MutateAppend(w) \/ MutatePublish(w) \/ MutateTruncate(w)
  BY <1>1, <1>5 DEF MutateLoad, MutateNormalize, MutateApply, MutateRefuse, MutateAppend, MutatePublish, MutateTruncate, files
<1>6. CASE CreateCheck(w)
  BY <1>1, <1>6 DEF CreateCheck, files
<1>7. ~(RemoveSnapshot(w) \/ RemoveLedger(w) \/ RemoveVersion(w) \/ CreateMark(w) \/ CreateStageSnapshot(w) \/ CreateStageLedger(w) \/ CreateCommit(w))
  BY <1>0 DEF RemoveSnapshot, RemoveLedger, RemoveVersion, CreateMark, CreateStageSnapshot, CreateStageLedger, CreateCommit, WriterHas, Removing, Staging
<1> QED
  BY <1>2, <1>3, <1>4, <1>5, <1>6, <1>7 DEF Mutate, Create

\* What a writer's step does to the cached object of its process.
LEMMA WriterCache ==
  ASSUME FileInv, FileInv', cache = [p \in Process |-> cache[p]], NEW w \in Writer, Locking(w) \/ Mutate(w) \/ Create(w)
  PROVE  \/ cache'[Proc(w)] = NoCache
         \/ cache'[Proc(w)] = cache[Proc(w)] /\ (pc[w] \in InPlace => pc'[w] \in InPlace)
         \/ Changing(Proc(w))'
         \/ CacheFits(cache[Proc(w)])'
<1> DEFINE Goal == \/ cache'[Proc(w)] = NoCache
                   \/ cache'[Proc(w)] = cache[Proc(w)] /\ (pc[w] \in InPlace => pc'[w] \in InPlace)
                   \/ Changing(Proc(w))'
                   \/ CacheFits(cache[Proc(w)])'
<1> SUFFICES Goal
  OBVIOUS
<1>1. Proc(w) \in Process /\ \A c : cache' = [cache EXCEPT ![Proc(w)] = c] => cache'[Proc(w)] = c
  BY TaskFacts DEF Proc
<1>2. ASSUME DropCache(Proc(w)) PROVE Goal
  BY <1>1, <1>2 DEF DropCache
<1>3. ASSUME Throw(w) \/ ThrowRetaining(w) \/ Abort(w) PROVE Goal
  BY <1>2, <1>3 DEF Throw, ThrowRetaining, Abort
<1>4. ASSUME UNCHANGED cache, pc[w] \notin InPlace PROVE Goal
  BY <1>4
<1>5. ASSUME NEW n \in Nat \cup {NoFile}, NEW g \in Seq(Nat), NEW b, SetCache(Proc(w), n, g, b),
             n # NoFile => Starts(g, committed') /\ Len(g) = n
      PROVE  Goal
  <2>1. cache'[Proc(w)] = [generation |-> n, graph |-> g, by |-> b]
    BY <1>1, <1>5 DEF SetCache
  <2> QED BY <1>5, <2>1 DEF CacheFits
<1>6. CASE Locking(w)
  BY <1>4, <1>6 DEF Locking, Call, Acquire, AcquireRecover, AcquireTimeOut, Release, InPlace
<1>7. CASE MutateLoad(w)
  <2>1. CASE Throw(w)
    BY <1>3, <2>1
  <2>2. ASSUME NEW m, m = Materialize(version, ledger, snapshot), m.ok, SetCache(Proc(w), version, m.graph, w),
               base' = [base EXCEPT ![w] = m.graph]
        PROVE  Goal
    <3>1. version \in Nat \cup {NoFile} /\ committed' = committed /\ version' = version
      BY <1>7 DEF MutateLoad, FileInv, FileShape, history, files
    <3>2. m.graph \in Seq(Nat)
      <4>1. base'[w] = m.graph
        BY <2>2, WriterFacts
      <4> QED BY <4>1, TaskFacts DEF FileInv, WriterShape
    <3>3. version # Pending
      <4>1. ~Start(version, snapshot).ok => m = Start(version, snapshot)
        BY <2>2, MaterializeIs
      <4>2. Start(version, snapshot).ok <=> (snapshot # NoFile /\ version # Pending)
        BY DEF Start
      <4> QED BY <2>2, <4>1, <4>2
    <3>4. version # NoFile => m.graph = committed /\ Len(m.graph) = version /\ Starts(m.graph, committed)
      <4> SUFFICES ASSUME version # NoFile PROVE m.graph = committed /\ Len(m.graph) = version /\ Starts(m.graph, committed)
        OBVIOUS
      <4>1. Committed
        BY <3>3 DEF Committed
      <4>2. m.graph = committed /\ version = Len(committed) /\ committed \in Seq(Nat)
        BY <2>2, <4>1, CommittedGraph, CommittedFacts
      <4> QED BY <4>2 DEF Starts
    <3> QED BY <1>5, <2>2, <3>1, <3>2, <3>4
  <2> QED BY <1>7, <2>1, <2>2 DEF MutateLoad
<1>8. CASE MutateNormalize(w)
  <2>1. pc[w] \notin InPlace
    BY <1>8 DEF MutateNormalize, InPlace
  <2> QED BY <1>3, <1>4, <1>8, <2>1 DEF MutateNormalize, Renamed
<1>9. CASE MutateApply(w)
  <2>1. pc[w] \notin InPlace /\ pc'[w] = "append" /\ "append" \in InPlace
    BY <1>9, WriterFacts DEF MutateApply, InPlace
  <2>2. CASE UNCHANGED cache
    BY <1>4, <2>1, <2>2
  <2>3. ASSUME NEW n, NEW g, SetCache(Proc(w), n, g, w) PROVE Goal
    <3>1. cache'[Proc(w)] = [generation |-> n, graph |-> g, by |-> w]
      BY <1>1, <2>3 DEF SetCache
    <3>2. Changing(Proc(w))'
      BY <2>1, <3>1 DEF Changing, Proc
    <3> QED BY <3>2
  <2> QED BY <1>9, <2>2, <2>3 DEF MutateApply
<1>10. CASE MutateRefuse(w)
  BY <1>3, <1>10 DEF MutateRefuse
<1>11. CASE MutateAppend(w)
  <2>1. Goto(w, "commit") => pc'[w] \in InPlace
    BY WriterFacts DEF InPlace
  <2> QED BY <1>3, <1>11, <2>1 DEF MutateAppend
<1>12. CASE MutateCommit(w)
  <2>1. Goto(w, "publish") => pc'[w] \in InPlace
    BY WriterFacts DEF InPlace
  <2> QED BY <1>3, <1>12, <2>1 DEF MutateCommit, Renamed
<1>13. CASE MutatePublish(w) \/ MutateTruncate(w)
  <2>1. Committed /\ base[w] = committed /\ committed' = committed /\ base[w] \in Seq(Nat) /\ version \in Nat
    BY <1>13, WriterFacts, CommittedFacts DEF MutatePublish, MutateTruncate, WriterHas, history
  <2>2. Starts(base[w], committed') /\ Len(base[w]) = version
    BY <2>1, CommittedFacts DEF Starts
  <2>3. SetCache(Proc(w), version, base[w], NoFile) \/ DropCache(Proc(w))
    BY <1>13 DEF MutatePublish, MutateTruncate
  <2> QED BY <1>2, <1>5, <2>1, <2>2, <2>3
<1>14. CASE MutateCompact(w)
  <2>1. pc[w] \notin InPlace
    BY <1>14 DEF MutateCompact, InPlace
  <2> QED BY <1>2, <1>4, <1>14, <2>1 DEF MutateCompact
<1>15. CASE CreateCheck(w) \/ RemoveSnapshot(w) \/ RemoveLedger(w) \/ RemoveVersion(w)
  <2>1. pc[w] \notin InPlace
    BY <1>15 DEF CreateCheck, RemoveSnapshot, RemoveLedger, RemoveVersion, InPlace
  <2> QED BY <1>3, <1>4, <1>15, <2>1 DEF CreateCheck, RemoveSnapshot, RemoveLedger, RemoveVersion
<1>16. CASE CreateMark(w)
  <2>1. pc[w] \notin InPlace
    BY <1>16 DEF CreateMark, InPlace
  <2>2. CASE UNCHANGED cache
    BY <1>4, <2>1, <2>2
  <2> QED BY <1>3, <1>16, <2>2 DEF CreateMark
<1>17. CASE CreateStageSnapshot(w) \/ CreateStageLedger(w)
  <2>1. pc[w] \notin InPlace
    BY <1>17 DEF CreateStageSnapshot, CreateStageLedger, InPlace
  <2> QED BY <1>3, <1>4, <1>17, <2>1 DEF CreateStageSnapshot, CreateStageLedger, Renamed
<1>18. CASE CreateCommit(w)
  <2>1. CASE Abort(w) \/ ThrowRetaining(w)
    BY <1>3, <2>1
  <2>2. CASE version' = Len(base[w]) /\ committed' = base[w] /\ SetCache(Proc(w), version', base[w], NoFile)
    <3>1. base[w] \in Seq(Nat) /\ Starts(base[w], base[w])
      BY WriterFacts DEF Starts
    <3>2. version' \in Nat \cup {NoFile}
      BY DEF FileInv, FileShape
    <3> QED BY <1>5, <2>2, <3>1, <3>2
  <2> QED BY <1>18, <2>1, <2>2 DEF CreateCommit
<1> HIDE DEF Goal
<1> QED
  BY <1>6, <1>7, <1>8, <1>9, <1>10, <1>11, <1>12, <1>13, <1>14, <1>15, <1>16, <1>17, <1>18 DEF Mutate, Create

LEMMA WriterReads ==
  ASSUME FileInv, FileInv', IsPrefix(committed, committed'), Reads, NEW w \in Writer, Locking(w) \/ Mutate(w) \/ Create(w)
  PROVE  Reads'
<1>1. Starts(committed, committed')
  BY PrefixIsStart DEF FileInv, FileShape
<1>2. scenario'.readers = scenario.readers /\ UNCHANGED reading
  BY WriterAside DEF Aside
<1>3. \A u \in Task \ {w} : pc'[u] = pc[u]
  <2>1. pc' = pc \/ \E label : Goto(w, label)
    <3>1. CASE Locking(w)
      BY <3>1 DEF Locking, Call, Acquire, AcquireRecover, AcquireTimeOut, Release, Leave
    <3>2. CASE Mutate(w) \/ Create(w)
      BY <3>2, LockedLabel
    <3> QED BY <3>1, <3>2
  <2> QED BY <2>1, TaskFacts DEF Goto, FileInv, WriterShape
<1>4. cache = [p \in Process |-> cache[p]]
  BY DEF Reads, ReadShape
<1>5. cache' = [p \in Process |-> cache'[p]] /\ \A p \in Process \ {Proc(w)} : cache'[p] = cache[p]
  BY <1>4, WriterAside DEF Aside
<1>6. ASSUME NEW c, CacheFits(c), NEW h, h = committed', NEW g, g = committed
      PROVE  c.generation # NoFile => c.graph \in Seq(Nat) /\ Starts(c.graph, h) /\ Len(c.graph) = c.generation
  <2>1. g \in Seq(Nat) /\ h \in Seq(Nat) /\ Starts(g, h)
    BY <1>1, <1>6 DEF FileInv, FileShape
  <2> QED BY <1>6, <2>1, StartsTransitive DEF CacheFits
<1>7. ASSUME NEW p \in Process PROVE CacheHas(p)'
  <2>1. CacheHas(p) /\ \A u \in Writer \ {w} : pc'[u] = pc[u]
    BY <1>3, TaskFacts DEF Reads
  <2>2. cache'[p] = cache[p] => (CacheFits(cache[p]) => CacheFits(cache[p])')
    BY <1>6 DEF CacheFits
  <2>3. CASE p # Proc(w)
    <3>1. Changing(p) => Changing(p)'
      BY <1>5, <2>1, <2>3 DEF Changing, Proc
    <3> QED BY <1>5, <2>1, <2>2, <2>3, <3>1 DEF CacheHas
  <2>4. CASE p = Proc(w)
    <3>1. CASE cache'[p] = cache[p] /\ (pc[w] \in InPlace => pc'[w] \in InPlace)
      <4>1. Changing(p) => Changing(p)'
        BY <2>1, <3>1 DEF Changing, Proc, InPlace
      <4> QED BY <2>1, <2>2, <3>1, <4>1 DEF CacheHas
    <3>2. CASE cache'[p] = NoCache
      BY <3>2 DEF CacheHas, CacheFits, NoCache
    <3>3. CASE Changing(p)' \/ CacheFits(cache[p])'
      BY <3>3 DEF CacheHas
    <3> QED BY <1>4, <2>4, <3>1, <3>2, <3>3, WriterCache
  <2> QED BY <2>3, <2>4
<1> QED
  <2>1. \A r \in Reader \cup SyncReader : pc'[r] = pc[r]
    BY <1>3, TaskFacts DEF Task
  <2> QED BY <1>1, <1>2, <1>5, <1>7, <2>1, WriterFiles, ReadersKept

\* A step of one reader: the others are as they were.
LEMMA OneReader ==
  ASSUME FileInv, Reads, NEW t \in Reader \cup SyncReader, Read(t), ReadShape', ReaderHas(t)',
         \A u \in Task \ {t} : UNCHANGED <<since[u], seen[u], got[u]>>,
         \A p \in Process : CacheHas(p)'
  PROVE  Reads'
<1>1. UNCHANGED <<files, history, scenario>>
  BY DEF Read, ReadCall, SyncReadLock, ReadVersion, ReadLedger, ReadSnapshot, ReadAgain, SyncReadAgain, SyncReadUnlocked
<1>2. ASSUME NEW u \in (Reader \cup SyncReader) \ {t} PROVE ReaderHas(u)'
  <2>1. ReaderHas(u) /\ u \in Task \ {t} /\ pc'[u] = pc[u]
    BY ReadsLeaveWriters DEF Reads, Task
  <2> QED BY <1>1, <2>1 DEF ReaderHas, files, history
<1>3. (scenario'.readers # {} => Committed')
  BY <1>1 DEF Reads, Committed, files
<1> QED
  BY <1>2, <1>3 DEF Reads

LEMMA ReaderFacts ==
  ASSUME FileInv, Reads, NEW t \in Reader \cup SyncReader
  PROVE  /\ t \in Task /\ ReaderHas(t) /\ since[t] \in Nat /\ seen[t] \in SeenFiles
         /\ since \in [Task -> Nat] /\ seen \in [Task -> SeenFiles] /\ got = [u \in Task |-> got[u]]
         /\ cache = [p \in Process |-> cache[p]] /\ ProcOf[t] \in Process
         /\ committed \in Seq(Nat) /\ Len(committed) \in Nat /\ Nothing \in SeenFiles
         /\ version \in Nat \cup {NoFile} /\ snapshot \in Seq(Nat) \cup {NoFile} /\ ledger \in Seq(Line) \cup {NoFile}
         /\ \A label : Goto(t, label) => pc'[t] = label
<1>1. t \in Task /\ ProcOf[t] \in Process
  BY TaskAssumption DEF Task
<1>2. Nothing \in SeenFiles
  BY DEF Nothing, SeenFiles
<1>3. \A label : Goto(t, label) => pc'[t] = label
  BY <1>1 DEF Goto, FileInv, WriterShape
<1> QED
  BY <1>1, <1>2, <1>3 DEF Reads, ReadShape, FileInv, FileShape

\* How a read ends: with a graph that fits, or with nothing seen.
LEMMA AnswerStep ==
  ASSUME FileInv, Reads, NEW t \in Reader \cup SyncReader, Read(t), NEW g, Answer(t, g),
         ReadShape', \A p \in Process : CacheHas(p)'
  PROVE  Reads'
<1>1. /\ pc'[t] = "idle" /\ since' = since /\ UNCHANGED <<files, history, scenario>>
      /\ \A u \in Task \ {t} : seen'[u] = seen[u] /\ got'[u] = got[u]
  BY ReaderFacts DEF Answer, Read, ReadCall, SyncReadLock, ReadVersion, ReadLedger, ReadSnapshot, ReadAgain, SyncReadAgain, SyncReadUnlocked
<1>2. ReaderHas(t)'
  BY <1>1, ReaderFacts DEF ReaderHas, Looking, history
<1> QED
  BY <1>1, <1>2, OneReader

LEMMA AnswerShape ==
  ASSUME FileInv, Reads, NEW t \in Reader \cup SyncReader, NEW g, Answer(t, g), cache' = [p \in Process |-> cache'[p]]
  PROVE  ReadShape'
<1>1. since' = since /\ got' = [got EXCEPT ![t] = g] /\ seen' = [seen EXCEPT ![t] = Nothing]
  BY DEF Answer
<1>2. got' = [u \in Task |-> got'[u]] /\ seen' \in [Task -> SeenFiles] /\ since' \in [Task -> Nat]
  BY <1>1, ReaderFacts
<1> QED
  BY <1>2 DEF ReadShape

LEMMA KeptCaches ==
  ASSUME FileInv, Reads, UNCHANGED <<cache, committed>>, NEW t \in Reader \cup SyncReader, Read(t)
  PROVE  \A p \in Process : CacheHas(p)'
<1>1. \A u \in Writer : pc'[u] = pc[u]
  BY ReadsLeaveWriters
<1>2. ASSUME NEW p \in Process PROVE CacheHas(p)'
  <2>1. Changing(p) => Changing(p)'
    BY <1>1 DEF Changing
  <2> QED BY <2>1 DEF Reads, CacheHas, CacheFits
<1> QED BY <1>2

LEMMA FailStep ==
  ASSUME FileInv, Reads, NEW t \in Reader \cup SyncReader, Read(t), NEW start \in {"readVersion", "readLock"}, Fail(t, start),
         UNCHANGED cache, pc[t] # "idle"
  PROVE  Reads'
<1>1. /\ pc'[t] \in {start, "idle"} /\ UNCHANGED <<since, got>> /\ UNCHANGED <<files, history, scenario>>
      /\ seen' = [seen EXCEPT ![t] = Nothing]
  BY ReaderFacts DEF Fail, Read, ReadCall, SyncReadLock, ReadVersion, ReadLedger, ReadSnapshot, ReadAgain, SyncReadAgain, SyncReadUnlocked
<1>2. ReaderHas(t)'
  BY <1>1, ReaderFacts DEF ReaderHas, Looking, history
<1>3. ReadShape' /\ \A u \in Task \ {t} : seen'[u] = seen[u]
  <2>1. seen' \in [Task -> SeenFiles]
    BY <1>1, ReaderFacts
  <2> QED BY <1>1, <2>1, ReaderFacts DEF ReadShape
<1>4. \A p \in Process : CacheHas(p)'
  BY <1>1, KeptCaches DEF history
<1> QED
  BY <1>1, <1>2, <1>3, <1>4, OneReader

LEMMA ReadCallStep ==
  ASSUME FileInv, Reads, NEW t \in Reader \cup SyncReader, ReadCall(t)
  PROVE  Reads'
<1>1. /\ pc'[t] \in {"readVersion", "readLock"} /\ t \in scenario.readers
      /\ since' = [since EXCEPT ![t] = Len(committed)] /\ got' = [got EXCEPT ![t] = NoFile]
      /\ UNCHANGED <<files, history, scenario, seen, cache>>
  BY ReaderFacts DEF ReadCall
<1>2. ReadShape' /\ since'[t] = Len(committed) /\ \A u \in Task \ {t} : since'[u] = since[u] /\ got'[u] = got[u]
  <2>1. since' \in [Task -> Nat] /\ got' = [u \in Task |-> got'[u]]
    BY <1>1, ReaderFacts
  <2> QED BY <1>1, <2>1, ReaderFacts DEF ReadShape
<1>3. ReaderHas(t)'
  BY <1>1, <1>2, ReaderFacts DEF ReaderHas, Looking, history
<1>4. \A p \in Process : CacheHas(p)'
  BY <1>1, KeptCaches DEF history, Read
<1> QED
  BY <1>1, <1>2, <1>3, <1>4, OneReader DEF Read

LEMMA ReadVersionStep ==
  ASSUME FileInv, Reads, NEW t \in Reader \cup SyncReader, ReadVersion(t)
  PROVE  Reads'
<1>1. /\ pc[t] = "readVersion" /\ Read(t) /\ UNCHANGED <<files, history, scenario, cache>> /\ Committed
      /\ \A p \in Process : CacheHas(p)'
  <2>1. pc[t] = "readVersion" /\ Read(t) /\ UNCHANGED <<files, history, scenario, cache>>
    BY DEF ReadVersion, Read
  <2>2. Committed
    BY <2>1, ReaderFacts DEF ReaderHas, Reads
  <2> QED BY <2>1, <2>2, KeptCaches DEF history
<1>2. version \in 1..Len(committed) /\ version = Len(committed) /\ since[t] <= version
  BY <1>1, CommittedFacts, ReaderFacts DEF ReaderHas
<1>3. CASE t \in Reader /\ version # NoFile /\ cache[Proc(t)].generation = version
  <2>1. PICK g : g = cache[Proc(t)].graph
    OBVIOUS
  <2>2. Answer(t, g)
    BY <1>3, <2>1 DEF ReadVersion
  <2>3. ReadShape'
    BY <1>1, <2>2, AnswerShape, ReaderFacts
  <2> QED BY <1>1, <2>2, <2>3, AnswerStep
<1>4. CASE See(t, "version", version) /\ Goto(t, "readLedger") /\ UNCHANGED <<since, got>>
  <2>1. seen' = [seen EXCEPT ![t] = [seen[t] EXCEPT !["version"] = version]]
    BY <1>4 DEF See
  <2>2. [seen[t] EXCEPT !["version"] = version] \in SeenFiles /\ [seen[t] EXCEPT !["version"] = version].version = version
    BY ReaderFacts DEF SeenFiles
  <2>3. seen' \in [Task -> SeenFiles] /\ seen'[t].version = version /\ \A u \in Task \ {t} : seen'[u] = seen[u]
    BY <2>1, <2>2, ReaderFacts
  <2>4. pc'[t] = "readLedger"
    BY <1>4, ReaderFacts
  <2>5. ReaderHas(t)'
    BY <1>1, <1>2, <1>4, <2>3, <2>4, ReaderFacts DEF ReaderHas, Looking, history
  <2>6. ReadShape'
    BY <1>1, <1>4, <2>3, ReaderFacts DEF ReadShape
  <2> QED BY <1>1, <1>4, <2>3, <2>5, <2>6, OneReader
<1> QED
  BY <1>3, <1>4 DEF ReadVersion

LEMMA ReadLedgerStep ==
  ASSUME FileInv, Reads, NEW t \in Reader \cup SyncReader, ReadLedger(t)
  PROVE  Reads'
<1>1. /\ pc[t] = "readLedger" /\ Read(t) /\ UNCHANGED <<files, history, scenario, cache, since, got>> /\ Committed
      /\ \A p \in Process : CacheHas(p)'
  <2>1. pc[t] = "readLedger" /\ Read(t) /\ UNCHANGED <<files, history, scenario, cache, since, got>>
    BY DEF ReadLedger, Read
  <2>2. Committed
    BY <2>1, ReaderFacts DEF ReaderHas, Reads
  <2> QED BY <2>1, <2>2, KeptCaches DEF history
<1>2. seen' = [seen EXCEPT ![t] = [seen[t] EXCEPT !["ledger"] = ledger]] /\ pc'[t] = "readSnapshot"
  BY ReaderFacts DEF ReadLedger, See
<1>3. /\ [seen[t] EXCEPT !["ledger"] = ledger] \in SeenFiles
      /\ [seen[t] EXCEPT !["ledger"] = ledger].version = seen[t].version
      /\ [seen[t] EXCEPT !["ledger"] = ledger].ledger = ledger
  BY ReaderFacts DEF SeenFiles
<1>4. /\ seen' \in [Task -> SeenFiles] /\ seen'[t].version = seen[t].version /\ seen'[t].ledger = ledger
      /\ \A u \in Task \ {t} : seen'[u] = seen[u]
  BY <1>2, <1>3, ReaderFacts
<1>5. seen[t].version = version => Fits(seen'[t], snapshot, committed)
  BY <1>1, <1>4, CommittedFacts DEF Fits
<1>6. ReaderHas(t)'
  BY <1>1, <1>2, <1>4, <1>5, ReaderFacts DEF ReaderHas, Looking, history, files
<1>7. ReadShape'
  BY <1>1, <1>4, ReaderFacts DEF ReadShape
<1> QED BY <1>1, <1>4, <1>6, <1>7, OneReader

LEMMA ReadSnapshotStep ==
  ASSUME FileInv, Reads, NEW t \in Reader \cup SyncReader, ReadSnapshot(t)
  PROVE  Reads'
<1>1. /\ pc[t] = "readSnapshot" /\ Read(t) /\ UNCHANGED <<files, history, scenario, cache, since, got>> /\ Committed
      /\ \A p \in Process : CacheHas(p)'
  <2>1. pc[t] = "readSnapshot" /\ Read(t) /\ UNCHANGED <<files, history, scenario, cache, since, got>>
    BY DEF ReadSnapshot, Read
  <2>2. Committed
    BY <2>1, ReaderFacts DEF ReaderHas, Reads
  <2> QED BY <2>1, <2>2, KeptCaches DEF history
<1>2. seen' = [seen EXCEPT ![t] = [seen[t] EXCEPT !["snapshot"] = snapshot]] /\ pc'[t] = "readAgain"
  BY ReaderFacts DEF ReadSnapshot, See
<1>3. /\ [seen[t] EXCEPT !["snapshot"] = snapshot] \in SeenFiles
      /\ [seen[t] EXCEPT !["snapshot"] = snapshot].version = seen[t].version
      /\ [seen[t] EXCEPT !["snapshot"] = snapshot].ledger = seen[t].ledger
      /\ [seen[t] EXCEPT !["snapshot"] = snapshot].snapshot = snapshot
  BY ReaderFacts DEF SeenFiles
<1>4. /\ seen' \in [Task -> SeenFiles] /\ seen'[t].version = seen[t].version /\ seen'[t].ledger = seen[t].ledger
      /\ seen'[t].snapshot = snapshot /\ \A u \in Task \ {t} : seen'[u] = seen[u]
  BY <1>2, <1>3, ReaderFacts
<1>5. seen[t].version = version => Fits(seen'[t], snapshot, committed)
  BY <1>1, <1>4, ReaderFacts DEF Fits, ReaderHas
<1>6. ReaderHas(t)'
  BY <1>1, <1>2, <1>4, <1>5, ReaderFacts DEF ReaderHas, Looking, history, files
<1>7. ReadShape'
  BY <1>1, <1>4, ReaderFacts DEF ReadShape
<1> QED BY <1>1, <1>4, <1>6, <1>7, OneReader

LEMMA ReadAgainStep ==
  ASSUME FileInv, Reads, NEW t \in Reader \cup SyncReader, ReadAgain(t)
  PROVE  Reads'
<1>1. t \in Reader /\ pc[t] = "readAgain" /\ Read(t) /\ UNCHANGED <<files, history, scenario>> /\ ReaderHas(t)
  BY ReaderFacts DEF ReadAgain, Read
<1>2. CASE Fail(t, "readVersion") /\ UNCHANGED cache
  BY <1>1, <1>2, FailStep
<1>3. CASE version = seen[t].version /\ Readable(t) /\ Answer(t, Seen(t).graph)
           /\ IF Absent(seen[t]) THEN UNCHANGED cache ELSE SetCache(Proc(t), version, Seen(t).graph, NoFile)
  <2>1. seen[t].version \in 1..Len(committed) /\ since[t] <= seen[t].version /\ Fits(seen[t], seen[t].snapshot, committed)
    BY <1>1, <1>3 DEF ReaderHas, Looking
  <2>2. PICK g : g = Seen(t).graph
    OBVIOUS
  <2>3. g \in Seq(Nat) /\ Len(g) = seen[t].version /\ Starts(g, committed) /\ ~Absent(seen[t])
    BY <2>1, <2>2, SeenGraph, ReaderFacts
  <2>4. cache' = [cache EXCEPT ![Proc(t)] = [generation |-> version, graph |-> g, by |-> NoFile]] /\ Answer(t, g)
    BY <1>3, <2>2, <2>3 DEF SetCache
  <2>5. cache' = [p \in Process |-> cache'[p]] /\ \A p \in Process : cache'[p] = cache[p] \/ cache'[p] = [generation |-> version, graph |-> g, by |-> NoFile]
    BY <2>4, ReaderFacts DEF Proc
  <2>6. ASSUME NEW p \in Process PROVE CacheHas(p)'
    <3>1. CacheHas(p) /\ \A u \in Writer : pc'[u] = pc[u]
      BY <1>1, ReadsLeaveWriters DEF Reads
    <3>2. committed' = committed
      BY <1>1 DEF history
    <3>3. CASE cache'[p] = cache[p]
      <4>1. Changing(p) => Changing(p)'
        BY <3>1, <3>3 DEF Changing
      <4> QED BY <3>1, <3>2, <3>3, <4>1 DEF CacheHas, CacheFits
    <3>4. CASE cache'[p] = [generation |-> version, graph |-> g, by |-> NoFile]
      BY <1>3, <2>3, <3>2, <3>4 DEF CacheHas, CacheFits
    <3> QED BY <2>5, <3>3, <3>4
  <2>7. ReadShape'
    BY <2>3, <2>4, <2>5, AnswerShape
  <2> QED BY <1>1, <2>4, <2>6, <2>7, AnswerStep
<1> QED
  BY <1>2, <1>3 DEF ReadAgain

LEMMA SyncReadStep ==
  ASSUME FileInv, Reads, NEW t \in Reader \cup SyncReader, SyncReadLock(t) \/ SyncReadAgain(t) \/ SyncReadUnlocked(t)
  PROVE  Reads'
<1>1. /\ pc[t] # "idle" /\ Read(t) /\ UNCHANGED <<files, history, scenario, cache>> /\ ReaderHas(t)
      /\ \A p \in Process : CacheHas(p)'
  <2>1. pc[t] # "idle" /\ Read(t) /\ UNCHANGED <<files, history, scenario, cache>>
    BY DEF SyncReadLock, SyncReadAgain, SyncReadUnlocked, Read
  <2> QED BY <2>1, KeptCaches, ReaderFacts DEF history
<1>2. CASE Fail(t, "readLock")
  BY <1>1, <1>2, FailStep
<1>3. ASSUME UNCHANGED reading, NEW label \in {"readVersion", "readUnlocked"}, Goto(t, label),
             label = "readUnlocked" => pc[t] = "readAgain" /\ version = seen[t].version
      PROVE  Reads'
  <2>1. pc'[t] = label /\ UNCHANGED <<since, seen, got, committed, scenario, version, snapshot>>
    BY <1>1, <1>3, ReaderFacts DEF reading, history, files
  <2>2. ReaderHas(t)'
    BY <1>1, <1>3, <2>1 DEF ReaderHas, Looking
  <2>3. ReadShape'
    BY <1>1, <2>1, ReaderFacts DEF ReadShape
  <2> QED BY <1>1, <2>1, <2>2, <2>3, OneReader
<1>4. CASE pc[t] = "readUnlocked" /\ Answer(t, Seen(t).graph)
  <2>1. seen[t].version \in 1..Len(committed) /\ since[t] <= seen[t].version /\ Fits(seen[t], seen[t].snapshot, committed)
    BY <1>1, <1>4 DEF ReaderHas, Looking
  <2>2. PICK g : g = Seen(t).graph
    OBVIOUS
  <2>3. g \in Seq(Nat) /\ Len(g) = seen[t].version /\ Starts(g, committed) /\ Answer(t, g)
    BY <1>4, <2>1, <2>2, SeenGraph, ReaderFacts
  <2>4. ReadShape'
    BY <1>1, <2>3, AnswerShape, ReaderFacts
  <2> QED BY <1>1, <2>3, <2>4, AnswerStep
<1>5. CASE SyncReadLock(t)
  BY <1>2, <1>3, <1>5 DEF SyncReadLock
<1>6. CASE SyncReadAgain(t)
  BY <1>2, <1>3, <1>6 DEF SyncReadAgain
<1>7. CASE SyncReadUnlocked(t)
  BY <1>2, <1>4, <1>7 DEF SyncReadUnlocked
<1> QED
  BY <1>5, <1>6, <1>7

LEMMA CrashReads ==
  ASSUME FileInv, Reads, NEW p \in Process, Crash(p)
  PROVE  Reads'
<1>1. /\ UNCHANGED <<version, snapshot, committed>> /\ scenario' = [scenario EXCEPT !.crashes = scenario.crashes - 1]
      /\ pc' = [u \in Task |-> IF Proc(u) = p THEN "idle" ELSE pc[u]]
      /\ seen' = [u \in Task |-> IF Proc(u) = p THEN Nothing ELSE seen[u]]
      /\ since' = [u \in Task |-> IF Proc(u) = p THEN 0 ELSE since[u]]
      /\ got' = [u \in Task |-> IF Proc(u) = p THEN NoFile ELSE got[u]]
      /\ cache' = [cache EXCEPT ![p] = NoCache]
  BY DEF Crash, DropCache
<1>2. scenario'.readers = scenario.readers
  BY <1>1
<1>3. cache = [q \in Process |-> cache[q]]
  BY DEF Reads, ReadShape
<1>4. cache' = [q \in Process |-> cache'[q]] /\ \A q \in Process : cache'[q] = NoCache \/ cache'[q] = cache[q]
  BY <1>1, <1>3
<1>5. ReadShape'
  <2>1. Nothing \in SeenFiles
    BY DEF Nothing, SeenFiles
  <2>2. seen' \in [Task -> SeenFiles] /\ since' \in [Task -> Nat] /\ got' = [u \in Task |-> got'[u]]
    BY <1>1, <2>1 DEF Reads, ReadShape
  <2> QED BY <1>4, <2>2 DEF ReadShape
<1>6. ASSUME NEW t \in Reader \cup SyncReader PROVE ReaderHas(t)'
  <2>1. t \in Task /\ ReaderHas(t) /\ Len(committed) \in Nat
    BY ReaderFacts
  <2>2. CASE Proc(t) = p
    <3>1. pc'[t] = "idle" /\ since'[t] = 0 /\ got'[t] = NoFile
      BY <1>1, <2>1, <2>2
    <3> QED BY <1>1, <2>1, <3>1 DEF ReaderHas, Looking
  <2>3. CASE Proc(t) # p
    <3>1. pc'[t] = pc[t] /\ since'[t] = since[t] /\ got'[t] = got[t] /\ seen'[t] = seen[t]
      BY <1>1, <2>1, <2>3
    <3> QED BY <1>1, <1>2, <2>1, <3>1 DEF ReaderHas
  <2> QED BY <2>2, <2>3
<1>7. ASSUME NEW q \in Process PROVE CacheHas(q)'
  <2>1. CacheHas(q) /\ \A u \in Writer : u \in Task
    BY TaskFacts DEF Reads
  <2>2. CASE cache'[q] = NoCache
    BY <2>2 DEF CacheHas, CacheFits, NoCache
  <2>3. CASE cache'[q] = cache[q] /\ q # p
    <3>1. Changing(q) => Changing(q)'
      BY <1>1, <2>1, <2>3 DEF Changing, Proc
    <3> QED BY <1>1, <2>1, <2>3, <3>1 DEF CacheHas, CacheFits
  <2>4. q = p => cache'[q] = NoCache
    BY <1>1, <1>3
  <2> QED BY <1>4, <2>2, <2>3, <2>4
<1>8. scenario'.readers # {} => Committed'
  BY <1>1, <1>2 DEF Reads, Committed
<1> QED
  BY <1>5, <1>6, <1>7, <1>8 DEF Reads

\* A read leaves the answers of others alone.
LEMMA OthersKeep ==
  ASSUME FileInv, Reads, NEW t \in Reader \cup SyncReader, Read(t), NEW u \in Task, u # t
  PROVE  got'[u] = got[u]
<1>1. got' = got \/ \E g : got' = [got EXCEPT ![t] = g]
  BY DEF Read, ReadCall, SyncReadLock, ReadVersion, ReadLedger, ReadSnapshot, ReadAgain, SyncReadAgain, SyncReadUnlocked,
     Answer, Fail, reading
<1> QED BY <1>1, ReaderFacts

\* What a read ends with, unless it is the cached object while a mutation of
\* its process changes it.
LEMMA AnswersCommitted ==
  ASSUME FileInv, Reads, NEW t \in Reader \cup SyncReader, Read(t), got[t] = NoFile, got'[t] # NoFile,
         ~(pc[t] = "readVersion" /\ Changing(Proc(t)))
  PROVE  IsPrefix(got'[t], committed) /\ Len(got'[t]) >= since[t]
<1>1. ASSUME NEW g \in Seq(Nat), Answer(t, g), Starts(g, committed), since[t] <= Len(g)
      PROVE  IsPrefix(got'[t], committed) /\ Len(got'[t]) >= since[t]
  <2>1. got'[t] = g
    BY <1>1, ReaderFacts DEF Answer
  <2>2. IsPrefix(g, committed)
    BY <1>1, PrefixIsStart, ReaderFacts
  <2> QED BY <1>1, <2>1, <2>2, ReaderFacts
<1>2. CASE pc[t] = "readVersion" /\ version # NoFile /\ cache[Proc(t)].generation = version /\ Answer(t, cache[Proc(t)].graph)
  <2>1. Committed
    BY <1>2, ReaderFacts DEF ReaderHas, Reads
  <2>2. version = Len(committed) /\ since[t] <= version
    BY <2>1, CommittedFacts, ReaderFacts DEF ReaderHas
  <2>3. CacheFits(cache[Proc(t)])
    BY <1>2, ReaderFacts DEF Reads, CacheHas, Proc
  <2>4. PICK g : g = cache[Proc(t)].graph
    OBVIOUS
  <2>5. g \in Seq(Nat) /\ Starts(g, committed) /\ Len(g) = version
    BY <1>2, <2>3, <2>4 DEF CacheFits
  <2> QED BY <1>1, <1>2, <2>2, <2>4, <2>5
<1>3. ASSUME pc[t] \in Looking, Fits(seen[t], seen[t].snapshot, committed), Answer(t, Seen(t).graph)
      PROVE  IsPrefix(got'[t], committed) /\ Len(got'[t]) >= since[t]
  <2>1. seen[t].version \in 1..Len(committed) /\ since[t] <= seen[t].version
    BY <1>3, ReaderFacts DEF ReaderHas
  <2>2. PICK g : g = Seen(t).graph
    OBVIOUS
  <2>3. g \in Seq(Nat) /\ Len(g) = seen[t].version /\ Starts(g, committed)
    BY <1>3, <2>1, <2>2, SeenGraph, ReaderFacts
  <2> QED BY <1>1, <1>3, <2>1, <2>2, <2>3
<1>4. got' # got
  OBVIOUS
<1>5. CASE ReadCall(t)
  BY <1>5, ReaderFacts DEF ReadCall
<1>6. CASE ReadVersion(t)
  BY <1>2, <1>4, <1>6 DEF ReadVersion
<1>7. CASE ReadAgain(t)
  <2>1. pc[t] = "readAgain" /\ version = seen[t].version /\ Answer(t, Seen(t).graph)
    BY <1>4, <1>7 DEF ReadAgain, Fail
  <2>2. Fits(seen[t], seen[t].snapshot, committed)
    BY <2>1, ReaderFacts DEF ReaderHas
  <2> QED BY <1>3, <2>1, <2>2 DEF Looking
<1>8. CASE SyncReadUnlocked(t)
  <2>1. pc[t] = "readUnlocked" /\ Answer(t, Seen(t).graph)
    BY <1>4, <1>8 DEF SyncReadUnlocked, Fail
  <2>2. Fits(seen[t], seen[t].snapshot, committed)
    BY <2>1, ReaderFacts DEF ReaderHas
  <2> QED BY <1>3, <2>1, <2>2 DEF Looking
<1>9. CASE SyncReadLock(t) \/ ReadLedger(t) \/ ReadSnapshot(t) \/ SyncReadAgain(t)
  BY <1>4, <1>9 DEF SyncReadLock, ReadLedger, ReadSnapshot, SyncReadAgain, Fail, reading
<1> QED
  BY <1>5, <1>6, <1>7, <1>8, <1>9 DEF Read

\* A read, through the store or by a tool guard, returns the graph as it was
\* at some commit not older than the read, whichever processes read and
\* write, a process that does both included; what a process takes from its
\* cached object while its own mutation is changing it is excepted in the
\* property.  For scenarios in which readers start with a graph (load,
\* readLatticeStateSync, the error path of mutate).
THEOREM ReadsReturnCommits ==
  ASSUME \A s \in Scenarios : s.readers # {} => s.beginning = "graph"
  PROVE  Spec => ReadsAreCommitted
<1>2. Init => Reads
  <2> SUFFICES ASSUME Init PROVE Reads
    OBVIOUS
  <2>1. scenario.readers # {} => Committed
    <3>1. 1 # NoFile
      BY FileAssumption
    <3> QED BY <3>1 DEF Init, Committed, Pending
  <2>2. ReadShape
    <3>1. Nothing \in SeenFiles
      BY DEF Nothing, SeenFiles
    <3> QED BY <3>1 DEF Init, ReadShape
  <2>3. ASSUME NEW t \in Reader \cup SyncReader PROVE ReaderHas(t)
    <3>1. t \in Task /\ pc[t] = "idle" /\ since[t] = 0
      BY DEF Init, Task
    <3>2. Len(committed) \in Nat
      BY InitFiles DEF FileInv, FileShape
    <3> QED BY <3>1, <3>2 DEF ReaderHas, Looking
  <2>4. ASSUME NEW p \in Process PROVE CacheHas(p)
    BY DEF Init, CacheHas, CacheFits, NoCache
  <2> QED BY <2>1, <2>2, <2>3, <2>4 DEF Reads
<1>3. FileInv /\ Reads /\ [Next]_vars => Reads'
  <2> SUFFICES ASSUME FileInv, Reads, [Next]_vars PROVE Reads'
    OBVIOUS
  <2>1. FileInv' /\ IsPrefix(committed, committed')
    BY FilesStep
  <2>2. ASSUME NEW w \in Writer, Locking(w) \/ Mutate(w) \/ Create(w) PROVE Reads'
    BY <2>1, <2>2, WriterReads
  <2>3. ASSUME NEW t \in Reader \cup SyncReader, Read(t) PROVE Reads'
    BY <2>3, ReadCallStep, ReadVersionStep, ReadLedgerStep, ReadSnapshotStep, ReadAgainStep, SyncReadStep DEF Read
  <2>4. ASSUME NEW p \in Process, Crash(p) PROVE Reads'
    BY <2>4, CrashReads
  <2>5. CASE UNCHANGED vars
    BY <2>5 DEF vars, files, history, writing, reading, Reads, ReadShape, ReaderHas, CacheHas, CacheFits, Changing, Committed
  <2> QED BY <2>2, <2>3, <2>4, <2>5 DEF Next
<1>4. ASSUME FileInv, Reads, [Next]_vars, NEW t \in Reader \cup SyncReader, got[t] = NoFile, got'[t] # NoFile,
             ~(pc[t] = "readVersion" /\ Changing(Proc(t)))
      PROVE  IsPrefix(got'[t], committed) /\ Len(got'[t]) >= since[t]
  <2>1. got'[t] # got[t] /\ t \in Task
    BY <1>4, ReaderFacts
  <2>2. ASSUME NEW w \in Writer, Locking(w) \/ Mutate(w) \/ Create(w) PROVE FALSE
    BY <2>1, <2>2, WriterAside DEF Aside, reading
  <2>3. ASSUME NEW p \in Process, Crash(p) PROVE FALSE
    BY <1>4, <2>1, <2>3 DEF Crash
  <2>4. ASSUME NEW u \in Reader \cup SyncReader, Read(u), u # t PROVE FALSE
    BY <1>4, <2>1, <2>4, OthersKeep
  <2>5. ~UNCHANGED vars
    BY <2>1 DEF vars, reading
  <2>6. Read(t)
    <3>1. CASE Next
      <4>1. \/ \E w \in Writer : Locking(w) \/ Mutate(w) \/ Create(w)
            \/ \E u \in Reader \cup SyncReader : Read(u)
            \/ \E p \in Process : Crash(p)
        BY <3>1 DEF Next
      <4>2. \E u \in Reader \cup SyncReader : Read(u)
        BY <2>2, <2>3, <4>1
      <4> QED BY <2>4, <4>2
    <3> QED BY <1>4, <2>5, <3>1
  <2> QED BY <1>4, <2>6, AnswersCommitted
<1>5. FileInv /\ Reads /\ [Next]_vars =>
        [\A t \in Reader \cup SyncReader :
           /\ got[t] = NoFile /\ got'[t] # NoFile
           /\ ~(pc[t] = "readVersion" /\ Changing(Proc(t)))
           => IsPrefix(got'[t], committed) /\ Len(got'[t]) >= since[t]]_vars
  BY <1>4
<1> QED
  BY <1>2, <1>3, <1>5, FilesAlways, PTL DEF Spec, ReadsAreCommitted
=============================================================================
