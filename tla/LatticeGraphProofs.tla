--------------------------- MODULE LatticeGraphProofs ---------------------------
(***************************************************************************)
(* Theorems about LatticeGraph, for every number of sessions, nodes and    *)
(* contracts, every plan and every limit: all properties of its run.       *)
(*                                                                         *)
(* Three facts carry them.  A request that may still commit was read from  *)
(* the graph and the contract of now, and holds the lease or the fence     *)
(* (RequestsHold).  So nobody else changes the graph below a leased leaf.  *)
(* And an open parent has a child that is not complete (OpenAbove), as     *)
(* the climb that closes a leaf closes every ancestor it completes.        *)
(***************************************************************************)
EXTENDS LatticeGraph, FiniteSetTheorems, TLAPS

-----------------------------------------------------------------------------
(* The operators of LatticeGraph that stand for domain.ts, for every graph *)
(* in which a parent is older than its children: what Lineage, a walk to   *)
(* the root, returns, and what a change of nodes does to the statuses      *)
(* above and below them.  A fact about every node is proved from the       *)
(* oldest node it would fail for (LeastOf).                                *)

Graph(g) == g \in Seq(NodeRecord) /\ \A n \in DOMAIN g : g[n].parent < n

\* A set of numbers up to N has a least and a greatest element.
LEMMA LeastOf ==
  ASSUME NEW N \in Nat, NEW B \in SUBSET (0..N), B # {}
  PROVE  \E m \in B : \A k \in B : m <= k
<1> DEFINE below == {0..k : k \in B}
<1>1. below \subseteq SUBSET (0..N) /\ below # {}
  <2>1. \A k \in B : 0..k \in SUBSET (0..N)
    OBVIOUS
  <2> QED BY <2>1
<1>2. PICK d \in below : \A e \in below : ~(<<e, d>> \in StrictSubsetOrdering(0..N))
  <2> HIDE DEF below
  <2>1. IsFiniteSet(0..N)
    BY FS_Interval
  <2>2. IsWellFoundedOn(StrictSubsetOrdering(0..N), SUBSET (0..N))
    BY <2>1, FS_StrictSubsetOrderingWellFounded, FS_FiniteSubsetsOfFinite
  <2> QED BY <1>1, <2>2, WFMin
<1>3. \A e \in below : e \subseteq d => e = d
  <2> HIDE DEF below
  <2> QED BY <1>1, <1>2 DEF StrictSubsetOrdering
<1>4. PICK m \in B : d = 0..m
  OBVIOUS
<1>5. ASSUME NEW k \in B, ~(m <= k) PROVE FALSE
  <2>1. 0..k \subseteq 0..m /\ m \notin 0..k /\ m \in 0..m
    BY <1>5
  <2> QED BY <1>3, <1>4, <2>1
<1> QED BY <1>5

LEMMA GreatestOf ==
  ASSUME NEW N \in Nat, NEW B \in SUBSET (0..N), B # {}
  PROVE  \E m \in B : \A k \in B : k <= m
<1> DEFINE mirrored == {k \in 0..N : N - k \in B}
<1>1. PICK k \in mirrored : \A j \in mirrored : k <= j
  <2>1. mirrored \in SUBSET (0..N)
    OBVIOUS
  <2>2. mirrored # {}
    <3>1. PICK b \in B : TRUE
      OBVIOUS
    <3>2. N - b \in mirrored
      BY <3>1
    <3> QED BY <3>2
  <2> HIDE DEF mirrored
  <2> QED BY <2>1, <2>2, LeastOf
<1>2. \A b \in B : N - b \in mirrored
  OBVIOUS
<1>3. \A b \in B : b <= N - k
  BY <1>1, <1>2
<1> QED BY <1>1, <1>3

-----------------------------------------------------------------------------
\* The function Lineage is defined by.
Ancestry(g) ==
  CHOOSE upTo : upTo = [k \in 0..Len(g) |-> IF k = 0 THEN {} ELSE {k} \cup upTo[g[k].parent]]

LEMMA GraphParents ==
  ASSUME NEW g, Graph(g)
  PROVE  /\ Len(g) \in Nat /\ DOMAIN g = 1..Len(g)
         /\ \A n \in 1..Len(g) : g[n] \in NodeRecord /\ g[n].parent \in 0..(n - 1)
<1>1. Len(g) \in Nat /\ DOMAIN g = 1..Len(g) /\ \A n \in 1..Len(g) : g[n] \in NodeRecord
  BY DEF Graph
<1>2. \A n \in 1..Len(g) : g[n].parent \in Nat /\ g[n].parent < n
  <2> SUFFICES ASSUME NEW n \in 1..Len(g) PROVE g[n].parent \in Nat /\ g[n].parent < n
    OBVIOUS
  <2>1. \A r \in NodeRecord : r.parent \in 0..MaxNode
    BY DEF NodeRecord
  <2> QED BY <1>1, <2>1 DEF Graph
<1> QED BY <1>1, <1>2

LEMMA AncestryIs ==
  ASSUME NEW g, Graph(g)
  PROVE  Ancestry(g) =
           [k \in 0..Len(g) |-> IF k = 0 THEN {} ELSE {k} \cup Ancestry(g)[g[k].parent]]
<1> DEFINE Walk(f, N) == f = [k \in 0..N |-> IF k = 0 THEN {} ELSE {k} \cup f[g[k].parent]]
           missing == {N \in 0..Len(g) : ~\E f : Walk(f, N)}
<1>1. missing = {}
  <2> SUFFICES ASSUME missing # {} PROVE FALSE
    OBVIOUS
  <2>1. PICK N \in missing : \A k \in missing : N <= k
    <3> missing \in SUBSET (0..Len(g)) /\ Len(g) \in Nat
      BY GraphParents
    <3> HIDE DEF missing
    <3> QED BY LeastOf
  <2>2. N # 0
    <3>1. Walk([k \in 0..0 |-> {}], 0)
      OBVIOUS
    <3> QED BY <3>1
  <2>3. N \in 1..Len(g) /\ N - 1 \in 0..Len(g) /\ N - 1 \notin missing
    <3>1. Len(g) \in Nat /\ N \in 0..Len(g)
      BY GraphParents
    <3>2. N - 1 \notin missing
      <4> HIDE DEF missing
      <4> QED BY <2>1, <3>1
    <3> QED BY <2>2, <3>1, <3>2
  <2>4. PICK f : Walk(f, N - 1)
    BY <2>3
  <2> DEFINE next == [k \in 0..N |-> IF k = N THEN {N} \cup f[g[N].parent] ELSE f[k]]
  <2>5. Walk(next, N)
    <3>1. \A k \in 0..(N - 1) : next[k] = f[k] /\ k \in 0..N
      BY <2>3
    <3>2. g[N].parent \in 0..(N - 1)
      BY <2>3, GraphParents
    <3>3. \A k \in 1..(N - 1) : g[k].parent \in 0..(N - 1)
      BY <2>3, GraphParents
    <3>4. next[N] = {N} \cup next[g[N].parent]
      BY <2>3, <3>1, <3>2
    <3>5. \A k \in 0..(N - 1) :
            next[k] = IF k = 0 THEN {} ELSE {k} \cup next[g[k].parent]
      <4>1. \A k \in 0..(N - 1) : f[k] = IF k = 0 THEN {} ELSE {k} \cup f[g[k].parent]
        BY <2>4
      <4> SUFFICES ASSUME NEW k \in 0..(N - 1)
                   PROVE  next[k] = IF k = 0 THEN {} ELSE {k} \cup next[g[k].parent]
        OBVIOUS
      <4>2. CASE k = 0
        BY <3>1, <4>1, <4>2
      <4>3. CASE k # 0
        <5>1. k \in 1..(N - 1) /\ g[k].parent \in 0..(N - 1)
          BY <2>3, <3>3, <4>3
        <5> HIDE DEF next
        <5> QED BY <3>1, <4>1, <4>3, <5>1
      <4> QED BY <4>2, <4>3
    <3>6. \A k \in 0..N : next[k] = IF k = 0 THEN {} ELSE {k} \cup next[g[k].parent]
      <4>1. \A k \in 0..N : k = N \/ k \in 0..(N - 1)
        BY <2>3
      <4> HIDE DEF next
      <4> QED BY <2>2, <3>4, <3>5, <4>1
    <3>7. next = [k \in 0..N |-> next[k]]
      OBVIOUS
    <3> HIDE DEF next
    <3> QED BY <3>6, <3>7
  <2> QED BY <2>1, <2>5
<1>2. \E f : Walk(f, Len(g))
  <2>1. Len(g) \in 0..Len(g)
    BY GraphParents
  <2> QED BY <1>1, <2>1
<1> QED BY <1>2 DEF Ancestry

\* The lineage of a node is the node and its parent's lineage.
LEMMA LineageIs ==
  ASSUME NEW g, Graph(g)
  PROVE  /\ Lineage(g, 0) = {}
         /\ \A n \in 1..Len(g) : Lineage(g, n) = {n} \cup Lineage(g, g[n].parent)
<1>1. \A n : Lineage(g, n) = Ancestry(g)[n]
  BY DEF Lineage, Ancestry
<1>2. \A n \in 0..Len(g) :
        Ancestry(g)[n] = IF n = 0 THEN {} ELSE {n} \cup Ancestry(g)[g[n].parent]
  BY AncestryIs
<1>3. Len(g) \in Nat /\ 0 \in 0..Len(g) /\ \A n \in 1..Len(g) : n \in 0..Len(g) /\ n # 0
  BY GraphParents
<1>4. Lineage(g, 0) = {}
  BY <1>1, <1>2, <1>3
<1>5. ASSUME NEW n \in 1..Len(g) PROVE Lineage(g, n) = {n} \cup Lineage(g, g[n].parent)
  BY <1>1, <1>2, <1>3
<1> QED BY <1>4, <1>5

-----------------------------------------------------------------------------
\* A lineage is a chain of parents: it lies below its node, each other member
\* is the parent of one, it contains the parents of its members, and none lies
\* between a member and its parent.
LEMMA LineageIsAChain ==
  ASSUME NEW g, Graph(g), NEW n \in 1..Len(g)
  PROVE  /\ n \in Lineage(g, n) /\ Lineage(g, n) \subseteq 1..n
         /\ \A a \in Lineage(g, n) \ {n} : \E c \in Lineage(g, n) : g[c].parent = a
         /\ \A c \in Lineage(g, n) : g[c].parent \in Lineage(g, n) \cup {0}
         /\ \A a, c \in Lineage(g, n) : a < c => a <= g[c].parent
<1> DEFINE Chain(k) ==
      /\ k \in Lineage(g, k) /\ Lineage(g, k) \subseteq 1..k
      /\ \A a \in Lineage(g, k) \ {k} : \E c \in Lineage(g, k) : g[c].parent = a
      /\ \A c \in Lineage(g, k) : g[c].parent \in Lineage(g, k) \cup {0}
      /\ \A a, c \in Lineage(g, k) : a < c => a <= g[c].parent
    broken == {k \in 1..Len(g) : ~Chain(k)}
<1>1. Len(g) \in Nat /\ \A k \in 1..Len(g) : g[k].parent \in 0..(k - 1)
  BY GraphParents
<1>2. broken = {}
  <2> SUFFICES ASSUME broken # {} PROVE FALSE
    OBVIOUS
  <2>1. PICK k \in broken : \A j \in broken : k <= j
    <3>1. broken \in SUBSET (0..Len(g))
      BY <1>1
    <3> HIDE DEF broken
    <3> QED BY <1>1, <3>1, LeastOf
  <2>2. k \in 1..Len(g) /\ \A j \in 1..(k - 1) : Chain(j)
    <3>1. k \in 1..Len(g)
      OBVIOUS
    <3>2. \A j \in 1..(k - 1) : j \in 1..Len(g) /\ j \notin broken
      <4> HIDE DEF broken
      <4> QED BY <1>1, <2>1, <3>1
    <3> QED BY <3>1, <3>2
  <2> DEFINE p == g[k].parent
  <2>3. p \in 0..(k - 1) /\ Lineage(g, k) = {k} \cup Lineage(g, p)
    BY <1>1, <2>2, LineageIs
  <2>4. Chain(k)
    <3>1. CASE p = 0
      <4>1. Lineage(g, k) = {k}
        BY <2>3, <3>1, LineageIs
      <4> QED BY <2>2, <3>1, <4>1
    <3>2. CASE p # 0
      <4>1. Chain(p) /\ p \in 1..(k - 1)
        BY <2>2, <2>3, <3>2
      <4>2. k \in Lineage(g, k) /\ Lineage(g, k) \subseteq 1..k
        BY <2>2, <2>3, <4>1
      <4>3. \A a \in Lineage(g, k) \ {k} : \E c \in Lineage(g, k) : g[c].parent = a
        BY <2>3, <4>1
      <4>4. \A c \in Lineage(g, k) : g[c].parent \in Lineage(g, k) \cup {0}
        BY <2>3, <4>1
      <4>5. \A a, c \in Lineage(g, k) : a < c => a <= g[c].parent
        <5> SUFFICES ASSUME NEW a \in Lineage(g, k), NEW c \in Lineage(g, k), a < c
                     PROVE  a <= g[c].parent
          OBVIOUS
        <5>1. a \in Lineage(g, p)
          BY <2>2, <2>3, <4>2
        <5>2. CASE c = k
          BY <4>1, <5>1, <5>2
        <5>3. CASE c # k
          BY <2>3, <4>1, <5>1, <5>3
        <5> QED BY <5>2, <5>3
      <4> QED BY <4>2, <4>3, <4>4, <4>5
    <3> QED BY <3>1, <3>2
  <2> QED BY <2>4
<1>3. Chain(n)
  BY <1>2
<1> QED BY <1>3

\* A graph with the same parents, and perhaps more nodes, has the same lineages.
LEMMA SameLineages ==
  ASSUME NEW g, NEW h, Graph(g), Graph(h), Len(g) <= Len(h),
         \A k \in 1..Len(g) : h[k].parent = g[k].parent
  PROVE  \A n \in 1..Len(g) : Lineage(h, n) = Lineage(g, n)
<1> DEFINE broken == {k \in 1..Len(g) : Lineage(h, k) # Lineage(g, k)}
<1>1. /\ Len(g) \in Nat /\ \A k \in 1..Len(g) : g[k].parent \in 0..(k - 1)
      /\ \A k \in 1..Len(g) : k \in 1..Len(h)
  <2>1. Len(g) \in Nat /\ Len(h) \in Nat
    BY GraphParents
  <2> QED BY <2>1, GraphParents
<1>2. broken = {}
  <2> SUFFICES ASSUME broken # {} PROVE FALSE
    OBVIOUS
  <2>1. PICK k \in broken : \A j \in broken : k <= j
    <3>1. broken \in SUBSET (0..Len(g))
      BY <1>1
    <3> HIDE DEF broken
    <3> QED BY <1>1, <3>1, LeastOf
  <2>2. k \in 1..Len(g) /\ \A j \in 1..(k - 1) : Lineage(h, j) = Lineage(g, j)
    <3>1. k \in 1..Len(g)
      OBVIOUS
    <3>2. \A j \in 1..(k - 1) : j \in 1..Len(g) /\ j \notin broken
      <4> HIDE DEF broken
      <4> QED BY <1>1, <2>1, <3>1
    <3> QED BY <3>1, <3>2
  <2>3. g[k].parent \in 1..(k - 1) \cup {0} /\ Lineage(h, 0) = Lineage(g, 0)
    <3>1. Lineage(h, 0) = {} /\ Lineage(g, 0) = {}
      BY LineageIs
    <3>2. k \in Nat /\ g[k].parent \in 0..(k - 1)
      BY <1>1, <2>2
    <3>3. g[k].parent \in 1..(k - 1) \/ g[k].parent = 0
      BY <3>2
    <3> QED BY <3>1, <3>3
  <2>4. /\ Lineage(g, k) = {k} \cup Lineage(g, g[k].parent)
        /\ Lineage(h, k) = {k} \cup Lineage(h, g[k].parent)
    BY <1>1, <2>2, LineageIs
  <2>5. Lineage(h, k) = Lineage(g, k)
    BY <2>2, <2>3, <2>4
  <2> QED BY <2>5
<1> QED BY <1>2

-----------------------------------------------------------------------------
\* Nothing unfinished below finished work, over a graph.
FinishedBelow(g) ==
  \A n \in DOMAIN g :
    g[n].status \in Finished =>
      \A c \in AllChildren(g, n) :
        g[c].status \in (IF g[n].status = "complete" THEN Finished ELSE {"archived"})

\* A parent whose children are all complete is no longer open: the climb of
\* completeAndCollapse has closed it.
OpenAbove(g) ==
  \A n \in DOMAIN g :
    g[n].status \in Unfinished /\ AllChildren(g, n) # {} =>
      \E c \in AllChildren(g, n) : g[c].status # "complete"

\* Two graphs with the same nodes, each at its place in the tree.
SameTree(g, h) ==
  /\ Graph(g) /\ Graph(h) /\ Len(h) = Len(g)
  /\ \A k \in 1..Len(g) : h[k].parent = g[k].parent

LEMMA SameTreeFacts ==
  ASSUME NEW g, NEW h, SameTree(g, h)
  PROVE  /\ DOMAIN g = 1..Len(g) /\ DOMAIN h = 1..Len(g)
         /\ \A n : AllChildren(h, n) = AllChildren(g, n)
         /\ \A n \in 1..Len(g) : Lineage(h, n) = Lineage(g, n)
         /\ \A k \in 1..Len(g) : g[k].status \in Unfinished \cup Finished
<1>1. DOMAIN g = 1..Len(g) /\ DOMAIN h = 1..Len(g)
  BY GraphParents DEF SameTree
<1>2. \A n : AllChildren(h, n) = AllChildren(g, n)
  BY <1>1 DEF SameTree, AllChildren
<1>3. \A n \in 1..Len(g) : Lineage(h, n) = Lineage(g, n)
  <2>1. Len(g) \in Nat
    BY GraphParents DEF SameTree
  <2> QED BY <2>1, SameLineages DEF SameTree
<1>4. \A k \in 1..Len(g) : g[k].status \in Unfinished \cup Finished
  BY GraphParents DEF SameTree, NodeRecord
<1> QED BY <1>1, <1>2, <1>3, <1>4

\* All ancestors of unfinished work are unfinished.
LEMMA LineageIsOpen ==
  ASSUME NEW g, Graph(g), FinishedBelow(g), NEW n \in 1..Len(g), g[n].status \in Unfinished
  PROVE  \A k \in Lineage(g, n) : g[k].status \in Unfinished
<1> DEFINE closed == {k \in Lineage(g, n) : g[k].status \in Finished}
<1>1. /\ Len(g) \in Nat /\ DOMAIN g = 1..Len(g) /\ Lineage(g, n) \subseteq 1..n
      /\ \A k \in 1..Len(g) : g[k].status \in Unfinished \cup Finished
                             /\ g[k].parent \in 0..(k - 1)
  BY GraphParents, LineageIsAChain DEF NodeRecord
<1>2. closed = {}
  <2> SUFFICES ASSUME closed # {} PROVE FALSE
    OBVIOUS
  <2>1. PICK m \in closed : \A k \in closed : k <= m
    <3>1. closed \in SUBSET (0..n) /\ n \in Nat
      BY <1>1
    <3> HIDE DEF closed
    <3> QED BY <3>1, GreatestOf
  <2>2. m # n /\ m \in 1..Len(g)
    BY <1>1 DEF Finished, Unfinished
  <2>3. PICK c \in Lineage(g, n) : g[c].parent = m
    BY <2>2, LineageIsAChain
  <2>4. c \in 1..Len(g) /\ m < c
    BY <1>1, <2>2, <2>3
  <2>5. g[c].status \in Finished
    BY <1>1, <2>2, <2>3, <2>4 DEF FinishedBelow, AllChildren, Finished
  <2> QED
    <3>1. c \in closed
      BY <2>5
    <3>2. c <= m
      BY <2>1, <3>1
    <3> QED BY <1>1, <2>2, <2>4, <3>2
<1> QED BY <1>1, <1>2

\* Statuses that move among the unfinished ones close and open nothing.
LEMMA OpenStaysOpen ==
  ASSUME NEW g, NEW h, SameTree(g, h), FinishedBelow(g), OpenAbove(g),
         \A k \in 1..Len(g) : \/ h[k].status = g[k].status
                              \/ g[k].status \in Unfinished /\ h[k].status \in Unfinished
  PROVE  FinishedBelow(h) /\ OpenAbove(h)
<1>1. Unfinished \cap Finished = {} /\ "complete" \in Finished /\ "archived" \in Finished
  BY DEF Unfinished, Finished
<1>2. \A n : AllChildren(h, n) = AllChildren(g, n) /\ AllChildren(g, n) \subseteq 1..Len(g)
  BY SameTreeFacts DEF AllChildren
<1>3. \A k \in 1..Len(g) : h[k].status \in Finished \/ g[k].status \in Finished
                            => h[k].status = g[k].status
  BY <1>1
<1>4. FinishedBelow(h)
  <2> SUFFICES ASSUME NEW n \in 1..Len(g), h[n].status \in Finished,
                      NEW c \in AllChildren(g, n)
               PROVE  h[c].status \in (IF h[n].status = "complete" THEN Finished ELSE {"archived"})
    BY <1>2, SameTreeFacts DEF FinishedBelow
  <2>1. g[c].status \in (IF g[n].status = "complete" THEN Finished ELSE {"archived"})
    BY <1>3, SameTreeFacts DEF FinishedBelow
  <2> QED BY <1>1, <1>2, <1>3, <2>1
<1>5. OpenAbove(h)
  <2> SUFFICES ASSUME NEW n \in 1..Len(g), h[n].status \in Unfinished, AllChildren(g, n) # {}
               PROVE  \E c \in AllChildren(g, n) : h[c].status # "complete"
    BY <1>2, SameTreeFacts DEF OpenAbove
  <2>1. g[n].status \in Unfinished
    BY <1>1
  <2>2. PICK c \in AllChildren(g, n) : g[c].status # "complete"
    BY <2>1, SameTreeFacts DEF OpenAbove
  <2> QED BY <1>1, <1>2, <2>2
<1> QED BY <1>4, <1>5

\* Archiving a leaf.
LEMMA ArchivingKeeps ==
  ASSUME NEW g, NEW h, SameTree(g, h), FinishedBelow(g), OpenAbove(g),
         NEW n \in 1..Len(g), g[n].status \in Unfinished, IsLeaf(g, n),
         h[n].status = "archived", \A k \in (1..Len(g)) \ {n} : h[k].status = g[k].status
  PROVE  FinishedBelow(h) /\ OpenAbove(h)
<1>1. Unfinished \cap Finished = {} /\ "complete" \in Finished /\ "archived" \in Finished
  BY DEF Unfinished, Finished
<1>2. \A m : AllChildren(h, m) = AllChildren(g, m) /\ AllChildren(g, m) \subseteq 1..Len(g)
  BY SameTreeFacts DEF AllChildren
<1>3. FinishedBelow(h)
  <2> SUFFICES ASSUME NEW m \in 1..Len(g), h[m].status \in Finished,
                      NEW c \in AllChildren(g, m)
               PROVE  h[c].status \in (IF h[m].status = "complete" THEN Finished ELSE {"archived"})
    BY <1>2, SameTreeFacts DEF FinishedBelow
  <2>1. CASE m = n
    <3>1. g[c].status = "archived"
      BY <2>1 DEF IsLeaf, NodeChildren
    <3> QED BY <1>1, <1>2, <3>1
  <2>2. CASE m # n
    <3>1. g[c].status \in (IF g[m].status = "complete" THEN Finished ELSE {"archived"})
      BY <2>2, SameTreeFacts DEF FinishedBelow
    <3> QED BY <1>1, <1>2, <2>2, <3>1
  <2> QED BY <2>1, <2>2
<1>4. OpenAbove(h)
  <2> SUFFICES ASSUME NEW m \in 1..Len(g), h[m].status \in Unfinished, AllChildren(g, m) # {}
               PROVE  \E c \in AllChildren(g, m) : h[c].status # "complete"
    BY <1>2, SameTreeFacts DEF OpenAbove
  <2>1. m # n
    BY <1>1
  <2>2. PICK c \in AllChildren(g, m) : g[c].status # "complete"
    BY <2>1, SameTreeFacts DEF OpenAbove
  <2> QED BY <1>2, <2>2
<1> QED BY <1>3, <1>4

\* Reopening everything that is complete.
LEMMA ReopeningKeeps ==
  ASSUME NEW g, NEW h, SameTree(g, h), FinishedBelow(g),
         \A k \in 1..Len(g) : h[k].status = IF g[k].status = "complete" THEN "pending"
                                            ELSE g[k].status
  PROVE  FinishedBelow(h) /\ OpenAbove(h)
<1>1. \A m : AllChildren(h, m) = AllChildren(g, m) /\ AllChildren(g, m) \subseteq 1..Len(g)
  BY SameTreeFacts DEF AllChildren
<1>2. \A k \in 1..Len(g) : h[k].status # "complete" /\ (h[k].status = "archived" <=> g[k].status = "archived")
  OBVIOUS
<1>3. FinishedBelow(h)
  <2> SUFFICES ASSUME NEW m \in 1..Len(g), h[m].status = "archived",
                      NEW c \in AllChildren(g, m)
               PROVE  h[c].status = "archived"
    BY <1>1, <1>2, SameTreeFacts DEF FinishedBelow, Finished
  <2>1. g[c].status = "archived"
    BY <1>2, SameTreeFacts DEF FinishedBelow, Finished
  <2> QED BY <1>1, <1>2, <2>1
<1>4. OpenAbove(h)
  BY <1>1, <1>2, SameTreeFacts DEF OpenAbove
<1> QED BY <1>3, <1>4

\* New work below unfinished work, or at the top.
LEMMA GrowingKeeps ==
  ASSUME NEW g, NEW h, Graph(g), Graph(h), FinishedBelow(g), OpenAbove(g), Len(g) < Len(h),
         NEW p \in 0..Len(g), p # 0 => g[p].status \in Unfinished,
         \A k \in 1..Len(g) :
           /\ h[k].parent = g[k].parent
           /\ h[k].status = g[k].status \/ (k = p /\ h[k].status = "active"),
         \A k \in (Len(g) + 1)..Len(h) : h[k].parent = p /\ h[k].status = "pending"
  PROVE  FinishedBelow(h) /\ OpenAbove(h)
<1>1. Unfinished \cap Finished = {} /\ "complete" \in Finished /\ "archived" \in Finished
      /\ "pending" \in Unfinished /\ "active" \in Unfinished
  BY DEF Unfinished, Finished
<1>2. /\ Len(g) \in Nat /\ Len(h) \in Nat /\ DOMAIN g = 1..Len(g) /\ DOMAIN h = 1..Len(h)
      /\ \A k \in 1..Len(g) : g[k].status \in Unfinished \cup Finished
                             /\ g[k].parent \in 0..(k - 1)
  BY GraphParents DEF NodeRecord
<1>3. \A k \in 1..Len(h) : k \in 1..Len(g) \/ k \in (Len(g) + 1)..Len(h)
  BY <1>2
<1>4. \A k \in 1..Len(h) : h[k].status \in Finished =>
        k \in 1..Len(g) /\ k # p /\ h[k].status = g[k].status
  BY <1>1, <1>3
<1>5. \A m \in 1..Len(h) : m # p => AllChildren(h, m) = AllChildren(g, m)
  BY <1>2, <1>3 DEF AllChildren
<1>6. FinishedBelow(h)
  <2> SUFFICES ASSUME NEW m \in 1..Len(h), h[m].status \in Finished,
                      NEW c \in AllChildren(h, m)
               PROVE  h[c].status \in (IF h[m].status = "complete" THEN Finished ELSE {"archived"})
    BY <1>2 DEF FinishedBelow
  <2>1. m \in 1..Len(g) /\ h[m].status = g[m].status /\ c \in AllChildren(g, m)
    BY <1>4, <1>5
  <2>2. g[c].status \in (IF g[m].status = "complete" THEN Finished ELSE {"archived"})
    BY <1>2, <2>1 DEF FinishedBelow
  <2>3. c \in 1..Len(g) /\ c # p
    BY <1>1, <1>2, <2>1, <2>2 DEF AllChildren
  <2> QED BY <2>1, <2>2, <2>3
<1>7. OpenAbove(h)
  <2> SUFFICES ASSUME NEW m \in 1..Len(h), h[m].status \in Unfinished, AllChildren(h, m) # {}
               PROVE  \E c \in AllChildren(h, m) : h[c].status # "complete"
    BY <1>2 DEF OpenAbove
  <2>1. CASE m = p
    <3>1. Len(h) \in AllChildren(h, m) /\ h[Len(h)].status = "pending"
      BY <1>2, <2>1 DEF AllChildren
    <3> QED BY <3>1
  <2>2. CASE m # p
    <3>1. PICK d \in AllChildren(g, m) : TRUE
      BY <1>5, <2>2
    <3>2. m \in 1..Len(g)
      BY <1>2, <3>1 DEF AllChildren
    <3>3. PICK c \in AllChildren(g, m) : g[c].status # "complete"
      BY <1>2, <1>5, <2>2, <3>2 DEF OpenAbove
    <3>4. h[c].status # "complete"
      BY <1>1, <1>2, <1>4, <3>3 DEF AllChildren
    <3> QED BY <1>5, <2>2, <3>3, <3>4
  <2> QED BY <2>1, <2>2
<1> QED BY <1>6, <1>7

-----------------------------------------------------------------------------
\* completeAndCollapse closes the leaf and exactly those ancestors whose
\* children are then all complete.
LEMMA CollapseKeeps ==
  ASSUME NEW g, Graph(g), FinishedBelow(g), OpenAbove(g),
         NEW n \in 1..Len(g), g[n].status \in Unfinished, IsLeaf(g, n)
  PROVE  /\ SameTree(g, CompleteAndCollapse(g, n))
         /\ FinishedBelow(CompleteAndCollapse(g, n)) /\ OpenAbove(CompleteAndCollapse(g, n))
         /\ CompleteAndCollapse(g, n)[n].status = "complete"
         /\ \A k \in 1..Len(g) :
              \/ CompleteAndCollapse(g, n)[k] = g[k]
              \/ /\ k \in Lineage(g, n) /\ g[k].status \in Unfinished
                 /\ CompleteAndCollapse(g, n)[k] = [g[k] EXCEPT !.status = "complete"]
<1> DEFINE h == CompleteAndCollapse(g, n)
           path == Lineage(g, n)
           closed == {n} \cup Collapsed(g, n)
           closes(a) == \A c \in AllChildren(g, a) : c \in path \/ g[c].status = "complete"
<1>1. Unfinished \cap Finished = {} /\ "complete" \in Finished /\ "archived" \in Finished
  BY DEF Unfinished, Finished
<1>2. /\ Len(g) \in Nat /\ DOMAIN g = 1..Len(g)
      /\ \A k \in 1..Len(g) : g[k] \in NodeRecord /\ g[k].parent \in 0..(k - 1)
  BY GraphParents
<1>3. n \in path /\ path \subseteq 1..n /\ path \subseteq 1..Len(g)
  BY <1>2, LineageIsAChain
<1>4. \A k \in path : g[k].status \in Unfinished
  BY LineageIsOpen
<1>5. closed \subseteq path
  BY <1>3 DEF Collapsed
<1>6. \A a : a \in Collapsed(g, n) <=>
        a \in path \ {n} /\ \A b \in path \ {n} : b >= a => closes(b)
  BY DEF Collapsed
<1>7. /\ h = [k \in 1..Len(g) |->
               IF k \in closed THEN [g[k] EXCEPT !.status = "complete"] ELSE g[k]]
  BY <1>2 DEF CompleteAndCollapse
<1> HIDE DEF closed, h
<1>8. \A k \in 1..Len(g) :
        h[k] = IF k \in closed THEN [g[k] EXCEPT !.status = "complete"] ELSE g[k]
  BY <1>7
<1>9. \A k \in 1..Len(g) : /\ h[k] \in NodeRecord /\ h[k].parent = g[k].parent
                            /\ (k \in closed => h[k].status = "complete")
                            /\ (k \notin closed => h[k] = g[k])
  BY <1>2, <1>8, <1>1 DEF NodeRecord
<1>10. SameTree(g, h)
  <2>1. h \in Seq(NodeRecord) /\ Len(h) = Len(g) /\ DOMAIN h = 1..Len(g)
    BY <1>2, <1>7, <1>9
  <2>2. Graph(h)
    BY <1>2, <1>9, <2>1 DEF Graph
  <2> QED BY <1>9, <2>1, <2>2 DEF SameTree
<1>11. \A m : AllChildren(h, m) = AllChildren(g, m) /\ AllChildren(g, m) \subseteq 1..Len(g)
  <2>1. \A m : AllChildren(h, m) = AllChildren(g, m)
    BY <1>10, SameTreeFacts
  <2>2. \A m : AllChildren(g, m) \subseteq 1..Len(g)
    BY <1>2 DEF AllChildren
  <2> QED BY <2>1, <2>2
<1>12. FinishedBelow(h)
  <2> SUFFICES ASSUME NEW m \in 1..Len(g), h[m].status \in Finished,
                      NEW c \in AllChildren(g, m)
               PROVE  h[c].status \in (IF h[m].status = "complete" THEN Finished ELSE {"archived"})
    BY <1>10, <1>11, SameTreeFacts DEF FinishedBelow
  <2>1. CASE m \notin closed
    <3>1. g[c].status \in (IF g[m].status = "complete" THEN Finished ELSE {"archived"})
      BY <1>2, <1>9, <2>1 DEF FinishedBelow
    <3>2. c \notin closed
      BY <1>1, <1>4, <1>5, <3>1
    <3> QED BY <1>9, <1>11, <2>1, <3>1, <3>2
  <2>2. CASE m = n
    <3>1. g[c].status = "archived"
      BY <2>2 DEF IsLeaf, NodeChildren
    <3>2. c \notin closed
      BY <1>1, <1>4, <1>5, <3>1
    <3>3. m \in closed
      BY <2>2 DEF closed
    <3> QED BY <1>1, <1>9, <1>11, <3>1, <3>2, <3>3
  <2>3. CASE m \in Collapsed(g, n)
    <3>1. m \in closed /\ h[m].status = "complete"
      BY <1>9, <2>3 DEF closed
    <3>2. c \in path \/ g[c].status = "complete"
      BY <1>2, <1>6, <2>3
    <3>3. CASE c \in path
      <4>1. m < c
        <5>1. c \in 1..Len(g) /\ g[c].parent = m
          BY <1>2 DEF AllChildren
        <5> QED BY <1>2, <5>1
      <4>2. \A b \in path \ {n} : b >= c => closes(b)
        <5> SUFFICES ASSUME NEW b \in path \ {n}, b >= c PROVE closes(b)
          OBVIOUS
        <5>1. b >= m
          <6>1. b \in 1..Len(g) /\ c \in 1..Len(g) /\ m \in 1..Len(g)
            BY <1>3, <1>11
          <6> QED BY <4>1, <6>1
        <5> HIDE DEF closes
        <5> QED BY <1>6, <2>3, <5>1
      <4>3. c \in closed
        BY <1>6, <3>3, <4>2 DEF closed
      <4> QED BY <1>1, <1>9, <1>11, <3>1, <4>3
    <3>4. CASE c \notin path
      BY <1>1, <1>5, <1>9, <1>11, <3>1, <3>2, <3>4
    <3> QED BY <3>3, <3>4
  <2> QED BY <2>1, <2>2, <2>3 DEF closed
<1>13. OpenAbove(h)
  <2> SUFFICES ASSUME NEW m \in 1..Len(g), h[m].status \in Unfinished, AllChildren(g, m) # {}
               PROVE  \E c \in AllChildren(g, m) : h[c].status # "complete"
    BY <1>10, <1>11, SameTreeFacts DEF OpenAbove
  <2>1. m \notin closed /\ g[m].status \in Unfinished
    BY <1>1, <1>9
  <2>2. PICK c \in AllChildren(g, m) : g[c].status # "complete"
    BY <1>2, <2>1 DEF OpenAbove
  <2>3. CASE c \notin closed
    BY <1>9, <1>11, <2>2, <2>3
  <2>4. CASE c \in closed
    <3>1. m \in path /\ m < c /\ g[c].parent = m
      BY <1>2, <1>5, <1>11, <2>4, LineageIsAChain DEF AllChildren
    <3>2. m # n
      BY <1>3, <1>5, <2>4, <3>1
    <3>3. PICK b \in path \ {n} : b >= m /\ ~closes(b)
      BY <1>6, <2>1, <3>1, <3>2 DEF closed
    <3>4. b < c
      <4>1. CASE c = n
        BY <1>3, <3>3, <4>1
      <4>2. CASE c \in Collapsed(g, n)
        BY <1>3, <1>5, <1>6, <2>4, <3>3, <4>2
      <4> QED BY <2>4, <4>1, <4>2 DEF closed
    <3>5. b = m
      <4>1. b <= m
        BY <1>5, <2>4, <3>1, <3>3, <3>4, LineageIsAChain
      <4> QED BY <1>3, <3>1, <3>3, <4>1
    <3>6. PICK d \in AllChildren(g, m) : d \notin path /\ g[d].status # "complete"
      BY <3>3, <3>5
    <3> QED BY <1>5, <1>9, <1>11, <3>6
  <2> QED BY <2>3, <2>4
<1>14. h[n].status = "complete"
  BY <1>9 DEF closed
<1>15. \A k \in 1..Len(g) :
         \/ h[k] = g[k]
         \/ /\ k \in path /\ g[k].status \in Unfinished
            /\ h[k] = [g[k] EXCEPT !.status = "complete"]
  BY <1>4, <1>5, <1>8
<1> QED BY <1>10, <1>12, <1>13, <1>14, <1>15 DEF h
-----------------------------------------------------------------------------
(* The invariants.                                                         *)

\* The parts of TypeOK: the graph, and what the sessions keep.
GraphOK == Graph(nodes) /\ Len(nodes) <= MaxNode
ControlOK ==
  /\ contract \in 1..MaxContract
  /\ accepted \in 1..contract
  /\ lease \in [owner : Session, node : 0..MaxNode, held : BOOLEAN] \cup {NoLease}
  /\ pc \in [Session -> {"idle", "prepared", "ready", "committed", "adopting"}]
  /\ request \in [Session -> Request]

\* What a request that is still current was read from, and what it holds.
RequestHolds(s) ==
  request[s].current =>
    /\ pc[s] \in {"prepared", "ready"}
    /\ request[s].contract = contract
    /\ request[s].node \in {0} \cup DOMAIN nodes
    /\ request[s].op = "reframe" => contract < MaxContract
    /\ request[s].op = "checkpoint" => pc[s] = "ready"
    /\ pc[s] = "ready" =>
         /\ LeaseOf(s)
         /\ lease.held <=> request[s].op = "checkpoint"
         /\ request[s].op \in {"checkout", "checkpoint"} => lease.node = request[s].node

RequestsHold ==
  /\ lease # NoLease /\ lease.held => lease.node \in DOMAIN nodes
  /\ \A s \in Session : RequestHolds(s)

Closing(s) == pc[s] = "committed" /\ nodes[lease.node].status = "complete"

IInv ==
  /\ GraphOK /\ ControlOK /\ RequestsHold
  /\ FinishedBelow(nodes) /\ OpenAbove(nodes)
  /\ CompleteUnderTheContract /\ LeasedLeafIsWorkable

\* What HistoryIsKept says of one step.
History ==
  \A n \in DOMAIN nodes :
    /\ n \in DOMAIN nodes'
    /\ nodes'[n].parent = nodes[n].parent
    /\ nodes[n].status = "archived" => nodes'[n].status = "archived"
    /\ nodes[n].status = "complete" /\ nodes'[n].status # "complete" => contract' > contract

-----------------------------------------------------------------------------
LEMMA Bounds ==
  /\ MaxNode \in Nat /\ MaxNode >= 1 /\ MaxContract \in Nat /\ MaxContract >= 1
  /\ NoRequest \in Request /\ ~NoRequest.current /\ NoRequest.op = "checkpoint"
<1>1. MaxNode \in Nat \ {0} /\ MaxContract \in Nat \ {0}
  BY BoundAssumption
<1> QED BY <1>1 DEF NoRequest, Request, Op

\* Void, Stale and Done put the request of nobody in force.
LEMMA Revoked ==
  ASSUME ControlOK, NEW S, NEW s \in Session
  PROVE  /\ Void(request, S) \in [Session -> Request]
         /\ \A t \in Session :
              Void(request, S)[t] = IF t \in S /\ pc[t] # "committed" THEN NoRequest ELSE request[t]
         /\ Stale(s) \in [Session -> Request] /\ \A t \in Session : ~Stale(s)[t].current
<1>1. NoRequest \in Request /\ \A op \in Op : [NoRequest EXCEPT !.op = op] \in Request
                               /\ ~[NoRequest EXCEPT !.op = op].current
  BY Bounds DEF Request, NoRequest
<1>2. \A t \in Session : request[t] \in Request /\ request[t].op \in Op
  BY DEF ControlOK, Request
<1> QED BY <1>1, <1>2, Bounds DEF Void, Stale

LEMMA InitIInv == Init => IInv
<1> SUFFICES ASSUME Init PROVE IInv
  OBVIOUS
<1>1. PICK plan \in InitialPlans : nodes = [n \in DOMAIN plan |-> NewNode(plan[n], 1)]
  BY DEF Init
<1>2. /\ Len(plan) \in Nat /\ Len(plan) <= MaxNode /\ DOMAIN plan = 1..Len(plan)
      /\ \A n \in 1..Len(plan) : plan[n] \in 0..(n - 1)
  BY PlanAssumption
<1>3. \A n \in 1..Len(plan) : /\ nodes[n] = NewNode(plan[n], 1) /\ nodes[n] \in NodeRecord
                              /\ nodes[n].parent < n /\ nodes[n].status = "pending"
  BY <1>1, <1>2, Bounds DEF NewNode, NodeRecord, Unfinished
<1>4. Len(nodes) = Len(plan) /\ DOMAIN nodes = 1..Len(plan) /\ nodes \in Seq(NodeRecord)
  BY <1>1, <1>2, <1>3
<1>5. GraphOK
  BY <1>2, <1>3, <1>4 DEF GraphOK, Graph
<1>6. FinishedBelow(nodes) /\ OpenAbove(nodes) /\ CompleteUnderTheContract
  BY <1>3, <1>4 DEF FinishedBelow, OpenAbove, CompleteUnderTheContract, Finished, AllChildren
<1>7. ControlOK /\ RequestsHold /\ LeasedLeafIsWorkable
  BY Bounds DEF Init, ControlOK, RequestsHold, RequestHolds, LeasedLeafIsWorkable, HeldBy,
     LeaseOf
<1> QED BY <1>5, <1>6, <1>7 DEF IInv

-----------------------------------------------------------------------------
(* Steps that leave the graph alone.                                        *)

LEMMA QuietStep ==
  ASSUME IInv, UNCHANGED <<nodes, contract>>, ControlOK', RequestsHold',
         \A s \in Session : HeldBy(s)' /\ ~Closing(s)' =>
           HeldBy(s) /\ ~Closing(s) /\ lease' = lease
  PROVE  IInv' /\ History
<1>1. GraphOK' /\ FinishedBelow(nodes)' /\ OpenAbove(nodes)' /\ CompleteUnderTheContract'
  BY DEF IInv, GraphOK, CompleteUnderTheContract
<1>2. LeasedLeafIsWorkable'
  BY DEF IInv, LeasedLeafIsWorkable, Closing
<1>3. History
  BY DEF History
<1> QED BY <1>1, <1>2, <1>3 DEF IInv

\* A session goes on, and the lease stays or ends.
LEMMA QuietControl ==
  ASSUME IInv, NEW s \in Session, UNCHANGED <<nodes, contract>>,
         accepted' \in 1..contract, lease' \in {lease, NoLease},
         request' \in [Session -> Request],
         \A t \in Session : request'[t].current =>
           /\ request'[t] = request[t] /\ pc'[t] = pc[t]
           /\ pc[t] = "ready" => lease' = lease,
         NEW label \in {"idle", "prepared", "ready", "committed", "adopting"},
         pc' = [pc EXCEPT ![s] = label],
         pc[s] = "committed" => (HeldBy(s) /\ Closing(s) => lease' = NoLease)
  PROVE  IInv' /\ History
<1>1. ControlOK'
  BY DEF IInv, ControlOK
<1>2. RequestsHold'
  BY DEF IInv, RequestsHold, RequestHolds, LeaseOf
<1>3. \A t \in Session : HeldBy(t)' /\ ~Closing(t)' =>
        HeldBy(t) /\ ~Closing(t) /\ lease' = lease
  BY DEF HeldBy, LeaseOf, Closing, IInv, ControlOK
<1> QED BY <1>1, <1>2, <1>3, QuietStep

\* A request is prepared from the graph and the contract of now.
LEMMA PrepareKeeps ==
  ASSUME IInv, NEW s \in Session, NEW op \in Op, NEW n \in 0..MaxNode, Prepare(s, op, n)
  PROVE  IInv' /\ History
<1> DEFINE new == [op |-> op, node |-> n, contract |-> accepted, current |-> TRUE]
<1>1. /\ UNCHANGED <<nodes, contract, accepted, lease>> /\ accepted = contract /\ pc[s] = "idle"
      /\ pc' = [pc EXCEPT ![s] = IF op = "checkpoint" THEN "ready" ELSE "prepared"]
  BY DEF Prepare, Goto
<1>2. new \in Request
  BY <1>1 DEF Request, IInv, ControlOK
<1>3. /\ request' \in [Session -> Request] /\ request'[s] = new
      /\ \A t \in Session \ {s} : request'[t] = request[t] \/ request'[t] = NoRequest
  BY <1>2, Revoked DEF Prepare, IInv, ControlOK
<1>4. ControlOK'
  BY <1>1, <1>3 DEF IInv, ControlOK
<1>5. RequestsHold'
  <2>1. \A t \in Session \ {s} : RequestHolds(t)'
    BY <1>1, <1>3, Bounds DEF IInv, RequestsHold, RequestHolds, LeaseOf, ControlOK
  <2>2. RequestHolds(s)'
    <3>1. n \in {0} \cup DOMAIN nodes
      BY DEF Prepare
    <3>2. op = "reframe" => contract < MaxContract
      BY DEF Prepare, Acceptable
    <3>3. op = "checkpoint" => HeldBy(s) /\ n = lease.node
      BY DEF Prepare
    <3>4. pc'[s] = IF op = "checkpoint" THEN "ready" ELSE "prepared"
      BY <1>1 DEF IInv, ControlOK
    <3> QED BY <1>1, <1>3, <3>1, <3>2, <3>3, <3>4 DEF RequestHolds, LeaseOf, HeldBy
  <2> QED BY <1>1, <2>1, <2>2 DEF IInv, RequestsHold
<1>6. \A t \in Session : HeldBy(t)' /\ ~Closing(t)' =>
        HeldBy(t) /\ ~Closing(t) /\ lease' = lease
  BY <1>1 DEF HeldBy, LeaseOf, Closing, IInv, ControlOK
<1> QED BY <1>1, <1>4, <1>5, <1>6, QuietStep

\* The lease is taken where nobody held one, so no other request is ready.
LEMMA TakeLeaseKeeps ==
  ASSUME IInv, NEW s \in Session, TakeLease(s)
  PROVE  IInv' /\ History
<1>1. /\ UNCHANGED <<nodes, contract, accepted, request>> /\ lease = NoLease /\ pc[s] = "prepared"
      /\ lease' = [owner |-> s, held |-> FALSE,
                   node |-> IF request[s].op = "checkout" THEN request[s].node ELSE 0]
      /\ pc' = [pc EXCEPT ![s] = "ready"]
  BY DEF TakeLease, Goto
<1>2. lease' # NoLease /\ lease'.owner = s /\ lease'.held = FALSE
      /\ lease' \in [owner : Session, node : 0..MaxNode, held : BOOLEAN]
  <2>1. request[s].node \in 0..MaxNode /\ 0 \in 0..MaxNode
    BY Bounds DEF IInv, ControlOK, Request
  <2>2. lease' \in [owner : Session, node : 0..MaxNode, held : BOOLEAN]
    BY <1>1, <2>1
  <2> QED BY <1>1, <2>2, NoLeaseAssumption
<1>3. ControlOK'
  BY <1>1, <1>2 DEF IInv, ControlOK
<1>4. RequestsHold'
  <2>1. \A t \in Session \ {s} : RequestHolds(t)'
    BY <1>1 DEF IInv, RequestsHold, RequestHolds, LeaseOf, ControlOK
  <2>2. RequestHolds(s)'
    BY <1>1, <1>2 DEF IInv, RequestsHold, RequestHolds, LeaseOf, ControlOK
  <2> QED BY <1>1, <1>2, <2>1, <2>2 DEF RequestsHold
<1>5. \A t \in Session : ~HeldBy(t)'
  BY <1>2 DEF HeldBy, LeaseOf
<1> QED BY <1>1, <1>3, <1>4, <1>5, QuietStep

\* The fence goes back, the contract is adopted, a completed leaf is released.
LEMMA ClosingKeeps ==
  ASSUME IInv, NEW s \in Session, Finish(s) \/ Adopt(s) \/ Settle(s)
  PROVE  IInv' /\ History
<1>1. UNCHANGED <<nodes, contract>> /\ accepted' \in 1..contract
      /\ lease' \in {lease, NoLease}
  BY DEF Finish, Adopt, Settle, ReleaseHeld, IInv, ControlOK
<1>2. /\ request' \in [Session -> Request]
      /\ \A t \in Session : request'[t].current =>
           request'[t] = request[t] /\ (Settle(s) /\ t # s)
  <2>1. CASE Finish(s)
    <3>1. request' = [Void(request, Session) EXCEPT ![s] = NoRequest]
      BY <2>1 DEF Finish, Done
    <3> QED BY <3>1, Revoked, Bounds DEF IInv, RequestsHold, RequestHolds
  <2>2. CASE Adopt(s)
    BY <2>2, Revoked, Bounds DEF Adopt, IInv, ControlOK, RequestsHold, RequestHolds
  <2>3. CASE Settle(s)
    BY <2>3, Bounds DEF Settle, Done, IInv, ControlOK
  <2> QED BY <2>1, <2>2, <2>3
<1>3. \A t \in Session \ {s} : pc'[t] = pc[t]
  BY DEF Finish, Adopt, Settle, Goto, IInv, ControlOK
<1>4. \A t \in Session : request'[t].current /\ pc[t] = "ready" => lease' = lease
  BY <1>2, <1>3 DEF Settle, HeldBy, LeaseOf, IInv, RequestsHold, RequestHolds
<1>5. PICK label \in {"idle", "adopting"} : pc' = [pc EXCEPT ![s] = label]
  BY DEF Finish, Adopt, Settle, Goto
<1>6. pc[s] = "committed" => (HeldBy(s) /\ Closing(s) => lease' = NoLease)
  BY DEF Finish, Adopt, Settle, HeldBy, Closing
<1> QED BY <1>1, <1>2, <1>3, <1>4, <1>5, <1>6, QuietControl

\* Authority ends: of the workspace, of one request, of one session.
LEMMA RevokingKeeps ==
  ASSUME IInv, NEW s \in Session, RecordExecution(s) \/ Refuse(s) \/ Revoke(s)
  PROVE  IInv' /\ History
<1>1. UNCHANGED <<nodes, contract, accepted>> /\ accepted' \in 1..contract
      /\ lease' \in {lease, NoLease}
  BY DEF RecordExecution, Refuse, Revoke, ReleaseHeld, IInv, ControlOK
<1>2. /\ request' \in [Session -> Request]
      /\ \A t \in Session : request'[t].current =>
           request'[t] = request[t] /\ t # s
  <2>1. CASE RecordExecution(s)
    BY <2>1, Revoked, Bounds DEF RecordExecution, IInv, ControlOK, RequestsHold, RequestHolds
  <2>2. CASE Refuse(s)
    BY <2>2, Bounds DEF Refuse, Done, IInv, ControlOK
  <2>3. CASE Revoke(s)
    <3>1. request' = Void(request, {s})
      BY <2>3 DEF Revoke
    <3>2. pc[s] = "committed" => ~request[s].current
      BY DEF IInv, RequestsHold, RequestHolds
    <3> QED BY <3>1, <3>2, Revoked, Bounds DEF IInv
  <2> QED BY <2>1, <2>2, <2>3
<1>3. \A t \in Session : request'[t].current /\ pc[t] = "ready" => lease' = lease
  BY <1>2 DEF RecordExecution, Refuse, Revoke, ReleaseHeld, LeaseOf, IInv, RequestsHold,
     RequestHolds
<1>4. CASE Refuse(s)
  BY <1>1, <1>2, <1>3, <1>4, QuietControl DEF Refuse, Goto, IInv, ControlOK
<1>5. CASE RecordExecution(s) \/ Revoke(s)
  <2>1. ControlOK'
    BY <1>1, <1>2, <1>5 DEF RecordExecution, Revoke, IInv, ControlOK
  <2>2. RequestsHold'
    BY <1>1, <1>2, <1>3, <1>5 DEF RecordExecution, Revoke, IInv, RequestsHold, RequestHolds, LeaseOf
  <2>3. \A t \in Session : HeldBy(t)' /\ ~Closing(t)' =>
          HeldBy(t) /\ ~Closing(t) /\ lease' = lease
    BY <1>1, <1>5 DEF RecordExecution, Revoke, HeldBy, LeaseOf, Closing
  <2> QED BY <1>1, <2>1, <2>2, <2>3, QuietStep
<1> QED BY <1>4, <1>5

-----------------------------------------------------------------------------
(* Commits under a fence.                                                   *)

\* Under a fence nobody holds a leaf, and a commit voids every other request.
LEMMA FencedCommit ==
  ASSUME IInv, NEW s \in Session, NEW op \in Structural, MayCommit(s, op),
         request' = Stale(s), UNCHANGED <<accepted, lease>>, Goto(s, "committed"),
         contract' \in contract..MaxContract,
         GraphOK', FinishedBelow(nodes'), OpenAbove(nodes'), CompleteUnderTheContract'
  PROVE  IInv'
<1>1. request[s].current /\ request[s].op = op /\ op # "checkpoint" /\ pc[s] = "ready"
  BY DEF MayCommit, Structural
<1>2. lease # NoLease /\ ~lease.held
  BY <1>1 DEF IInv, RequestsHold, RequestHolds, LeaseOf
<1>3. ControlOK'
  BY Revoked DEF IInv, ControlOK, Goto
<1>4. RequestsHold' /\ LeasedLeafIsWorkable'
  BY <1>2, Revoked DEF IInv, RequestsHold, RequestHolds, LeasedLeafIsWorkable, HeldBy
<1> QED BY <1>3, <1>4 DEF IInv

\* What a request that may commit says of the graph and the contract.
LEMMA RequestIsCurrent ==
  ASSUME IInv, NEW s \in Session, NEW op \in Op, MayCommit(s, op)
  PROVE  /\ request[s].contract = contract /\ contract \in 1..MaxContract
         /\ request[s].node \in 0..Len(nodes)
         /\ op = "reframe" => contract < MaxContract
         /\ op = "checkpoint" => HeldBy(s)
         /\ op \in {"checkout", "checkpoint"} => request[s].node = lease.node
         /\ Graph(nodes) /\ Len(nodes) \in Nat /\ DOMAIN nodes = 1..Len(nodes)
         /\ \A n \in 1..Len(nodes) : nodes[n] \in NodeRecord /\ nodes[n].parent \in 0..(n - 1)
<1>1. /\ Graph(nodes) /\ Len(nodes) \in Nat /\ DOMAIN nodes = 1..Len(nodes)
      /\ \A n \in 1..Len(nodes) : nodes[n] \in NodeRecord /\ nodes[n].parent \in 0..(n - 1)
  BY GraphParents DEF IInv, GraphOK
<1> QED BY <1>1 DEF IInv, MayCommit, RequestsHold, RequestHolds, ControlOK

\* lattice_add and lattice_split: children below unfinished work.
LEMMA GrowingStep ==
  ASSUME IInv, NEW s \in Session, NEW op \in {"add", "split"}, MayCommit(s, op),
         NEW p, p = request[s].node, NEW k \in Nat \ {0}, AcceptsChild(p, contract, k),
         nodes' \in Seq(NodeRecord), Len(nodes') = Len(nodes) + k,
         \A n \in 1..Len(nodes) :
           \/ nodes'[n] = nodes[n]
           \/ n = p /\ nodes'[n] = [nodes[n] EXCEPT !.status = "active"],
         \A n \in (Len(nodes) + 1)..Len(nodes') : nodes'[n] = NewNode(p, contract),
         request' = Stale(s), Goto(s, "committed"), UNCHANGED <<contract, accepted, lease>>
  PROVE  IInv' /\ History
<1>1. op \in Structural /\ op \in Op
  BY DEF Structural, Op
<1>2. /\ contract \in 1..MaxContract /\ p \in 0..Len(nodes)
      /\ Graph(nodes) /\ Len(nodes) \in Nat /\ DOMAIN nodes = 1..Len(nodes)
      /\ \A n \in 1..Len(nodes) : nodes[n] \in NodeRecord /\ nodes[n].parent \in 0..(n - 1)
  BY <1>1, RequestIsCurrent
<1>3. p # 0 => nodes[p].status \in Unfinished
  BY DEF AcceptsChild, Mutable
<1>4. Len(nodes') <= MaxNode
  BY DEF AcceptsChild
<1>5. DOMAIN nodes' = 1..Len(nodes') /\ Len(nodes') \in Nat
  OBVIOUS
<1>6. \A n \in 1..Len(nodes) :
        /\ nodes'[n].parent = nodes[n].parent /\ nodes'[n].contract = nodes[n].contract
        /\ nodes'[n].reconcile = nodes[n].reconcile
        /\ nodes'[n].status = nodes[n].status \/ (n = p /\ nodes'[n].status = "active")
  BY <1>2 DEF NodeRecord
<1>7. \A n \in (Len(nodes) + 1)..Len(nodes') : nodes'[n].parent = p /\ nodes'[n].status = "pending"
  BY DEF NewNode
<1>8. \A n \in 1..Len(nodes') : n \in 1..Len(nodes) \/ n \in (Len(nodes) + 1)..Len(nodes')
  BY <1>2
<1>9. Graph(nodes')
  <2>1. \A n \in 1..Len(nodes') : nodes'[n].parent < n
    <3>1. ASSUME NEW n \in 1..Len(nodes) PROVE nodes'[n].parent < n
      BY <1>2, <1>6
    <3>2. ASSUME NEW n \in (Len(nodes) + 1)..Len(nodes') PROVE nodes'[n].parent < n
      BY <1>2, <1>7
    <3> QED BY <1>8, <3>1, <3>2
  <2> QED BY <1>5, <2>1 DEF Graph
<1>10. FinishedBelow(nodes') /\ OpenAbove(nodes')
  <2>1. Len(nodes) < Len(nodes')
    BY <1>2
  <2>2. \A n \in 1..Len(nodes) :
          /\ nodes'[n].parent = nodes[n].parent
          /\ nodes'[n].status = nodes[n].status \/ (n = p /\ nodes'[n].status = "active")
    BY <1>6
  <2> QED BY <1>2, <1>3, <1>7, <1>9, <2>1, <2>2, GrowingKeeps DEF IInv
<1>11. CompleteUnderTheContract'
  <2> SUFFICES ASSUME NEW n \in 1..Len(nodes'), nodes'[n].status = "complete"
               PROVE  Reconciled(nodes'[n], contract)
    BY <1>5 DEF CompleteUnderTheContract, Reconciled
  <2>1. n \in 1..Len(nodes) /\ nodes[n].status = "complete"
    BY <1>6, <1>7, <1>8
  <2> QED BY <1>2, <1>6, <2>1 DEF IInv, CompleteUnderTheContract, Reconciled
<1>12. History
  <2>1. \A n \in 1..Len(nodes) : n \in 1..Len(nodes')
    BY <1>2
  <2>2. \A n \in 1..Len(nodes) :
          nodes[n].status \in {"archived", "complete"} => nodes'[n].status = nodes[n].status
    BY <1>3, <1>6 DEF Unfinished
  <2> QED BY <1>2, <1>5, <1>6, <2>1, <2>2 DEF History
<1>13. contract' \in contract..MaxContract /\ GraphOK'
  BY <1>2, <1>4, <1>9 DEF GraphOK
<1> QED BY <1>1, <1>10, <1>11, <1>12, <1>13, FencedCommit

LEMMA NewNodeType ==
  ASSUME NEW p \in 0..MaxNode, NEW r \in 1..MaxContract
  PROVE  NewNode(p, r) \in NodeRecord
BY DEF NewNode, NodeRecord, Unfinished

LEMMA AddKeeps ==
  ASSUME IInv, NEW s \in Session, Add(s)
  PROVE  IInv' /\ History
<1> DEFINE p == request[s].node
<1>1. /\ MayCommit(s, "add") /\ AcceptsChild(p, request[s].contract, 1)
      /\ nodes' = Append(nodes, NewNode(p, request[s].contract))
      /\ request' = Stale(s) /\ Goto(s, "committed") /\ UNCHANGED <<contract, accepted, lease>>
  BY DEF Add, Commit
<1>2. /\ request[s].contract = contract /\ contract \in 1..MaxContract
      /\ Len(nodes) \in Nat /\ nodes \in Seq(NodeRecord)
  BY <1>1, RequestIsCurrent DEF Op, Structural, Graph
<1>3. NewNode(p, contract) \in NodeRecord
  <2>1. p \in 0..MaxNode
    BY DEF IInv, ControlOK, Request
  <2> QED BY <1>2, <2>1, NewNodeType
<1>4. /\ nodes' \in Seq(NodeRecord) /\ Len(nodes') = Len(nodes) + 1
      /\ \A n \in 1..Len(nodes) : nodes'[n] = nodes[n]
      /\ nodes'[Len(nodes) + 1] = NewNode(p, contract)
  BY <1>1, <1>2, <1>3
<1>5. \A n \in (Len(nodes) + 1)..Len(nodes') : nodes'[n] = NewNode(p, contract)
  BY <1>2, <1>4
<1>6. \A n \in 1..Len(nodes) :
        \/ nodes'[n] = nodes[n]
        \/ n = p /\ nodes'[n] = [nodes[n] EXCEPT !.status = "active"]
  BY <1>4
<1>7. AcceptsChild(p, contract, 1) /\ 1 \in Nat \ {0}
  BY <1>1, <1>2
<1> HIDE DEF p
<1> QED BY <1>1, <1>4, <1>5, <1>6, <1>7, GrowingStep DEF p

LEMMA JoinedSequences ==
  ASSUME NEW S, NEW a \in Seq(S), NEW b \in Seq(S)
  PROVE  /\ a \o b \in Seq(S) /\ Len(a \o b) = Len(a) + Len(b)
         /\ \A n \in 1..Len(a) : (a \o b)[n] = a[n]
OBVIOUS

LEMMA SplitKeeps ==
  ASSUME IInv, NEW s \in Session, Split(s)
  PROVE  IInv' /\ History
<1> DEFINE p == request[s].node
           split == [nodes EXCEPT ![p].status = "active"]
<1>1. /\ MayCommit(s, "split") /\ MaySplit(p, request[s].contract)
      /\ request' = Stale(s) /\ Goto(s, "committed") /\ UNCHANGED <<contract, accepted, lease>>
  BY DEF Split, Commit
<1>2. PICK k \in 2..MaxNode :
        /\ AcceptsChild(p, request[s].contract, k)
        /\ nodes' = split \o [i \in 1..k |-> NewNode(p, request[s].contract)]
  BY DEF Split, Commit
<1>3. /\ request[s].contract = contract /\ contract \in 1..MaxContract /\ p \in 0..Len(nodes)
      /\ Len(nodes) \in Nat /\ DOMAIN nodes = 1..Len(nodes) /\ nodes \in Seq(NodeRecord)
      /\ \A n \in 1..Len(nodes) : nodes[n] \in NodeRecord
  BY <1>1, RequestIsCurrent DEF Op, Structural, Graph
<1>4. p \in 1..Len(nodes) /\ k \in Nat \ {0}
  BY <1>1, <1>2, <1>3, Bounds DEF MaySplit
<1>5. /\ split \in Seq(NodeRecord) /\ Len(split) = Len(nodes)
      /\ \A n \in 1..Len(nodes) :
           split[n] = IF n = p THEN [nodes[n] EXCEPT !.status = "active"] ELSE nodes[n]
  <2>1. [nodes[p] EXCEPT !.status = "active"] \in NodeRecord
    BY <1>3, <1>4 DEF NodeRecord, Unfinished
  <2> QED BY <1>3, <1>4, <2>1
<1> DEFINE more == [i \in 1..k |-> NewNode(p, contract)]
<1>6. more \in Seq(NodeRecord) /\ Len(more) = k /\ \A i \in 1..k : more[i] = NewNode(p, contract)
  <2>1. p \in 0..MaxNode
    BY DEF IInv, ControlOK, Request
  <2>2. NewNode(p, contract) \in NodeRecord
    BY <1>3, <2>1, NewNodeType
  <2> QED BY <1>4, <2>2
<1>7. nodes' = split \o more
  BY <1>2, <1>3
<1> HIDE DEF split, more, p
<1>8. nodes' \in Seq(NodeRecord) /\ Len(nodes') = Len(nodes) + k
  <2>1. split \in Seq(NodeRecord) /\ more \in Seq(NodeRecord)
    BY <1>5, <1>6
  <2>2. split \o more \in Seq(NodeRecord) /\ Len(split \o more) = Len(split) + Len(more)
    BY <2>1, JoinedSequences
  <2> QED BY <1>5, <1>6, <1>7, <2>2
<1>9. \A n \in 1..Len(nodes) : nodes'[n] = split[n]
  BY <1>5, <1>6, <1>7, JoinedSequences
<1>10. \A n \in (Len(nodes) + 1)..Len(nodes') : nodes'[n] = NewNode(p, contract)
  BY <1>3, <1>4, <1>5, <1>6, <1>7, <1>8
<1>11. \A n \in 1..Len(nodes) :
         \/ nodes'[n] = nodes[n]
         \/ n = p /\ nodes'[n] = [nodes[n] EXCEPT !.status = "active"]
  BY <1>5, <1>9
<1> QED BY <1>1, <1>2, <1>3, <1>4, <1>8, <1>10, <1>11, GrowingStep DEF p

-----------------------------------------------------------------------------
LEMMA IsASequence ==
  ASSUME NEW f, NEW S, NEW L \in Nat, f = [n \in 1..L |-> f[n]], \A n \in 1..L : f[n] \in S
  PROVE  f \in Seq(S) /\ Len(f) = L
OBVIOUS

\* A node that is changed keeps its place in the tree.
LEMMA ChangedTree ==
  ASSUME GraphOK, DOMAIN nodes' = DOMAIN nodes, nodes' \in Seq(NodeRecord),
         \A n \in 1..Len(nodes) : nodes'[n].parent = nodes[n].parent
  PROVE  SameTree(nodes, nodes') /\ GraphOK'
<1>1. /\ Graph(nodes) /\ Len(nodes) \in Nat /\ DOMAIN nodes = 1..Len(nodes)
      /\ \A n \in 1..Len(nodes) : nodes[n] \in NodeRecord /\ nodes[n].parent \in 0..(n - 1)
  BY GraphParents DEF GraphOK
<1>2. Len(nodes') = Len(nodes) /\ DOMAIN nodes' = 1..Len(nodes)
  BY <1>1
<1>3. Graph(nodes')
  BY <1>1, <1>2 DEF Graph
<1> QED BY <1>1, <1>2, <1>3 DEF SameTree, GraphOK

LEMMA UpdateKeeps ==
  ASSUME IInv, NEW s \in Session, Update(s)
  PROVE  IInv' /\ History
<1> DEFINE n == request[s].node
<1>1. /\ MayCommit(s, "update") /\ Mutable(nodes, n)
      /\ request' = Stale(s) /\ Goto(s, "committed") /\ UNCHANGED <<contract, accepted, lease>>
  BY DEF Update, Commit
<1>2. PICK status \in {nodes[n].status, "blocked"} :
        nodes' = [nodes EXCEPT ![n] = [@ EXCEPT !.status = status,
                    !.contract = request[s].contract, !.reconcile = FALSE]]
  BY DEF Update, Commit
<1>3. /\ request[s].contract = contract /\ contract \in 1..MaxContract
      /\ Len(nodes) \in Nat /\ DOMAIN nodes = 1..Len(nodes) /\ nodes \in Seq(NodeRecord)
      /\ \A k \in 1..Len(nodes) : nodes[k] \in NodeRecord
  BY <1>1, RequestIsCurrent DEF Op, Structural, Graph
<1>4. n \in 1..Len(nodes) /\ nodes[n].status \in Unfinished /\ status \in Unfinished
  BY <1>1, <1>2, <1>3 DEF Mutable, Unfinished
<1>5. [nodes[n] EXCEPT !.status = status, !.contract = contract, !.reconcile = FALSE] \in NodeRecord
  BY <1>3, <1>4 DEF NodeRecord
<1>6. /\ DOMAIN nodes' = DOMAIN nodes /\ nodes' \in Seq(NodeRecord)
      /\ \A k \in 1..Len(nodes) : k # n => nodes'[k] = nodes[k]
      /\ nodes'[n].parent = nodes[n].parent /\ nodes'[n].status = status
  BY <1>2, <1>3, <1>4, <1>5 DEF NodeRecord
<1> HIDE DEF n
<1>7. SameTree(nodes, nodes') /\ GraphOK'
  BY <1>6, ChangedTree DEF IInv
<1>8. FinishedBelow(nodes') /\ OpenAbove(nodes')
  BY <1>4, <1>6, <1>7, OpenStaysOpen DEF IInv
<1>9. CompleteUnderTheContract' /\ History
  BY <1>1, <1>3, <1>4, <1>6 DEF IInv, CompleteUnderTheContract, Reconciled, History, Unfinished
<1>10. contract' \in contract..MaxContract
  BY <1>1, <1>3
<1> QED BY <1>1, <1>7, <1>8, <1>9, <1>10, FencedCommit DEF Structural

LEMMA ArchiveKeeps ==
  ASSUME IInv, NEW s \in Session, Archive(s)
  PROVE  IInv' /\ History
<1> DEFINE n == request[s].node
<1>1. /\ MayCommit(s, "archive") /\ Mutable(nodes, n) /\ IsLeaf(nodes, n)
      /\ nodes' = [nodes EXCEPT ![n].status = "archived"]
      /\ request' = Stale(s) /\ Goto(s, "committed") /\ UNCHANGED <<contract, accepted, lease>>
  BY DEF Archive, MayArchive, Commit
<1>2. /\ contract \in 1..MaxContract
      /\ Len(nodes) \in Nat /\ DOMAIN nodes = 1..Len(nodes) /\ nodes \in Seq(NodeRecord)
      /\ \A k \in 1..Len(nodes) : nodes[k] \in NodeRecord
  BY <1>1, RequestIsCurrent DEF Op, Structural, Graph
<1>3. n \in 1..Len(nodes) /\ nodes[n].status \in Unfinished
  BY <1>1, <1>2 DEF Mutable
<1>4. [nodes[n] EXCEPT !.status = "archived"] \in NodeRecord
  BY <1>2, <1>3 DEF NodeRecord, Finished
<1>5. /\ DOMAIN nodes' = DOMAIN nodes /\ nodes' \in Seq(NodeRecord)
      /\ \A k \in 1..Len(nodes) : k # n => nodes'[k] = nodes[k]
      /\ nodes'[n].parent = nodes[n].parent /\ nodes'[n].status = "archived"
  BY <1>1, <1>2, <1>3, <1>4 DEF NodeRecord
<1> HIDE DEF n
<1>6. SameTree(nodes, nodes') /\ GraphOK'
  BY <1>5, ChangedTree DEF IInv
<1>7. FinishedBelow(nodes') /\ OpenAbove(nodes')
  BY <1>1, <1>3, <1>5, <1>6, ArchivingKeeps DEF IInv
<1>8. CompleteUnderTheContract' /\ History
  BY <1>1, <1>2, <1>3, <1>5 DEF IInv, CompleteUnderTheContract, Reconciled, History, Unfinished
<1>9. contract' \in contract..MaxContract
  BY <1>1, <1>2
<1> QED BY <1>1, <1>6, <1>7, <1>8, <1>9, FencedCommit DEF Structural

LEMMA ReframeKeeps ==
  ASSUME IInv, NEW s \in Session, Reframe(s)
  PROVE  IInv' /\ History
<1>0. MayCommit(s, "reframe") /\ contract' = contract + 1
  BY DEF Reframe
<1>1. /\ nodes' = [n \in DOMAIN nodes |->
                     IF nodes[n].status = "archived" THEN nodes[n]
                     ELSE [nodes[n] EXCEPT !.status = IF @ = "complete" THEN "pending" ELSE @,
                                           !.reconcile = TRUE]]
      /\ request' = Stale(s) /\ Goto(s, "committed") /\ UNCHANGED <<accepted, lease>>
  BY DEF Reframe, Commit
<1>2. /\ contract \in 1..MaxContract /\ contract < MaxContract
      /\ Len(nodes) \in Nat /\ DOMAIN nodes = 1..Len(nodes)
      /\ \A k \in 1..Len(nodes) : nodes[k] \in NodeRecord
  BY <1>0, RequestIsCurrent DEF Op, Structural
<1>3. \A n \in 1..Len(nodes) :
        /\ nodes'[n] \in NodeRecord /\ nodes'[n].parent = nodes[n].parent
        /\ nodes'[n].status = IF nodes[n].status = "complete" THEN "pending" ELSE nodes[n].status
  BY <1>1, <1>2 DEF NodeRecord, Unfinished, Finished
<1>4. DOMAIN nodes' = DOMAIN nodes /\ nodes' \in Seq(NodeRecord)
  <2>1. DOMAIN nodes' = 1..Len(nodes)
    BY <1>1, <1>2
  <2>2. nodes' = [n \in 1..Len(nodes) |-> nodes'[n]]
    BY <1>1, <1>2
  <2> QED BY <1>2, <1>3, <2>1, <2>2, IsASequence
<1>5. SameTree(nodes, nodes') /\ GraphOK'
  BY <1>3, <1>4, ChangedTree DEF IInv
<1>6. FinishedBelow(nodes') /\ OpenAbove(nodes')
  BY <1>3, <1>5, ReopeningKeeps DEF IInv
<1>7. CompleteUnderTheContract' /\ History
  <2>1. contract' > contract
    BY <1>0, <1>2
  <2>2. \A n \in 1..Len(nodes) : /\ nodes'[n].status # "complete"
                                 /\ nodes[n].status = "archived" => nodes'[n].status = "archived"
    BY <1>3
  <2> QED BY <1>2, <1>3, <1>4, <2>1, <2>2 DEF CompleteUnderTheContract, History
<1>8. contract' \in contract..MaxContract
  BY <1>0, <1>2, Bounds
<1> QED BY <1>0, <1>1, <1>5, <1>6, <1>7, <1>8, FencedCommit DEF Structural

-----------------------------------------------------------------------------
(* The leased leaf: checkout, checkpoint, completion.                       *)

\* The leaf that is checked out is unfinished, and so are its ancestors.
LEMMA CheckoutKeeps ==
  ASSUME IInv, NEW s \in Session, Checkout(s)
  PROVE  IInv' /\ History
<1> DEFINE n == request[s].node
           path == Lineage(nodes, n)
<1>1. /\ MayCommit(s, "checkout") /\ MayCheckout(n, request[s].contract)
      /\ nodes' = [k \in DOMAIN nodes |->
                     IF k \in path /\ nodes[k].status = "pending"
                     THEN [nodes[k] EXCEPT !.status = "active"] ELSE nodes[k]]
  BY DEF Checkout
<1>2. /\ lease' = [lease EXCEPT !.held = TRUE]
      /\ request' = [t \in Session |-> NoRequest]
      /\ pc' = [pc EXCEPT ![s] = "idle"] /\ UNCHANGED <<contract, accepted>>
  BY DEF Checkout, Goto
<1>3. /\ request[s].contract = contract /\ contract \in 1..MaxContract
      /\ n \in 0..Len(nodes)
      /\ Graph(nodes) /\ Len(nodes) \in Nat /\ DOMAIN nodes = 1..Len(nodes)
      /\ \A k \in 1..Len(nodes) : nodes[k] \in NodeRecord
  BY <1>1, RequestIsCurrent DEF Op
<1>4. /\ n \in 1..Len(nodes) /\ nodes[n].status \in Unfinished /\ IsLeaf(nodes, n)
      /\ \A k \in path : Reconciled(nodes[k], contract)
  BY <1>1, <1>3 DEF MayCheckout, Unfinished
<1>5. \A k \in path : k \in 1..Len(nodes) /\ nodes[k].status \in Unfinished
  BY <1>3, <1>4, LineageIsAChain, LineageIsOpen DEF IInv
<1>6. \A k \in 1..Len(nodes) :
        /\ nodes'[k] \in NodeRecord /\ nodes'[k].parent = nodes[k].parent
        /\ nodes'[k].contract = nodes[k].contract /\ nodes'[k].reconcile = nodes[k].reconcile
        /\ \/ nodes'[k].status = nodes[k].status
           \/ nodes[k].status \in Unfinished /\ nodes'[k].status \in Unfinished
  <2> HIDE DEF path
  <2> QED BY <1>1, <1>3 DEF NodeRecord, Unfinished
<1>7. DOMAIN nodes' = DOMAIN nodes /\ nodes' \in Seq(NodeRecord)
  <2>1. DOMAIN nodes' = 1..Len(nodes)
    BY <1>1, <1>3
  <2>2. nodes' = [k \in 1..Len(nodes) |-> nodes'[k]]
    BY <1>1, <1>3
  <2> QED BY <1>3, <1>6, <2>1, <2>2, IsASequence
<1> HIDE DEF n, path
<1>8. SameTree(nodes, nodes') /\ GraphOK'
  BY <1>6, <1>7, ChangedTree DEF IInv
<1>9. FinishedBelow(nodes') /\ OpenAbove(nodes')
  BY <1>6, <1>8, OpenStaysOpen DEF IInv
<1>10. CompleteUnderTheContract' /\ History
  BY <1>2, <1>3, <1>6, <1>7 DEF IInv, CompleteUnderTheContract, Reconciled, History, Unfinished
<1>11. lease # NoLease /\ lease.owner = s /\ lease.node = n
  <2>1. LeaseOf(s)
    BY <1>1 DEF MayCommit
  <2>2. request[s].node = lease.node
    BY <1>1, RequestIsCurrent DEF Op
  <2> QED BY <2>1, <2>2 DEF LeaseOf, n
<1>12. /\ lease' \in [owner : Session, node : 0..MaxNode, held : BOOLEAN]
       /\ lease' # NoLease /\ lease'.owner = s /\ lease'.node = n /\ lease'.held = TRUE
  <2>1. lease \in [owner : Session, node : 0..MaxNode, held : BOOLEAN]
    BY <1>11 DEF IInv, ControlOK
  <2>2. lease' \in [owner : Session, node : 0..MaxNode, held : BOOLEAN]
    BY <1>2, <2>1
  <2> QED BY <1>2, <1>11, <2>1, <2>2, NoLeaseAssumption
<1>13. ControlOK'
  BY <1>2, <1>12, Bounds DEF IInv, ControlOK
<1>14. RequestsHold'
  <2>1. \A t \in Session : request'[t] = NoRequest
    BY <1>2
  <2>2. lease'.node \in DOMAIN nodes'
    BY <1>3, <1>4, <1>7, <1>12
  <2> QED BY <2>1, <2>2, Bounds DEF RequestsHold, RequestHolds
<1>15. LeasedLeafIsWorkable'
  <2>1. IsLeaf(nodes', n)
    <3>1. \A c \in 1..Len(nodes) : nodes'[c].status = "archived" <=> nodes[c].status = "archived"
      BY <1>6 DEF Unfinished
    <3>2. AllChildren(nodes', n) = AllChildren(nodes, n) /\ AllChildren(nodes, n) \subseteq 1..Len(nodes)
      <4>1. AllChildren(nodes', n) = AllChildren(nodes, n)
        BY <1>8, SameTreeFacts
      <4>2. AllChildren(nodes, n) \subseteq 1..Len(nodes)
        BY <1>3 DEF AllChildren
      <4> QED BY <4>1, <4>2
    <3>3. NodeChildren(nodes', n) = NodeChildren(nodes, n)
      BY <3>1, <3>2 DEF NodeChildren
    <3> QED BY <1>4, <3>3 DEF IsLeaf
  <2>2. Lineage(nodes', n) = path
    BY <1>4, <1>8, SameTreeFacts DEF path
  <2>3. \A k \in path : nodes'[k].status \in Unfinished /\ Reconciled(nodes'[k], contract')
    BY <1>2, <1>4, <1>5, <1>6 DEF Reconciled
  <2> QED BY <1>12, <2>1, <2>2, <2>3 DEF LeasedLeafIsWorkable
<1> QED BY <1>8, <1>9, <1>10, <1>13, <1>14, <1>15 DEF IInv

LEMMA CheckpointKeeps ==
  ASSUME IInv, NEW s \in Session, Checkpoint(s)
  PROVE  IInv' /\ History
<1>1. /\ UNCHANGED <<nodes, contract, accepted, lease>> /\ accepted' \in 1..contract
      /\ request' = Stale(s) /\ pc' = [pc EXCEPT ![s] = "committed"]
      /\ pc[s] = "ready"
  BY DEF Checkpoint, Commit, Goto, MayCommit, IInv, ControlOK
<1> QED BY <1>1, Revoked, QuietControl DEF IInv

\* The leaf was workable until now, so all that its completion closes is
\* reconciled with the contract.
LEMMA CompleteKeeps ==
  ASSUME IInv, NEW s \in Session, Complete(s)
  PROVE  IInv' /\ History
<1> DEFINE n == request[s].node
           path == Lineage(nodes, n)
<1>1. /\ MayCommit(s, "checkpoint") /\ IsLeaf(nodes, n) /\ Mutable(nodes, n)
      /\ nodes' = CompleteAndCollapse(nodes, n) /\ pc' = [pc EXCEPT ![s] = "committed"]
      /\ request' = Stale(s) /\ UNCHANGED <<contract, accepted, lease>>
  BY DEF Complete, Commit, Goto
<1>2. /\ contract \in 1..MaxContract /\ HeldBy(s) /\ n = lease.node
      /\ Graph(nodes) /\ Len(nodes) \in Nat /\ DOMAIN nodes = 1..Len(nodes)
      /\ \A k \in 1..Len(nodes) : nodes[k] \in NodeRecord
  BY <1>1, RequestIsCurrent DEF Op
<1>3. n \in 1..Len(nodes) /\ nodes[n].status \in Unfinished
  BY <1>1, <1>2 DEF Mutable
<1>4. \A k \in path : Reconciled(nodes[k], contract)
  <2>1. pc[s] # "committed"
    BY <1>1 DEF MayCommit
  <2> QED BY <1>2, <2>1 DEF IInv, LeasedLeafIsWorkable
<1> HIDE DEF path, n
<1>5. /\ SameTree(nodes, nodes') /\ FinishedBelow(nodes') /\ OpenAbove(nodes')
      /\ nodes'[n].status = "complete"
      /\ \A k \in 1..Len(nodes) :
           \/ nodes'[k] = nodes[k]
           \/ /\ k \in path /\ nodes[k].status \in Unfinished
              /\ nodes'[k] = [nodes[k] EXCEPT !.status = "complete"]
  BY <1>1, <1>2, <1>3, CollapseKeeps DEF path, IInv
<1>6. DOMAIN nodes' = 1..Len(nodes) /\ GraphOK'
  BY <1>5, SameTreeFacts DEF SameTree, GraphOK, IInv
<1>7. \A k \in 1..Len(nodes) :
        /\ nodes'[k].parent = nodes[k].parent
        /\ nodes'[k].contract = nodes[k].contract /\ nodes'[k].reconcile = nodes[k].reconcile
        /\ nodes'[k].status = nodes[k].status \/ (k \in path /\ nodes[k].status \in Unfinished)
  BY <1>2, <1>5 DEF NodeRecord
<1>8. CompleteUnderTheContract'
  BY <1>1, <1>2, <1>4, <1>6, <1>7 DEF IInv, CompleteUnderTheContract, Reconciled
<1>9. History
  BY <1>2, <1>6, <1>7 DEF History, Unfinished
<1>10. ControlOK'
  BY <1>1, Revoked DEF IInv, ControlOK
<1>11. RequestsHold'
  BY <1>1, <1>2, <1>6, Revoked DEF IInv, RequestsHold, RequestHolds
<1>12. LeasedLeafIsWorkable'
  BY <1>1, <1>2, <1>5 DEF LeasedLeafIsWorkable, HeldBy, LeaseOf, IInv, ControlOK
<1> QED BY <1>5, <1>6, <1>8, <1>9, <1>10, <1>11, <1>12 DEF IInv

-----------------------------------------------------------------------------
LEMMA NextIInv == IInv /\ [Next]_vars => IInv' /\ (History \/ UNCHANGED vars)
<1> SUFFICES ASSUME IInv, [Next]_vars PROVE IInv' /\ (History \/ UNCHANGED vars)
  OBVIOUS
<1>1. CASE UNCHANGED vars
  <2>1. GraphOK' /\ ControlOK' /\ FinishedBelow(nodes)' /\ OpenAbove(nodes)' /\ CompleteUnderTheContract'
    BY <1>1 DEF vars, IInv, GraphOK, ControlOK, CompleteUnderTheContract
  <2>2. RequestsHold' /\ LeasedLeafIsWorkable'
    BY <1>1 DEF vars, IInv, RequestsHold, RequestHolds, LeaseOf, HeldBy, LeasedLeafIsWorkable
  <2> QED BY <1>1, <2>1, <2>2 DEF IInv
<1>2. CASE Next
  <2>1. PICK s \in Session :
          \/ \E op \in Op, n \in 0..MaxNode : Prepare(s, op, n)
          \/ TakeLease(s)
          \/ Add(s) \/ Split(s) \/ Update(s) \/ Archive(s) \/ Reframe(s)
          \/ Checkout(s) \/ Checkpoint(s) \/ Complete(s)
          \/ Finish(s) \/ Adopt(s) \/ Settle(s)
          \/ RecordExecution(s) \/ Refuse(s) \/ Revoke(s)
    BY <1>2 DEF Next
  <2>2. ASSUME NEW op \in Op, NEW n \in 0..MaxNode, Prepare(s, op, n) PROVE IInv' /\ History
    BY <2>2, PrepareKeeps
  <2>3. CASE TakeLease(s)
    BY <2>3, TakeLeaseKeeps
  <2>4. CASE Add(s)
    BY <2>4, AddKeeps
  <2>5. CASE Split(s)
    BY <2>5, SplitKeeps
  <2>6. CASE Update(s)
    BY <2>6, UpdateKeeps
  <2>7. CASE Archive(s)
    BY <2>7, ArchiveKeeps
  <2>8. CASE Reframe(s)
    BY <2>8, ReframeKeeps
  <2>9. CASE Checkout(s)
    BY <2>9, CheckoutKeeps
  <2>10. CASE Checkpoint(s)
    BY <2>10, CheckpointKeeps
  <2>11. CASE Complete(s)
    BY <2>11, CompleteKeeps
  <2>12. CASE Finish(s) \/ Adopt(s) \/ Settle(s)
    BY <2>12, ClosingKeeps
  <2>13. CASE RecordExecution(s) \/ Refuse(s) \/ Revoke(s)
    BY <2>13, RevokingKeeps
  <2> QED BY <2>1, <2>2, <2>3, <2>4, <2>5, <2>6, <2>7, <2>8, <2>9, <2>10, <2>11, <2>12, <2>13
<1> QED BY <1>1, <1>2

LEMMA Inductive == Spec => []IInv
BY InitIInv, NextIInv, PTL DEF Spec

\* The graph is a forest of typed nodes within its bound, and the lease, the
\* program counters and the requests have their types.
THEOREM GraphTypeCorrect == Spec => []TypeOK
<1>1. IInv => TypeOK
  BY DEF IInv, GraphOK, ControlOK, Graph, TypeOK
<1> QED BY <1>1, Inductive, PTL

\* Whatever the other sessions prepare, commit or lose, the leaf a session
\* holds can be worked on and finished until its own completion commits.
THEOREM LeasedLeafWorkable == Spec => []LeasedLeafIsWorkable
<1>1. IInv => LeasedLeafIsWorkable
  BY DEF IInv
<1> QED BY <1>1, Inductive, PTL

\* completeAndCollapse, archiving, growing and reframing never leave
\* unfinished work below a finished node.
THEOREM FinishedBelowFinished == Spec => []FinishedMeansFinishedBelow
<1>1. IInv => FinishedMeansFinishedBelow
  BY DEF IInv, FinishedBelow, FinishedMeansFinishedBelow
<1> QED BY <1>1, Inductive, PTL

\* A node that counts as complete was accepted under the contract of the
\* graph, also an ancestor that only collapsed.
THEOREM CompleteUnderContract == Spec => []CompleteUnderTheContract
<1>1. IInv => CompleteUnderTheContract
  BY DEF IInv
<1> QED BY <1>1, Inductive, PTL

\* lattice_status goes blank over unfinished work only where an archived child
\* keeps a parent open: the youngest unfinished node is such a parent.
THEOREM FrontierShows == Spec => []FrontierShowsTheWork
<1>1. IInv => FrontierShowsTheWork
  <2> SUFFICES ASSUME IInv, LatticeWorkState(nodes) = "active", Frontier(nodes) = {}
               PROVE  \E n \in DOMAIN nodes :
                        /\ nodes[n].status \in Unfinished
                        /\ \A c \in NodeChildren(nodes, n) : nodes[c].status = "complete"
                        /\ \E c \in AllChildren(nodes, n) : nodes[c].status = "archived"
    BY DEF FrontierShowsTheWork
  <2>1. /\ Len(nodes) \in Nat /\ DOMAIN nodes = 1..Len(nodes)
        /\ \A n \in 1..Len(nodes) : /\ nodes[n].status \in Unfinished \cup Finished
                                    /\ nodes[n].parent \in 0..(n - 1)
    BY GraphParents DEF IInv, GraphOK, NodeRecord
  <2> DEFINE open == {n \in 1..Len(nodes) : nodes[n].status \in Unfinished}
  <2>2. PICK n \in open : \A k \in open : k <= n
    <3>1. open # {}
      BY <2>1 DEF LatticeWorkState
    <3>2. open \in SUBSET (0..Len(nodes))
      BY <2>1
    <3> HIDE DEF open
    <3> QED BY <2>1, <3>1, <3>2, GreatestOf
  <2>3. \A c \in AllChildren(nodes, n) : nodes[c].status \in Finished
    <3> SUFFICES ASSUME NEW c \in 1..Len(nodes), nodes[c].parent = n
                 PROVE  nodes[c].status \in Finished
      BY <2>1 DEF AllChildren
    <3>1. n < c
      BY <2>1
    <3>2. ~(c <= n)
      BY <2>1, <2>2, <3>1
    <3> QED BY <2>1, <2>2, <3>2
  <2>4. NodeChildren(nodes, n) # {}
    <3>1. n \notin Frontier(nodes) /\ n \in DOMAIN nodes /\ nodes[n].status \in Unfinished
      BY <2>1, <2>2
    <3> QED BY <3>1 DEF Frontier, IsLeaf, Unfinished
  <2>5. \E c \in AllChildren(nodes, n) : nodes[c].status # "complete"
    BY <2>1, <2>2, <2>4 DEF IInv, OpenAbove, NodeChildren
  <2> QED BY <2>1, <2>2, <2>3, <2>5 DEF NodeChildren, Finished
<1> QED BY <1>1, Inductive, PTL

\* No step of a session removes, moves or reopens what is history, but for a
\* reframe that reopens completed work under its new contract.
THEOREM HistoryKept == Spec => HistoryIsKept
<1>1. IInv /\ [Next]_vars => [History]_vars
  BY NextIInv
<1>2. Spec => [][History]_vars
  BY <1>1, Inductive, PTL DEF Spec
<1> QED BY <1>2 DEF HistoryIsKept, History
=============================================================================
