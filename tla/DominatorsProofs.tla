-------------------------- MODULE DominatorsProofs --------------------------
(***************************************************************************)
(* Proofs about Dominators.tla, for every graph: the tables are well       *)
(* typed, and following dominators ends.  Neither needs the table to be    *)
(* right, which it is not; both have to survive that the code takes        *)
(* ancestor 0 for none.  And reverse_postorder, by induction on the blocks *)
(* not visited: what a visit lists, and before what.                       *)
(***************************************************************************)
EXTENDS Dominators, SequenceLemmas

Numbered == {b \in Blocks(graph) : dfn[b] # 0}
ParentOf(k) == dfn[parent[vertex[k]]]

(* Block number s is block number n or above it in the search tree: every  *)
(* block numbered between them was found from s or from a later block.     *)
AtOrAbove(s, n) == s \in 1..n /\ \A k \in (s + 1)..n : ParentOf(k) >= s

(* The search numbers blocks in the order it finds them.                   *)
Numbering ==
  /\ IsFlowGraph(graph)
  /\ counter \in 1..graph.size
  /\ dfn \in [Blocks(graph) -> 0..counter]
  /\ vertex \in [0..graph.size -> Blocks(graph)]
  /\ parent \in [Blocks(graph) -> Blocks(graph)]
  /\ dfn[graph.entry] = 1
  /\ \A k \in 1..counter : dfn[vertex[k]] = k
  /\ \A b \in Numbered : vertex[dfn[b]] = b
  /\ \A k \in 2..counter :
       /\ vertex[k] \in Range(graph.succ[parent[vertex[k]]])
       /\ ParentOf(k) # k /\ AtOrAbove(ParentOf(k), k)

(* Every call under way is for a block above all that have been numbered   *)
(* since, and an edge that has been looked at leads to a numbered block:   *)
(* an earlier one, or one below where the edge comes from.                 *)
Entries ==
  /\ path \in Seq(Blocks(graph) \X (Nat \ {0}))
  /\ \A j \in DOMAIN path : AtOrAbove(dfn[path[j][1]], counter)
  /\ \A j, k \in DOMAIN path : j < k => dfn[path[j][1]] < dfn[path[k][1]]

Looked(v, e) == \A j \in DOMAIN path : path[j][1] = v => e < path[j][2]
Scanned ==
  \A v \in Numbered : \A e \in DOMAIN graph.succ[v] : Looked(v, e) =>
    LET w == graph.succ[v][e]
    IN  dfn[w] # 0 /\ (dfn[w] > dfn[v] => AtOrAbove(dfn[v], dfn[w]))

Searching ==
  /\ Entries /\ i = 0
  /\ semi = dfn
  /\ label \in [Blocks(graph) -> Blocks(graph)] /\ \A b \in Numbered : label[b] = b
  /\ ancestor = Zero(graph) /\ idom = Zero(graph)
  /\ bucket = [k \in 0..graph.size |-> << >>]

(* The forest of the blocks numbered above c: the label of a linked block  *)
(* lies between it and its ancestor, which is not among the labels.        *)
IsForest(f) ==
  f \in [ancestor : [Blocks(graph) -> Blocks(graph)], label : [Blocks(graph) -> Blocks(graph)]]
Linked(f, b) == f.ancestor[b] # 0
ForestFits(f, c) ==
  /\ IsForest(f)
  /\ \A b \in Blocks(graph) : Linked(f, b) =>
       /\ dfn[b] > c /\ AtOrAbove(dfn[f.label[b]], dfn[b])
       /\ AtOrAbove(dfn[f.ancestor[b]], dfn[b]) /\ dfn[f.ancestor[b]] < dfn[f.label[b]]
  /\ \A b \in Numbered : ~ Linked(f, b) => f.label[b] = b

(* The semidominator of a block numbered above c lies above it.            *)
SemiFits(s, c) ==
  /\ s \in [Blocks(graph) -> 0..graph.size]
  /\ \A b \in Numbered :
       /\ dfn[b] <= c => s[b] = dfn[b]
       /\ dfn[b] > c => s[b] < dfn[b] /\ AtOrAbove(s[b], dfn[b])

(* A block waits in the bucket of its semidominator.                       *)
Waiting(s, wait, c) ==
  /\ wait \in [0..graph.size -> Seq(Blocks(graph))]
  /\ \A q \in 0..graph.size : \A v \in Range(wait[q]) : dfn[v] > c /\ vertex[s[v]] = q

(* The block given as the dominator of v is an earlier one, and either the *)
(* semidominator or not the entry.                                         *)
Earlier(dom, v) == dfn[dom[v]] \in 1..(dfn[v] - 1)
Assigned(s, dom, v) == Earlier(dom, v) /\ (dom[v] = vertex[s[v]] \/ dfn[dom[v]] >= 2)
WaitsIn(s, wait, c, v) == s[v] < c /\ v \in Range(wait[vertex[s[v]]])
DominatedSoFar(s, wait, dom, c) ==
  /\ dom \in [Blocks(graph) -> Blocks(graph)]
  /\ \A v \in Numbered : dfn[v] > c => Assigned(s, dom, v) \/ WaitsIn(s, wait, c, v)

Deciding ==
  /\ path = << >> /\ i \in 1..counter
  /\ ForestFits(Forest, i) /\ SemiFits(semi, i)
  /\ Waiting(semi, bucket, i) /\ DominatedSoFar(semi, bucket, idom, i)

Tables ==
  /\ path = << >>
  /\ IsForest(Forest) /\ SemiFits(semi, 1) /\ Waiting(semi, bucket, 1)
  /\ idom \in [Blocks(graph) -> Blocks(graph)]

Adjusting ==
  /\ Tables /\ i \in 2..(counter + 1)
  /\ \A v \in Numbered : dfn[v] >= 2 => Earlier(idom, v)
  /\ \A v \in Numbered : dfn[v] >= i => Assigned(semi, idom, v)

Finished ==
  /\ Tables /\ i = counter + 1
  /\ \A v \in Numbered : dfn[v] >= 2 => Earlier(idom, v)

Inv ==
  /\ IsFlowGraph(graph)
  /\ pc \in {"none", "dfs", "semi", "idom", "done"}
  /\ pc = "none" => Idle
  /\ pc # "none" => Numbering /\ Scanned
  /\ pc = "dfs" => Searching
  /\ pc = "semi" => Deciding
  /\ pc = "idom" => Adjusting
  /\ pc = "done" => Finished
-----------------------------------------------------------------------------
LEMMA AboveItself == ASSUME NEW n \in Nat \ {0} PROVE AtOrAbove(n, n)
<1>1. n \in 1..n /\ (n + 1)..n = {}
  OBVIOUS
<1>2. QED
  BY <1>1 DEF AtOrAbove

LEMMA AboveBetween ==
  ASSUME NEW n \in Nat, NEW s, AtOrAbove(s, n), NEW m \in s..n
  PROVE  AtOrAbove(s, m)
<1>1. s \in 1..m /\ (s + 1)..m \subseteq (s + 1)..n
  BY DEF AtOrAbove
<1>2. QED
  BY <1>1 DEF AtOrAbove

LEMMA ParentNumbers ==
  ASSUME Numbering
  PROVE  \A k \in 2..counter : ParentOf(k) \in 1..(k - 1)
<1> TAKE k \in 2..counter
<1>1. ParentOf(k) # k /\ ParentOf(k) \in 1..k
  BY DEF Numbering, AtOrAbove
<1>2. k \in Nat
  OBVIOUS
<1>3. QED
  BY <1>1, <1>2

LEMMA AboveAbove ==
  ASSUME Numbering, NEW n \in 1..counter, NEW r, NEW s, AtOrAbove(r, s), AtOrAbove(s, n)
  PROVE  AtOrAbove(r, n)
<1>1. n \in Nat /\ s \in 1..n /\ s \in Nat /\ r \in 1..s /\ r \in Nat /\ r \in 1..n
  BY DEF AtOrAbove
<1>2. ASSUME NEW k \in (r + 1)..n PROVE ParentOf(k) >= r
  <2>1. CASE k \in (r + 1)..s
    BY <2>1 DEF AtOrAbove
  <2>2. CASE k \in (s + 1)..n
    <3>1. ParentOf(k) >= s
      BY <2>2 DEF AtOrAbove
    <3>2. k \in 2..counter
      BY <1>1, <2>2 DEF Numbering
    <3>3. ParentOf(k) \in Nat
      BY <3>2, ParentNumbers
    <3>4. QED
      BY <1>1, <3>1, <3>3
  <2>3. QED
    BY <1>1, <2>1, <2>2
<1>3. QED
  BY <1>1, <1>2 DEF AtOrAbove

(* What a numbered block is known by. *)
LEMMA NumberedFacts ==
  ASSUME Numbering
  PROVE  /\ counter \in Nat \ {0} /\ graph.size \in Nat \ {0} /\ counter <= graph.size
         /\ graph.entry \in Numbered /\ Numbered \subseteq Blocks(graph)
         /\ 0 \in Blocks(graph)
         /\ \A b \in Blocks(graph) : dfn[b] \in Nat /\ dfn[b] <= counter
         /\ \A b \in Numbered : dfn[b] \in 1..counter
         /\ \A b, c \in Numbered : dfn[b] = dfn[c] => b = c
         /\ \A k \in 1..counter : vertex[k] \in Numbered
         /\ \A k \in 0..graph.size : vertex[k] \in Blocks(graph)
<1>1. graph.size \in Nat \ {0} /\ graph.entry \in Blocks(graph)
  BY DEF Numbering, IsFlowGraph, Blocks
<1>2. counter \in Nat \ {0} /\ counter <= graph.size
  BY <1>1 DEF Numbering
<1>3. 0 \in Blocks(graph)
  BY <1>1 DEF Blocks
<1>4. \A b \in Blocks(graph) : dfn[b] \in 0..counter
  BY DEF Numbering
<1>5. Numbered \subseteq Blocks(graph) /\ \A b \in Numbered : dfn[b] \in 1..counter
  BY <1>2, <1>4 DEF Numbered
<1>6. \A b, c \in Numbered : dfn[b] = dfn[c] => b = c
  BY DEF Numbering
<1>7. \A k \in 0..graph.size : vertex[k] \in Blocks(graph)
  BY DEF Numbering
<1>8. \A k \in 1..counter : vertex[k] \in Numbered
  <2> TAKE k \in 1..counter
  <2>1. vertex[k] \in Blocks(graph) /\ dfn[vertex[k]] = k /\ k # 0
    BY <1>1, <1>2, <1>7 DEF Numbering
  <2>2. QED
    BY <2>1 DEF Numbered
<1>9. graph.entry \in Numbered
  BY <1>1 DEF Numbering, Numbered
<1>10. QED
  BY <1>1, <1>2, <1>3, <1>4, <1>5, <1>6, <1>7, <1>8, <1>9

(* There are no more numbers than blocks. *)
LEMMA RoomForOne ==
  ASSUME Numbering, NEW w \in Blocks(graph), dfn[w] = 0
  PROVE  counter + 1 <= graph.size
<1> DEFINE n == counter + 1
           T == Blocks(graph)
           f == [k \in 1..n |-> IF k = n THEN w ELSE vertex[k]]
<1>1. /\ counter \in Nat /\ graph.size \in Nat /\ counter <= graph.size
      /\ \A k \in 1..counter : vertex[k] \in T /\ dfn[vertex[k]] = k
  BY NumberedFacts DEF Numbering
<1>2. \A k \in 1..n : k = n \/ k \in 1..counter
  BY <1>1
<1>3. f \in [1..n -> T]
  BY <1>1, <1>2
<1>4. ASSUME NEW j \in 1..n, NEW k \in 1..n, f[j] = f[k] PROVE j = k
  <2>1. j = n => dfn[f[j]] = 0
    OBVIOUS
  <2>2. j # n => dfn[f[j]] = j /\ j # 0
    BY <1>1, <1>2
  <2>3. k = n => dfn[f[k]] = 0
    OBVIOUS
  <2>4. k # n => dfn[f[k]] = k /\ k # 0
    BY <1>1, <1>2
  <2> HIDE DEF f, n
  <2>5. QED
    BY <1>4, <2>1, <2>2, <2>3, <2>4
<1> HIDE DEF f
<1>5. f \in Injection(1..n, T)
  BY <1>3, <1>4 DEF Injection, IsInjective
<1>6. IsFiniteSet(T) /\ Cardinality(T) = graph.size
  <2> DEFINE m == graph.size - 1
  <2>1. graph.size # 0
    BY DEF Numbering, IsFlowGraph
  <2>2. m \in Int /\ 0 \in Int /\ ~ (0 > m) /\ m - 0 + 1 = graph.size
    BY <1>1, <2>1
  <2>3. T = 0..m
    BY DEF Blocks
  <2> HIDE DEF m, T
  <2>4. IsFiniteSet(0..m) /\ Cardinality(0..m) = m - 0 + 1
    BY <2>2, FS_Interval
  <2>5. QED
    BY <2>2, <2>3, <2>4
<1>7. Cardinality(1..n) = n
  <2>1. n \in Int /\ 1 \in Int /\ ~ (1 > n) /\ n - 1 + 1 = n
    BY <1>1
  <2> HIDE DEF n
  <2>2. QED
    BY <2>1, FS_Interval
<1> HIDE DEF n, T
<1>8. Cardinality(1..n) <= Cardinality(T)
  BY <1>5, <1>6, FS_Injection
<1>9. QED
  BY <1>6, <1>7, <1>8 DEF n
-----------------------------------------------------------------------------
LEMMA PathFacts ==
  ASSUME NEW S, NEW s \in Seq(S), s # << >>
  PROVE  /\ Len(s) \in Nat \ {0} /\ DOMAIN s = 1..Len(s) /\ Last(s) = s[Len(s)]
         /\ Front(s) \in Seq(S) /\ Len(Front(s)) = Len(s) - 1
         /\ \A j \in 1..(Len(s) - 1) : Front(s)[j] = s[j]
<1>1. Len(s) \in Nat \ {0} /\ DOMAIN s = 1..Len(s)
  OBVIOUS
<1>2. Last(s) = s[Len(s)]
  BY DEF Last
<1>3. Front(s) = SubSeq(s, 1, Len(s) - 1)
  BY DEF Front
<1>4. QED
  BY <1>1, <1>2, <1>3

LEMMA InitInv == ASSUME GraphsFit, Init PROVE Inv
BY DEF GraphsFit, Init, Idle, Inv

LEMMA ComputeInv == ASSUME Inv, Compute PROVE Inv'
<1>1. /\ graph' = graph /\ pc' = "dfs" /\ counter' = 1 /\ i' = 0
      /\ path' = << <<graph.entry, 1>> >>
      /\ dfn' = [Zero(graph) EXCEPT ![graph.entry] = 1]
      /\ vertex' = [k \in 0..graph.size |-> IF k = 1 THEN graph.entry ELSE 0]
      /\ parent' = Zero(graph) /\ ancestor' = Zero(graph) /\ idom' = Zero(graph)
      /\ semi' = [Zero(graph) EXCEPT ![graph.entry] = 1]
      /\ label' = [Zero(graph) EXCEPT ![graph.entry] = graph.entry]
      /\ bucket' = [k \in 0..graph.size |-> << >>]
  BY DEF Compute, Inv, Idle
<1>2. /\ graph.size \in Nat \ {0} /\ graph.entry \in Blocks(graph) /\ 0 \in Blocks(graph)
      /\ IsFlowGraph(graph)
  BY DEF Inv, IsFlowGraph, Blocks
<1>3. Zero(graph) \in [Blocks(graph) -> 0..0] /\ \A b \in Blocks(graph) : Zero(graph)[b] = 0
  BY DEF Zero
<1>4. /\ dfn' \in [Blocks(graph) -> 0..1] /\ dfn'[graph.entry] = 1
      /\ \A b \in Blocks(graph) : b # graph.entry => dfn'[b] = 0
      /\ semi' = dfn'
  BY <1>1, <1>2, <1>3
<1>5. Numbered' = {graph.entry}
  BY <1>1, <1>2, <1>4 DEF Numbered, Blocks
<1>6. /\ vertex' \in [0..graph.size -> Blocks(graph)] /\ parent' \in [Blocks(graph) -> Blocks(graph)]
      /\ vertex'[1] = graph.entry
  BY <1>1, <1>2, <1>3
<1>7. 1..1 = {1} /\ 2..1 = {} /\ 1 \in 1..graph.size
  BY <1>2
<1>8. Numbering'
  BY <1>1, <1>2, <1>4, <1>5, <1>6, <1>7 DEF Numbering, Blocks
<1>9. /\ path' \in Seq(Blocks(graph) \X (Nat \ {0})) /\ DOMAIN path' = {1}
      /\ path'[1][1] = graph.entry /\ path'[1][2] = 1
  BY <1>1, <1>2
<1>10. AtOrAbove(1, 1)'
  BY DEF AtOrAbove
<1>11. Entries'
  <2>1. \A j \in DOMAIN path' : AtOrAbove(dfn[path[j][1]], counter)'
    BY <1>1, <1>4, <1>9, <1>10 DEF AtOrAbove
  <2>2. QED
    BY <1>1, <1>9, <2>1 DEF Entries, Blocks
<1>12. Scanned'
  <2>1. SUFFICES ASSUME NEW v \in Numbered', NEW e \in DOMAIN graph'.succ[v], Looked(v, e)' PROVE FALSE
    BY DEF Scanned
  <2>2. v = graph.entry /\ graph.succ[v] \in Seq(Blocks(graph))
    BY <1>2, <1>5 DEF IsFlowGraph, Blocks
  <2>3. e \in 1..Len(graph.succ[v])
    BY <1>1, <2>2
  <2>4. e < 1
    BY <1>9, <2>1, <2>2 DEF Looked
  <2>5. QED
    BY <2>3, <2>4
<1>13. label' \in [Blocks(graph) -> Blocks(graph)] /\ label'[graph.entry] = graph.entry
  BY <1>1, <1>2, <1>3
<1>14. Searching'
  BY <1>1, <1>4, <1>5, <1>11, <1>13 DEF Searching, Blocks, Zero
<1>15. QED
  BY <1>1, <1>2, <1>8, <1>12, <1>14 DEF Inv

LEMMA UnchangedNumbering ==
  ASSUME Numbering, UNCHANGED <<graph, counter, dfn, vertex, parent>>
  PROVE  /\ Numbering' /\ Numbered' = Numbered
         /\ \A k : ParentOf(k)' = ParentOf(k)
         /\ \A s, n : AtOrAbove(s, n)' <=> AtOrAbove(s, n)
<1>1. \A k : ParentOf(k)' = ParentOf(k)
  BY DEF ParentOf
<1>2. \A s, n : AtOrAbove(s, n)' <=> AtOrAbove(s, n)
  BY <1>1 DEF AtOrAbove
<1>3. Numbered' = Numbered
  BY DEF Numbered, Blocks
<1>4. Numbering'
  BY <1>1, <1>2, <1>3 DEF Numbering, Blocks, IsFlowGraph, AtOrAbove
<1>5. QED
  BY <1>1, <1>2, <1>3, <1>4
(* The innermost call moves on to its next edge. *)
LEMMA InnermostFacts ==
  ASSUME Inv, pc = "dfs", path # << >>
  PROVE  /\ Numbering /\ Scanned /\ Searching
         /\ Len(path) \in Nat \ {0} /\ DOMAIN path = 1..Len(path)
         /\ Last(path) = path[Len(path)]
         /\ Caller \in Numbered /\ EdgeAt \in Nat \ {0}
         /\ graph.succ[Caller] \in Seq(Blocks(graph))
         /\ \A j \in DOMAIN path : path[j][1] \in Numbered /\ path[j][2] \in Nat \ {0}
         /\ Front(path) \in Seq(Blocks(graph) \X (Nat \ {0}))
         /\ Len(Front(path)) = Len(path) - 1
         /\ \A j \in 1..(Len(path) - 1) : Front(path)[j] = path[j]
<1>1. Numbering /\ Scanned /\ Searching /\ Entries
  BY DEF Inv, Searching
<1> DEFINE S == Blocks(graph) \X (Nat \ {0})
<1>2. path \in Seq(S)
  BY <1>1 DEF Entries
<1>3. /\ Len(path) \in Nat \ {0} /\ DOMAIN path = 1..Len(path) /\ Last(path) = path[Len(path)]
      /\ Front(path) \in Seq(S) /\ Len(Front(path)) = Len(path) - 1
      /\ \A j \in 1..(Len(path) - 1) : Front(path)[j] = path[j]
  <2> HIDE DEF S
  <2>1. QED
    BY <1>2, PathFacts
<1>4. \A j \in DOMAIN path : path[j] \in S
  BY <1>2
<1>5. \A j \in DOMAIN path : path[j][1] \in Blocks(graph) /\ path[j][2] \in Nat \ {0}
  BY <1>4
<1>6. \A j \in DOMAIN path : dfn[path[j][1]] # 0
  BY <1>1 DEF Entries, AtOrAbove
<1>7. \A j \in DOMAIN path : path[j][1] \in Numbered
  BY <1>5, <1>6 DEF Numbered
<1>8. Caller \in Numbered /\ EdgeAt \in Nat \ {0}
  BY <1>3, <1>5, <1>7 DEF Caller, EdgeAt
<1>9. graph.succ[Caller] \in Seq(Blocks(graph))
  BY <1>8 DEF Inv, IsFlowGraph, Blocks, Numbered
<1>10. QED
  BY <1>1, <1>3, <1>5, <1>7, <1>8, <1>9

(* The calls under way are the same, or one less. *)
LEMMA SameEntries ==
  ASSUME Numbering, Entries, UNCHANGED <<graph, counter, dfn, vertex, parent>>,
         NEW m \in Nat, m <= Len(path), DOMAIN path' = 1..m,
         path' \in Seq(Blocks(graph) \X (Nat \ {0})),
         \A j \in 1..m : path'[j][1] = path[j][1]
  PROVE  Entries'
<1>1. /\ \A s, n : AtOrAbove(s, n)' <=> AtOrAbove(s, n)
      /\ 1..m \subseteq DOMAIN path
  BY UnchangedNumbering DEF Entries
<1>2. ASSUME NEW j \in 1..m PROVE AtOrAbove(dfn[path[j][1]], counter)'
  <2>1. PICK s, n : s = dfn[path[j][1]] /\ n = counter
    OBVIOUS
  <2>2. AtOrAbove(s, n)
    BY <1>1, <2>1 DEF Entries
  <2>3. AtOrAbove(s, n)'
    BY <1>1, <2>2
  <2>4. QED
    BY <2>1, <2>3 DEF AtOrAbove
<1>3. \A j, k \in 1..m : j < k => dfn'[path'[j][1]] < dfn'[path'[k][1]]
  BY <1>1 DEF Entries
<1>4. path' \in Seq(Blocks(graph') \X (Nat \ {0}))
  BY DEF Blocks
<1>5. QED
  BY <1>2, <1>3, <1>4 DEF Entries, Blocks

LEMMA DescendOldInv ==
  ASSUME Inv, Descend, dfn[graph.succ[Caller][EdgeAt]] # 0
  PROVE  Inv'
<1>0. PICK n, v, e, w : n = Len(path) /\ v = Caller /\ e = EdgeAt /\ w = graph.succ[v][e]
  OBVIOUS
<1>1. /\ pc = "dfs" /\ path # << >> /\ e <= Len(graph.succ[v])
      /\ path' = Append(Front(path), <<v, e + 1>>)
      /\ UNCHANGED <<graph, pc, i, counter, dfn, vertex, parent, semi, label, ancestor, bucket, idom>>
  BY <1>0 DEF Descend, HasEdge
<1>2. /\ Numbering /\ Scanned /\ Searching /\ n \in Nat \ {0} /\ DOMAIN path = 1..n
      /\ v = path[n][1] /\ e = path[n][2] /\ v \in Numbered /\ e \in Nat \ {0}
      /\ Front(path) \in Seq(Blocks(graph) \X (Nat \ {0})) /\ Len(Front(path)) = n - 1
      /\ \A j \in 1..(n - 1) : Front(path)[j] = path[j]
      /\ graph.succ[v] \in Seq(Blocks(graph))
  BY <1>0, <1>1, InnermostFacts DEF Caller, EdgeAt
<1>3. /\ Numbering' /\ Numbered' = Numbered /\ \A s, m : AtOrAbove(s, m)' <=> AtOrAbove(s, m)
  BY <1>1, <1>2, UnchangedNumbering
<1>4. /\ path' \in Seq(Blocks(graph) \X (Nat \ {0})) /\ DOMAIN path' = 1..n
      /\ path'[n][1] = v /\ path'[n][2] = e + 1
      /\ \A j \in 1..(n - 1) : path'[j] = path[j]
  <2> DEFINE S == Blocks(graph) \X (Nat \ {0})
             x == <<v, e + 1>>
             m == n - 1
  <2>1. x \in S /\ m + 1 = n /\ m \in Nat
    BY <1>2 DEF Numbered
  <2>2. Front(path) \in Seq(S) /\ Len(Front(path)) = m /\ path' = Append(Front(path), x)
    BY <1>1, <1>2
  <2> HIDE DEF S, x, m
  <2>3. /\ path' \in Seq(S) /\ Len(path') = m + 1 /\ path'[m + 1] = x
        /\ \A j \in 1..m : path'[j] = Front(path)[j]
    BY <2>1, <2>2, AppendProperties
  <2>4. path' \in Seq(S) /\ DOMAIN path' = 1..n /\ path'[n] = x
    BY <2>1, <2>3
  <2>5. \A j \in 1..m : path'[j] = path[j]
    BY <1>2, <2>3 DEF m
  <2>6. QED
    BY <2>4, <2>5 DEF S, x, m
<1>5. \A j \in 1..n : path'[j][1] = path[j][1]
  <2> TAKE j \in 1..n
  <2>1. j = n \/ j \in 1..(n - 1)
    BY <1>2
  <2>2. QED
    BY <1>2, <1>4, <2>1
<1>6. Entries'
  <2>1. n \in Nat /\ n <= Len(path)
    BY <1>0, <1>2
  <2>2. Entries
    BY <1>2 DEF Searching
  <2>3. QED
    BY <1>1, <1>2, <1>4, <1>5, <2>1, <2>2, SameEntries
<1>7. Scanned'
  <2>1. SUFFICES ASSUME NEW b \in Numbered, NEW k \in DOMAIN graph.succ[b], Looked(b, k)'
                 PROVE  LET c == graph.succ[b][k]
                        IN  dfn[c] # 0 /\ (dfn[c] > dfn[b] => AtOrAbove(dfn[b], dfn[c]))
    BY <1>1, <1>3 DEF Scanned, AtOrAbove
  <2>2. \A j \in 1..n : path'[j][1] = b => k < path'[j][2]
    BY <1>4, <2>1 DEF Looked
  <2>3. k \in Nat
    <3>1. graph.succ[b] \in Seq(Blocks(graph))
      BY DEF Inv, IsFlowGraph, Blocks, Numbered
    <3>2. QED
      BY <3>1
  <2>4. CASE b = v /\ k = e
    <3>1. dfn[v] \in 1..counter /\ dfn[w] \in 1..counter /\ dfn[w] # 0
      <4>1. w \in Blocks(graph) /\ dfn[w] # 0
        BY <1>0, <1>2, <2>1, <2>4
      <4>2. w \in Numbered
        BY <4>1 DEF Numbered
      <4>3. QED
        BY <1>2, <4>2, NumberedFacts
    <3>2. AtOrAbove(dfn[v], counter)
      <4>1. n \in DOMAIN path
        BY <1>2
      <4>2. QED
        BY <1>2, <4>1 DEF Searching, Entries
    <3>3. dfn[w] > dfn[v] => AtOrAbove(dfn[v], dfn[w])
      <4>1. SUFFICES ASSUME dfn[w] > dfn[v] PROVE AtOrAbove(dfn[v], dfn[w])
        OBVIOUS
      <4>2. dfn[w] \in dfn[v]..counter /\ counter \in Nat
        BY <1>2, <3>1, <4>1, NumberedFacts
      <4>3. QED
        BY <3>2, <4>2, AboveBetween
    <3>4. QED
      BY <1>0, <2>4, <3>1, <3>3
  <2>5. CASE ~ (b = v /\ k = e)
    <3>1. \A j \in 1..n : path[j][1] = b => k < path[j][2]
      <4> TAKE j \in 1..n
      <4>1. CASE j \in 1..(n - 1)
        BY <1>4, <2>2, <4>1
      <4>2. CASE j = n
        <5>1. path[j][1] = b => b = v /\ k < e + 1 /\ k # e
          BY <1>2, <1>4, <2>2, <2>5, <4>2
        <5>2. QED
          BY <1>2, <2>3, <4>2, <5>1
      <4>3. QED
        BY <1>2, <4>1, <4>2
    <3>2. Looked(b, k)
      BY <1>2, <3>1 DEF Looked
    <3>3. QED
      BY <1>2, <2>1, <3>2 DEF Scanned
  <2>6. QED
    BY <2>4, <2>5
<1>8. Searching'
  BY <1>1, <1>2, <1>3, <1>6 DEF Searching, Blocks, Zero
<1>9. QED
  BY <1>1, <1>3, <1>7, <1>8 DEF Inv, Numbering

LEMMA AscendInv == ASSUME Inv, Ascend PROVE Inv'
<1>0. PICK n : n = Len(path)
  OBVIOUS
<1>1. /\ pc = "dfs" /\ path # << >> /\ ~ (EdgeAt <= Len(graph.succ[Caller]))
      /\ path' = Front(path)
      /\ UNCHANGED <<graph, pc, i, counter, dfn, vertex, parent, semi, label, ancestor, bucket, idom>>
  BY DEF Ascend, HasEdge, tables
<1>2. /\ Numbering /\ Scanned /\ Searching /\ n \in Nat \ {0} /\ DOMAIN path = 1..n
      /\ Caller = path[n][1] /\ EdgeAt = path[n][2] /\ EdgeAt \in Nat
      /\ path' \in Seq(Blocks(graph) \X (Nat \ {0})) /\ Len(path') = n - 1
      /\ \A j \in 1..(n - 1) : path'[j] = path[j]
      /\ graph.succ[Caller] \in Seq(Blocks(graph))
  BY <1>0, <1>1, InnermostFacts DEF Caller, EdgeAt
<1>3. /\ Numbering' /\ Numbered' = Numbered /\ \A s, m : AtOrAbove(s, m)' <=> AtOrAbove(s, m)
  BY <1>1, <1>2, UnchangedNumbering
<1>4. DOMAIN path' = 1..(n - 1) /\ \A j \in 1..n : j = n \/ j \in 1..(n - 1)
  <2>1. DOMAIN path' = 1..Len(path')
    BY <1>2
  <2>2. QED
    BY <1>2, <2>1
<1>5. 1..(n - 1) \subseteq 1..n /\ n - 1 \in Nat /\ n - 1 <= Len(path)
  BY <1>0, <1>2
<1>6. Entries'
  <2> DEFINE m == n - 1
  <2>1. \A j \in 1..m : path'[j][1] = path[j][1]
    BY <1>2
  <2>2. m \in Nat /\ m <= Len(path) /\ DOMAIN path' = 1..m
    BY <1>4, <1>5
  <2>3. Entries
    BY <1>2 DEF Searching
  <2> HIDE DEF m
  <2>4. QED
    BY <1>1, <1>2, <2>1, <2>2, <2>3, SameEntries
<1>7. Scanned'
  <2>1. SUFFICES ASSUME NEW b \in Numbered, NEW k \in DOMAIN graph.succ[b], Looked(b, k)'
                 PROVE  Looked(b, k)
    BY <1>1, <1>2, <1>3 DEF Scanned, AtOrAbove
  <2>2. \A j \in 1..(n - 1) : path[j][1] = b => k < path[j][2]
    BY <1>2, <1>4, <2>1 DEF Looked
  <2>3. path[n][1] = b => k < path[n][2]
    BY <1>1, <1>2
  <2>4. QED
    BY <1>2, <1>4, <2>2, <2>3 DEF Looked
<1>8. Searching'
  BY <1>1, <1>2, <1>3, <1>6 DEF Searching, Blocks, Zero
<1>9. QED
  BY <1>1, <1>3, <1>7, <1>8 DEF Inv, Numbering
(* A block found gets the next number, below every call under way. *)
LEMMA FoundNumbering ==
  ASSUME Numbering, NEW v \in Numbered, NEW w \in Blocks(graph), dfn[w] = 0,
         NEW c, c = counter + 1,
         w \in Range(graph.succ[v]), AtOrAbove(dfn[v], counter),
         graph' = graph, counter' = counter + 1,
         parent' = [parent EXCEPT ![w] = v],
         dfn' = [dfn EXCEPT ![w] = counter + 1],
         vertex' = [vertex EXCEPT ![counter + 1] = w]
  PROVE  /\ Numbering' /\ Numbered' = Numbered \cup {w} /\ w \notin Numbered
         /\ dfn'[w] = counter + 1 /\ \A b \in Numbered : dfn'[b] = dfn[b]
         /\ \A s, n : n \in 1..counter /\ AtOrAbove(s, n) => AtOrAbove(s, n)'
         /\ \A s : AtOrAbove(s, counter) /\ s <= dfn[v] => AtOrAbove(s, c)'
<1>b. PICK d : d = dfn[v]
  OBVIOUS
<1>1. /\ counter \in Nat \ {0} /\ c \in 1..graph.size /\ graph.size \in Nat /\ c - 1 = counter
      /\ \A k \in 1..c : k = c \/ k \in 1..counter
      /\ 1..counter \subseteq 1..c /\ c \notin 1..counter
  BY NumberedFacts, RoomForOne
<1>2. /\ dfn \in [Blocks(graph) -> 0..counter]
      /\ vertex \in [0..graph.size -> Blocks(graph)] /\ parent \in [Blocks(graph) -> Blocks(graph)]
      /\ v \in Blocks(graph)
  BY DEF Numbering, Numbered
<1>3. dfn' \in [Blocks(graph) -> 0..c] /\ dfn'[w] = c /\ \A b \in Blocks(graph) : b # w => dfn'[b] = dfn[b]
  BY <1>1, <1>2
<1>4. /\ vertex' \in [0..graph.size -> Blocks(graph)] /\ vertex'[c] = w
      /\ \A k \in 1..counter : vertex'[k] = vertex[k]
  BY <1>1, <1>2
<1>5. /\ parent' \in [Blocks(graph) -> Blocks(graph)] /\ parent'[w] = v
      /\ \A b \in Blocks(graph) : b # w => parent'[b] = parent[b]
  BY <1>2
<1>6. w \notin Numbered /\ Numbered' = Numbered \cup {w}
  BY <1>1, <1>3 DEF Numbered, Blocks
<1>7. \A k \in 1..counter : vertex[k] \in Numbered /\ vertex[k] # w
  BY <1>6, NumberedFacts
<1>8. \A b \in Numbered : b \in Blocks(graph) /\ b # w /\ dfn'[b] = dfn[b] /\ parent'[b] = parent[b]
  BY <1>3, <1>5, <1>6 DEF Numbered
<1>9. \A k \in 2..counter : ParentOf(k)' = ParentOf(k)
  <2> TAKE k \in 2..counter
  <2>1. k \in 1..counter /\ ParentOf(k) # 0 /\ ParentOf(k) \in 1..(k - 1)
    BY <1>1, ParentNumbers
  <2>2. vertex'[k] = vertex[k] /\ parent'[vertex[k]] = parent[vertex[k]]
    BY <1>4, <1>7, <1>8, <2>1
  <2>3. parent[vertex[k]] \in Blocks(graph)
    BY <1>2, <1>7, <2>1 DEF Numbered
  <2>4. parent[vertex[k]] \in Numbered
    BY <2>1, <2>3 DEF Numbered, ParentOf
  <2>5. QED
    BY <1>8, <2>2, <2>4 DEF ParentOf
<1>10. ParentOf(c)' = d
  BY <1>4, <1>5, <1>8, <1>b DEF ParentOf
<1>11. ASSUME NEW s, NEW n \in 1..counter, AtOrAbove(s, n) PROVE AtOrAbove(s, n)'
  <2>1. s \in 1..n /\ \A k \in (s + 1)..n : ParentOf(k) >= s
    BY <1>11 DEF AtOrAbove
  <2>2. \A k \in (s + 1)..n : k \in 2..counter
    BY <1>1, <2>1
  <2>3. \A k \in (s + 1)..n : ParentOf(k)' >= s
    BY <1>9, <2>1, <2>2
  <2>4. QED
    BY <2>1, <2>3 DEF AtOrAbove
<1>12. d \in 1..counter /\ d \in Nat /\ AtOrAbove(d, counter) /\ d <= d
  BY <1>b, NumberedFacts
<1>13. ASSUME NEW s, AtOrAbove(s, counter), s <= d PROVE AtOrAbove(s, c)'
  <2>1. s \in 1..counter /\ \A k \in (s + 1)..counter : ParentOf(k) >= s
    BY <1>13 DEF AtOrAbove
  <2>2. \A k \in (s + 1)..c : k = c \/ (k \in 2..counter /\ k \in (s + 1)..counter)
    BY <1>1, <2>1
  <2>3. ParentOf(c)' >= s
    BY <1>10, <1>12, <1>13, <2>1
  <2>4. \A k \in (s + 1)..c : ParentOf(k)' >= s
    BY <1>9, <2>1, <2>2, <2>3
  <2>5. s \in 1..c
    BY <1>1, <2>1
  <2>6. QED
    BY <2>4, <2>5 DEF AtOrAbove
<1>14. ASSUME NEW k \in 2..c
       PROVE  /\ vertex'[k] \in Range(graph.succ[parent'[vertex'[k]]])
              /\ ParentOf(k)' # k /\ AtOrAbove(ParentOf(k), k)'
  <2>1. CASE k = c
    <3>1. AtOrAbove(d, c)'
      BY <1>12, <1>13
    <3>2. d # c
      BY <1>1, <1>12
    <3>3. AtOrAbove(ParentOf(k), k)'
      BY <1>10, <2>1, <3>1 DEF AtOrAbove
    <3>4. QED
      BY <1>4, <1>5, <1>10, <2>1, <3>2, <3>3
  <2>2. CASE k # c
    <3>1. k \in 2..counter /\ k \in 1..counter
      BY <1>1, <2>2
    <3>2. /\ vertex[k] \in Range(graph.succ[parent[vertex[k]]])
          /\ ParentOf(k) # k /\ AtOrAbove(ParentOf(k), k)
      BY <3>1 DEF Numbering
    <3>3. AtOrAbove(ParentOf(k), k)'
      <4>1. PICK s : s = ParentOf(k)
        OBVIOUS
      <4>2. AtOrAbove(s, k)'
        BY <1>11, <3>1, <3>2, <4>1
      <4>3. s = ParentOf(k)'
        BY <1>9, <3>1, <4>1
      <4>4. QED
        BY <4>2, <4>3 DEF AtOrAbove
    <3>4. vertex'[k] = vertex[k] /\ parent'[vertex[k]] = parent[vertex[k]]
      BY <1>4, <1>7, <1>8, <3>1
    <3>5. QED
      BY <1>9, <3>1, <3>2, <3>3, <3>4
  <2>3. QED
    BY <2>1, <2>2
<1>15. \A k \in 1..c : dfn'[vertex'[k]] = k
  <2> TAKE k \in 1..c
  <2>1. CASE k = c
    BY <1>3, <1>4, <2>1
  <2>2. CASE k \in 1..counter
    BY <1>4, <1>7, <1>8, <2>2 DEF Numbering
  <2>3. QED
    BY <1>1, <2>1, <2>2
<1>16. \A b \in Numbered' : vertex'[dfn'[b]] = b
  <2> TAKE b \in Numbered'
  <2>1. CASE b = w
    BY <1>3, <1>4, <2>1
  <2>2. CASE b \in Numbered
    <3>1. dfn[b] \in 1..counter /\ vertex[dfn[b]] = b
      BY <2>2, NumberedFacts DEF Numbering
    <3>2. QED
      BY <1>4, <1>8, <2>2, <3>1
  <2>3. QED
    BY <1>6, <2>1, <2>2
<1>17. dfn'[graph.entry] = 1
  <2>1. graph.entry \in Numbered /\ dfn[graph.entry] = 1
    BY NumberedFacts DEF Numbering
  <2>2. QED
    BY <1>8, <2>1
<1>18. Numbering'
  <2>1. IsFlowGraph(graph)
    BY DEF Numbering
  <2>2. counter' = c
    OBVIOUS
  <2>3. QED
    BY <1>1, <1>3, <1>4, <1>5, <1>14, <1>15, <1>16, <1>17, <2>1, <2>2 DEF Numbering, Blocks
<1>19. QED
  BY <1>3, <1>6, <1>8, <1>11, <1>13, <1>18, <1>b

LEMMA DescendNewInv ==
  ASSUME Inv, Descend, dfn[graph.succ[Caller][EdgeAt]] = 0
  PROVE  Inv'
<1>0. PICK n, v, e, w, c :
        n = Len(path) /\ v = Caller /\ e = EdgeAt /\ w = graph.succ[v][e] /\ c = counter + 1
  OBVIOUS
<1>1. /\ pc = "dfs" /\ path # << >> /\ e <= Len(graph.succ[v]) /\ dfn[w] = 0
      /\ path' = Append(Append(Front(path), <<v, e + 1>>), <<w, 1>>)
      /\ counter' = c
      /\ parent' = [parent EXCEPT ![w] = v]
      /\ dfn' = [dfn EXCEPT ![w] = c]
      /\ vertex' = [vertex EXCEPT ![c] = w]
      /\ semi' = [semi EXCEPT ![w] = c]
      /\ label' = [label EXCEPT ![w] = w]
      /\ UNCHANGED <<graph, pc, i, ancestor, bucket, idom>>
  BY <1>0 DEF Descend, HasEdge
<1>2. /\ Numbering /\ Scanned /\ Searching /\ n \in Nat \ {0} /\ DOMAIN path = 1..n
      /\ v = path[n][1] /\ e = path[n][2] /\ v \in Numbered /\ e \in Nat \ {0}
      /\ Front(path) \in Seq(Blocks(graph) \X (Nat \ {0})) /\ Len(Front(path)) = n - 1
      /\ \A j \in 1..(n - 1) : Front(path)[j] = path[j]
      /\ \A j \in 1..n : path[j][1] \in Numbered
      /\ graph.succ[v] \in Seq(Blocks(graph))
  BY <1>0, <1>1, InnermostFacts DEF Caller, EdgeAt
<1>3. /\ e \in DOMAIN graph.succ[v] /\ w \in Blocks(graph) /\ w \in Range(graph.succ[v])
      /\ v \in Blocks(graph) /\ n \in DOMAIN path
  <2>1. v \in Blocks(graph) /\ n \in DOMAIN path
    BY <1>2 DEF Numbered
  <2>2. graph.succ[v] \in Seq(Blocks(graph)) /\ e \in Nat \ {0} /\ e <= Len(graph.succ[v])
    BY <1>1, <1>2
  <2>3. PICK s : s = graph.succ[v]
    OBVIOUS
  <2>4. e \in DOMAIN s /\ s[e] \in Blocks(graph) /\ s[e] \in Range(s)
    BY <2>2, <2>3 DEF Range
  <2>5. QED
    BY <1>0, <2>1, <2>3, <2>4
<1>4. \A j \in 1..n : AtOrAbove(dfn[path[j][1]], counter) /\ dfn[path[j][1]] <= dfn[v]
  <2> TAKE j \in 1..n
  <2>1. AtOrAbove(dfn[path[j][1]], counter)
    BY <1>2 DEF Searching, Entries
  <2>2. j = n \/ j < n
    BY <1>2
  <2>3. j < n => dfn[path[j][1]] < dfn[v]
    BY <1>2, <1>3 DEF Searching, Entries
  <2>4. dfn[path[j][1]] \in Nat /\ dfn[v] \in Nat
    BY <1>2, NumberedFacts
  <2>5. QED
    BY <1>2, <2>1, <2>2, <2>3, <2>4
<1>5. /\ Numbering' /\ Numbered' = Numbered \cup {w} /\ w \notin Numbered
      /\ dfn'[w] = c /\ \A b \in Numbered : dfn'[b] = dfn[b]
      /\ \A s, m : m \in 1..counter /\ AtOrAbove(s, m) => AtOrAbove(s, m)'
      /\ \A s : AtOrAbove(s, counter) /\ s <= dfn[v] => AtOrAbove(s, c)'
  <2>1. AtOrAbove(dfn[v], counter)
    BY <1>2, <1>3, <1>4
  <2>2. QED
    BY <1>0, <1>1, <1>2, <1>3, <2>1, FoundNumbering
<1>6. /\ path' \in Seq(Blocks(graph) \X (Nat \ {0})) /\ DOMAIN path' = 1..(n + 1)
      /\ path'[n][1] = v /\ path'[n][2] = e + 1
      /\ path'[n + 1][1] = w /\ path'[n + 1][2] = 1
      /\ \A j \in 1..(n - 1) : path'[j] = path[j]
  <2> DEFINE S == Blocks(graph) \X (Nat \ {0})
             x == <<v, e + 1>>
             y == <<w, 1>>
             m == n - 1
             moved == Append(Front(path), x)
  <2>1. x \in S /\ y \in S /\ m + 1 = n /\ m \in Nat
    BY <1>2, <1>3
  <2>2. Front(path) \in Seq(S) /\ Len(Front(path)) = m /\ path' = Append(moved, y)
    BY <1>1, <1>2
  <2> HIDE DEF S, x, y, m
  <2>3. /\ moved \in Seq(S) /\ Len(moved) = m + 1 /\ moved[m + 1] = x
        /\ \A j \in 1..m : moved[j] = Front(path)[j]
    BY <2>1, <2>2, AppendProperties
  <2> HIDE DEF moved
  <2>4. /\ path' \in Seq(S) /\ Len(path') = n + 1 /\ path'[n + 1] = y
        /\ \A j \in 1..n : path'[j] = moved[j]
    BY <2>1, <2>2, <2>3, AppendProperties
  <2>5. path' \in Seq(S) /\ DOMAIN path' = 1..(n + 1) /\ path'[n] = x /\ path'[n + 1] = y
    BY <1>2, <2>1, <2>3, <2>4
  <2>6. \A j \in 1..m : path'[j] = path[j]
    BY <1>2, <2>1, <2>3, <2>4 DEF m
  <2>7. QED
    BY <2>5, <2>6 DEF S, x, y, m
<1>7. /\ \A j \in 1..n : path'[j][1] = path[j][1]
      /\ \A j \in 1..(n + 1) : j = n + 1 \/ j \in 1..n
      /\ \A j \in 1..n : j = n \/ j \in 1..(n - 1)
  <2>1. /\ \A j \in 1..(n + 1) : j = n + 1 \/ j \in 1..n
        /\ \A j \in 1..n : j = n \/ j \in 1..(n - 1)
    BY <1>2
  <2>2. \A j \in 1..n : path'[j][1] = path[j][1]
    BY <1>2, <1>6, <2>1
  <2>3. QED
    BY <2>1, <2>2
<1>8. c \in Nat /\ c # 0 /\ counter \in Nat /\ counter < c
      /\ \A b \in Numbered : dfn[b] \in 1..counter /\ dfn[b] < c
  BY <1>0, <1>2, NumberedFacts
<1>9. Entries'
  <2>1. ASSUME NEW j \in 1..(n + 1) PROVE AtOrAbove(dfn[path[j][1]], counter)'
    <3>1. CASE j = n + 1
      <4>1. c \in 1..c /\ (c + 1)..c = {}
        BY <1>8
      <4>2. AtOrAbove(c, c)'
        BY <4>1 DEF AtOrAbove
      <4>3. QED
        BY <1>1, <1>5, <1>6, <3>1, <4>2 DEF AtOrAbove
    <3>2. CASE j \in 1..n
      <4>1. PICK s : s = dfn[path[j][1]]
        OBVIOUS
      <4>2. AtOrAbove(s, c)'
        BY <1>4, <1>5, <3>2, <4>1
      <4>3. s = dfn'[path'[j][1]]
        BY <1>2, <1>5, <1>7, <3>2, <4>1
      <4>4. QED
        BY <1>1, <4>2, <4>3 DEF AtOrAbove
    <3>3. QED
      BY <1>7, <3>1, <3>2
  <2>2. ASSUME NEW j \in 1..(n + 1), NEW k \in 1..(n + 1), j < k
        PROVE  dfn'[path'[j][1]] < dfn'[path'[k][1]]
    <3>1. j \in 1..n /\ path'[j][1] = path[j][1] /\ path[j][1] \in Numbered
      BY <1>2, <1>7, <2>2
    <3>2. CASE k = n + 1
      BY <1>5, <1>6, <1>8, <3>1, <3>2
    <3>3. CASE k \in 1..n
      <4>1. path'[k][1] = path[k][1] /\ path[k][1] \in Numbered
        BY <1>2, <1>7, <3>3
      <4>2. dfn[path[j][1]] < dfn[path[k][1]]
        BY <1>2, <2>2, <3>1, <3>3 DEF Searching, Entries
      <4>3. QED
        BY <1>5, <3>1, <4>1, <4>2
    <3>4. QED
      BY <1>7, <3>2, <3>3
  <2>3. path' \in Seq(Blocks(graph') \X (Nat \ {0}))
    BY <1>1, <1>6 DEF Blocks
  <2>4. QED
    BY <1>6, <2>1, <2>2, <2>3 DEF Entries, Blocks
<1>10. Scanned'
  <2>1. SUFFICES ASSUME NEW b \in Numbered', NEW k \in DOMAIN graph.succ[b], Looked(b, k)',
                        NEW d, d = graph.succ[b][k]
                 PROVE  dfn'[d] # 0 /\ (dfn'[d] > dfn'[b] => AtOrAbove(dfn[b], dfn[d])')
    BY <1>1 DEF Scanned, AtOrAbove
  <2>2. \A j \in 1..(n + 1) : path'[j][1] = b => k < path'[j][2]
    BY <1>6, <2>1 DEF Looked
  <2>3. k \in Nat \ {0} /\ graph.succ[b][k] \in Blocks(graph)
    <3>1. graph.succ[b] \in Seq(Blocks(graph))
      BY <1>1, <1>5, <1>3 DEF Inv, IsFlowGraph, Blocks, Numbered
    <3>2. QED
      BY <3>1
  <2>4. b # w
    <3>1. n + 1 \in 1..(n + 1)
      BY <1>2
    <3>2. path'[n + 1][1] = b => k < 1
      BY <1>6, <2>2, <3>1
    <3>3. QED
      BY <1>6, <2>3, <3>2
  <2>5. b \in Numbered /\ dfn'[b] = dfn[b]
    BY <1>5, <2>4
  <2>6. PICK s, t : s = dfn[b] /\ t = dfn'[d]
    OBVIOUS
  <2>7. CASE b = v /\ k = e
    <3>1. d = w /\ t = c
      BY <1>0, <1>5, <2>1, <2>6, <2>7
    <3>2. AtOrAbove(s, c)'
      BY <1>2, <1>3, <1>4, <1>5, <2>6, <2>7
    <3>3. AtOrAbove(dfn[b], dfn[d])'
      BY <2>5, <2>6, <3>1, <3>2 DEF AtOrAbove
    <3>4. QED
      BY <1>8, <2>6, <3>1, <3>3
  <2>8. CASE ~ (b = v /\ k = e)
    <3>1. \A j \in 1..n : path[j][1] = b => k < path[j][2]
      <4> TAKE j \in 1..n
      <4>0. j \in 1..(n + 1)
        BY <1>2
      <4>1. CASE j \in 1..(n - 1)
        BY <1>6, <2>2, <4>0, <4>1
      <4>2. CASE j = n
        <5>1. path[j][1] = b => b = v /\ k < e + 1 /\ k # e
          BY <1>2, <1>6, <2>2, <2>8, <4>0, <4>2
        <5>2. QED
          BY <1>2, <2>3, <4>2, <5>1
      <4>3. QED
        BY <1>7, <4>1, <4>2
    <3>2. Looked(b, k)
      BY <1>2, <3>1 DEF Looked
    <3>3. dfn[d] # 0 /\ (dfn[d] > s => AtOrAbove(s, dfn[d]))
      BY <1>2, <2>1, <2>5, <2>6, <3>2 DEF Scanned
    <3>4. d \in Numbered
      BY <2>1, <2>3, <3>3 DEF Numbered
    <3>5. t = dfn[d] /\ t \in 1..counter /\ t # 0
      BY <1>5, <1>8, <2>6, <3>4
    <3>6. t > s => AtOrAbove(s, t)'
      BY <1>5, <3>3, <3>5
    <3>7. t > s => AtOrAbove(dfn[b], dfn[d])'
      BY <2>5, <2>6, <3>6 DEF AtOrAbove
    <3>8. QED
      BY <2>5, <2>6, <3>5, <3>7
  <2>9. QED
    BY <2>7, <2>8
<1>11. semi' = dfn'
  BY <1>1, <1>2 DEF Searching
<1>12. /\ label' \in [Blocks(graph) -> Blocks(graph)]
       /\ \A b \in Numbered' : label'[b] = b
  <2>1. label \in [Blocks(graph) -> Blocks(graph)] /\ \A b \in Numbered : label[b] = b
    BY <1>2 DEF Searching
  <2>2. QED
    BY <1>1, <1>3, <1>5, <2>1 DEF Numbered
<1>13. Searching'
  BY <1>1, <1>2, <1>9, <1>11, <1>12 DEF Searching, Blocks, Zero
<1>14. QED
  BY <1>1, <1>5, <1>10, <1>13 DEF Inv, Numbering

LEMMA DescendInv == ASSUME Inv, Descend PROVE Inv'
BY DescendOldInv, DescendNewInv

LEMMA StartSemiInv == ASSUME Inv, StartSemi PROVE Inv'
<1>1. /\ pc = "dfs" /\ path = << >> /\ pc' = "semi" /\ i' = counter
      /\ UNCHANGED <<graph, path, counter, dfn, vertex, parent, semi, label, ancestor, bucket, idom>>
  BY DEF StartSemi, numbering, tables
<1>2. Numbering /\ Scanned /\ Searching
  BY <1>1 DEF Inv
<1>3. /\ Numbering' /\ Numbered' = Numbered /\ \A s, m : AtOrAbove(s, m)' <=> AtOrAbove(s, m)
      /\ \A k : ParentOf(k)' = ParentOf(k)
  BY <1>1, <1>2, UnchangedNumbering
<1>4. Scanned'
  BY <1>1, <1>2, <1>3 DEF Scanned, Looked, AtOrAbove
<1>5. /\ counter \in Nat \ {0} /\ counter <= graph.size /\ graph.size \in Nat /\ 0 \in Blocks(graph)
      /\ \A b \in Blocks(graph) : dfn[b] \in Nat /\ dfn[b] <= counter
      /\ Numbered \subseteq Blocks(graph)
  BY <1>2, NumberedFacts
<1>6. /\ ancestor \in [Blocks(graph) -> Blocks(graph)] /\ idom \in [Blocks(graph) -> Blocks(graph)]
      /\ \A b \in Blocks(graph) : ancestor[b] = 0
  BY <1>2, <1>5 DEF Searching, Zero
<1>7. ForestFits(Forest, counter)
  <2>1. Forest.ancestor = ancestor /\ Forest.label = label
    BY DEF Forest
  <2>0. IsForest(Forest)
    BY <1>2, <1>6 DEF Forest, IsForest, Searching
  <2> HIDE DEF Forest
  <2>2. QED
    BY <1>2, <1>6, <2>1, <2>0 DEF ForestFits, Linked, Searching
<1>8. SemiFits(semi, counter)
  <2>1. dfn \in [Blocks(graph) -> 0..graph.size]
    BY <1>2, <1>5 DEF Numbering
  <2>2. \A b \in Numbered : ~ (dfn[b] > counter)
    BY <1>5
  <2>3. QED
    BY <1>2, <2>1, <2>2 DEF SemiFits, Searching
<1>9. Waiting(semi, bucket, counter)
  <2>1. bucket = [k \in 0..graph.size |-> << >>]
    BY <1>2 DEF Searching
  <2>2. Range(<< >>) = {} /\ << >> \in Seq(Blocks(graph))
    BY DEF Range
  <2>3. QED
    BY <2>1, <2>2 DEF Waiting
<1>10. DominatedSoFar(semi, bucket, idom, counter)
  BY <1>5, <1>6 DEF DominatedSoFar
<1>11. Deciding'
  <2>1. counter \in 1..counter
    BY <1>5
  <2>2. (ForestFits(Forest, i) /\ SemiFits(semi, i) /\ Waiting(semi, bucket, i)
         /\ DominatedSoFar(semi, bucket, idom, i))'
    <3>1. Forest' = Forest
      BY <1>1 DEF Forest
    <3>2. PICK c : c = counter
      OBVIOUS
    <3>3. ForestFits(Forest, c)'
      BY <1>1, <1>3, <1>7, <3>1, <3>2 DEF ForestFits, IsForest, Linked, Blocks, AtOrAbove
    <3>4. SemiFits(semi, c)'
      BY <1>1, <1>3, <1>8, <3>2 DEF SemiFits, Blocks, AtOrAbove
    <3>5. Waiting(semi, bucket, c)'
      BY <1>1, <1>9, <3>2 DEF Waiting, Blocks
    <3>6. DominatedSoFar(semi, bucket, idom, c)'
      BY <1>1, <1>3, <1>10, <3>2 DEF DominatedSoFar, Assigned, Earlier, WaitsIn, Blocks
    <3>7. QED
      BY <1>1, <3>2, <3>3, <3>4, <3>5, <3>6
        DEF ForestFits, SemiFits, Waiting, DominatedSoFar, Assigned, Earlier, WaitsIn
  <2>3. QED
    BY <1>1, <2>1, <2>2 DEF Deciding
<1>12. QED
  BY <1>1, <1>3, <1>4, <1>11 DEF Inv, Numbering
-----------------------------------------------------------------------------
(* compress as a recursion from a block to its ancestor. *)
Shortened(f, s, g, u) ==
  LET a == f.ancestor[u]
  IN  IF f.ancestor[a] = 0 THEN f
      ELSE LET up == g[a]
               better == s[up.label[a]] < s[up.label[u]]
           IN  [ancestor |-> [up.ancestor EXCEPT ![u] = up.ancestor[a]],
                label |-> IF better THEN [up.label EXCEPT ![u] = up.label[a]] ELSE up.label]
Compression(g, f, s) == g = [u \in Blocks(graph) |-> Shortened(f, s, g, u)]

Forests == [ancestor : [Blocks(graph) -> Blocks(graph)], label : [Blocks(graph) -> Blocks(graph)]]

LEMMA ShortenedType ==
  ASSUME NEW f \in Forests, NEW s, NEW g \in [Blocks(graph) -> Forests], NEW u \in Blocks(graph)
  PROVE  Shortened(f, s, g, u) \in Forests
<1> DEFINE a == f.ancestor[u]
           up == g[a]
           better == s[up.label[a]] < s[up.label[u]]
<1>1. a \in Blocks(graph) /\ up \in Forests
  BY DEF Forests
<1>2. /\ up.ancestor \in [Blocks(graph) -> Blocks(graph)] /\ up.label \in [Blocks(graph) -> Blocks(graph)]
  BY <1>1 DEF Forests
<1>3. Shortened(f, s, g, u) =
        IF f.ancestor[a] = 0 THEN f
        ELSE [ancestor |-> [up.ancestor EXCEPT ![u] = up.ancestor[a]],
              label |-> IF better THEN [up.label EXCEPT ![u] = up.label[a]] ELSE up.label]
  BY DEF Shortened
<1> HIDE DEF a, up, better
<1>4. /\ [up.ancestor EXCEPT ![u] = up.ancestor[a]] \in [Blocks(graph) -> Blocks(graph)]
      /\ [up.label EXCEPT ![u] = up.label[a]] \in [Blocks(graph) -> Blocks(graph)]
  BY <1>1, <1>2
<1>5. QED
  BY <1>2, <1>3, <1>4 DEF Forests

(* Going from a block to its ancestor ends: the ancestor of a linked block *)
(* has a smaller number, whatever the ancestor 0 stands for.               *)
LEMMA CompressionExists ==
  ASSUME Numbering, NEW f, NEW c, ForestFits(f, c), NEW s
  PROVE  \E g : Compression(g, f, s)
<1> DEFINE n == counter + 2
           A == [Blocks(graph) -> Forests]
           start == [u \in Blocks(graph) |-> f]
           F == [m \in 1..n |-> [g \in A |-> [u \in Blocks(graph) |-> Shortened(f, s, g, u)]]]
           rank == [u \in Blocks(graph) |-> IF f.ancestor[u] = 0 THEN counter + 1 ELSE dfn[u]]
<1>1. /\ f \in Forests /\ n \in Nat /\ counter \in Nat /\ start \in A
      /\ \A b \in Blocks(graph) : dfn[b] \in Nat /\ dfn[b] <= counter
      /\ \A b \in Blocks(graph) : f.ancestor[b] \in Blocks(graph)
  <2>1. f \in Forests
    BY DEF ForestFits, IsForest, Forests
  <2>2. \A b \in Blocks(graph) : f.ancestor[b] \in Blocks(graph)
    BY <2>1 DEF Forests
  <2>3. QED
    BY <2>1, <2>2, NumberedFacts
<1>2. F \in [1..n -> [A -> A]]
  <2>1. \A g \in A : [u \in Blocks(graph) |-> Shortened(f, s, g, u)] \in A
    BY <1>1, ShortenedType
  <2>2. QED
    BY <2>1
<1>3. PICK h : Follows(h, n, A, start, F)
  <2> HIDE DEF A, F, start, n
  <2>1. QED
    BY <1>1, <1>2, Recursion
<1>4. /\ \A m \in 0..n : h[m] \in A
      /\ \A m \in 0..(n - 1) : \A u \in Blocks(graph) : h[m + 1][u] = Shortened(f, s, h[m], u)
  <2>1. /\ h \in [0..n -> A] /\ \A m \in 1..n : h[m] = F[m][h[m - 1]]
    BY <1>3 DEF Follows
  <2>2. \A m \in 1..n : m - 1 \in 0..n
    BY <1>1
  <2>3. \A m \in 1..n : h[m - 1] \in A
    BY <2>1, <2>2
  <2>4. \A m \in 1..n : \A u \in Blocks(graph) : h[m][u] = Shortened(f, s, h[m - 1], u)
    BY <2>1, <2>3
  <2>5. \A m \in 0..(n - 1) : m + 1 \in 1..n /\ (m + 1) - 1 = m
    BY <1>1
  <2> HIDE DEF n
  <2>6. ASSUME NEW m \in 0..(n - 1), NEW u \in Blocks(graph)
        PROVE  h[m + 1][u] = Shortened(f, s, h[m], u)
    <3>1. PICK k : k = m + 1
      OBVIOUS
    <3>2. k \in 1..n /\ k - 1 = m
      BY <2>5, <3>1
    <3>3. h[k][u] = Shortened(f, s, h[k - 1], u)
      BY <2>4, <3>2
    <3>4. QED
      BY <3>1, <3>2, <3>3
  <2>7. QED
    BY <2>1, <2>6
<1>5. \A u \in Blocks(graph) :
        /\ rank[u] \in 1..(counter + 1)
        /\ f.ancestor[f.ancestor[u]] # 0 => rank[f.ancestor[u]] \in 1..(rank[u] - 1)
  <2> TAKE u \in Blocks(graph)
  <2> DEFINE a == f.ancestor[u]
  <2>1. a \in Blocks(graph)
    BY <1>1
  <2>2. \A b \in Blocks(graph) : f.ancestor[b] # 0 =>
          /\ rank[b] = dfn[b] /\ dfn[b] \in 1..counter
          /\ dfn[f.ancestor[b]] < dfn[b]
    <3> SUFFICES ASSUME NEW b \in Blocks(graph), f.ancestor[b] # 0
                 PROVE  dfn[b] \in 1..counter /\ dfn[f.ancestor[b]] < dfn[b]
      OBVIOUS
    <3>1. /\ AtOrAbove(dfn[f.label[b]], dfn[b])
          /\ dfn[f.ancestor[b]] < dfn[f.label[b]]
          /\ AtOrAbove(dfn[f.ancestor[b]], dfn[b])
      BY DEF ForestFits, Linked
    <3>2. dfn[f.label[b]] \in 1..dfn[b] /\ dfn[f.ancestor[b]] \in 1..dfn[b]
      BY <3>1 DEF AtOrAbove
    <3>3. dfn[b] \in Nat /\ dfn[b] <= counter
      BY <1>1
    <3>4. QED
      BY <1>1, <3>1, <3>2, <3>3
  <2>3. f.ancestor[u] = 0 => rank[u] = counter + 1
    OBVIOUS
  <2> HIDE DEF rank
  <2>4. rank[u] \in 1..(counter + 1)
    BY <1>1, <2>2, <2>3
  <2>5. ASSUME f.ancestor[a] # 0 PROVE rank[a] \in 1..(rank[u] - 1)
    <3>1. rank[a] = dfn[a] /\ dfn[a] \in 1..counter
      BY <2>1, <2>2, <2>5
    <3>2. CASE f.ancestor[u] = 0
      BY <1>1, <2>3, <3>1, <3>2
    <3>3. CASE f.ancestor[u] # 0
      <4>1. dfn[a] < dfn[u] /\ rank[u] = dfn[u] /\ dfn[u] \in Nat
        BY <2>2, <3>3
      <4> HIDE DEF a
      <4>2. QED
        BY <3>1, <4>1
    <3>4. QED
      BY <3>2, <3>3
  <2>6. QED
    BY <2>4, <2>5
<1> HIDE DEF rank, F, start, A
<1> DEFINE Same(m) == \A u \in Blocks(graph) : rank[u] <= m => h[m + 1][u] = h[m][u]
           Q == {m \in 0..(counter + 1) : Same(m)}
<1>6. 0 \in Q
  <2>1. \A u \in Blocks(graph) : ~ (rank[u] <= 0)
    BY <1>5
  <2>2. 0 \in 0..(counter + 1)
    BY <1>1
  <2>3. QED
    BY <2>1, <2>2
<1>7. ASSUME NEW m \in 0..((counter + 1) - 1), m \in Q PROVE m + 1 \in Q
  <2>1. m \in Nat /\ m + 1 \in 0..(counter + 1) /\ m \in 0..(n - 1) /\ m + 1 \in 0..(n - 1)
    BY <1>1
  <2>2. PICK k : k = m + 1
    OBVIOUS
  <2>3. ASSUME NEW u \in Blocks(graph), rank[u] <= k PROVE h[k + 1][u] = h[k][u]
    <3>1. h[k + 1][u] = Shortened(f, s, h[k], u)
      BY <1>4, <2>1, <2>2
    <3>2. h[k][u] = Shortened(f, s, h[m], u)
      BY <1>4, <2>1, <2>2
    <3>3. f.ancestor[f.ancestor[u]] # 0 => h[k][f.ancestor[u]] = h[m][f.ancestor[u]]
      <4> SUFFICES ASSUME f.ancestor[f.ancestor[u]] # 0 PROVE h[k][f.ancestor[u]] = h[m][f.ancestor[u]]
        OBVIOUS
      <4>1. PICK a : a = f.ancestor[u]
        OBVIOUS
      <4>2. rank[a] \in 1..(rank[u] - 1) /\ rank[u] \in 1..(counter + 1) /\ a \in Blocks(graph)
        BY <1>1, <1>5, <4>1
      <4>3. rank[a] <= m
        BY <1>1, <2>1, <2>2, <2>3, <4>2
      <4>4. QED
        BY <1>7, <2>2, <4>1, <4>2, <4>3
    <3>4. QED
      BY <3>1, <3>2, <3>3 DEF Shortened
  <2>4. QED
    BY <2>1, <2>2, <2>3
<1>8. counter + 1 \in Q
  <2> DEFINE k == counter + 1
  <2>1. k \in Nat
    BY <1>1
  <2> HIDE DEF Q, k
  <2>2. 0..k \subseteq Q
    <3>1. \A m \in 0..(k - 1) : m \in Q => m + 1 \in Q
      BY <1>7 DEF k
    <3>2. QED
      BY <1>6, <2>1, <3>1, Counting
  <2>3. QED
    BY <2>1, <2>2 DEF k
<1> DEFINE g == h[counter + 1]
<1>9. /\ g \in [Blocks(graph) -> Forests]
      /\ \A u \in Blocks(graph) : g[u] = Shortened(f, s, g, u)
  <2>1. counter + 1 \in 0..n /\ counter + 1 \in 0..(n - 1)
    BY <1>1
  <2>2. g \in A
    BY <1>4, <2>1
  <2>3. \A u \in Blocks(graph) : h[(counter + 1) + 1][u] = h[counter + 1][u]
    BY <1>1, <1>5, <1>8
  <2>4. \A u \in Blocks(graph) : h[(counter + 1) + 1][u] = Shortened(f, s, g, u)
    BY <1>4, <2>1
  <2>5. QED
    BY <2>2, <2>3, <2>4 DEF A
<1> HIDE DEF g
<1>10. Compression(g, f, s)
  <2> DEFINE r == [u \in Blocks(graph) |-> Shortened(f, s, g, u)]
  <2>1. \A u \in Blocks(graph) : g[u] = r[u]
    BY <1>9
  <2>2. DOMAIN g = DOMAIN r /\ g = [u \in DOMAIN g |-> g[u]] /\ DOMAIN g = Blocks(graph)
    BY <1>9
  <2>3. QED
    BY <2>1, <2>2 DEF Compression
<1>11. QED
  BY <1>10
(* compress keeps the forest, links no block and frees none, and leaves    *)
(* alone the blocks numbered after the one it is called with.              *)
Shorter(f, g, u) ==
  /\ \A b \in Blocks(graph) : Linked(g, b) <=> Linked(f, b)
  /\ \A b \in Blocks(graph) : dfn[b] > dfn[u] => g.ancestor[b] = f.ancestor[b] /\ g.label[b] = f.label[b]

LEMMA LinkFacts ==
  ASSUME Numbering, NEW f, NEW c \in Nat, ForestFits(f, c), NEW b \in Blocks(graph), Linked(f, b)
  PROVE  /\ b \in Numbered /\ dfn[b] > c
         /\ f.label[b] \in Numbered /\ f.ancestor[b] \in Numbered
         /\ dfn[f.label[b]] <= dfn[b] /\ dfn[f.ancestor[b]] < dfn[f.label[b]]
         /\ AtOrAbove(dfn[f.label[b]], dfn[b]) /\ AtOrAbove(dfn[f.ancestor[b]], dfn[b])
<1>1. f.label[b] \in Blocks(graph) /\ f.ancestor[b] \in Blocks(graph)
  BY DEF ForestFits, IsForest
<1>2. /\ dfn[b] > c /\ AtOrAbove(dfn[f.label[b]], dfn[b])
      /\ AtOrAbove(dfn[f.ancestor[b]], dfn[b]) /\ dfn[f.ancestor[b]] < dfn[f.label[b]]
  BY DEF ForestFits
<1>3. /\ dfn[b] \in Nat /\ dfn[f.label[b]] \in 1..dfn[b] /\ dfn[f.ancestor[b]] \in 1..dfn[b]
  BY <1>2, NumberedFacts DEF AtOrAbove
<1>4. QED
  BY <1>1, <1>2, <1>3 DEF Numbered

LEMMA ShortenedFits ==
  ASSUME Numbering, NEW f, NEW c \in Nat, ForestFits(f, c), NEW s, NEW g,
         NEW u \in Blocks(graph), Linked(f, u),
         Linked(f, f.ancestor[u]) =>
           ForestFits(g[f.ancestor[u]], c) /\ Shorter(f, g[f.ancestor[u]], f.ancestor[u])
  PROVE  ForestFits(Shortened(f, s, g, u), c) /\ Shorter(f, Shortened(f, s, g, u), u)
<1>1. PICK a, up : a = f.ancestor[u] /\ up = g[a]
  OBVIOUS
<1>2. CASE f.ancestor[a] = 0
  <2>1. Shortened(f, s, g, u) = f
    BY <1>1, <1>2 DEF Shortened
  <2>2. QED
    BY <2>1 DEF Shorter
<1>3. CASE f.ancestor[a] # 0
  <2>1. PICK better \in BOOLEAN : better <=> s[up.label[a]] < s[up.label[u]]
    OBVIOUS
  <2>2. PICK new : new = Shortened(f, s, g, u)
    OBVIOUS
  <2>3. new = [ancestor |-> [up.ancestor EXCEPT ![u] = up.ancestor[a]],
               label |-> IF better THEN [up.label EXCEPT ![u] = up.label[a]] ELSE up.label]
    BY <1>1, <1>3, <2>1, <2>2 DEF Shortened
  <2>4. ForestFits(up, c) /\ Shorter(f, up, a) /\ Linked(f, a) /\ a \in Blocks(graph)
    BY <1>1, <1>3, LinkFacts DEF Linked, Numbered
  <2>5. /\ a \in Numbered /\ u \in Numbered /\ dfn[u] > c
        /\ dfn[f.label[u]] <= dfn[u] /\ dfn[a] < dfn[f.label[u]] /\ f.label[u] \in Numbered
        /\ AtOrAbove(dfn[f.label[u]], dfn[u]) /\ AtOrAbove(dfn[a], dfn[u])
    BY <1>1, LinkFacts
  <2>6. /\ \A b \in Numbered : dfn[b] \in 1..counter
        /\ counter \in Nat
    BY NumberedFacts
  <2>7. dfn[u] > dfn[a]
    BY <2>5, <2>6
  <2>8. up.ancestor[u] = a /\ up.label[u] = f.label[u] /\ Linked(up, a) /\ Linked(up, u)
    BY <1>1, <2>4, <2>7 DEF Shorter
  <2>9. PICK a2, la, lu : a2 = up.ancestor[a] /\ la = up.label[a] /\ lu = up.label[u]
    OBVIOUS
  <2>10. /\ la \in Numbered /\ a2 \in Numbered
         /\ dfn[la] <= dfn[a] /\ dfn[a2] < dfn[la]
         /\ AtOrAbove(dfn[la], dfn[a]) /\ AtOrAbove(dfn[a2], dfn[a])
    BY <2>4, <2>8, <2>9, LinkFacts
  <2>11. /\ up \in Forests
         /\ up.ancestor \in [Blocks(graph) -> Blocks(graph)] /\ up.label \in [Blocks(graph) -> Blocks(graph)]
         /\ la \in Blocks(graph) /\ a2 \in Blocks(graph)
    BY <2>4, <2>10 DEF ForestFits, IsForest, Forests, Numbered
  <2>12. /\ new.ancestor = [up.ancestor EXCEPT ![u] = a2]
         /\ new.label = IF better THEN [up.label EXCEPT ![u] = la] ELSE up.label
         /\ IsForest(new)
    BY <2>3, <2>9, <2>11 DEF IsForest
  <2>13. /\ new.ancestor[u] = a2 /\ new.label[u] \in {la, lu}
         /\ \A b \in Blocks(graph) : b # u => new.ancestor[b] = up.ancestor[b] /\ new.label[b] = up.label[b]
    BY <2>9, <2>11, <2>12
  <2>14. a2 # 0
    BY <2>8, <2>9 DEF Linked
  <2>15. Shorter(f, new, u)
    <3>1. ASSUME NEW b \in Blocks(graph) PROVE Linked(new, b) <=> Linked(f, b)
      <4>1. CASE b = u
        BY <2>13, <2>14, <4>1 DEF Linked
      <4>2. CASE b # u
        BY <2>4, <2>13, <4>2 DEF Linked, Shorter
      <4>3. QED
        BY <4>1, <4>2
    <3>2. ASSUME NEW b \in Blocks(graph), dfn[b] > dfn[u]
          PROVE  new.ancestor[b] = f.ancestor[b] /\ new.label[b] = f.label[b]
      <4>1. dfn[b] \in Nat /\ dfn[u] \in Nat /\ dfn[a] \in Nat
        BY <2>5, <2>6, NumberedFacts
      <4>2. b # u /\ dfn[b] > dfn[a]
        BY <2>7, <3>2, <4>1
      <4>3. QED
        BY <2>4, <2>13, <4>2 DEF Shorter
    <3>3. QED
      BY <3>1, <3>2 DEF Shorter
  <2>16. /\ AtOrAbove(dfn[la], dfn[u]) /\ AtOrAbove(dfn[a2], dfn[u])
         /\ dfn[a2] < dfn[la] /\ dfn[a2] < dfn[lu] /\ AtOrAbove(dfn[lu], dfn[u])
    <3>1. dfn[u] \in 1..counter /\ lu \in Numbered
      BY <2>5, <2>6, <2>8, <2>9
    <3>2. AtOrAbove(dfn[la], dfn[u]) /\ AtOrAbove(dfn[a2], dfn[u])
      BY <2>5, <2>10, <3>1, AboveAbove
    <3>3. dfn[a2] < dfn[lu]
      BY <2>5, <2>6, <2>8, <2>9, <2>10, <3>1
    <3>4. QED
      BY <2>5, <2>8, <2>9, <2>10, <3>2, <3>3
  <2>17. ASSUME NEW b \in Blocks(graph), Linked(new, b)
         PROVE  /\ dfn[b] > c /\ AtOrAbove(dfn[new.label[b]], dfn[b])
                /\ AtOrAbove(dfn[new.ancestor[b]], dfn[b]) /\ dfn[new.ancestor[b]] < dfn[new.label[b]]
    <3>1. CASE b = u
      BY <2>5, <2>13, <2>16, <3>1
    <3>2. CASE b # u
      <4>1. Linked(up, b)
        BY <2>13, <2>17, <3>2 DEF Linked
      <4>2. QED
        BY <2>4, <2>13, <3>2, <4>1 DEF ForestFits
    <3>3. QED
      BY <3>1, <3>2
  <2>18. ASSUME NEW b \in Numbered, ~ Linked(new, b) PROVE new.label[b] = b
    <3>1. b # u /\ b \in Blocks(graph)
      BY <2>13, <2>14, <2>18 DEF Linked, Numbered
    <3>2. ~ Linked(up, b)
      BY <2>13, <2>18, <3>1 DEF Linked
    <3>3. QED
      BY <2>4, <2>13, <3>1, <3>2 DEF ForestFits
  <2>19. ForestFits(new, c)
    BY <2>12, <2>17, <2>18 DEF ForestFits
  <2>20. QED
    BY <2>2, <2>15, <2>19
<1>4. QED
  BY <1>2, <1>3

LEMMA CompressFits ==
  ASSUME Numbering, NEW f, NEW c \in Nat, ForestFits(f, c), NEW s,
         NEW v \in Blocks(graph), Linked(f, v)
  PROVE  ForestFits(compress(f, s, v), c) /\ Shorter(f, compress(f, s, v), v)
<1> DEFINE g == CHOOSE h : Compression(h, f, s)
           Good(u) == ForestFits(g[u], c) /\ Shorter(f, g[u], u)
           P == {m \in 0..counter : \A u \in Blocks(graph) : Linked(f, u) /\ dfn[u] <= m => Good(u)}
<1>1. compress(f, s, v) = g[v]
  BY DEF compress, Compression, Shortened
<1>2. Compression(g, f, s)
  <2>1. \E h : Compression(h, f, s)
    BY CompressionExists
  <2>2. QED
    BY <2>1
<1> HIDE DEF g
<1>3. \A u \in Blocks(graph) : g[u] = Shortened(f, s, g, u)
  <2>1. g = [u \in Blocks(graph) |-> Shortened(f, s, g, u)]
    BY <1>2 DEF Compression
  <2> DEFINE r(u) == Shortened(f, s, g, u)
  <2>2. g = [u \in Blocks(graph) |-> r(u)]
    BY <2>1
  <2> HIDE DEF r
  <2>3. \A u \in Blocks(graph) : g[u] = r(u)
    BY <2>2
  <2>4. QED
    BY <2>3 DEF r
<1>4. /\ counter \in Nat
      /\ \A u \in Blocks(graph) : dfn[u] \in Nat /\ dfn[u] <= counter
  BY NumberedFacts
<1>5. 0 \in P
  <2>1. ASSUME NEW u \in Blocks(graph), Linked(f, u) PROVE ~ (dfn[u] <= 0)
    BY <1>4, <2>1, LinkFacts DEF Numbered
  <2>2. QED
    BY <1>4, <2>1
<1>6. ASSUME NEW m \in 0..(counter - 1), m \in P PROVE m + 1 \in P
  <2>1. ASSUME NEW u \in Blocks(graph), Linked(f, u), dfn[u] <= m + 1 PROVE Good(u)
    <3>1. PICK a : a = f.ancestor[u]
      OBVIOUS
    <3>2. a \in Blocks(graph) /\ dfn[a] < dfn[u]
      <4>1. a \in Numbered /\ f.label[u] \in Numbered /\ dfn[f.label[u]] <= dfn[u] /\ dfn[a] < dfn[f.label[u]]
        BY <2>1, <3>1, LinkFacts
      <4>2. QED
        BY <1>4, <4>1 DEF Numbered
    <3>3. dfn[a] <= m
      BY <1>4, <2>1, <3>2
    <3>4. Linked(f, a) => Good(a)
      BY <1>6, <3>2, <3>3
    <3> HIDE DEF P
    <3>5. QED
      BY <1>3, <2>1, <3>1, <3>4, ShortenedFits
  <2>2. m + 1 \in 0..counter
    BY <1>4
  <2> HIDE DEF Good
  <2>3. QED
    BY <2>1, <2>2
<1>7. 0..counter \subseteq P
  <2> HIDE DEF P
  <2>1. QED
    BY <1>4, <1>5, <1>6, Counting
<1>8. Good(v)
  <2>1. counter \in P
    BY <1>4, <1>7
  <2> HIDE DEF Good
  <2>2. QED
    BY <1>4, <2>1
<1>9. QED
  BY <1>1, <1>8

(* find, after compress. *)
LEMMA FoundFits ==
  ASSUME Numbering, NEW f, NEW c \in Nat, ForestFits(f, c), NEW s, NEW v \in Numbered,
         NEW g, g = compressed(f, s, v), NEW u, u = found(g, v)
  PROVE  /\ ForestFits(g, c) /\ \A b \in Blocks(graph) : Linked(g, b) <=> Linked(f, b)
         /\ u \in Numbered /\ dfn[u] <= dfn[v] /\ AtOrAbove(dfn[u], dfn[v])
         /\ ~ Linked(f, v) => u = v
         /\ Linked(f, v) => dfn[v] > c /\ dfn[u] >= 2
<1>1. v \in Blocks(graph) /\ dfn[v] \in 1..counter /\ counter \in Nat
  BY NumberedFacts
<1>2. ForestFits(g, c) /\ \A b \in Blocks(graph) : Linked(g, b) <=> Linked(f, b)
  <2>1. CASE Linked(f, v)
    BY <1>1, <2>1, CompressFits DEF compressed, Linked, Shorter
  <2>2. CASE ~ Linked(f, v)
    BY <2>2 DEF compressed, Linked
  <2>3. QED
    BY <2>1, <2>2
<1>3. CASE Linked(f, v)
  <2>1. Linked(g, v) /\ u = g.label[v]
    BY <1>1, <1>2, <1>3 DEF found, Linked
  <2>2. /\ u \in Numbered /\ g.ancestor[v] \in Numbered /\ dfn[v] > c
        /\ dfn[u] <= dfn[v] /\ dfn[g.ancestor[v]] < dfn[u]
        /\ AtOrAbove(dfn[u], dfn[v])
    BY <1>1, <1>2, <2>1, LinkFacts
  <2>3. dfn[u] >= 2
    BY <2>2, NumberedFacts
  <2>4. QED
    BY <1>2, <1>3, <2>2, <2>3
<1>4. CASE ~ Linked(f, v)
  <2>1. u = v
    BY <1>1, <1>2, <1>4 DEF found, Linked
  <2>2. AtOrAbove(dfn[v], dfn[v])
    BY <1>1, AboveItself
  <2>3. QED
    BY <1>1, <1>2, <1>4, <2>1, <2>2
<1>5. QED
  BY <1>3, <1>4
-----------------------------------------------------------------------------
(* The first inner loop, for the block numbered c: the semidominator found *)
(* so far lies above the block.                                            *)
States == [forest : Forests, semi : [Blocks(graph) -> 0..graph.size]]

Nearing(w, c, st) ==
  /\ st \in States
  /\ ForestFits(st.forest, c)
  /\ \A b \in Blocks(graph) : Linked(st.forest, b) <=> Linked(Forest, b)
  /\ \A b \in Blocks(graph) \ {w} : st.semi[b] = semi[b]
  /\ AtOrAbove(st.semi[w], c)

LEMMA NearerFits ==
  ASSUME Numbering, Scanned, path = << >>, NEW c \in 2..counter, NEW w, w = vertex[c],
         SemiFits(semi, c), NEW st, Nearing(w, c, st), NEW v \in Range(graph.pred[w])
  PROVE  /\ Nearing(w, c, Nearer(w, v, st))
         /\ Nearer(w, v, st).semi[w] <= st.semi[w]
         /\ v = parent[w] => Nearer(w, v, st).semi[w] < c
<1>1. /\ counter \in Nat /\ c \in Nat /\ c \in 1..counter /\ c <= graph.size /\ graph.size \in Nat
      /\ w \in Numbered /\ w \in Blocks(graph) /\ dfn[w] = c
      /\ \A b \in Numbered : dfn[b] \in 1..counter
  BY NumberedFacts DEF Numbering
<1>2. graph.pred[w] \in Seq(Blocks(graph)) /\ v \in Blocks(graph) /\ w \in Range(graph.succ[v])
  <2>1. graph.pred[w] \in Seq(Blocks(graph))
    BY <1>1 DEF Numbering, IsFlowGraph, Blocks
  <2>2. v \in Blocks(graph)
    BY <2>1 DEF Range
  <2>3. QED
    BY <1>1, <2>1, <2>2 DEF Numbering, IsFlowGraph, Blocks
<1>3. st.semi[w] \in 1..c /\ st.semi \in [Blocks(graph) -> 0..graph.size] /\ st.forest \in Forests
  BY DEF Nearing, AtOrAbove, States
<1>4. dfn[parent[w]] \in 1..(c - 1)
  BY <1>1, ParentNumbers DEF ParentOf
<1>5. CASE dfn[v] = 0
  <2>1. Nearer(w, v, st) = st
    BY <1>5 DEF Nearer
  <2>2. v # parent[w]
    BY <1>4, <1>5
  <2>3. QED
    BY <1>3, <2>1, <2>2
<1>6. CASE dfn[v] # 0
  <2>1. PICK g, u, d, new :
          /\ g = compressed(st.forest, st.semi, v) /\ u = found(g, v) /\ d = st.semi[u]
          /\ new = Nearer(w, v, st)
    OBVIOUS
  <2>2. new = [forest |-> g,
               semi |-> IF d < st.semi[w] THEN [st.semi EXCEPT ![w] = d] ELSE st.semi]
    BY <1>6, <2>1 DEF Nearer
  <2>3. v \in Numbered /\ dfn[v] \in 1..counter
    BY <1>1, <1>2, <1>6 DEF Numbered
  <2>4. /\ ForestFits(g, c) /\ \A b \in Blocks(graph) : Linked(g, b) <=> Linked(st.forest, b)
        /\ u \in Numbered /\ dfn[u] <= dfn[v] /\ AtOrAbove(dfn[u], dfn[v])
        /\ ~ Linked(st.forest, v) => u = v
        /\ Linked(st.forest, v) => dfn[v] > c
    <3>1. ForestFits(st.forest, c)
      BY DEF Nearing
    <3>2. QED
      BY <1>1, <2>1, <2>3, <3>1, FoundFits
  <2>5. u \in Blocks(graph) /\ d \in 0..graph.size /\ dfn[u] \in 1..counter
    BY <1>1, <1>3, <2>1, <2>4 DEF Numbered
  <2>6. ASSUME d < st.semi[w] PROVE AtOrAbove(d, c)
    <3>1. u # w
      BY <1>3, <2>1, <2>6
    <3>2. d = semi[u]
      BY <2>1, <2>5, <3>1 DEF Nearing
    <3>3. AtOrAbove(d, dfn[u])
      <4>1. CASE dfn[u] <= c
        BY <2>4, <2>5, <3>2, <4>1, AboveItself DEF SemiFits
      <4>2. CASE dfn[u] > c
        BY <2>4, <3>2, <4>2 DEF SemiFits
      <4>3. QED
        BY <1>1, <2>5, <4>1, <4>2
    <3>4. AtOrAbove(d, dfn[v])
      BY <2>3, <2>4, <3>3, AboveAbove
    <3>5. CASE dfn[v] >= c
      <4>1. c \in d..dfn[v] /\ dfn[v] \in Nat
        BY <1>1, <1>3, <2>3, <2>5, <2>6, <3>5
      <4>2. QED
        BY <3>4, <4>1, AboveBetween
    <3>6. CASE dfn[v] < c
      <4>1. PICK e \in DOMAIN graph.succ[v] : graph.succ[v][e] = w
        BY <1>2 DEF Range
      <4>2. Looked(v, e)
        BY DEF Looked
      <4>3. AtOrAbove(dfn[v], c)
        BY <1>1, <2>3, <3>6, <4>1, <4>2 DEF Scanned
      <4>4. QED
        BY <1>1, <3>4, <4>3, AboveAbove
    <3>7. QED
      BY <1>1, <2>3, <3>5, <3>6
  <2>7. /\ new \in States /\ new.forest = g
        /\ \A b \in Blocks(graph) \ {w} : new.semi[b] = st.semi[b]
        /\ new.semi[w] = IF d < st.semi[w] THEN d ELSE st.semi[w]
    <3>1. g \in Forests
      BY <2>4 DEF ForestFits, IsForest, Forests
    <3>2. QED
      BY <1>1, <1>3, <2>2, <2>5, <3>1 DEF States
  <2>8. Nearing(w, c, new)
    <3>1. AtOrAbove(new.semi[w], c)
      BY <2>6, <2>7 DEF Nearing
    <3>2. \A b \in Blocks(graph) : Linked(new.forest, b) <=> Linked(Forest, b)
      BY <2>4, <2>7 DEF Nearing
    <3>3. \A b \in Blocks(graph) \ {w} : new.semi[b] = semi[b]
      BY <2>7 DEF Nearing
    <3>4. QED
      BY <2>4, <2>7, <3>1, <3>2, <3>3 DEF Nearing
  <2>9. new.semi[w] <= st.semi[w]
    BY <1>3, <2>5, <2>7
  <2>10. ASSUME v = parent[w] PROVE new.semi[w] < c
    <3>1. dfn[v] < c
      BY <1>1, <1>4, <2>10
    <3>2. u = v /\ v # w
      BY <1>1, <2>3, <2>4, <3>1
    <3>3. d = dfn[v]
      <4>1. d = semi[v]
        BY <1>2, <2>1, <3>2 DEF Nearing
      <4>2. QED
        BY <1>1, <2>3, <3>1, <4>1 DEF SemiFits
    <3>4. QED
      BY <1>1, <1>3, <2>5, <2>7, <3>1, <3>3
  <2>11. QED
    BY <2>1, <2>8, <2>9, <2>10
<1>7. QED
  BY <1>5, <1>6

LEMMA SemiOfFits ==
  ASSUME Numbering, Scanned, path = << >>, NEW c \in 2..counter, NEW w, w = vertex[c],
         ForestFits(Forest, c), SemiFits(semi, c)
  PROVE  Nearing(w, c, SemiOf(w)) /\ SemiOf(w).semi[w] < c
<1> DEFINE n == Len(graph.pred[w])
           start == [forest |-> Forest, semi |-> semi]
           A == {st \in States : Nearing(w, c, st)}
           F == [k \in 1..n |-> [st \in A |-> Nearer(w, graph.pred[w][k], st)]]
           Runs(h) == h = [k \in 0..n |-> IF k = 0 THEN start ELSE Nearer(w, graph.pred[w][k], h[k - 1])]
           run == CHOOSE h : Runs(h)
<1>1. /\ c \in Nat \ {0} /\ c \in 1..counter /\ w \in Numbered /\ w \in Blocks(graph) /\ dfn[w] = c
  BY NumberedFacts DEF Numbering
<1>2. /\ graph.pred[w] \in Seq(Blocks(graph)) /\ n \in Nat
      /\ \A k \in 1..n : graph.pred[w][k] \in Range(graph.pred[w])
  <2>1. graph.pred[w] \in Seq(Blocks(graph))
    BY <1>1 DEF Numbering, IsFlowGraph, Blocks
  <2>2. QED
    BY <2>1 DEF Range
<1>3. SemiOf(w) = run[n]
  BY DEF SemiOf
<1>4. start \in A
  <2>1. Forest \in Forests
    BY DEF ForestFits, IsForest, Forests
  <2>2. start \in States /\ start.forest = Forest /\ start.semi = semi
    BY <2>1 DEF States, SemiFits
  <2>3. semi[w] = c
    BY <1>1 DEF SemiFits
  <2>4. AtOrAbove(semi[w], c)
    BY <1>1, <2>3, AboveItself
  <2> HIDE DEF start
  <2>5. QED
    BY <2>2, <2>4 DEF Nearing
<1>5. \A k \in 1..n : \A st \in A :
        /\ Nearer(w, graph.pred[w][k], st) \in A
        /\ Nearer(w, graph.pred[w][k], st).semi[w] <= st.semi[w]
        /\ graph.pred[w][k] = parent[w] => Nearer(w, graph.pred[w][k], st).semi[w] < c
  <2> TAKE k \in 1..n
  <2> TAKE st \in A
  <2>1. PICK v, new : v = graph.pred[w][k] /\ new = Nearer(w, v, st)
    OBVIOUS
  <2>2. v \in Range(graph.pred[w]) /\ Nearing(w, c, st)
    BY <1>2, <2>1
  <2>3. /\ Nearing(w, c, new) /\ new.semi[w] <= st.semi[w]
        /\ v = parent[w] => new.semi[w] < c
    BY <2>1, <2>2, NearerFits
  <2>4. new \in A
    BY <2>3 DEF Nearing
  <2>5. QED
    BY <2>1, <2>3, <2>4
<1> HIDE DEF A, n
<1>6. Runs(run)
  <2>1. F \in [1..n -> [A -> A]]
    BY <1>5
  <2>2. PICK h : Follows(h, n, A, start, F)
    <3> HIDE DEF F, start
    <3>1. QED
      BY <1>2, <1>4, <2>1, Recursion
  <2>3. h \in [0..n -> A] /\ h[0] = start /\ \A k \in 1..n : h[k] = F[k][h[k - 1]]
    BY <2>2 DEF Follows
  <2>4. \A k \in 1..n : k - 1 \in 0..n
    BY <1>2
  <2>5. \A k \in 1..n : h[k] = Nearer(w, graph.pred[w][k], h[k - 1])
    BY <2>3, <2>4
  <2>6. \A k \in 0..n : k = 0 \/ k \in 1..n
    BY <1>2
  <2> DEFINE r(k) == IF k = 0 THEN start ELSE Nearer(w, graph.pred[w][k], h[k - 1])
  <2>7. \A k \in 0..n : h[k] = r(k)
    BY <2>3, <2>5, <2>6
  <2> HIDE DEF r
  <2>8. h = [k \in 0..n |-> r(k)]
    BY <2>3, <2>7
  <2>9. Runs(h)
    BY <2>8 DEF r
  <2>10. \E f : Runs(f)
    <3> HIDE DEF Runs
    <3>1. QED
      BY <2>9
  <2>11. QED
    <3> HIDE DEF Runs
    <3>1. QED
      BY <2>10
<1>7. /\ run[0] = start
      /\ \A k \in 1..n : run[k] = Nearer(w, graph.pred[w][k], run[k - 1])
  <2> HIDE DEF run
  <2> DEFINE r(k) == IF k = 0 THEN start ELSE Nearer(w, graph.pred[w][k], run[k - 1])
  <2>1. run = [k \in 0..n |-> r(k)]
    BY <1>6
  <2>2. /\ r(0) = start
        /\ \A k \in 1..n : r(k) = Nearer(w, graph.pred[w][k], run[k - 1])
    BY <1>2
  <2>3. 0 \in 0..n /\ \A k \in 1..n : k \in 0..n
    BY <1>2
  <2> HIDE DEF r
  <2>4. \A k \in 0..n : run[k] = r(k)
    BY <2>1
  <2>5. QED
    BY <2>2, <2>3, <2>4
<1> HIDE DEF run, start
<1>8. \A k \in 0..n : run[k] \in A
  <2> DEFINE P == {k \in 0..n : run[k] \in A}
  <2>1. 0 \in P
    BY <1>2, <1>4, <1>7
  <2>2. ASSUME NEW k \in 0..(n - 1), k \in P PROVE k + 1 \in P
    <3>1. k + 1 \in 1..n /\ k + 1 \in 0..n /\ (k + 1) - 1 = k
      BY <1>2
    <3>2. run[k + 1] = Nearer(w, graph.pred[w][k + 1], run[k])
      BY <1>7, <3>1
    <3>3. QED
      BY <1>5, <2>2, <3>1, <3>2
  <2>3. 0..n \subseteq P
    <3> HIDE DEF P
    <3>1. QED
      BY <1>2, <2>1, <2>2, Counting
  <2>4. QED
    BY <2>3
<1>9. PICK e \in 1..n : graph.pred[w][e] = parent[w]
  <2>1. w \in Range(graph.succ[parent[w]]) /\ parent[w] \in Blocks(graph)
    BY <1>1 DEF Numbering
  <2>2. parent[w] \in Range(graph.pred[w])
    BY <1>1, <2>1 DEF Numbering, IsFlowGraph, Blocks
  <2>3. DOMAIN graph.pred[w] = 1..n
    BY <1>2 DEF n
  <2>4. QED
    BY <2>2, <2>3 DEF Range
<1>10. \A k \in 0..n : run[k].semi[w] \in Nat
  <2>1. \A st \in A : st.semi[w] \in Nat
    BY <1>1 DEF A, Nearing, AtOrAbove
  <2>2. QED
    BY <1>8, <2>1
<1>11. \A k \in 0..n : k >= e => run[k].semi[w] < c
  <2> DEFINE P == {k \in 0..n : k >= e => run[k].semi[w] < c}
  <2>1. 0 \in P
    BY <1>2
  <2>2. ASSUME NEW k \in 0..(n - 1), k \in P PROVE k + 1 \in P
    <3>1. k + 1 \in 1..n /\ k + 1 \in 0..n /\ (k + 1) - 1 = k /\ k \in 0..n /\ k \in Nat
      BY <1>2
    <3>2. run[k + 1] = Nearer(w, graph.pred[w][k + 1], run[k])
      BY <1>7, <3>1
    <3>3. /\ run[k + 1].semi[w] <= run[k].semi[w]
          /\ k + 1 = e => run[k + 1].semi[w] < c
      BY <1>5, <1>8, <1>9, <3>1, <3>2
    <3>4. k + 1 >= e => k + 1 = e \/ k >= e
      BY <3>1
    <3>5. run[k].semi[w] \in Nat /\ run[k + 1].semi[w] \in Nat
      BY <1>10, <3>1
    <3>6. QED
      BY <1>1, <2>2, <3>1, <3>3, <3>4, <3>5
  <2>3. 0..n \subseteq P
    <3> HIDE DEF P
    <3>1. QED
      BY <1>2, <2>1, <2>2, Counting
  <2>4. QED
    BY <2>3
<1>12. n \in 0..n /\ n >= e
  BY <1>2
<1>13. QED
  BY <1>3, <1>8, <1>11, <1>12 DEF A
-----------------------------------------------------------------------------
(* The block numbered c is linked to its parent.                           *)
LEMMA LinkingFits ==
  ASSUME Numbering, NEW c \in 2..counter, NEW w, w = vertex[c], NEW f, ForestFits(f, c),
         NEW g, g = [f EXCEPT !.ancestor[w] = parent[w]]
  PROVE  ForestFits(g, c - 1)
<1>1. /\ c \in Nat /\ w \in Numbered /\ w \in Blocks(graph) /\ dfn[w] = c
      /\ \A b \in Blocks(graph) : dfn[b] \in Nat
  BY NumberedFacts DEF Numbering
<1>2. PICK p : p = parent[w]
  OBVIOUS
<1>3. p \in Blocks(graph) /\ dfn[p] \in 1..(c - 1) /\ AtOrAbove(dfn[p], c)
  BY <1>1, <1>2, ParentNumbers DEF Numbering, ParentOf
<1>4. /\ f.ancestor \in [Blocks(graph) -> Blocks(graph)] /\ f.label \in [Blocks(graph) -> Blocks(graph)]
      /\ f = [ancestor |-> f.ancestor, label |-> f.label]
  BY DEF ForestFits, IsForest
<1>5. /\ IsForest(g) /\ g.label = f.label /\ g.ancestor[w] = p
      /\ \A b \in Blocks(graph) : b # w => g.ancestor[b] = f.ancestor[b]
  BY <1>1, <1>2, <1>3, <1>4 DEF IsForest
<1>6. ~ Linked(f, w) /\ f.label[w] = w
  BY <1>1 DEF ForestFits
<1>7. ASSUME NEW b \in Blocks(graph), Linked(g, b)
      PROVE  /\ dfn[b] > c - 1 /\ AtOrAbove(dfn[g.label[b]], dfn[b])
             /\ AtOrAbove(dfn[g.ancestor[b]], dfn[b]) /\ dfn[g.ancestor[b]] < dfn[g.label[b]]
  <2>1. CASE b = w
    <3>1. AtOrAbove(c, c)
      BY <1>1, AboveItself
    <3>2. QED
      BY <1>1, <1>3, <1>5, <1>6, <2>1, <3>1
  <2>2. CASE b # w
    <3>1. Linked(f, b)
      BY <1>5, <1>7, <2>2 DEF Linked
    <3>2. dfn[b] > c
      BY <3>1 DEF ForestFits
    <3>3. dfn[b] > c - 1
      BY <1>1, <3>2
    <3>4. QED
      BY <1>5, <2>2, <3>1, <3>3 DEF ForestFits
  <2>3. QED
    BY <2>1, <2>2
<1>8. ASSUME NEW b \in Numbered, ~ Linked(g, b) PROVE g.label[b] = b
  <2>1. CASE b = w
    BY <1>5, <1>6, <2>1
  <2>2. CASE b # w
    BY <1>5, <1>8, <2>2 DEF ForestFits, Linked, Numbered
  <2>3. QED
    BY <2>1, <2>2
<1>9. QED
  BY <1>5, <1>7, <1>8 DEF ForestFits

(* A waiting block is given its semidominator, or the block found below it *)
(* on the way from a linked ancestor: never the entry but as the former.   *)
Verdicts == [forest : Forests, idom : [Blocks(graph) -> Blocks(graph)]]

LEMMA AssignFits ==
  ASSUME Numbering, NEW c \in Nat, NEW s, SemiFits(s, c), NEW p \in Blocks(graph),
         NEW t \in Verdicts, ForestFits(t.forest, c),
         NEW v \in Blocks(graph), dfn[v] > c, vertex[s[v]] = p,
         NEW new, new = Assign(s, p, v, t)
  PROVE  /\ new \in Verdicts /\ ForestFits(new.forest, c)
         /\ Assigned(s, new.idom, v)
         /\ \A b \in Blocks(graph) \ {v} : new.idom[b] = t.idom[b]
<1>1. PICK f, u, d :
        /\ f = compressed(t.forest, s, v) /\ u = found(f, v)
        /\ d = IF s[u] = s[v] THEN p ELSE u
  OBVIOUS
<1>2. new = [forest |-> f, idom |-> [t.idom EXCEPT ![v] = d]]
  BY <1>1 DEF Assign
<1>3. /\ counter \in Nat /\ v \in Numbered
      /\ \A b \in Numbered : dfn[b] \in 1..counter
      /\ \A b, e \in Numbered : dfn[b] = dfn[e] => b = e
  BY NumberedFacts DEF Numbered
<1>4. /\ ForestFits(f, c) /\ u \in Numbered /\ dfn[u] <= dfn[v]
      /\ ~ Linked(t.forest, v) => u = v
      /\ Linked(t.forest, v) => dfn[u] >= 2
  BY <1>1, <1>3, FoundFits
<1>5. s[v] \in 1..(dfn[v] - 1) /\ dfn[p] = s[v]
  <2>1. s[v] < dfn[v] /\ AtOrAbove(s[v], dfn[v])
    BY <1>3 DEF SemiFits
  <2>2. s[v] \in 1..counter /\ s[v] \in 1..(dfn[v] - 1)
    BY <1>3, <2>1 DEF AtOrAbove
  <2>3. QED
    BY <2>2 DEF Numbering
<1>6. f \in Forests /\ d \in Blocks(graph)
  BY <1>1, <1>4 DEF ForestFits, IsForest, Forests, Numbered
<1>7. /\ new \in Verdicts /\ new.forest = f /\ new.idom[v] = d
      /\ \A b \in Blocks(graph) \ {v} : new.idom[b] = t.idom[b]
  BY <1>2, <1>6 DEF Verdicts
<1>8. dfn[d] \in 1..(dfn[v] - 1) /\ (d = vertex[s[v]] \/ dfn[d] >= 2)
  <2>1. CASE s[u] = s[v]
    BY <1>1, <1>5, <2>1
  <2>2. CASE s[u] # s[v]
    <3>1. d = u /\ u # v /\ dfn[u] >= 2 /\ dfn[u] # dfn[v]
      BY <1>1, <1>3, <1>4, <2>2
    <3>2. QED
      BY <1>3, <1>4, <3>1
  <2>3. QED
    BY <2>1, <2>2
<1>9. QED
  BY <1>4, <1>7, <1>8 DEF Assigned, Earlier

LEMMA SettleFits ==
  ASSUME Numbering, NEW c \in Nat, NEW st, ForestFits(st.forest, c), SemiFits(st.semi, c),
         idom \in [Blocks(graph) -> Blocks(graph)], NEW p \in Blocks(graph),
         NEW waiting \in Seq(Blocks(graph)),
         \A v \in Range(waiting) : dfn[v] > c /\ vertex[st.semi[v]] = p,
         NEW settled, settled = Settle(st, waiting, p)
  PROVE  /\ settled \in Verdicts /\ ForestFits(settled.forest, c)
         /\ \A v \in Range(waiting) : Assigned(st.semi, settled.idom, v)
         /\ \A b \in Blocks(graph) \ Range(waiting) : settled.idom[b] = idom[b]
<1> DEFINE n == Len(waiting)
           start == [forest |-> st.forest, idom |-> idom]
           A == {t \in Verdicts : ForestFits(t.forest, c)
                   /\ \A b \in Blocks(graph) \ Range(waiting) : t.idom[b] = idom[b]}
           F == [k \in 1..n |-> [t \in A |-> Assign(st.semi, p, waiting[k], t)]]
           Runs(h) == h = [k \in 0..n |-> IF k = 0 THEN start ELSE Assign(st.semi, p, waiting[k], h[k - 1])]
           run == CHOOSE h : Runs(h)
<1>1. /\ n \in Nat /\ DOMAIN waiting = 1..n
      /\ \A k \in 1..n : waiting[k] \in Range(waiting) /\ waiting[k] \in Blocks(graph)
  BY DEF Range
<1>2. settled = run[n]
  BY DEF Settle
<1>3. start \in A
  <2>1. st.forest \in Forests
    BY DEF ForestFits, IsForest, Forests
  <2>2. start \in Verdicts /\ start.forest = st.forest /\ start.idom = idom
    BY <2>1 DEF Verdicts
  <2> HIDE DEF start
  <2>3. QED
    BY <2>2
<1>4. \A k \in 1..n : \A t \in A :
        /\ Assign(st.semi, p, waiting[k], t) \in A
        /\ Assigned(st.semi, Assign(st.semi, p, waiting[k], t).idom, waiting[k])
        /\ \A b \in Blocks(graph) \ {waiting[k]} : Assign(st.semi, p, waiting[k], t).idom[b] = t.idom[b]
  <2> TAKE k \in 1..n
  <2> TAKE t \in A
  <2>1. PICK v, new, s : v = waiting[k] /\ s = st.semi /\ new = Assign(s, p, v, t)
    OBVIOUS
  <2>2. v \in Range(waiting) /\ v \in Blocks(graph) /\ dfn[v] > c /\ vertex[s[v]] = p
    BY <1>1, <2>1
  <2>3. /\ new \in Verdicts /\ ForestFits(new.forest, c) /\ Assigned(s, new.idom, v)
        /\ \A b \in Blocks(graph) \ {v} : new.idom[b] = t.idom[b]
    BY <2>1, <2>2, AssignFits
  <2>4. new \in A
    BY <2>2, <2>3
  <2>5. QED
    BY <2>1, <2>3, <2>4
<1> HIDE DEF A, n
<1>5. Runs(run)
  <2>1. F \in [1..n -> [A -> A]]
    BY <1>4
  <2>2. PICK h : Follows(h, n, A, start, F)
    <3> HIDE DEF F, start
    <3>1. QED
      BY <1>1, <1>3, <2>1, Recursion
  <2>3. h \in [0..n -> A] /\ h[0] = start /\ \A k \in 1..n : h[k] = F[k][h[k - 1]]
    BY <2>2 DEF Follows
  <2>4. \A k \in 1..n : k - 1 \in 0..n
    BY <1>1
  <2>5. \A k \in 1..n : h[k] = Assign(st.semi, p, waiting[k], h[k - 1])
    BY <2>3, <2>4
  <2>6. \A k \in 0..n : k = 0 \/ k \in 1..n
    BY <1>1
  <2> DEFINE r(k) == IF k = 0 THEN start ELSE Assign(st.semi, p, waiting[k], h[k - 1])
  <2>7. \A k \in 0..n : h[k] = r(k)
    BY <2>3, <2>5, <2>6
  <2> HIDE DEF r
  <2>8. h = [k \in 0..n |-> r(k)]
    BY <2>3, <2>7
  <2>9. Runs(h)
    BY <2>8 DEF r
  <2>10. \E f : Runs(f)
    <3> HIDE DEF Runs
    <3>1. QED
      BY <2>9
  <2>11. QED
    <3> HIDE DEF Runs
    <3>1. QED
      BY <2>10
<1>6. /\ run[0] = start
      /\ \A k \in 1..n : run[k] = Assign(st.semi, p, waiting[k], run[k - 1])
  <2> HIDE DEF run
  <2> DEFINE r(k) == IF k = 0 THEN start ELSE Assign(st.semi, p, waiting[k], run[k - 1])
  <2>1. run = [k \in 0..n |-> r(k)]
    BY <1>5
  <2>2. /\ r(0) = start
        /\ \A k \in 1..n : r(k) = Assign(st.semi, p, waiting[k], run[k - 1])
    BY <1>1
  <2>3. 0 \in 0..n /\ \A k \in 1..n : k \in 0..n
    BY <1>1
  <2> HIDE DEF r
  <2>4. \A k \in 0..n : run[k] = r(k)
    BY <2>1
  <2>5. QED
    BY <2>2, <2>3, <2>4
<1> HIDE DEF run, start
<1> DEFINE P == {k \in 0..n : run[k] \in A
                   /\ \A j \in 1..k : Assigned(st.semi, run[k].idom, waiting[j])}
<1>7. 0 \in P
  <2>1. 1..0 = {} /\ 0 \in 0..n
    BY <1>1
  <2>2. QED
    BY <1>3, <1>6, <2>1
<1>8. ASSUME NEW k \in 0..(n - 1), k \in P PROVE k + 1 \in P
  <2>1. PICK m : m = k + 1
    OBVIOUS
  <2>2. m \in 1..n /\ m \in 0..n /\ m - 1 = k
    BY <1>1, <2>1
  <2>3. PICK new, v : new = run[m] /\ v = waiting[m]
    OBVIOUS
  <2>4. /\ new \in A /\ Assigned(st.semi, new.idom, v) /\ v \in Blocks(graph)
        /\ \A b \in Blocks(graph) \ {v} : new.idom[b] = run[k].idom[b]
    BY <1>1, <1>4, <1>6, <1>8, <2>2, <2>3
  <2>5. ASSUME NEW j \in 1..m PROVE Assigned(st.semi, new.idom, waiting[j])
    <3>1. CASE waiting[j] = v
      BY <2>4, <3>1
    <3>2. CASE waiting[j] # v
      <4>0. j # m
        BY <2>3, <3>2
      <4>1. j \in 1..k /\ j \in 1..n
        BY <1>1, <2>2, <4>0
      <4>2. new.idom[waiting[j]] = run[k].idom[waiting[j]]
        BY <1>1, <2>4, <3>2, <4>1
      <4>3. QED
        BY <1>8, <4>1, <4>2 DEF Assigned, Earlier
    <3>3. QED
      BY <3>1, <3>2
  <2>6. QED
    BY <2>1, <2>2, <2>3, <2>4, <2>5
<1>9. n \in P
  <2> HIDE DEF P
  <2>1. 0..n \subseteq P
    BY <1>1, <1>7, <1>8, Counting
  <2>2. QED
    BY <1>1, <2>1
<1>10. \A v \in Range(waiting) : \E j \in 1..n : v = waiting[j]
  BY <1>1 DEF Range
<1>11. QED
  BY <1>2, <1>9, <1>10 DEF A
-----------------------------------------------------------------------------
(* A block whose semidominator is the number before c is waiting for the   *)
(* parent of block number c.                                               *)
LEMMA WaitsForParent ==
  ASSUME Numbering, NEW c \in 2..counter, NEW m \in c..counter,
         NEW k, AtOrAbove(k, m), k >= c - 1, k < c
  PROVE  vertex[k] = parent[vertex[c]]
<1>1. c \in Nat /\ c \in 1..counter /\ m \in Nat /\ counter \in Nat /\ k \in Nat
  BY NumberedFacts DEF AtOrAbove
<1>2. k = c - 1 /\ c \in (k + 1)..m
  BY <1>1
<1>3. ParentOf(c) >= k /\ ParentOf(c) \in 1..(c - 1)
  BY <1>2, ParentNumbers DEF AtOrAbove
<1>4. ParentOf(c) = k /\ k # 0
  BY <1>1, <1>2, <1>3
<1>5. vertex[c] \in Blocks(graph) /\ parent[vertex[c]] \in Blocks(graph)
  BY <1>1, NumberedFacts DEF Numbering, Numbered
<1>6. QED
  BY <1>4, <1>5 DEF ParentOf, Numbering, Numbered

(* One iteration, from what the tables hold at number c.                   *)
Iteration(c, w, p, st, linked, s, b, filled, settled, wait) ==
  /\ w = vertex[c] /\ p = parent[w] /\ st = SemiOf(w) /\ s = st.semi /\ b = vertex[s[w]]
  /\ linked = [st EXCEPT !.forest.ancestor[w] = p]
  /\ filled = [bucket EXCEPT ![b] = Append(@, w)]
  /\ settled = Settle(linked, filled[p], p)
  /\ wait = [filled EXCEPT ![p] = << >>]

LEMMA ProcessStep ==
  ASSUME Numbering, Scanned, path = << >>, NEW c \in 2..counter,
         ForestFits(Forest, c), SemiFits(semi, c),
         Waiting(semi, bucket, c), DominatedSoFar(semi, bucket, idom, c),
         NEW w, NEW p, NEW st, NEW linked, NEW s, NEW b, NEW filled, NEW settled, NEW wait,
         Iteration(c, w, p, st, linked, s, b, filled, settled, wait)
  PROVE  /\ settled \in Verdicts /\ ForestFits(settled.forest, c - 1) /\ SemiFits(s, c - 1)
         /\ Waiting(s, wait, c - 1) /\ DominatedSoFar(s, wait, settled.idom, c - 1)
<1>1. /\ counter \in Nat /\ graph.size \in Nat /\ counter <= graph.size
      /\ c \in Nat /\ c \in 1..counter /\ w \in Numbered /\ w \in Blocks(graph) /\ dfn[w] = c
      /\ Numbered \subseteq Blocks(graph)
      /\ \A v \in Numbered : dfn[v] \in 1..counter
      /\ \A v, x \in Numbered : dfn[v] = dfn[x] => v = x
      /\ Blocks(graph) \subseteq 0..graph.size
  <2>1. w = vertex[c]
    BY DEF Iteration
  <2>2. counter \in Nat /\ graph.size \in Nat /\ c \in Nat /\ c \in 1..counter
    BY NumberedFacts
  <2>3. Blocks(graph) \subseteq 0..graph.size
    BY <2>2 DEF Blocks
  <2>4. dfn[w] = c
    BY <2>1, <2>2 DEF Numbering
  <2>5. QED
    BY <2>1, <2>2, <2>3, <2>4, NumberedFacts
<1>2. /\ st \in States /\ ForestFits(st.forest, c)
      /\ \A v \in Blocks(graph) \ {w} : s[v] = semi[v]
      /\ AtOrAbove(s[w], c) /\ s[w] < c
  <2>1. w = vertex[c] /\ st = SemiOf(w) /\ s = st.semi
    BY DEF Iteration
  <2>2. Nearing(w, c, st) /\ st.semi[w] < c
    BY <2>1, SemiOfFits
  <2>3. QED
    BY <2>1, <2>2 DEF Nearing
<1>3. s \in [Blocks(graph) -> 0..graph.size] /\ s[w] \in 1..(c - 1) /\ b \in Blocks(graph)
  <2>1. s[w] \in 1..(c - 1)
    BY <1>1, <1>2 DEF AtOrAbove
  <2>2. s[w] \in 1..counter
    BY <1>1, <2>1
  <2>3. s = st.semi /\ b = vertex[s[w]]
    BY DEF Iteration
  <2>4. QED
    BY <1>1, <1>2, <2>1, <2>2, <2>3, NumberedFacts DEF States
<1>4. p \in Blocks(graph)
  BY <1>1 DEF Numbering, Iteration
<1>5. ForestFits(linked.forest, c - 1) /\ linked.semi = s
  <2>1. PICK f, g : f = st.forest /\ g = [f EXCEPT !.ancestor[w] = p]
    OBVIOUS
  <2>2. linked.forest = g /\ linked.semi = s
    <3>1. st = [forest |-> st.forest, semi |-> st.semi] /\ f = [ancestor |-> f.ancestor, label |-> f.label]
      BY <1>2, <2>1 DEF States, Forests
    <3>2. linked = [st EXCEPT !.forest = [st.forest EXCEPT !.ancestor = [st.forest.ancestor EXCEPT ![w] = p]]]
          /\ s = st.semi
      BY DEF Iteration
    <3>3. QED
      BY <2>1, <3>1, <3>2
  <2>3. w = vertex[c] /\ p = parent[w]
    BY DEF Iteration
  <2>5. ForestFits(g, c - 1)
    BY <1>2, <2>1, <2>3, LinkingFits
  <2>4. QED
    BY <2>2, <2>5
<1>6. ASSUME NEW v \in Numbered, dfn[v] >= c
      PROVE  s[v] < dfn[v] /\ AtOrAbove(s[v], dfn[v])
  <2>1. CASE v = w
    BY <1>1, <1>2, <2>1
  <2>2. CASE v # w
    <3>1. dfn[v] > c /\ s[v] = semi[v]
      BY <1>1, <1>2, <1>6, <2>2
    <3>2. QED
      BY <3>1 DEF SemiFits
  <2>3. QED
    BY <2>1, <2>2
<1>7. SemiFits(s, c - 1)
  <2>1. ASSUME NEW v \in Numbered, dfn[v] <= c - 1 PROVE s[v] = dfn[v]
    <3>1. v # w /\ dfn[v] <= c
      BY <1>1, <2>1
    <3>2. QED
      BY <1>1, <1>2, <3>1 DEF SemiFits
  <2>2. \A v \in Numbered : dfn[v] > c - 1 => dfn[v] >= c
    BY <1>1
  <2>3. QED
    BY <1>3, <1>6, <2>1, <2>2 DEF SemiFits
<1>8. /\ bucket \in [0..graph.size -> Seq(Blocks(graph))]
      /\ \A q \in 0..graph.size : \A v \in Range(bucket[q]) : dfn[v] > c /\ vertex[semi[v]] = q /\ v \in Blocks(graph)
  <2>1. bucket \in [0..graph.size -> Seq(Blocks(graph))]
    BY DEF Waiting
  <2>2. \A q \in 0..graph.size : \A v \in Range(bucket[q]) : v \in Blocks(graph)
    BY <2>1 DEF Range
  <2>3. QED
    BY <2>1, <2>2 DEF Waiting
<1>9. /\ filled \in [0..graph.size -> Seq(Blocks(graph))]
      /\ \A q \in 0..graph.size : Range(filled[q]) = Range(bucket[q]) \cup (IF q = b THEN {w} ELSE {})
  <2>0. PICK more : more = Append(bucket[b], w)
    OBVIOUS
  <2>5. filled = [bucket EXCEPT ![b] = more]
    BY <2>0 DEF Iteration
  <2>6. bucket[b] \in Seq(Blocks(graph))
    BY <1>1, <1>3, <1>8
  <2>7. more \in Seq(Blocks(graph))
    BY <1>1, <2>0, <2>6
  <2>4. filled = [bucket EXCEPT ![b] = more] /\ more \in Seq(Blocks(graph))
    BY <2>5, <2>7
  <2>1. filled \in [0..graph.size -> Seq(Blocks(graph))]
    BY <1>1, <1>3, <1>8, <2>4
  <2>2. ASSUME NEW q \in 0..graph.size
        PROVE  Range(filled[q]) = Range(bucket[q]) \cup (IF q = b THEN {w} ELSE {})
    <3>1. CASE q = b
      <4>1. PICK old : old = bucket[q]
        OBVIOUS
      <4>2. old \in Seq(Blocks(graph)) /\ filled[q] = Append(old, w)
        BY <1>1, <1>3, <1>8, <2>0, <2>4, <3>1, <4>1
      <4>3. Range(Append(old, w)) = Range(old) \cup {w}
        <5>1. PICK x : x = Append(old, w)
          OBVIOUS
        <5>2. /\ DOMAIN x = 1..(Len(old) + 1) /\ DOMAIN old = 1..Len(old) /\ Len(old) \in Nat
              /\ x[Len(old) + 1] = w /\ \A k \in 1..Len(old) : x[k] = old[k]
          BY <1>1, <4>2, <5>1
        <5>3. \A k \in DOMAIN x : k \in DOMAIN old \/ k = Len(old) + 1
          BY <5>2
        <5>4. Range(x) = Range(old) \cup {w}
          BY <5>2, <5>3 DEF Range
        <5>5. QED
          BY <5>1, <5>4
      <4>4. QED
        BY <3>1, <4>1, <4>2, <4>3
    <3>2. CASE q # b
      BY <1>8, <2>4, <3>2
    <3>3. QED
      BY <3>1, <3>2
  <2>3. QED
    BY <2>1, <2>2
<1>10. \A q \in 0..graph.size : \A v \in Range(filled[q]) : dfn[v] > c - 1 /\ vertex[s[v]] = q
  <2> TAKE q \in 0..graph.size
  <2> TAKE v \in Range(filled[q])
  <2>1. CASE v = w
    <3>1. v \notin Range(bucket[q])
      BY <1>1, <1>8, <2>1
    <3>2. q = b
      BY <1>9, <3>1
    <3>3. b = vertex[s[w]]
      BY DEF Iteration
    <3>4. QED
      BY <1>1, <2>1, <3>2, <3>3
  <2>2. CASE v # w
    <3>1. v \in Range(bucket[q])
      BY <1>9, <2>2
    <3>2. dfn[v] > c /\ vertex[semi[v]] = q /\ v \in Blocks(graph) /\ s[v] = semi[v]
      BY <1>2, <1>8, <2>2, <3>1
    <3>3. dfn[v] \in Nat
      BY <3>2, NumberedFacts
    <3>4. QED
      BY <1>1, <3>2, <3>3
  <2>3. QED
    BY <2>1, <2>2
<1>11. /\ wait \in [0..graph.size -> Seq(Blocks(graph))]
       /\ \A q \in 0..graph.size : wait[q] = IF q = p THEN << >> ELSE filled[q]
  <2>1. wait = [filled EXCEPT ![p] = << >>]
    BY DEF Iteration
  <2>2. QED
    BY <1>1, <1>4, <1>9, <2>1
<1>12. Waiting(s, wait, c - 1)
  <2>1. Range(<< >>) = {}
    BY DEF Range
  <2>2. QED
    BY <1>10, <1>11, <2>1 DEF Waiting
<1>13. /\ settled \in Verdicts /\ ForestFits(settled.forest, c - 1)
       /\ \A v \in Range(filled[p]) : Assigned(s, settled.idom, v)
       /\ \A v \in Blocks(graph) \ Range(filled[p]) : settled.idom[v] = idom[v]
  <2>1. PICK d : d = c - 1
    OBVIOUS
  <2>2. d \in Nat
    BY <1>1, <2>1
  <2>3. PICK waiting : waiting = filled[p]
    OBVIOUS
  <2>4. waiting \in Seq(Blocks(graph)) /\ \A v \in Range(waiting) : dfn[v] > d /\ vertex[linked.semi[v]] = p
    BY <1>1, <1>4, <1>5, <1>9, <1>10, <2>1, <2>3
  <2>5. idom \in [Blocks(graph) -> Blocks(graph)]
    BY DEF DominatedSoFar
  <2>6. ForestFits(linked.forest, d) /\ SemiFits(linked.semi, d)
    BY <1>5, <1>7, <2>1
  <2>7. settled = Settle(linked, waiting, p)
    BY <2>3 DEF Iteration
  <2>8. /\ settled \in Verdicts /\ ForestFits(settled.forest, d)
        /\ \A v \in Range(waiting) : Assigned(linked.semi, settled.idom, v)
        /\ \A v \in Blocks(graph) \ Range(waiting) : settled.idom[v] = idom[v]
    BY <1>4, <2>2, <2>4, <2>5, <2>6, <2>7, SettleFits
  <2>9. QED
    BY <1>5, <2>1, <2>3, <2>8
<1>14. ASSUME NEW v \in Numbered, dfn[v] > c - 1
       PROVE  Assigned(s, settled.idom, v) \/ WaitsIn(s, wait, c - 1, v)
  <2>1. CASE v \in Range(filled[p])
    BY <1>13, <2>1
  <2>2. CASE v \notin Range(filled[p])
    <3>1. dfn[v] >= c /\ dfn[v] \in c..counter /\ v \in Blocks(graph)
      BY <1>1, <1>14
    <3>2. AtOrAbove(s[v], dfn[v])
      BY <1>6, <3>1
    <3>3. PICK q : q = vertex[s[v]]
      OBVIOUS
    <3>4. ASSUME s[v] < c, q \in 0..graph.size, v \in Range(filled[q]) PROVE WaitsIn(s, wait, c - 1, v)
      <4>1. q # p
        BY <2>2, <3>4
      <4>2. ~ (s[v] >= c - 1)
        BY <3>1, <3>2, <3>3, <3>4, <4>1, WaitsForParent DEF Iteration
      <4>3. wait[q] = filled[q]
        BY <1>11, <3>4, <4>1
      <4>4. s[v] \in Nat
        BY <3>2 DEF AtOrAbove
      <4>5. QED
        BY <1>1, <3>3, <3>4, <4>2, <4>3, <4>4 DEF WaitsIn
    <3>5. CASE v = w
      <4>1. q = b
        BY <3>3, <3>5 DEF Iteration
      <4>2. QED
        BY <1>1, <1>2, <1>3, <1>9, <3>4, <3>5, <4>1
    <3>6. CASE v # w
      <4>1. dfn[v] > c /\ s[v] = semi[v] /\ settled.idom[v] = idom[v]
        BY <1>1, <1>2, <1>13, <2>2, <3>1, <3>6
      <4>2. CASE Assigned(semi, idom, v)
        BY <4>1, <4>2 DEF Assigned, Earlier
      <4>3. CASE WaitsIn(semi, bucket, c, v)
        <5>1. s[v] < c /\ v \in Range(bucket[q])
          BY <3>3, <4>1, <4>3 DEF WaitsIn
        <5>2. s[v] \in 1..counter
          BY <1>1, <3>1, <3>2 DEF AtOrAbove
        <5>3. q \in 0..graph.size
          BY <1>1, <3>3, <5>2, NumberedFacts
        <5>4. v \in Range(filled[q])
          BY <1>9, <5>1, <5>3
        <5>5. QED
          BY <3>4, <5>1, <5>3, <5>4
      <4>4. QED
        BY <4>1, <4>2, <4>3 DEF DominatedSoFar
    <3>7. QED
      BY <3>5, <3>6
  <2>3. QED
    BY <2>1, <2>2
<1>15. settled.idom \in [Blocks(graph) -> Blocks(graph)]
  BY <1>13 DEF Verdicts
<1>16. QED
  BY <1>7, <1>12, <1>13, <1>14, <1>15 DEF DominatedSoFar
LEMMA ProcessInv == ASSUME Inv, Process PROVE Inv'
<1>1. PICK c, w, p : c = i /\ w = vertex[c] /\ p = parent[w]
  OBVIOUS
<1>2. PICK st, s : st = SemiOf(w) /\ s = st.semi
  OBVIOUS
<1>3. PICK linked, b : linked = [st EXCEPT !.forest.ancestor[w] = p] /\ b = vertex[s[w]]
  OBVIOUS
<1>4. PICK filled : filled = [bucket EXCEPT ![b] = Append(@, w)]
  OBVIOUS
<1>5. PICK settled, wait : settled = Settle(linked, filled[p], p) /\ wait = [filled EXCEPT ![p] = << >>]
  OBVIOUS
<1>6. Iteration(c, w, p, st, linked, s, b, filled, settled, wait)
  BY <1>1, <1>2, <1>3, <1>4, <1>5 DEF Iteration
<1>7. /\ pc = "semi" /\ i >= 2 /\ i' = c - 1
      /\ UNCHANGED <<graph, pc, path, counter, dfn, vertex, parent>>
  BY <1>1 DEF Process, numbering
<1>8. /\ semi' = s /\ idom' = settled.idom /\ bucket' = wait
      /\ ancestor' = settled.forest.ancestor /\ label' = settled.forest.label
  BY <1>1, <1>2, <1>3, <1>4, <1>5 DEF Process
<1>9. Numbering /\ Scanned /\ Deciding
  BY <1>7 DEF Inv
<1>10. c \in 2..counter /\ counter \in Nat /\ path = << >>
  BY <1>1, <1>7, <1>9, NumberedFacts DEF Deciding
<1>11. /\ settled \in Verdicts /\ ForestFits(settled.forest, c - 1) /\ SemiFits(s, c - 1)
       /\ Waiting(s, wait, c - 1) /\ DominatedSoFar(s, wait, settled.idom, c - 1)
  <2>1. /\ ForestFits(Forest, c) /\ SemiFits(semi, c)
        /\ Waiting(semi, bucket, c) /\ DominatedSoFar(semi, bucket, idom, c)
    BY <1>1, <1>9 DEF Deciding
  <2>2. QED
    BY <1>6, <1>9, <1>10, <2>1, ProcessStep
<1>12. /\ Numbering' /\ Numbered' = Numbered /\ \A r, m : AtOrAbove(r, m)' <=> AtOrAbove(r, m)
       /\ \A k : ParentOf(k)' = ParentOf(k)
  BY <1>7, <1>9, UnchangedNumbering
<1>13. Scanned'
  BY <1>7, <1>9, <1>12 DEF Scanned, Looked, AtOrAbove
<1>14. PICK d, f, dom : d = c - 1 /\ f = settled.forest /\ dom = settled.idom
  OBVIOUS
<1>15. /\ semi' = s /\ idom' = dom /\ bucket' = wait /\ Forest' = f /\ i' = d
  <2>1. f = [ancestor |-> f.ancestor, label |-> f.label]
    BY <1>11, <1>14 DEF Verdicts, Forests
  <2>2. QED
    BY <1>7, <1>8, <1>14, <2>1 DEF Forest
<1>16. ForestFits(f, d)'
  BY <1>7, <1>11, <1>12, <1>14 DEF ForestFits, IsForest, Linked, Blocks, AtOrAbove
<1>17. SemiFits(s, d)'
  BY <1>7, <1>11, <1>12, <1>14 DEF SemiFits, Blocks, AtOrAbove
<1>18. Waiting(s, wait, d)'
  BY <1>7, <1>11, <1>14 DEF Waiting, Blocks
<1>19. DominatedSoFar(s, wait, dom, d)'
  BY <1>7, <1>11, <1>12, <1>14 DEF DominatedSoFar, Assigned, Earlier, WaitsIn, Blocks
<1>20. ForestFits(Forest, i)'
  BY <1>15, <1>16 DEF ForestFits
<1>21. (SemiFits(semi, i) /\ Waiting(semi, bucket, i) /\ DominatedSoFar(semi, bucket, idom, i))'
  BY <1>15, <1>17, <1>18, <1>19
    DEF SemiFits, Waiting, DominatedSoFar, Assigned, Earlier, WaitsIn
<1>22. Deciding'
  <2>1. (path = << >> /\ i \in 1..counter)'
    BY <1>7, <1>10
  <2>2. QED
    BY <1>20, <1>21, <2>1 DEF Deciding
<1>23. QED
  BY <1>7, <1>12, <1>13, <1>22 DEF Inv, Numbering

(* What the last loop reads stays as it is. *)
LEMMA UnchangedTables ==
  ASSUME Numbering, Scanned, Tables, idom' \in [Blocks(graph) -> Blocks(graph)],
         UNCHANGED <<graph, path, counter, dfn, vertex, parent, semi, label, ancestor, bucket>>
  PROVE  Numbering' /\ Scanned' /\ Tables' /\ Numbered' = Numbered
<1>1. /\ Numbering' /\ Numbered' = Numbered /\ \A r, m : AtOrAbove(r, m)' <=> AtOrAbove(r, m)
  BY UnchangedNumbering
<1>2. Scanned'
  BY <1>1 DEF Scanned, Looked, AtOrAbove
<1>3. SemiFits(semi, 1)'
  BY <1>1 DEF Tables, SemiFits, Blocks, AtOrAbove
<1>4. Waiting(semi, bucket, 1)'
  BY DEF Tables, Waiting, Blocks
<1>5. IsForest(Forest)'
  BY DEF Tables, IsForest, Forest, Blocks
<1>6. QED
  BY <1>1, <1>2, <1>3, <1>4, <1>5 DEF Tables, Blocks

LEMMA StartIdomInv == ASSUME Inv, StartIdom PROVE Inv'
<1>1. /\ pc = "semi" /\ i < 2 /\ pc' = "idom" /\ i' = 2
      /\ UNCHANGED <<graph, path, counter, dfn, vertex, parent, semi, label, ancestor, bucket, idom>>
  BY DEF StartIdom, numbering, tables
<1>2. Numbering /\ Scanned /\ Deciding
  BY <1>1 DEF Inv
<1>3. /\ counter \in Nat \ {0} /\ Numbered \subseteq Blocks(graph)
      /\ \A v \in Numbered : dfn[v] \in 1..counter
  BY <1>2, NumberedFacts
<1>4. i = 1
  BY <1>1, <1>2, <1>3 DEF Deciding
<1>5. /\ ForestFits(Forest, 1) /\ SemiFits(semi, 1) /\ Waiting(semi, bucket, 1)
      /\ DominatedSoFar(semi, bucket, idom, 1)
  BY <1>2, <1>4 DEF Deciding
<1>6. Tables
  BY <1>2, <1>5 DEF Tables, ForestFits, Deciding, DominatedSoFar
<1>7. Numbering' /\ Scanned' /\ Tables' /\ Numbered' = Numbered
  BY <1>1, <1>2, <1>6, UnchangedTables DEF Tables
<1>8. ASSUME NEW v \in Numbered, dfn[v] >= 2 PROVE Assigned(semi, idom, v)
  <2>1. dfn[v] > 1
    BY <1>3, <1>8
  <2>2. semi[v] >= 1
    BY <1>5, <2>1 DEF SemiFits, AtOrAbove
  <2>3. semi[v] \in Nat
    BY <1>3, <1>5 DEF SemiFits
  <2>4. ~ WaitsIn(semi, bucket, 1, v)
    BY <2>2, <2>3 DEF WaitsIn
  <2>5. QED
    BY <1>5, <2>1, <2>4 DEF DominatedSoFar
<1>9. Adjusting'
  <2>1. 2 \in 2..(counter + 1)
    BY <1>3
  <2>2. (\A v \in Numbered : dfn[v] >= 2 => Earlier(idom, v))'
    BY <1>1, <1>7, <1>8 DEF Assigned, Earlier
  <2>3. (\A v \in Numbered : dfn[v] >= i => Assigned(semi, idom, v))'
    BY <1>1, <1>7, <1>8 DEF Assigned, Earlier
  <2>4. QED
    BY <1>1, <1>7, <2>1, <2>2, <2>3 DEF Adjusting
<1>10. QED
  BY <1>1, <1>7, <1>9 DEF Inv, Numbering

LEMMA AdjustInv == ASSUME Inv, Adjust PROVE Inv'
<1>1. PICK n, w, d, dom :
        /\ n = i /\ w = vertex[n]
        /\ d = (IF idom[w] # vertex[semi[w]] THEN idom[idom[w]] ELSE idom[w])
        /\ dom = [idom EXCEPT ![w] = d]
  OBVIOUS
<1>2. /\ pc = "idom" /\ i <= counter /\ i' = n + 1
      /\ idom' = IF idom[w] # vertex[semi[w]] THEN [idom EXCEPT ![w] = idom[idom[w]]] ELSE idom
      /\ UNCHANGED <<graph, pc, path, counter, dfn, vertex, parent, semi, label, ancestor, bucket>>
  BY <1>1 DEF Adjust, numbering
<1>3. Numbering /\ Scanned /\ Adjusting /\ Tables
  BY <1>2 DEF Inv, Adjusting
<1>4. /\ counter \in Nat \ {0} /\ Numbered \subseteq Blocks(graph)
      /\ \A v \in Numbered : dfn[v] \in 1..counter
      /\ \A v, x \in Numbered : dfn[v] = dfn[x] => v = x
      /\ \A k \in 1..counter : vertex[k] \in Numbered
  BY <1>3, NumberedFacts
<1>5. n \in 2..counter /\ n \in Nat /\ n \in 1..counter
  BY <1>1, <1>2, <1>3, <1>4 DEF Adjusting
<1>6. w \in Numbered /\ w \in Blocks(graph) /\ dfn[w] = n
  BY <1>1, <1>3, <1>4, <1>5 DEF Numbering
<1>7. idom \in [Blocks(graph) -> Blocks(graph)]
  BY <1>3 DEF Tables
<1>8. d \in Blocks(graph) /\ dfn[d] \in 1..(n - 1)
  <2>1. PICK u : u = idom[w]
    OBVIOUS
  <2>2. dfn[u] \in 1..(n - 1) /\ u \in Blocks(graph) /\ (u = vertex[semi[w]] \/ dfn[u] >= 2)
    BY <1>1, <1>3, <1>5, <1>6, <1>7, <2>1 DEF Adjusting, Assigned, Earlier
  <2>3. CASE u = vertex[semi[w]]
    BY <1>1, <2>1, <2>2, <2>3
  <2>4. CASE u # vertex[semi[w]]
    <3>1. d = idom[u] /\ dfn[u] >= 2 /\ u \in Numbered
      BY <1>1, <2>1, <2>2, <2>4 DEF Numbered
    <3>2. dfn[idom[u]] \in 1..(dfn[u] - 1)
      BY <1>3, <3>1 DEF Adjusting, Earlier
    <3>3. QED
      BY <1>5, <1>7, <2>2, <3>1, <3>2
  <2>5. QED
    BY <2>3, <2>4
<1>9. /\ idom' = dom /\ dom \in [Blocks(graph) -> Blocks(graph)] /\ dom[w] = d
      /\ \A v \in Blocks(graph) : v # w => dom[v] = idom[v]
  <2>1. dom = [idom EXCEPT ![w] = d]
    BY <1>1
  <2>2. [idom EXCEPT ![w] = idom[w]] = idom
    BY <1>7
  <2>3. idom' = dom
    <3>1. CASE idom[w] # vertex[semi[w]]
      BY <1>1, <1>2, <3>1
    <3>2. CASE idom[w] = vertex[semi[w]]
      BY <1>1, <1>2, <2>2, <3>2
    <3>3. QED
      BY <3>1, <3>2
  <2>4. QED
    BY <1>6, <1>7, <1>8, <2>1, <2>3
<1>10. Numbering' /\ Scanned' /\ Tables' /\ Numbered' = Numbered
  BY <1>2, <1>3, <1>9, UnchangedTables
<1>11. ASSUME NEW v \in Numbered, dfn[v] >= 2 PROVE dfn[dom[v]] \in 1..(dfn[v] - 1)
  <2>1. CASE v = w
    BY <1>6, <1>8, <1>9, <2>1
  <2>2. CASE v # w
    BY <1>3, <1>4, <1>9, <1>11, <2>2 DEF Adjusting, Earlier
  <2>3. QED
    BY <2>1, <2>2
<1>12. ASSUME NEW v \in Numbered, dfn[v] >= n + 1
       PROVE  dom[v] = vertex[semi[v]] \/ dfn[dom[v]] >= 2
  <2>1. v # w /\ dfn[v] >= n /\ v \in Blocks(graph)
    BY <1>4, <1>5, <1>6, <1>12
  <2>2. QED
    BY <1>1, <1>3, <1>9, <2>1 DEF Adjusting, Assigned
<1>13. Adjusting'
  <2>1. (i \in 2..(counter + 1))'
    BY <1>2, <1>4, <1>5
  <2>2. (\A v \in Numbered : dfn[v] >= 2 => Earlier(idom, v))'
    BY <1>2, <1>9, <1>10, <1>11 DEF Earlier
  <2>3. \A v \in Numbered : dfn[v] >= n + 1 => dfn[v] >= 2
    BY <1>4, <1>5
  <2>4. (\A v \in Numbered : dfn[v] >= i => Assigned(semi, idom, v))'
    BY <1>2, <1>9, <1>10, <1>11, <1>12, <2>3 DEF Assigned, Earlier
  <2>5. QED
    BY <1>10, <2>1, <2>2, <2>4 DEF Adjusting
<1>14. QED
  BY <1>2, <1>10, <1>13 DEF Inv, Numbering

LEMMA FinishTreeInv == ASSUME Inv, FinishTree PROVE Inv'
<1>1. /\ pc = "idom" /\ i > counter /\ pc' = "done" /\ idom' = [idom EXCEPT ![graph.entry] = 0]
      /\ UNCHANGED <<graph, i, path, counter, dfn, vertex, parent, semi, label, ancestor, bucket>>
  BY DEF FinishTree, numbering
<1>2. Numbering /\ Scanned /\ Adjusting /\ Tables
  BY <1>1 DEF Inv, Adjusting
<1>3. /\ counter \in Nat \ {0} /\ Numbered \subseteq Blocks(graph) /\ 0 \in Blocks(graph)
      /\ graph.entry \in Numbered /\ dfn[graph.entry] = 1
  BY <1>2, NumberedFacts DEF Numbering
<1>4. i = counter + 1
  BY <1>1, <1>2, <1>3 DEF Adjusting
<1>5. /\ idom' \in [Blocks(graph) -> Blocks(graph)]
      /\ \A v \in Blocks(graph) : v # graph.entry => idom'[v] = idom[v]
  BY <1>1, <1>2, <1>3 DEF Tables
<1>6. Numbering' /\ Scanned' /\ Tables' /\ Numbered' = Numbered
  BY <1>1, <1>2, <1>5, UnchangedTables
<1>7. (\A v \in Numbered : dfn[v] >= 2 => Earlier(idom, v))'
  <2>1. ASSUME NEW v \in Numbered, dfn[v] >= 2 PROVE dfn[idom'[v]] \in 1..(dfn[v] - 1)
    <3>1. v # graph.entry /\ v \in Blocks(graph)
      BY <1>3, <2>1
    <3>2. QED
      BY <1>2, <1>5, <2>1, <3>1 DEF Adjusting, Earlier
  <2>2. QED
    BY <1>1, <1>6, <2>1 DEF Earlier
<1>8. QED
  BY <1>1, <1>4, <1>6, <1>7 DEF Inv, Finished, Numbering

LEMMA UnchangedInv == ASSUME Inv, UNCHANGED vars PROVE Inv'
<1>1. UNCHANGED <<graph, pc, i, path, counter, dfn, vertex, parent, semi, label, ancestor, bucket, idom>>
  BY DEF vars, numbering, tables
<1>2. CASE pc = "none"
  BY <1>1, <1>2 DEF Inv, Idle, IsFlowGraph
<1>3. CASE pc # "none"
  <2>1. Numbering /\ Scanned
    BY <1>3 DEF Inv
  <2>2. /\ Numbering' /\ Numbered' = Numbered
        /\ \A k : ParentOf(k)' = ParentOf(k)
        /\ \A r, m : AtOrAbove(r, m)' <=> AtOrAbove(r, m)
    BY <1>1, <2>1, UnchangedNumbering
  <2>3. Scanned'
    BY <1>1, <2>1, <2>2 DEF Scanned, Looked, AtOrAbove
  <2>4. Searching => Searching'
    BY <1>1, <2>2 DEF Searching, Entries, Blocks, Zero, AtOrAbove
  <2>5. Deciding => Deciding'
    <3>1. Forest' = Forest
      BY <1>1 DEF Forest
    <3>2. ForestFits(Forest, i) => ForestFits(Forest, i)'
      BY <1>1, <2>2, <3>1 DEF ForestFits, IsForest, Linked, Blocks, AtOrAbove
    <3>3. QED
      BY <1>1, <2>2, <3>2 DEF Deciding, SemiFits, Waiting, DominatedSoFar, Assigned, Earlier, WaitsIn, Blocks, AtOrAbove
  <2>6. ASSUME Tables PROVE Tables'
    BY <1>1, <2>1, <2>6, UnchangedTables DEF Tables
  <2>7. Adjusting => Adjusting'
    BY <1>1, <2>2, <2>6 DEF Adjusting, Assigned, Earlier
  <2>8. Finished => Finished'
    BY <1>1, <2>2, <2>6 DEF Finished, Earlier
  <2>9. QED
    BY <1>1, <1>3, <2>2, <2>3, <2>4, <2>5, <2>7, <2>8 DEF Inv, Numbering
<1>4. QED
  BY <1>2, <1>3

LEMMA NextInv == ASSUME Inv, [Next]_vars PROVE Inv'
<1>1. CASE Compute
  BY <1>1, ComputeInv
<1>2. CASE Descend
  BY <1>2, DescendInv
<1>3. CASE Ascend
  BY <1>3, AscendInv
<1>4. CASE StartSemi
  BY <1>4, StartSemiInv
<1>5. CASE Process
  BY <1>5, ProcessInv
<1>6. CASE StartIdom
  BY <1>6, StartIdomInv
<1>7. CASE Adjust
  BY <1>7, AdjustInv
<1>8. CASE FinishTree
  BY <1>8, FinishTreeInv
<1>9. CASE Return \/ UNCHANGED vars
  BY <1>9, UnchangedInv DEF Return
<1>10. QED
  BY <1>1, <1>2, <1>3, <1>4, <1>5, <1>6, <1>7, <1>8, <1>9 DEF Next
-----------------------------------------------------------------------------
(* compute_dominators keeps its tables as Inv says, whatever the graph: a  *)
(* semidominator lies above its block in the search tree, a forest of      *)
(* ancestors goes up that tree even where it stops short at block 0, and   *)
(* every block waiting in a bucket is given a dominator before it is read. *)
THEOREM TablesHold == ASSUME GraphsFit PROVE Spec => []Inv
<1>1. Init => Inv
  BY InitInv
<1>2. Inv /\ [Next]_vars => Inv'
  BY NextInv
<1>3. QED
  BY <1>1, <1>2, PTL DEF Spec

(* What the invariant says of the types, and of the table returned.        *)
LEMMA InvTypes == ASSUME Inv, pc # "none" PROVE TypeOK
<1>1. Numbering
  BY DEF Inv
<1>2. /\ counter \in Nat \ {0} /\ graph.size \in Nat \ {0} /\ counter <= graph.size
      /\ 0 \in Blocks(graph)
  BY <1>1, NumberedFacts
<1>3. dfn \in [Blocks(graph) -> 0..graph.size] /\ parent \in [Blocks(graph) -> Blocks(graph)]
  BY <1>1, <1>2 DEF Numbering
<1>4. Zero(graph) \in [Blocks(graph) -> Blocks(graph)]
  BY <1>2 DEF Zero
<1>5. Range(<< >>) = {}
  BY DEF Range
<1>6. /\ i \in 0..(graph.size + 1)
      /\ label \in [Blocks(graph) -> Blocks(graph)] /\ ancestor \in [Blocks(graph) -> Blocks(graph)]
      /\ idom \in [Blocks(graph) -> Blocks(graph)] /\ semi \in [Blocks(graph) -> 0..graph.size]
      /\ DOMAIN bucket = 0..graph.size /\ \A k \in 0..graph.size : Range(bucket[k]) \subseteq Blocks(graph)
  <2>1. CASE pc = "dfs"
    <3>1. Searching
      BY <2>1 DEF Inv
    <3>2. QED
      BY <1>2, <1>3, <1>4, <1>5, <3>1 DEF Searching
  <2>2. ASSUME IsForest(Forest) PROVE label \in [Blocks(graph) -> Blocks(graph)] /\ ancestor \in [Blocks(graph) -> Blocks(graph)]
    BY <2>2 DEF IsForest, Forest
  <2>3. ASSUME NEW c, Waiting(semi, bucket, c)
        PROVE  DOMAIN bucket = 0..graph.size /\ \A k \in 0..graph.size : Range(bucket[k]) \subseteq Blocks(graph)
    <3>1. bucket \in [0..graph.size -> Seq(Blocks(graph))]
      BY <2>3 DEF Waiting
    <3>2. QED
      BY <3>1 DEF Range
  <2>4. CASE pc = "semi"
    <3>1. Deciding
      BY <2>4 DEF Inv
    <3>2. i \in 0..(graph.size + 1)
      BY <1>2, <3>1 DEF Deciding
    <3>3. QED
      BY <2>2, <2>3, <3>1, <3>2 DEF Deciding, ForestFits, SemiFits, DominatedSoFar
  <2>5. CASE pc \in {"idom", "done"}
    <3>1. Tables /\ i \in 2..(counter + 1)
      BY <1>2, <2>5 DEF Inv, Adjusting, Finished
    <3>2. i \in 0..(graph.size + 1)
      BY <1>2, <3>1
    <3>3. QED
      BY <2>2, <2>3, <3>1, <3>2 DEF Tables, SemiFits
  <2>6. QED
    BY <2>1, <2>4, <2>5 DEF Inv
<1>7. pc \in {"dfs", "semi", "idom", "done"}
  BY DEF Inv
<1>8. counter \in 1..graph.size
  BY <1>1 DEF Numbering
<1>9. QED
  BY <1>3, <1>6, <1>7, <1>8 DEF TypeOK

LEMMA InvChains == ASSUME Inv PROVE ChainsEnd
<1>1. SUFFICES ASSUME pc = "done", NEW b \in Reachable \ {graph.entry}
               PROVE  dfn[idom[b]] # 0 /\ dfn[idom[b]] < dfn[b]
  BY DEF ChainsEnd
<1>2. Numbering /\ Scanned /\ Finished /\ path = << >>
  BY <1>1 DEF Inv, Finished, Tables
<1>3. /\ graph.entry \in Numbered /\ dfn[graph.entry] = 1 /\ Numbered \subseteq Blocks(graph)
      /\ graph.size \notin Blocks(graph)
      /\ \A v \in Numbered : dfn[v] \in Nat \ {0}
      /\ \A v, x \in Numbered : dfn[v] = dfn[x] => v = x
  BY <1>2, NumberedFacts DEF Numbering, Blocks
<1>4. ClosedAvoiding(graph.size, Numbered)
  <2>1. SUFFICES ASSUME NEW v \in Numbered, NEW w \in Range(graph.succ[v]) PROVE w \in Numbered
    BY DEF ClosedAvoiding
  <2>2. graph.succ[v] \in Seq(Blocks(graph))
    BY <1>2, <1>3 DEF Numbering, IsFlowGraph, Blocks
  <2>3. PICK e \in DOMAIN graph.succ[v] : graph.succ[v][e] = w
    BY DEF Range
  <2>4. Looked(v, e)
    BY <1>2 DEF Looked
  <2>5. dfn[w] # 0
    BY <1>2, <2>3, <2>4 DEF Scanned
  <2>6. QED
    BY <2>2, <2>3, <2>5 DEF Numbered
<1>5. b \in Numbered
  BY <1>3, <1>4 DEF Reachable, Avoiding
<1>6. dfn[b] >= 2
  BY <1>1, <1>3, <1>5
<1>7. QED
  BY <1>2, <1>3, <1>5, <1>6 DEF Finished, Earlier

(* All the tables of compute_dominators stay within their types: no index  *)
(* taken from one of them leaves another.                                  *)
THEOREM TypeCorrectness == ASSUME GraphsFit PROVE Spec => [](pc = "none" \/ TypeOK)
<1>1. Inv => (pc = "none" \/ TypeOK)
  BY InvTypes
<1>2. QED
  BY <1>1, TablesHold, PTL

(* Following the dominators that compute_dominators gives ends at the      *)
(* entry, on every graph, even where the dominators are not the right      *)
(* ones: each is a block the search found before the one it dominates, so  *)
(* dominator_tree::dominates comes back.                                   *)
THEOREM EveryChainEnds == ASSUME GraphsFit PROVE Spec => []ChainsEnd
<1>1. Inv => ChainsEnd
  BY InvChains
<1>2. QED
  BY <1>1, TablesHold, PTL

-----------------------------------------------------------------------------
(* postorder.  What a visit answers, and what is taken for a visit: it     *)
(* never forgets what has been visited before.                             *)
Results(g) == [visited : SUBSET Blocks(g), result : Seq(Blocks(g))]
Visits(g) == UNION {[Blocks(g) \ S -> Results(g)] : S \in SUBSET Blocks(g)}
IsVisit(g, v) ==
  /\ v \in [SUBSET Blocks(g) -> Visits(g)]
  /\ \A S \in SUBSET Blocks(g) : v[S] \in [Blocks(g) \ S -> Results(g)]
  /\ \A S \in SUBSET Blocks(g) : \A b \in Blocks(g) \ S : S \cup {b} \subseteq v[S][b].visited

(* The loop over the edges of b, edge by edge.                             *)
Looking(g, v, S, b, run) ==
  /\ run \in [0..Len(g.succ[b]) -> Results(g)]
  /\ run[0] = [visited |-> S \cup {b}, result |-> << >>]
  /\ \A k \in 1..Len(g.succ[b]) : run[k] = Further(run[k - 1], g.succ[b][k], v)
  /\ \A k \in 0..Len(g.succ[b]) : S \cup {b} \subseteq run[k].visited

LEMMA FurtherType ==
  ASSUME NEW g, NEW v, IsVisit(g, v), NEW t \in Results(g), NEW c \in Blocks(g)
  PROVE  Further(t, c, v) \in Results(g) /\ t.visited \subseteq Further(t, c, v).visited
<1>1. CASE c \in t.visited
  BY <1>1 DEF Further
<1>2. CASE c \notin t.visited
  <2>1. t.visited \in SUBSET Blocks(g) /\ c \in Blocks(g) \ t.visited /\ t.result \in Seq(Blocks(g))
    BY <1>2 DEF Results
  <2>2. PICK more : more = v[t.visited][c]
    OBVIOUS
  <2>3. more \in Results(g) /\ t.visited \subseteq more.visited
    BY <2>1, <2>2 DEF IsVisit
  <2>4. more.visited \in SUBSET Blocks(g) /\ more.result \in Seq(Blocks(g))
    BY <2>3 DEF Results
  <2>5. t.result \o more.result \in Seq(Blocks(g))
    BY <2>1, <2>4
  <2>6. Further(t, c, v) = [visited |-> more.visited, result |-> t.result \o more.result]
    BY <1>2, <2>2 DEF Further
  <2>7. QED
    BY <2>3, <2>4, <2>5, <2>6 DEF Results
<1>3. QED
  BY <1>1, <1>2

LEMMA EdgeFacts ==
  ASSUME NEW g, IsFlowGraph(g), NEW b \in Blocks(g)
  PROVE  /\ g.succ[b] \in Seq(Blocks(g)) /\ Len(g.succ[b]) \in Nat
         /\ DOMAIN g.succ[b] = 1..Len(g.succ[b])
         /\ \A k \in 1..Len(g.succ[b]) : g.succ[b][k] \in Blocks(g)
<1>1. g.succ[b] \in Seq(Blocks(g))
  BY DEF IsFlowGraph, Blocks
<1>2. QED
  BY <1>1

LEMMA LoopExists ==
  ASSUME NEW g, IsFlowGraph(g), NEW v, IsVisit(g, v),
         NEW S \in SUBSET Blocks(g), NEW b \in Blocks(g)
  PROVE  \E run : Looking(g, v, S, b, run)
<1> DEFINE n == Len(g.succ[b])
           start == [visited |-> S \cup {b}, result |-> << >>]
           A == Results(g)
           F == [k \in 1..n |-> [t \in A |-> Further(t, g.succ[b][k], v)]]
<1>1. n \in Nat /\ \A k \in 1..n : g.succ[b][k] \in Blocks(g)
  BY EdgeFacts
<1>2. start \in A
  BY DEF Results
<1>3. \A k \in 1..n : \A t \in A :
        Further(t, g.succ[b][k], v) \in A /\ t.visited \subseteq Further(t, g.succ[b][k], v).visited
  BY <1>1, FurtherType
<1>4. F \in [1..n -> [A -> A]]
  BY <1>3
<1> HIDE DEF A, n
<1>5. PICK h : Follows(h, n, A, start, F)
  <2> HIDE DEF F, start
  <2>1. QED
    BY <1>1, <1>2, <1>4, Recursion
<1>6. h \in [0..n -> A] /\ h[0] = start /\ \A k \in 1..n : h[k] = F[k][h[k - 1]]
  BY <1>5 DEF Follows
<1>7. \A k \in 1..n : h[k - 1] \in A /\ h[k] = Further(h[k - 1], g.succ[b][k], v)
  <2>1. \A k \in 1..n : k - 1 \in 0..n
    BY <1>1
  <2>2. QED
    BY <1>6, <2>1
<1>8. \A k \in 0..n : S \cup {b} \subseteq h[k].visited
  <2> DEFINE P == {k \in 0..n : S \cup {b} \subseteq h[k].visited}
  <2>1. 0 \in P
    BY <1>1, <1>6
  <2>2. ASSUME NEW k \in 0..(n - 1), k \in P PROVE k + 1 \in P
    <3>1. k + 1 \in 1..n /\ k + 1 \in 0..n /\ (k + 1) - 1 = k
      BY <1>1
    <3>2. h[k].visited \subseteq h[k + 1].visited
      BY <1>3, <1>7, <3>1
    <3>3. QED
      BY <2>2, <3>1, <3>2
  <2>3. 0..n \subseteq P
    <3> HIDE DEF P
    <3>1. QED
      BY <1>1, <2>1, <2>2, Counting
  <2>4. QED
    BY <2>3
<1>9. QED
  BY <1>6, <1>7, <1>8 DEF Looking, A, n

(* The loop of a function that answers as v does whenever more has been    *)
(* visited ends as the loop of v.                                          *)
LEMMA LoopAgrees ==
  ASSUME NEW g, IsFlowGraph(g), NEW v, NEW S \in SUBSET Blocks(g), NEW b \in Blocks(g) \ S,
         NEW run, Looking(g, v, S, b, run),
         NEW w, \A T \in SUBSET Blocks(g) : S \cup {b} \subseteq T => w[T] = v[T]
  PROVE  AfterEdges(g, w, S, b) = run[Len(g.succ[b])]
<1> DEFINE n == Len(g.succ[b])
           start == [visited |-> S \cup {b}, result |-> << >>]
           Runs(h) == h = [k \in 0..n |-> IF k = 0 THEN start ELSE Further(h[k - 1], g.succ[b][k], w)]
           upto == CHOOSE h : Runs(h)
<1>1. n \in Nat
  BY EdgeFacts
<1>2. AfterEdges(g, w, S, b) = upto[n]
  BY DEF AfterEdges
<1>3. /\ run \in [0..n -> Results(g)] /\ run[0] = start
      /\ \A k \in 1..n : run[k] = Further(run[k - 1], g.succ[b][k], w)
  <2>1. \A k \in 1..n : run[k - 1] \in Results(g) /\ S \cup {b} \subseteq run[k - 1].visited
    <3>1. \A k \in 1..n : k - 1 \in 0..n
      BY <1>1
    <3>2. QED
      BY <3>1 DEF Looking
  <2>2. \A k \in 1..n : w[run[k - 1].visited] = v[run[k - 1].visited]
    BY <2>1 DEF Results
  <2>3. \A k \in 1..n : Further(run[k - 1], g.succ[b][k], w) = Further(run[k - 1], g.succ[b][k], v)
    BY <2>2 DEF Further
  <2>4. QED
    BY <2>3 DEF Looking
<1>4. Runs(upto)
  <2> DEFINE r(k) == IF k = 0 THEN start ELSE Further(run[k - 1], g.succ[b][k], w)
  <2>1. \A k \in 0..n : k = 0 \/ k \in 1..n
    BY <1>1
  <2>2. \A k \in 0..n : run[k] = r(k)
    BY <1>3, <2>1
  <2> HIDE DEF r
  <2>3. run = [k \in 0..n |-> r(k)]
    BY <1>3, <2>2
  <2>4. Runs(run)
    BY <2>3 DEF r
  <2>5. \E h : Runs(h)
    <3> HIDE DEF Runs
    <3>1. QED
      BY <2>4
  <2>6. QED
    <3> HIDE DEF Runs
    <3>1. QED
      BY <2>5
<1>5. upto[0] = start /\ \A k \in 1..n : upto[k] = Further(upto[k - 1], g.succ[b][k], w)
  <2> HIDE DEF upto
  <2> DEFINE r(k) == IF k = 0 THEN start ELSE Further(upto[k - 1], g.succ[b][k], w)
  <2>1. upto = [k \in 0..n |-> r(k)]
    BY <1>4
  <2>2. r(0) = start /\ \A k \in 1..n : r(k) = Further(upto[k - 1], g.succ[b][k], w)
    BY <1>1
  <2>3. 0 \in 0..n /\ \A k \in 1..n : k \in 0..n
    BY <1>1
  <2> HIDE DEF r
  <2>4. \A k \in 0..n : upto[k] = r(k)
    BY <2>1
  <2>5. QED
    BY <2>2, <2>3, <2>4
<1> HIDE DEF upto, start
<1> DEFINE P == {k \in 0..n : upto[k] = run[k]}
<1>6. 0 \in P
  BY <1>1, <1>3, <1>5
<1>7. ASSUME NEW k \in 0..(n - 1), k \in P PROVE k + 1 \in P
  <2>1. k + 1 \in 1..n /\ k + 1 \in 0..n /\ (k + 1) - 1 = k
    BY <1>1
  <2>2. upto[k + 1] = Further(upto[k], g.succ[b][k + 1], w) /\ run[k + 1] = Further(run[k], g.succ[b][k + 1], w)
    BY <1>3, <1>5, <2>1
  <2>3. QED
    BY <1>7, <2>1, <2>2
<1>8. 0..n \subseteq P
  <2> HIDE DEF P, n
  <2>1. QED
    BY <1>1, <1>6, <1>7, Counting
<1>9. QED
  BY <1>1, <1>2, <1>8

(* The blocks not visited: fewer in every call a visit makes.              *)
Left(g, S) == Cardinality(Blocks(g) \ S)

LEMMA LeftFacts ==
  ASSUME NEW g, IsFlowGraph(g), NEW S \in SUBSET Blocks(g)
  PROVE  /\ Left(g, S) \in 0..g.size
         /\ \A b \in Blocks(g) \ S : \A T \in SUBSET Blocks(g) : S \cup {b} \subseteq T => Left(g, T) < Left(g, S)
<1> DEFINE B == Blocks(g)
<1>1. g.size \in Nat /\ g.size \in Int /\ g.size - 1 \in Int /\ 0 \in Int /\ B = 0..(g.size - 1)
  BY DEF IsFlowGraph, Blocks
<1>2. IsFiniteSet(B) /\ Cardinality(B) = g.size
  <2>1. PICK m \in Int : m = g.size - 1
    BY <1>1
  <2>2. IsFiniteSet(0..m) /\ Cardinality(0..m) = IF 0 > m THEN 0 ELSE m - 0 + 1
    BY <1>1, FS_Interval
  <2>3. g.size # 0
    BY DEF IsFlowGraph
  <2>4. QED
    BY <1>1, <2>1, <2>2, <2>3
<1> HIDE DEF B
<1>3. \A T \in SUBSET B : IsFiniteSet(B \ T) /\ Cardinality(B \ T) \in Nat
  <2> TAKE T \in SUBSET B
  <2>1. B \ T \in SUBSET B
    OBVIOUS
  <2>2. QED
    BY <1>2, <2>1, FS_Subset, FS_CardinalityType
<1>4. Left(g, S) \in 0..g.size
  <2>1. B \ S \in SUBSET B
    OBVIOUS
  <2>2. Cardinality(B \ S) <= Cardinality(B)
    BY <1>2, <2>1, FS_Subset
  <2>3. S \in SUBSET B
    BY DEF B
  <2>4. Cardinality(B \ S) \in Nat
    BY <1>3, <2>3
  <2>5. QED
    BY <1>1, <1>2, <2>2, <2>4 DEF Left, B
<1>5. ASSUME NEW b \in B \ S, NEW T \in SUBSET B, S \cup {b} \subseteq T
      PROVE  Left(g, T) < Left(g, S)
  <2>1. B \ T \in SUBSET (B \ S) /\ B \ T # B \ S
    BY <1>5
  <2>2. IsFiniteSet(B \ S) /\ Cardinality(B \ S) \in Nat /\ Cardinality(B \ T) \in Nat
    BY <1>3, <1>5 DEF B
  <2>3. Cardinality(B \ T) <= Cardinality(B \ S) /\ Cardinality(B \ T) # Cardinality(B \ S)
    BY <2>1, <2>2, FS_Subset
  <2>4. QED
    BY <2>2, <2>3 DEF Left, B
<1>6. QED
  BY <1>4, <1>5 DEF B

(* A visit with calls to v, and what makes a function the recursion.       *)
Visited(g, v, S) == [b \in Blocks(g) \ S |-> Listed(AfterEdges(g, v, S, b), b)]
Recursive(g, v) == v = [S \in SUBSET Blocks(g) |-> Visited(g, v, S)]

LEMMA ListedType ==
  ASSUME NEW g, NEW t \in Results(g), NEW b \in Blocks(g)
  PROVE  Listed(t, b) \in Results(g) /\ Listed(t, b).visited = t.visited
           /\ Listed(t, b).result = Append(t.result, b)
<1>1. t.result \in Seq(Blocks(g))
  BY DEF Results
<1>2. Append(t.result, b) \in Seq(Blocks(g))
  BY <1>1
<1>3. QED
  BY <1>2 DEF Results, Listed

(* One more level of calls.                                                *)
LEMMA VisitedAgain ==
  ASSUME NEW g, IsFlowGraph(g), NEW v, IsVisit(g, v)
  PROVE  IsVisit(g, [S \in SUBSET Blocks(g) |-> Visited(g, v, S)])
<1> DEFINE w == [S \in SUBSET Blocks(g) |-> Visited(g, v, S)]
<1>1. ASSUME NEW S \in SUBSET Blocks(g), NEW b \in Blocks(g) \ S
      PROVE  /\ Listed(AfterEdges(g, v, S, b), b) \in Results(g)
             /\ S \cup {b} \subseteq Listed(AfterEdges(g, v, S, b), b).visited
  <2>1. PICK run : Looking(g, v, S, b, run)
    BY LoopExists
  <2>2. AfterEdges(g, v, S, b) = run[Len(g.succ[b])]
    BY <2>1, LoopAgrees
  <2>3. Len(g.succ[b]) \in 0..Len(g.succ[b])
    BY EdgeFacts
  <2>4. AfterEdges(g, v, S, b) \in Results(g) /\ S \cup {b} \subseteq AfterEdges(g, v, S, b).visited
    BY <2>1, <2>2, <2>3 DEF Looking
  <2>5. QED
    BY <2>4, ListedType
<1>2. \A S \in SUBSET Blocks(g) : w[S] \in [Blocks(g) \ S -> Results(g)]
  BY <1>1 DEF Visited
<1>3. \A S \in SUBSET Blocks(g) : \A b \in Blocks(g) \ S : S \cup {b} \subseteq w[S][b].visited
  BY <1>1 DEF Visited
<1>4. w \in [SUBSET Blocks(g) -> Visits(g)]
  <2>1. \A S \in SUBSET Blocks(g) : w[S] \in Visits(g)
    <3> HIDE DEF w
    <3>1. ASSUME NEW S \in SUBSET Blocks(g) PROVE w[S] \in Visits(g)
      <4>1. PICK X : X = [Blocks(g) \ S -> Results(g)]
        OBVIOUS
      <4>2. X \in {[Blocks(g) \ R -> Results(g)] : R \in SUBSET Blocks(g)}
        BY <4>1
      <4>3. w[S] \in X
        BY <1>2, <4>1
      <4>4. QED
        BY <4>2, <4>3 DEF Visits
    <3>2. QED
      BY <3>1
  <2>2. QED
    BY <2>1
<1>5. QED
  BY <1>2, <1>3, <1>4 DEF IsVisit

(* Functions that agree on all greater sets agree on S.                    *)
LEMMA VisitedAgrees ==
  ASSUME NEW g, IsFlowGraph(g), NEW v, IsVisit(g, v), NEW w, NEW S \in SUBSET Blocks(g),
         \A T \in SUBSET Blocks(g) : Left(g, T) < Left(g, S) => w[T] = v[T]
  PROVE  Visited(g, w, S) = Visited(g, v, S)
<1>1. ASSUME NEW b \in Blocks(g) \ S PROVE AfterEdges(g, w, S, b) = AfterEdges(g, v, S, b)
  <2>1. PICK run : Looking(g, v, S, b, run)
    BY LoopExists
  <2>2. \A T \in SUBSET Blocks(g) : S \cup {b} \subseteq T => w[T] = v[T]
    BY LeftFacts
  <2>3. AfterEdges(g, v, S, b) = run[Len(g.succ[b])]
    BY <2>1, LoopAgrees
  <2>4. AfterEdges(g, w, S, b) = run[Len(g.succ[b])]
    BY <2>1, <2>2, LoopAgrees
  <2>5. QED
    BY <2>3, <2>4
<1>2. QED
  BY <1>1 DEF Visited

(* The calls end: there is one function that is the recursion.             *)
LEMMA VisitExists ==
  ASSUME NEW g, IsFlowGraph(g)
  PROVE  \E v : IsVisit(g, v) /\ Recursive(g, v)
<1> DEFINE n == g.size + 2
           A == {v \in [SUBSET Blocks(g) -> Visits(g)] : IsVisit(g, v)}
           first == [S \in SUBSET Blocks(g) |-> [b \in Blocks(g) \ S |-> [visited |-> Blocks(g), result |-> << >>]]]
           next(v) == [S \in SUBSET Blocks(g) |-> Visited(g, v, S)]
           F == [m \in 1..n |-> [v \in A |-> next(v)]]
<1>1. g.size \in Nat /\ n \in Nat
  BY DEF IsFlowGraph
<1>2. first \in A
  <2>1. [visited |-> Blocks(g), result |-> << >>] \in Results(g)
    BY DEF Results
  <2>2. \A S \in SUBSET Blocks(g) : first[S] \in [Blocks(g) \ S -> Results(g)]
    BY <2>1
  <2>3. \A S \in SUBSET Blocks(g) : \A b \in Blocks(g) \ S : S \cup {b} \subseteq first[S][b].visited
    OBVIOUS
  <2>4. first \in [SUBSET Blocks(g) -> Visits(g)]
    <3>1. DOMAIN first = SUBSET Blocks(g) /\ first = [S \in DOMAIN first |-> first[S]]
      OBVIOUS
    <3> HIDE DEF first
    <3>2. ASSUME NEW S \in SUBSET Blocks(g) PROVE first[S] \in Visits(g)
      <4>1. PICK X : X = [Blocks(g) \ S -> Results(g)]
        OBVIOUS
      <4>2. X \in {[Blocks(g) \ R -> Results(g)] : R \in SUBSET Blocks(g)}
        BY <4>1
      <4>3. first[S] \in X
        BY <2>2, <4>1
      <4>4. QED
        BY <4>2, <4>3 DEF Visits
    <3>3. QED
      BY <3>1, <3>2
  <2> HIDE DEF first
  <2>5. QED
    BY <2>2, <2>3, <2>4 DEF IsVisit
<1>3. \A v \in A : next(v) \in A
  <2> TAKE v \in A
  <2>1. IsVisit(g, next(v))
    BY VisitedAgain
  <2>2. next(v) \in [SUBSET Blocks(g) -> Visits(g)]
    BY <2>1 DEF IsVisit
  <2> HIDE DEF next
  <2>3. QED
    BY <2>1, <2>2
<1>4. \A v \in A : \A S \in SUBSET Blocks(g) : next(v)[S] = Visited(g, v, S)
  OBVIOUS
<1>5. PICK h : Follows(h, n, A, first, F)
  <2>1. F \in [1..n -> [A -> A]]
    <3> HIDE DEF A, n, next
    <3>1. QED
      BY <1>3
  <2> HIDE DEF F, first, A, n
  <2>2. QED
    BY <1>1, <1>2, <2>1, Recursion
<1>6. /\ \A m \in 0..n : h[m] \in A
      /\ \A m \in 1..n : h[m] = next(h[m - 1])
  <2> HIDE DEF A, next
  <2>1. h \in [0..n -> A] /\ \A m \in 1..n : h[m] = F[m][h[m - 1]]
    BY <1>5 DEF Follows
  <2>2. \A m \in 1..n : m - 1 \in 0..n
    BY <1>1
  <2>3. \A m \in 1..n : h[m - 1] \in A
    BY <2>1, <2>2
  <2>4. QED
    BY <2>1, <2>3
<1> HIDE DEF A, next, F, first
<1> DEFINE k == g.size + 1
           Same(m) == \A S \in SUBSET Blocks(g) : Left(g, S) < m => h[m + 1][S] = h[m][S]
           P == {m \in 0..k : Same(m)}
<1>7. \A S \in SUBSET Blocks(g) : Left(g, S) \in 0..g.size
  BY LeftFacts
<1>8. 0 \in P
  BY <1>1, <1>7
<1>9. ASSUME NEW m \in 0..(k - 1), m \in P PROVE m + 1 \in P
  <2>1. PICK j : j = m + 1
    OBVIOUS
  <2>2. j \in 0..k /\ m \in 0..n /\ j \in 0..n /\ j \in 1..n /\ j + 1 \in 1..n /\ j - 1 = m /\ (j + 1) - 1 = j
        /\ m \in Nat
    BY <1>1, <2>1
  <2>3. ASSUME NEW S \in SUBSET Blocks(g), Left(g, S) < j PROVE h[j + 1][S] = h[j][S]
    <3>1. h[j + 1][S] = Visited(g, h[j], S) /\ h[j][S] = Visited(g, h[m], S)
      <4>1. h[j + 1] = next(h[j]) /\ h[j] = next(h[m]) /\ h[j] \in A /\ h[m] \in A
        BY <1>6, <2>2
      <4>2. QED
        BY <1>4, <4>1
    <3>2. IsVisit(g, h[m])
      BY <1>6, <2>2 DEF A
    <3>3. \A T \in SUBSET Blocks(g) : Left(g, T) < Left(g, S) => Left(g, T) < m
      BY <1>7, <2>1, <2>2, <2>3
    <3>4. \A T \in SUBSET Blocks(g) : Left(g, T) < Left(g, S) => h[j][T] = h[m][T]
      BY <1>9, <2>1, <3>3
    <3>5. Visited(g, h[j], S) = Visited(g, h[m], S)
      BY <3>2, <3>4, VisitedAgrees
    <3>6. QED
      BY <3>1, <3>5
  <2>4. QED
    BY <2>1, <2>2, <2>3
<1>10. k \in P
  <2>1. k \in Nat /\ k \in 0..k
    BY <1>1
  <2> HIDE DEF P, k
  <2>2. 0..k \subseteq P
    BY <1>8, <1>9, <2>1, Counting
  <2>3. QED
    BY <2>1, <2>2
<1>11. k \in 0..n /\ k + 1 \in 1..n /\ (k + 1) - 1 = k /\ \A S \in SUBSET Blocks(g) : Left(g, S) < k
  BY <1>1, <1>7
<1>12. \A S \in SUBSET Blocks(g) : h[k][S] = Visited(g, h[k], S)
  <2>1. h[k + 1] = next(h[k]) /\ h[k] \in A
    BY <1>6, <1>11
  <2>2. \A S \in SUBSET Blocks(g) : h[k + 1][S] = Visited(g, h[k], S)
    BY <1>4, <2>1
  <2>3. \A S \in SUBSET Blocks(g) : h[k + 1][S] = h[k][S]
    BY <1>10, <1>11
  <2>4. QED
    BY <2>2, <2>3
<1>13. IsVisit(g, h[k])
  BY <1>6, <1>11 DEF A
<1> DEFINE v == h[k]
<1>14. v \in [SUBSET Blocks(g) -> Visits(g)] /\ \A S \in SUBSET Blocks(g) : v[S] = Visited(g, v, S)
  BY <1>12, <1>13 DEF IsVisit
<1>15. Recursive(g, v)
  <2> HIDE DEF v
  <2>1. v = [S \in SUBSET Blocks(g) |-> v[S]]
    BY <1>14
  <2>2. QED
    BY <1>14, <2>1 DEF Recursive
<1>16. QED
  BY <1>13, <1>15

(* What VisitAfter computes.                                               *)
LEMMA VisitIs ==
  ASSUME NEW g, IsFlowGraph(g)
  PROVE  /\ IsVisit(g, VisitAfter(g))
         /\ \A S \in SUBSET Blocks(g) : VisitAfter(g)[S] = Visited(g, VisitAfter(g), S)
<1> DEFINE w == CHOOSE v : Recursive(g, v)
<1>1. VisitAfter(g) = w
  BY DEF VisitAfter, Recursive, Visited
<1>2. PICK v : IsVisit(g, v) /\ Recursive(g, v)
  BY VisitExists
<1>3. Recursive(g, w)
  BY <1>2
<1> HIDE DEF w
<1>4. /\ \A S \in SUBSET Blocks(g) : w[S] = Visited(g, w, S)
      /\ \A S \in SUBSET Blocks(g) : v[S] = Visited(g, v, S)
  <2>1. \A f : Recursive(g, f) => \A S \in SUBSET Blocks(g) : f[S] = Visited(g, f, S)
    <3> TAKE f
    <3> HAVE Recursive(g, f)
    <3> DEFINE r == [S \in SUBSET Blocks(g) |-> Visited(g, f, S)]
    <3>1. f = r
      BY DEF Recursive
    <3>2. \A S \in SUBSET Blocks(g) : r[S] = Visited(g, f, S)
      OBVIOUS
    <3> HIDE DEF r
    <3>3. QED
      BY <3>1, <3>2
  <2>2. QED
    BY <1>2, <1>3, <2>1
<1> DEFINE n == g.size + 1
           P == {m \in 0..n : \A S \in SUBSET Blocks(g) : Left(g, S) < m => w[S] = v[S]}
<1>5. n \in Nat /\ g.size \in Nat /\ \A S \in SUBSET Blocks(g) : Left(g, S) \in 0..g.size
  <2>1. g.size \in Nat
    BY DEF IsFlowGraph
  <2>2. QED
    BY <2>1, LeftFacts
<1>6. 0 \in P
  BY <1>5
<1>7. ASSUME NEW m \in 0..(n - 1), m \in P PROVE m + 1 \in P
  <2>1. m + 1 \in 0..n /\ m \in Nat
    BY <1>5
  <2>2. ASSUME NEW S \in SUBSET Blocks(g), Left(g, S) < m + 1 PROVE w[S] = v[S]
    <3>1. \A T \in SUBSET Blocks(g) : Left(g, T) < Left(g, S) => Left(g, T) < m
      BY <1>5, <2>1, <2>2
    <3>2. \A T \in SUBSET Blocks(g) : Left(g, T) < Left(g, S) => w[T] = v[T]
      BY <1>7, <3>1
    <3>3. Visited(g, w, S) = Visited(g, v, S)
      BY <1>2, <3>2, VisitedAgrees
    <3>4. QED
      BY <1>4, <3>3
  <2>3. QED
    BY <2>1, <2>2
<1>8. n \in P
  <2>1. n \in 0..n
    BY <1>5
  <2> HIDE DEF P, n
  <2>2. 0..n \subseteq P
    BY <1>5, <1>6, <1>7, Counting
  <2>3. QED
    BY <2>1, <2>2
<1>9. \A S \in SUBSET Blocks(g) : w[S] = v[S]
  BY <1>5, <1>8
<1>10. w = v
  <2>1. w = [S \in SUBSET Blocks(g) |-> Visited(g, w, S)] /\ v = [S \in SUBSET Blocks(g) |-> Visited(g, v, S)]
    BY <1>2, <1>3 DEF Recursive
  <2>2. \A S \in SUBSET Blocks(g) : Visited(g, w, S) = Visited(g, v, S)
    BY <1>4, <1>9
  <2>3. QED
    BY <2>1, <2>2
<1>11. QED
  BY <1>1, <1>2, <1>4, <1>10

(* Every way on from c comes to u.                                         *)
Leads(g, c, u) ==
  \A T \in SUBSET Blocks(g) : c \in T /\ (\A b \in T : Range(g.succ[b]) \subseteq T) => u \in T

(* What a list promises that begins when the blocks of R are visited, of   *)
(* what follows a: it lists each block visited since once, and all they    *)
(* lead to has been visited too, was listed before or leads back.          *)
After(g, R, list, j, c) == c \in R \/ (\E k \in 1..(j - 1) : list[k] = c) \/ Leads(g, c, list[j])
Lists(g, R, a, t) ==
  /\ t \in Results(g)
  /\ t.visited = R \cup Range(t.result) /\ R \cap Range(t.result) = {}
  /\ IsInjective(t.result)
  /\ \A u \in Range(t.result) : Range(g.succ[u]) \subseteq t.visited /\ Leads(g, a, u)
  /\ \A j \in DOMAIN t.result : \A c \in Range(g.succ[t.result[j]]) : After(g, R, t.result, j, c)

LEMMA Joining ==
  ASSUME NEW A, NEW l \in Seq(A), NEW m \in Seq(A)
  PROVE  /\ l \o m \in Seq(A) /\ Len(l) \in Nat /\ Len(m) \in Nat
         /\ DOMAIN l = 1..Len(l) /\ DOMAIN m = 1..Len(m) /\ DOMAIN (l \o m) = 1..(Len(l) + Len(m))
         /\ \A k \in 1..Len(l) : (l \o m)[k] = l[k]
         /\ \A k \in 1..Len(m) : (l \o m)[Len(l) + k] = m[k]
         /\ \A k \in 1..(Len(l) + Len(m)) : k \in 1..Len(l) \/ \E j \in 1..Len(m) : k = Len(l) + j
         /\ Range(l \o m) = Range(l) \cup Range(m)
<1> DEFINE n == l \o m
<1>1. n \in Seq(A) /\ Len(l) \in Nat /\ Len(m) \in Nat /\ Len(n) = Len(l) + Len(m)
      /\ DOMAIN l = 1..Len(l) /\ DOMAIN m = 1..Len(m) /\ DOMAIN n = 1..Len(n)
  OBVIOUS
<1>2. \A k \in 1..Len(l) : n[k] = l[k]
  OBVIOUS
<1>3. \A k \in 1..Len(m) : n[Len(l) + k] = m[k]
  OBVIOUS
<1>4. ASSUME NEW k \in 1..(Len(l) + Len(m)), k \notin 1..Len(l) PROVE \E j \in 1..Len(m) : k = Len(l) + j
  <2>1. k - Len(l) \in 1..Len(m) /\ k = Len(l) + (k - Len(l))
    BY <1>1, <1>4
  <2>2. QED
    BY <2>1
<1>5. \A k \in 1..Len(l) : k \in DOMAIN n
  BY <1>1
<1>6. \A k \in 1..Len(m) : Len(l) + k \in DOMAIN n
  BY <1>1
<1> HIDE DEF n
<1>7. Range(n) = Range(l) \cup Range(m)
  <2>1. ASSUME NEW k \in DOMAIN n PROVE n[k] \in Range(l) \cup Range(m)
    <3>1. k \in 1..(Len(l) + Len(m))
      BY <1>1
    <3>2. CASE k \in 1..Len(l)
      BY <1>1, <1>2, <3>2 DEF Range
    <3>3. CASE k \notin 1..Len(l)
      <4>1. PICK j \in 1..Len(m) : k = Len(l) + j
        BY <1>4, <3>1, <3>3
      <4>2. n[k] = m[j] /\ m[j] \in Range(m)
        BY <1>1, <1>3, <4>1 DEF Range
      <4>3. QED
        BY <4>2
    <3>4. QED
      BY <3>2, <3>3
  <2>2. Range(l) \cup Range(m) \subseteq Range(n)
    BY <1>1, <1>2, <1>3, <1>5, <1>6 DEF Range
  <2>3. QED
    BY <2>1, <2>2 DEF Range
<1>8. QED
  BY <1>1, <1>2, <1>3, <1>4, <1>7 DEF n

LEMMA FurtherLists ==
  ASSUME NEW g, IsFlowGraph(g), NEW R \in SUBSET Blocks(g), NEW a \in Blocks(g), NEW t, Lists(g, R, a, t),
         NEW c \in Range(g.succ[a]), NEW more, c \notin t.visited, Lists(g, t.visited, c, more)
  PROVE  Lists(g, R, a, [visited |-> more.visited, result |-> t.result \o more.result])
<1>0. PICK l, m : l = t.result /\ m = more.result
  OBVIOUS
<1> DEFINE new == [visited |-> more.visited, result |-> l \o m]
<1>1. l \in Seq(Blocks(g)) /\ m \in Seq(Blocks(g)) /\ t.visited \in SUBSET Blocks(g) /\ more.visited \in SUBSET Blocks(g)
  BY <1>0 DEF Lists, Results
<1> DEFINE n == l \o m
<1>2. /\ n \in Seq(Blocks(g)) /\ Len(l) \in Nat /\ Len(m) \in Nat
      /\ DOMAIN l = 1..Len(l) /\ DOMAIN m = 1..Len(m) /\ DOMAIN n = 1..(Len(l) + Len(m))
      /\ \A h \in 1..Len(l) : n[h] = l[h]
      /\ \A h \in 1..Len(m) : n[Len(l) + h] = m[h]
      /\ \A h \in 1..(Len(l) + Len(m)) : h \in 1..Len(l) \/ \E j \in 1..Len(m) : h = Len(l) + j
      /\ Range(n) = Range(l) \cup Range(m)
  BY <1>1, Joining
<1>3. new \in Results(g) /\ new.visited = more.visited /\ new.result = n
  BY <1>1, <1>2 DEF Results
<1> HIDE DEF new, n
<1>4. /\ t.visited = R \cup Range(l) /\ R \cap Range(l) = {}
      /\ more.visited = t.visited \cup Range(m) /\ t.visited \cap Range(m) = {}
  BY <1>0 DEF Lists
<1>5. new.visited = R \cup Range(n) /\ R \cap Range(n) = {}
  BY <1>2, <1>3, <1>4
<1>6. IsInjective(n)
  <2>1. \A h, j \in 1..Len(l) : l[h] = l[j] => h = j
    BY <1>0, <1>2 DEF Lists, IsInjective
  <2>2. \A h, j \in 1..Len(m) : m[h] = m[j] => h = j
    BY <1>0, <1>2 DEF Lists, IsInjective
  <2>3. \A h \in 1..Len(l) : \A j \in 1..Len(m) : l[h] # m[j]
    <3>1. \A h \in 1..Len(l) : l[h] \in Range(l)
      BY <1>2 DEF Range
    <3>2. \A j \in 1..Len(m) : m[j] \in Range(m)
      BY <1>2 DEF Range
    <3>3. QED
      BY <1>4, <3>1, <3>2
  <2>4. ASSUME NEW h \in DOMAIN n, NEW j \in DOMAIN n, n[h] = n[j] PROVE h = j
    <3>1. CASE h \in 1..Len(l) /\ j \in 1..Len(l)
      BY <1>2, <2>1, <2>4, <3>1
    <3>2. CASE h \in 1..Len(l) /\ j \notin 1..Len(l)
      <4>1. PICK q \in 1..Len(m) : j = Len(l) + q
        BY <1>2, <3>2
      <4>2. n[h] = l[h] /\ n[j] = m[q]
        BY <1>2, <3>2, <4>1
      <4>3. QED
        BY <2>3, <2>4, <3>2, <4>2
    <3>3. CASE h \notin 1..Len(l) /\ j \in 1..Len(l)
      <4>1. PICK q \in 1..Len(m) : h = Len(l) + q
        BY <1>2, <3>3
      <4>2. n[j] = l[j] /\ n[h] = m[q]
        BY <1>2, <3>3, <4>1
      <4>3. QED
        BY <2>3, <2>4, <3>3, <4>2
    <3>4. CASE h \notin 1..Len(l) /\ j \notin 1..Len(l)
      <4>1. PICK q \in 1..Len(m), r \in 1..Len(m) : h = Len(l) + q /\ j = Len(l) + r
        BY <1>2, <3>4
      <4>2. n[h] = m[q] /\ n[j] = m[r]
        BY <1>2, <4>1
      <4>3. QED
        BY <2>2, <2>4, <4>1, <4>2
    <3>5. QED
      BY <3>1, <3>2, <3>3, <3>4
  <2>5. QED
    BY <2>4 DEF IsInjective
<1>7. ASSUME NEW u \in Range(n) PROVE Range(g.succ[u]) \subseteq more.visited /\ Leads(g, a, u)
  <2>1. CASE u \in Range(l)
    BY <1>0, <1>4, <2>1 DEF Lists
  <2>2. CASE u \in Range(m)
    <3>1. Range(g.succ[u]) \subseteq more.visited /\ Leads(g, c, u)
      BY <1>0, <2>2 DEF Lists
    <3>2. Leads(g, a, u)
      BY <3>1 DEF Leads
    <3>3. QED
      BY <3>1, <3>2
  <2>3. QED
    BY <1>2, <2>1, <2>2
<1>8. ASSUME NEW j \in DOMAIN n, NEW d \in Range(g.succ[n[j]]) PROVE After(g, R, n, j, d)
  <2>1. CASE j \in 1..Len(l)
    <3>1. n[j] = l[j] /\ After(g, R, l, j, d)
      BY <1>0, <1>2, <1>8, <2>1 DEF Lists
    <3>2. \A k \in 1..(j - 1) : n[k] = l[k]
      <4>1. \A k \in 1..(j - 1) : k \in 1..Len(l)
        BY <1>2, <2>1
      <4>2. QED
        BY <1>2, <4>1
    <3>3. QED
      BY <3>1, <3>2 DEF After
  <2>2. CASE j \notin 1..Len(l)
    <3>1. PICK q \in 1..Len(m) : j = Len(l) + q
      BY <1>2, <2>2
    <3>2. n[j] = m[q] /\ After(g, t.visited, m, q, d)
      BY <1>0, <1>2, <1>8, <3>1 DEF Lists
    <3>3. CASE d \in R
      BY <3>3 DEF After
    <3>4. CASE d \in Range(l)
      <4>1. PICK k \in 1..Len(l) : l[k] = d
        BY <1>2, <3>4 DEF Range
      <4>2. k \in 1..(j - 1)
        <5>1. Len(l) \in Nat /\ q \in 1..Len(m) /\ Len(m) \in Nat
          BY <1>2
        <5>2. QED
          BY <3>1, <4>1, <5>1
      <4>3. n[k] = d
        BY <1>2, <4>1
      <4>4. QED
        BY <4>2, <4>3 DEF After
    <3>5. CASE \E k \in 1..(q - 1) : m[k] = d
      <4>1. PICK k \in 1..(q - 1) : m[k] = d
        BY <3>5
      <4>2. Len(l) + k \in 1..(j - 1) /\ k \in 1..Len(m)
        BY <1>2, <3>1, <4>1
      <4>3. n[Len(l) + k] = d
        BY <1>2, <4>1, <4>2
      <4>4. QED
        BY <4>2, <4>3 DEF After
    <3>6. CASE Leads(g, d, m[q])
      BY <3>2, <3>6 DEF After
    <3>7. QED
      BY <1>4, <3>2, <3>3, <3>4, <3>5, <3>6 DEF After
  <2>3. QED
    BY <2>1, <2>2
<1>9. QED
  <2>1. Lists(g, R, a, new)
    BY <1>3, <1>5, <1>6, <1>7, <1>8 DEF Lists
  <2>2. QED
    BY <1>0, <2>1 DEF new

(* The block itself comes last.                                            *)
LEMMA ListedLists ==
  ASSUME NEW g, IsFlowGraph(g), NEW S \in SUBSET Blocks(g), NEW b \in Blocks(g) \ S,
         NEW t, Lists(g, S \cup {b}, b, t), Range(g.succ[b]) \subseteq t.visited
  PROVE  Lists(g, S, b, Listed(t, b)) /\ b \in Range(Listed(t, b).result)
<1>1. PICK l, n : l = t.result /\ n = Append(l, b)
  OBVIOUS
<1>2. t \in Results(g) /\ l \in Seq(Blocks(g)) /\ t.visited \in SUBSET Blocks(g)
  BY <1>1 DEF Lists, Results
<1>3. PICK new : new = Listed(t, b)
  OBVIOUS
<1>4. new \in Results(g) /\ new.visited = t.visited /\ new.result = n
  BY <1>1, <1>2, <1>3, ListedType
<1>5. /\ Len(l) \in Nat /\ DOMAIN l = 1..Len(l) /\ DOMAIN n = 1..(Len(l) + 1)
      /\ n[Len(l) + 1] = b
      /\ \A m \in 1..Len(l) : n[m] = l[m]
  BY <1>1, <1>2
<1>6. \A m \in DOMAIN n : m \in DOMAIN l \/ m = Len(l) + 1
  BY <1>5
<1>7. \A m \in DOMAIN l : m \in DOMAIN n
  BY <1>5
<1>8. Len(l) + 1 \in DOMAIN n /\ Len(l) + 1 \notin DOMAIN l
  BY <1>5
<1>9. Range(n) = Range(l) \cup {b}
  <2>1. \A m \in DOMAIN n : n[m] \in Range(l) \cup {b}
    BY <1>5, <1>6 DEF Range
  <2>2. Range(l) \subseteq Range(n) /\ b \in Range(n)
    BY <1>5, <1>7, <1>8 DEF Range
  <2>3. QED
    BY <2>1, <2>2 DEF Range
<1>10. /\ t.visited = S \cup {b} \cup Range(l) /\ (S \cup {b}) \cap Range(l) = {}
       /\ IsInjective(l)
  BY <1>1 DEF Lists
<1>11. new.visited = S \cup Range(n) /\ S \cap Range(n) = {}
  BY <1>4, <1>9, <1>10
<1>12. IsInjective(n)
  <2>1. \A m \in DOMAIN l : n[m] = l[m] /\ l[m] # b
    BY <1>5, <1>10 DEF Range
  <2>2. \A m, j \in DOMAIN l : l[m] = l[j] => m = j
    BY <1>10 DEF IsInjective
  <2>3. \A m, j \in DOMAIN n : n[m] = n[j] => m = j
    BY <1>5, <1>6, <2>1, <2>2
  <2>4. QED
    BY <2>3 DEF IsInjective
<1>13. ASSUME NEW u \in Range(n) PROVE Range(g.succ[u]) \subseteq t.visited /\ Leads(g, b, u)
  <2>1. CASE u = b
    BY <2>1 DEF Leads
  <2>2. CASE u \in Range(l)
    BY <1>1, <2>2 DEF Lists
  <2>3. QED
    BY <1>9, <2>1, <2>2
<1>14. ASSUME NEW j \in DOMAIN n, NEW c \in Range(g.succ[n[j]]) PROVE After(g, S, n, j, c)
  <2>1. CASE j \in DOMAIN l
    <3>1. n[j] = l[j] /\ l[j] \in Range(l)
      BY <1>5, <2>1 DEF Range
    <3>2. After(g, S \cup {b}, l, j, c)
      BY <1>1, <1>14, <2>1, <3>1 DEF Lists
    <3>3. Leads(g, b, n[j])
      BY <1>1, <3>1 DEF Lists
    <3>4. \A k \in 1..(j - 1) : n[k] = l[k]
      <4>1. \A k \in 1..(j - 1) : k \in 1..Len(l)
        BY <1>5, <2>1
      <4>2. QED
        BY <1>5, <4>1
    <3>5. QED
      BY <3>1, <3>2, <3>3, <3>4 DEF After
  <2>2. CASE j = Len(l) + 1
    <3>1. n[j] = b /\ c \in S \cup {b} \cup Range(l)
      BY <1>5, <1>10, <1>14, <2>2
    <3>2. CASE c = b
      BY <3>1, <3>2 DEF After, Leads
    <3>3. CASE c \in Range(l)
      <4>1. PICK k \in 1..Len(l) : l[k] = c
        BY <1>5, <3>3 DEF Range
      <4>2. k \in 1..(j - 1)
        BY <1>5, <2>2, <4>1
      <4>3. n[k] = c
        BY <1>5, <4>1
      <4>4. QED
        BY <4>2, <4>3 DEF After
    <3>4. QED
      BY <3>1, <3>2, <3>3 DEF After
  <2>3. QED
    BY <1>6, <2>1, <2>2
<1>15. Lists(g, S, b, new)
  BY <1>4, <1>11, <1>12, <1>13, <1>14 DEF Lists
<1>16. QED
  BY <1>3, <1>4, <1>9, <1>15

LEMMA EdgesList ==
  ASSUME NEW g, IsFlowGraph(g), NEW v, IsVisit(g, v), NEW S \in SUBSET Blocks(g), NEW b \in Blocks(g) \ S,
         \A T \in SUBSET Blocks(g) : S \cup {b} \subseteq T =>
           \A c \in Blocks(g) \ T : Lists(g, T, c, v[T][c]) /\ c \in Range(v[T][c].result)
  PROVE  Lists(g, S, b, Visited(g, v, S)[b]) /\ b \in Range(Visited(g, v, S)[b].result)
<1> DEFINE n == Len(g.succ[b])
           R == S \cup {b}
<1>1. PICK run : Looking(g, v, S, b, run)
  BY LoopExists
<1>2. /\ n \in Nat /\ \A k \in 1..n : g.succ[b][k] \in Blocks(g) /\ g.succ[b][k] \in Range(g.succ[b])
      /\ Range(g.succ[b]) = {g.succ[b][k] : k \in 1..n}
  BY EdgeFacts DEF Range
<1>3. AfterEdges(g, v, S, b) = run[n]
  BY <1>1, LoopAgrees
<1>4. /\ run[0] = [visited |-> R, result |-> << >>]
      /\ \A k \in 1..n : run[k] = Further(run[k - 1], g.succ[b][k], v)
      /\ \A k \in 0..n : run[k] \in Results(g) /\ R \subseteq run[k].visited
  BY <1>1 DEF Looking
<1> HIDE DEF n
<1> DEFINE Seen(k) == \A e \in 1..k : g.succ[b][e] \in run[k].visited
           P == {k \in 0..n : Lists(g, R, b, run[k]) /\ Seen(k)}
<1>5. 0 \in P
  <2> DEFINE t == [visited |-> R, result |-> << >>]
  <2>1. t \in Results(g) /\ Range(t.result) = {} /\ DOMAIN t.result = {}
    BY DEF Results, Range
  <2>2. Lists(g, R, b, t)
    BY <2>1 DEF Lists, IsInjective
  <2>3. QED
    BY <1>2, <1>4, <2>2
<1>6. ASSUME NEW k \in 0..(n - 1), k \in P PROVE k + 1 \in P
  <2>1. PICK j, t, c : j = k + 1 /\ t = run[k] /\ c = g.succ[b][j]
    OBVIOUS
  <2>2. j \in 1..n /\ j \in 0..n /\ j - 1 = k /\ k \in Nat /\ k \in 0..n
    BY <1>2, <2>1
  <2>3. run[j] = Further(t, c, v) /\ c \in Blocks(g) /\ c \in Range(g.succ[b])
    BY <1>2, <1>4, <2>1, <2>2
  <2>4. /\ Lists(g, R, b, t) /\ \A e \in 1..k : g.succ[b][e] \in t.visited
        /\ t \in Results(g) /\ R \subseteq t.visited
    BY <1>4, <1>6, <2>1, <2>2
  <2>5. Lists(g, R, b, run[j]) /\ t.visited \cup {c} \subseteq run[j].visited
    <3>1. CASE c \in t.visited
      BY <2>3, <2>4, <3>1 DEF Further
    <3>2. CASE c \notin t.visited
      <4>1. PICK more : more = v[t.visited][c]
        OBVIOUS
      <4>2. t.visited \in SUBSET Blocks(g)
        BY <2>4 DEF Results
      <4>3. Lists(g, t.visited, c, more) /\ c \in Range(more.result)
        BY <2>3, <2>4, <3>2, <4>1, <4>2
      <4>4. run[j] = [visited |-> more.visited, result |-> t.result \o more.result]
        BY <2>3, <3>2, <4>1 DEF Further
      <4>5. R \in SUBSET Blocks(g)
        OBVIOUS
      <4>6. Lists(g, R, b, run[j])
        <5>1. t.visited \in SUBSET Blocks(g) /\ b \in Blocks(g) /\ Lists(g, t.visited, c, more) /\ Lists(g, R, b, t)
          BY <2>4, <4>2, <4>3
        <5> HIDE DEF R
        <5>2. Lists(g, R, b, [visited |-> more.visited, result |-> t.result \o more.result])
          BY <2>3, <3>2, <4>5, <5>1, FurtherLists
        <5>3. QED
          BY <4>4, <5>2
      <4>7. t.visited \cup {c} \subseteq more.visited
        BY <4>3 DEF Lists
      <4>8. QED
        BY <4>4, <4>6, <4>7
    <3>3. QED
      BY <3>1, <3>2
  <2>6. Seen(j)
    <3>1. \A e \in 1..j : e \in 1..k \/ e = j
      BY <2>1, <2>2
    <3>2. QED
      BY <2>1, <2>4, <2>5, <3>1
  <2>7. QED
    BY <2>1, <2>2, <2>5, <2>6
<1>7. n \in P
  <2>1. n \in 0..n
    BY <1>2
  <2> HIDE DEF P
  <2>2. 0..n \subseteq P
    BY <1>2, <1>5, <1>6, Counting
  <2>3. QED
    BY <2>1, <2>2
<1>8. Lists(g, R, b, run[n]) /\ Range(g.succ[b]) \subseteq run[n].visited
  BY <1>2, <1>7
<1>9. Visited(g, v, S)[b] = Listed(run[n], b)
  BY <1>3 DEF Visited
<1>10. QED
  BY <1>8, <1>9, ListedLists

LEMMA VisitLists ==
  ASSUME NEW g, IsFlowGraph(g)
  PROVE  \A S \in SUBSET Blocks(g) : \A b \in Blocks(g) \ S :
           Lists(g, S, b, VisitAfter(g)[S][b]) /\ b \in Range(VisitAfter(g)[S][b].result)
<1>1. PICK v : v = VisitAfter(g)
  OBVIOUS
<1>2. IsVisit(g, v) /\ \A S \in SUBSET Blocks(g) : v[S] = Visited(g, v, S)
  BY <1>1, VisitIs
<1> DEFINE n == g.size + 1
           Right(S) == \A b \in Blocks(g) \ S : Lists(g, S, b, v[S][b]) /\ b \in Range(v[S][b].result)
           P == {m \in 0..n : \A S \in SUBSET Blocks(g) : Left(g, S) < m => Right(S)}
<1>3. n \in Nat /\ g.size \in Nat /\ \A S \in SUBSET Blocks(g) : Left(g, S) \in 0..g.size
  <2>1. g.size \in Nat
    BY DEF IsFlowGraph
  <2>2. QED
    BY <2>1, LeftFacts
<1>4. 0 \in P
  BY <1>3
<1>5. ASSUME NEW m \in 0..(n - 1), m \in P PROVE m + 1 \in P
  <2>1. m + 1 \in 0..n /\ m \in Nat
    BY <1>3
  <2>2. ASSUME NEW S \in SUBSET Blocks(g), Left(g, S) < m + 1 PROVE Right(S)
    <3>1. ASSUME NEW b \in Blocks(g) \ S PROVE Lists(g, S, b, v[S][b]) /\ b \in Range(v[S][b].result)
      <4>1. ASSUME NEW T \in SUBSET Blocks(g), S \cup {b} \subseteq T PROVE Right(T)
        <5>1. Left(g, T) < Left(g, S)
          BY <4>1, LeftFacts
        <5>2. Left(g, T) < m
          BY <1>3, <2>1, <2>2, <5>1
        <5>3. QED
          BY <1>5, <5>2
      <4>2. QED
        BY <1>2, <4>1, EdgesList
    <3>2. QED
      BY <3>1
  <2>3. QED
    BY <2>1, <2>2
<1>6. n \in P
  <2>1. n \in 0..n
    BY <1>3
  <2> HIDE DEF P, n
  <2>2. 0..n \subseteq P
    BY <1>3, <1>4, <1>5, Counting
  <2>3. QED
    BY <2>1, <2>2
<1>7. \A S \in SUBSET Blocks(g) : Right(S)
  BY <1>3, <1>6
<1>8. QED
  BY <1>1, <1>7

(* A block leads to what it leads to around no block at all.               *)
LEMMA LeadsAvoiding ==
  ASSUME IsFlowGraph(graph), NEW a \in Blocks(graph), NEW u \in Blocks(graph)
  PROVE  Leads(graph, a, u) <=> u \in Avoiding(graph.size, {a})
<1>1. graph.size \notin Blocks(graph)
  BY DEF IsFlowGraph, Blocks
<1>2. \A b \in Blocks(graph) : Range(graph.succ[b]) \subseteq Blocks(graph)
  <2>1. \A b \in Blocks(graph) : graph.succ[b] \in Seq(Blocks(graph))
    BY DEF IsFlowGraph, Blocks
  <2>2. QED
    BY <2>1 DEF Range
<1>3. \A T \in SUBSET Blocks(graph) :
        ClosedAvoiding(graph.size, T) <=> \A b \in T : Range(graph.succ[b]) \subseteq T
  BY <1>1, <1>2 DEF ClosedAvoiding
<1>4. QED
  BY <1>3 DEF Leads, Avoiding

LEMMA PostorderFacts ==
  ASSUME IsFlowGraph(graph), NEW l, l = postorder(graph)
  PROVE  /\ l \in Seq(Blocks(graph)) /\ Range(l) = Reachable /\ IsInjective(l)
         /\ \A j \in DOMAIN l : \A c \in Range(graph.succ[l[j]]) : After(graph, {}, l, j, c)
<1>1. graph.entry \in Blocks(graph) \ {} /\ {} \in SUBSET Blocks(graph)
  BY DEF IsFlowGraph, Blocks
<1>2. PICK t : t = VisitAfter(graph)[{}][graph.entry]
  OBVIOUS
<1>3. Lists(graph, {}, graph.entry, t) /\ graph.entry \in Range(t.result) /\ t.result = l
  BY <1>1, <1>2, VisitLists DEF postorder
<1>4. l \in Seq(Blocks(graph)) /\ Range(l) \subseteq Blocks(graph)
  <2>1. l \in Seq(Blocks(graph))
    BY <1>3 DEF Lists, Results
  <2>2. QED
    BY <2>1 DEF Range
<1>5. Range(l) \subseteq Reachable
  <2>1. \A u \in Range(l) : Leads(graph, graph.entry, u)
    BY <1>3 DEF Lists
  <2>2. QED
    BY <1>1, <1>4, <2>1, LeadsAvoiding DEF Reachable
<1>6. Reachable \subseteq Range(l)
  <2>1. \A u \in Range(l) : Range(graph.succ[u]) \subseteq Range(l)
    BY <1>3 DEF Lists
  <2>2. ASSUME NEW u \in Reachable PROVE u \in Range(l)
    <3>1. u \in Blocks(graph)
      BY DEF Reachable, Avoiding
    <3>2. Leads(graph, graph.entry, u)
      BY <1>1, <3>1, LeadsAvoiding DEF Reachable
    <3>3. QED
      BY <1>3, <1>4, <2>1, <3>2 DEF Leads
  <2>3. QED
    BY <2>2
<1>7. QED
  BY <1>3, <1>4, <1>5, <1>6 DEF Lists

LEMMA InvOrder == ASSUME IsFlowGraph(graph) PROVE TopologicalOrder
<1>1. PICK l : l = postorder(graph)
  OBVIOUS
<1>2. /\ l \in Seq(Blocks(graph)) /\ Range(l) = Reachable /\ IsInjective(l)
      /\ \A j \in DOMAIN l : \A c \in Range(graph.succ[l[j]]) : After(graph, {}, l, j, c)
  BY <1>1, PostorderFacts
<1>3. PICK order : order = reverse_postorder(graph)
  OBVIOUS
<1>4. PICK n \in Nat : n = Len(l)
  BY <1>2
<1>5. DOMAIN l = 1..n /\ DOMAIN order = 1..n /\ \A k \in 1..n : order[k] = l[n - k + 1]
  BY <1>1, <1>2, <1>3, <1>4 DEF reverse_postorder, Reverse
<1>6. \A k \in 1..n : n - k + 1 \in 1..n /\ n - (n - k + 1) + 1 = k
  BY <1>4
<1>7. Range(order) = Reachable
  <2>1. \A k \in 1..n : order[k] = l[n - k + 1] /\ l[k] = order[n - k + 1]
    BY <1>5, <1>6
  <2>2. Range(order) = Range(l)
    BY <1>5, <1>6, <2>1 DEF Range
  <2>3. QED
    BY <1>2, <2>2
<1>8. \A k, m \in 1..n : order[k] = order[m] => k = m
  <2>1. \A k, m \in 1..n : l[k] = l[m] => k = m
    BY <1>2, <1>5 DEF IsInjective
  <2>2. ASSUME NEW k \in 1..n, NEW m \in 1..n, order[k] = order[m] PROVE k = m
    <3>1. n - k + 1 = n - m + 1
      BY <1>5, <1>6, <2>1, <2>2
    <3>2. QED
      BY <1>4, <3>1
  <2>3. QED
    BY <2>2
<1>9. IsInjective(order)
  BY <1>5, <1>8 DEF IsInjective
<1> DEFINE place(b) == CHOOSE k \in DOMAIN order : order[k] = b
<1>10. \A k \in 1..n : place(order[k]) = k
  BY <1>5, <1>8
<1>11. ASSUME Acyclic, NEW b \in Reachable, NEW c \in Range(graph.succ[b]) PROVE place(b) < place(c)
  <2>1. b \in Blocks(graph)
    BY DEF Reachable, Avoiding
  <2>2. c \in Blocks(graph)
    <3>1. graph.succ[b] \in Seq(Blocks(graph))
      BY <2>1 DEF IsFlowGraph, Blocks
    <3>2. QED
      BY <3>1 DEF Range
  <2>3. PICK j \in 1..n : l[j] = b
    BY <1>2, <1>5 DEF Range
  <2>4. ~ Leads(graph, c, b)
    BY <1>11, <2>1, <2>2, LeadsAvoiding DEF Acyclic
  <2>5. PICK k \in 1..(j - 1) : l[k] = c
    BY <1>2, <1>5, <2>3, <2>4 DEF After
  <2>6. k \in 1..n /\ k < j /\ j \in Nat /\ k \in Nat
    BY <1>4, <2>3
  <2>7. order[n - j + 1] = b /\ order[n - k + 1] = c
    BY <1>5, <1>6, <2>3, <2>5, <2>6
  <2>8. place(b) = n - j + 1 /\ place(c) = n - k + 1
    <3> HIDE DEF place
    <3>1. QED
      BY <1>6, <1>10, <2>6, <2>7
  <2>9. QED
    <3> HIDE DEF place
    <3>1. QED
      BY <1>4, <2>6, <2>8
<1>12. QED
  BY <1>3, <1>7, <1>9, <1>11 DEF TopologicalOrder

(* reverse_postorder, which the analyses go through the blocks in, lists   *)
(* every block control can come to once, and, of a graph without cycles,   *)
(* each before all it leads to; on every graph.                            *)
THEOREM OrderIsTopological == ASSUME GraphsFit PROVE Spec => []TopologicalOrder
<1>1. Inv => TopologicalOrder
  BY InvOrder DEF Inv, Numbering
<1>2. QED
  BY <1>1, TablesHold, PTL
=============================================================================
