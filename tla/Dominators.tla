----------------------------- MODULE Dominators -----------------------------
(***************************************************************************)
(* compute_dominators of src/dataflow/dataflow.cpp: Lengauer and Tarjan's  *)
(* algorithm as the code runs it, and the orders postorder and             *)
(* reverse_postorder number the blocks in.                                 *)
(*                                                                         *)
(* Every table starts filled with 0, which is also the id of a block: the  *)
(* code tells "none" from "block 0" nowhere.                               *)
(***************************************************************************)
EXTENDS Naturals, FiniteSets, Sequences, SequencesExt

CONSTANT Graphs     \* records size, entry, succ, pred

(* What the algorithm takes for granted of a graph.                        *)
IsFlowGraph(g) ==
  LET blocks == 0..(g.size - 1) IN
    /\ g.size \in Nat \ {0} /\ g.entry \in blocks
    /\ g.succ \in [blocks -> Seq(blocks)] /\ g.pred \in [blocks -> Seq(blocks)]
    /\ \A a, b \in blocks : b \in Range(g.succ[a]) <=> a \in Range(g.pred[b])

GraphsFit == \A g \in Graphs : IsFlowGraph(g)

VARIABLES
  graph,
  pc,        \* "none" before the call, then "dfs", "semi", "idom", "done"
  path,      \* the calls of dfs under way, innermost last: block, next edge
  counter,   \* dfn_counter
  dfn, vertex, parent, semi, label, ancestor, bucket, idom,
  i          \* the counter of the loop under way

numbering == <<path, counter, dfn, vertex, parent>>
tables == <<semi, label, ancestor, bucket, idom>>
vars == <<graph, pc, i, numbering, tables>>

Blocks(g) == 0..(g.size - 1)
Zero(g) == [b \in Blocks(g) |-> 0]

Idle ==
  /\ pc = "none" /\ counter = 0 /\ i = 0 /\ path = << >>
  /\ dfn = << >> /\ vertex = << >> /\ parent = << >> /\ semi = << >> /\ label = << >>
  /\ ancestor = << >> /\ bucket = << >> /\ idom = << >>

Init == graph \in Graphs /\ Idle

(* The call: the tables, and the call of dfs on the entry.                 *)
Compute ==
  /\ pc = "none"
  /\ pc' = "dfs" /\ counter' = 1
  /\ path' = << <<graph.entry, 1>> >>
  /\ dfn' = [Zero(graph) EXCEPT ![graph.entry] = 1]
  /\ vertex' = [k \in 0..graph.size |-> IF k = 1 THEN graph.entry ELSE 0]
  /\ parent' = Zero(graph)
  /\ semi' = [Zero(graph) EXCEPT ![graph.entry] = 1]
  /\ label' = [Zero(graph) EXCEPT ![graph.entry] = graph.entry]
  /\ ancestor' = Zero(graph) /\ idom' = Zero(graph)
  /\ bucket' = [k \in 0..graph.size |-> << >>]
  /\ UNCHANGED <<graph, i>>

-----------------------------------------------------------------------------
(* lt_state::dfs.  One step looks at the next edge of the innermost call.  *)
Caller == Last(path)[1]
EdgeAt == Last(path)[2]
HasEdge == EdgeAt <= Len(graph.succ[Caller])

Descend ==
  /\ pc = "dfs" /\ path # << >> /\ HasEdge
  /\ LET v == Caller
         w == graph.succ[v][EdgeAt]
         moved == Append(Front(path), <<v, EdgeAt + 1>>)
     IN  IF dfn[w] # 0
         THEN path' = moved /\ UNCHANGED <<counter, dfn, vertex, parent, semi, label>>
         ELSE /\ path' = Append(moved, <<w, 1>>)
              /\ counter' = counter + 1
              /\ parent' = [parent EXCEPT ![w] = v]
              /\ dfn' = [dfn EXCEPT ![w] = counter + 1]
              /\ vertex' = [vertex EXCEPT ![counter + 1] = w]
              /\ semi' = [semi EXCEPT ![w] = counter + 1]
              /\ label' = [label EXCEPT ![w] = w]
  /\ UNCHANGED <<graph, pc, i, ancestor, bucket, idom>>

Ascend ==
  /\ pc = "dfs" /\ path # << >> /\ ~ HasEdge
  /\ path' = Front(path)
  /\ UNCHANGED <<graph, pc, i, counter, dfn, vertex, parent, tables>>

StartSemi ==
  /\ pc = "dfs" /\ path = << >>
  /\ pc' = "semi" /\ i' = counter
  /\ UNCHANGED <<graph, numbering, tables>>

-----------------------------------------------------------------------------
(* compress and find, on a forest f of ancestors and labels.               *)
Forest == [ancestor |-> ancestor, label |-> label]

compress(f, s, v) ==
  LET from[u \in Blocks(graph)] ==
        LET a == f.ancestor[u]
        IN  IF f.ancestor[a] = 0 THEN f
            ELSE LET up == from[a]
                     better == s[up.label[a]] < s[up.label[u]]
                 IN  [ancestor |-> [up.ancestor EXCEPT ![u] = up.ancestor[a]],
                      label |-> IF better THEN [up.label EXCEPT ![u] = up.label[a]] ELSE up.label]
  IN  from[v]

compressed(f, s, v) == IF f.ancestor[v] = 0 THEN f ELSE compress(f, s, v)
found(f, v) == IF f.ancestor[v] = 0 THEN v ELSE f.label[v]

(* The first inner loop: semi[w] from the predecessors the dfs reached.    *)
Nearer(w, v, st) ==
  LET f == compressed(st.forest, st.semi, v)
      u == found(f, v)
  IN  IF dfn[v] = 0 THEN st
      ELSE [forest |-> f,
            semi |-> IF st.semi[u] < st.semi[w] THEN [st.semi EXCEPT ![w] = st.semi[u]] ELSE st.semi]

SemiOf(w) ==
  LET upto[k \in 0..Len(graph.pred[w])] ==
        IF k = 0 THEN [forest |-> Forest, semi |-> semi]
        ELSE Nearer(w, graph.pred[w][k], upto[k - 1])
  IN  upto[Len(graph.pred[w])]

(* The second: the blocks waiting in p's bucket get their dominator.       *)
Assign(s, p, v, t) ==
  LET f == compressed(t.forest, s, v)
      u == found(f, v)
  IN  [forest |-> f, idom |-> [t.idom EXCEPT ![v] = IF s[u] = s[v] THEN p ELSE u]]

Settle(st, waiting, p) ==
  LET upto[k \in 0..Len(waiting)] ==
        IF k = 0 THEN [forest |-> st.forest, idom |-> idom]
        ELSE Assign(st.semi, p, waiting[k], upto[k - 1])
  IN  upto[Len(waiting)]

(* One iteration of the loop down the dfs numbers.                         *)
Process ==
  /\ pc = "semi" /\ i >= 2
  /\ LET w == vertex[i]
         p == parent[w]
         st == SemiOf(w)
         linked == [st EXCEPT !.forest.ancestor[w] = p]
         b == vertex[st.semi[w]]
         filled == [bucket EXCEPT ![b] = Append(@, w)]
         settled == Settle(linked, filled[p], p)
     IN  /\ semi' = st.semi
         /\ idom' = settled.idom
         /\ ancestor' = settled.forest.ancestor
         /\ label' = settled.forest.label
         /\ bucket' = [filled EXCEPT ![p] = << >>]
  /\ i' = i - 1
  /\ UNCHANGED <<graph, pc, numbering>>

StartIdom ==
  /\ pc = "semi" /\ i < 2
  /\ pc' = "idom" /\ i' = 2
  /\ UNCHANGED <<graph, numbering, tables>>

(* Variant: the second loop changes nothing.                               *)
AdjustNothing ==
  /\ pc = "idom" /\ i <= counter
  /\ i' = i + 1
  /\ UNCHANGED <<graph, pc, numbering, tables>>

(* One iteration of the loop up the dfs numbers.                           *)
Adjust ==
  /\ pc = "idom" /\ i <= counter
  /\ LET w == vertex[i]
     IN  idom' = IF idom[w] # vertex[semi[w]]
                 THEN [idom EXCEPT ![w] = idom[idom[w]]] ELSE idom
  /\ i' = i + 1
  /\ UNCHANGED <<graph, pc, numbering, semi, label, ancestor, bucket>>

FinishTree ==
  /\ pc = "idom" /\ i > counter
  /\ idom' = [idom EXCEPT ![graph.entry] = 0]
  /\ pc' = "done"
  /\ UNCHANGED <<graph, i, numbering, semi, label, ancestor, bucket>>

Return == pc = "done" /\ UNCHANGED vars

Next == Compute \/ Descend \/ Ascend \/ StartSemi \/ Process \/ StartIdom \/ Adjust \/ FinishTree \/ Return

Spec == Init /\ [][Next]_vars

-----------------------------------------------------------------------------
(* The children of the tree returned.                                      *)
Children(b) == {c \in Blocks(graph) : idom[c] = b /\ (idom[c] # 0 \/ c = graph.entry)}

(* dominator_tree::dominates, following at most one idom per block.        *)
Climb(a, b, steps) ==
  LET at[k \in 0..steps] ==
        IF k = 0 THEN b
        ELSE LET c == at[k - 1] IN IF c \in {0, a} THEN c ELSE idom[c]
  IN  at[steps]
dominates(a, b) == Climb(a, b, graph.size) = a

(* The recursive dfs of cfg::postorder.  A visit of b when the blocks of S  *)
(* have been visited before: all those visited after it, and the blocks it *)
(* lists; t is how far it has come when it looks at the edge to c.         *)
Further(t, c, visit) ==
  IF c \in t.visited THEN t
  ELSE LET more == visit[t.visited][c]
       IN  [visited |-> more.visited, result |-> t.result \o more.result]

AfterEdges(g, visit, S, b) ==
  LET upto[k \in 0..Len(g.succ[b])] ==
        IF k = 0 THEN [visited |-> S \cup {b}, result |-> << >>]
        ELSE Further(upto[k - 1], g.succ[b][k], visit)
  IN  upto[Len(g.succ[b])]

(* Variant: a block is listed before what it leads to.                     *)
ListedFirst(below, b) == [below EXCEPT !.result = <<b>> \o @]
Listed(below, b) == [below EXCEPT !.result = Append(@, b)]

VisitAfter(g) ==
  LET visit[S \in SUBSET Blocks(g)] ==
        [b \in Blocks(g) \ S |-> Listed(AfterEdges(g, visit, S, b), b)]
  IN  visit

(* cfg::postorder, from the entry.                                         *)
postorder(g) == VisitAfter(g)[{}][g.entry].result
reverse_postorder(g) == Reverse(postorder(g))

-----------------------------------------------------------------------------
(* Reference definitions, by the paths of the graph.                       *)

(* The blocks control can come to from those of S without passing through  *)
(* a: the least set that has S and, but for a, what its blocks lead to.    *)
ClosedAvoiding(a, S) == \A b \in S : Range(graph.succ[b]) \ {a} \subseteq S

Avoiding(a, S) ==
  {b \in Blocks(graph) : \A T \in SUBSET Blocks(graph) : S \subseteq T /\ ClosedAvoiding(a, T) => b \in T}

Reachable == Avoiding(graph.size, {graph.entry})
MustPass(a, b) == a = b \/ b \notin Avoiding(a, {graph.entry} \ {a})
StrictDominators(b) == {a \in Reachable \ {b} : MustPass(a, b)}
ImmediateDominator(b, d) ==
  d \in StrictDominators(b) /\ \A a \in StrictDominators(b) : MustPass(a, d)

-----------------------------------------------------------------------------
TypeOK ==
  /\ pc \in {"dfs", "semi", "idom", "done"}
  /\ counter \in 1..graph.size /\ i \in 0..(graph.size + 1)
  /\ \A t \in {parent, label, ancestor, idom} : t \in [Blocks(graph) -> Blocks(graph)]
  /\ \A t \in {dfn, semi} : t \in [Blocks(graph) -> 0..graph.size]
  /\ \A k \in DOMAIN bucket : Range(bucket[k]) \subseteq Blocks(graph)

(* What the table gives as the dominator of a block was numbered before    *)
(* it, so dominates comes to an end on every graph.                        *)
ChainsEnd ==
  pc = "done" =>
    \A b \in Reachable \ {graph.entry} : dfn[idom[b]] # 0 /\ dfn[idom[b]] < dfn[b]

(* dominates answers what dominance is.                                    *)
Decides == pc = "done" => \A a, b \in Reachable : dominates(a, b) <=> MustPass(a, b)

(* The table gives the immediate dominator of every reachable block.  With *)
(* five blocks it need not, as ancestor 0 is taken for none (edges 0-1,    *)
(* 0-2, 1-3, 2-4 and 4-3 give block 3 the dominator 1).                    *)
Correct ==
  pc = "done" => \A b \in Reachable \ {graph.entry} : ImmediateDominator(b, idom[b])

(* In a graph without cycles, reverse_postorder lists every reachable      *)
(* block once, after all its reachable predecessors.                       *)
Acyclic == \A b \in Reachable : \A c \in Range(graph.succ[b]) : b \notin Avoiding(graph.size, {c})
TopologicalOrder ==
  LET order == reverse_postorder(graph)
      place(b) == CHOOSE k \in DOMAIN order : order[k] = b
  IN  pc = "done" =>
        /\ Range(order) = Reachable /\ IsInjective(order)
        /\ Acyclic => \A b \in Reachable : \A c \in Range(graph.succ[b]) : place(b) < place(c)
=============================================================================
