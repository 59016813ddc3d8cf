------------------------------- MODULE Solver -------------------------------
(***************************************************************************)
(* dataflow_solver<Lattice, Dir>::solve of src/dataflow/dataflow.cpp: the  *)
(* worklist loop every dataflow analysis of On1x runs.                     *)
(*                                                                         *)
(* The code has the loop twice, for the two directions, with in and out    *)
(* and predecessors and successors exchanged.  Here before[b] is the side  *)
(* the loop joins into (in when forward, out when backward), after[b] the  *)
(* side transfer produces, feeders[b] the blocks whose after is joined     *)
(* into before[b] (predecessors when forward) and readers[b] the blocks    *)
(* that join after[b] (successors when forward).                           *)
(***************************************************************************)
EXTENDS Naturals, Sequences, SequencesExt

CONSTANTS
  Graphs,            \* what is solved: a flow graph and the analysis to run
  Facts(_),          \* the lattice of the analysis of a graph
  Top(_), Bot(_),    \* its top() and bot()
  Meet(_, _, _),     \* its meet of two facts
  Transfer(_, _, _)  \* its transfer of a block applied to a fact

(* A graph has blocks 0..size-1, no edge twice (build_cfg removes          *)
(* duplicates), and predecessors that mirror its successors.  boundary is  *)
(* the entry when the analysis runs forward and the exit when backward.    *)
Blocks(g) == 0..(g.size - 1)

IsGraph(g) ==
  /\ g.size \in Nat
  /\ g.boundary \in Blocks(g)
  /\ g.feeders \in [Blocks(g) -> Seq(Blocks(g))]
  /\ g.readers \in [Blocks(g) -> Seq(Blocks(g))]
  /\ \A b, c \in Blocks(g) : b \in Range(g.feeders[c]) <=> c \in Range(g.readers[b])

(* What the solver takes for granted of the graphs it is called with.      *)
GraphsFit == \A g \in Graphs : IsGraph(g)

VARIABLES
  graph,     \* the graph solve was called with
  before,    \* in (forward) or out (backward) of every block
  after,     \* out (forward) or in (backward)
  worklist,  \* the deque of blocks to look at, front first
  waking     \* the readers of the changed block still to be considered

vars == <<graph, before, after, worklist, waking>>

(* A list of facts folded with meet, starting from bot.                    *)
MeetAll(g, fs) == FoldLeft(LAMBDA x, y : Meet(g, x, y), Bot(g), fs)

(* The value the loop computes for b: what its feeders give, in the order  *)
(* of the edge list.                                                       *)
Joined(g, facts, b) ==
  IF b = g.boundary THEN Bot(g)
  ELSE MeetAll(g, [i \in DOMAIN g.feeders[b] |-> facts[g.feeders[b][i]]])

(* What solve starts from.                                                 *)
FirstBefore(g) == [b \in Blocks(g) |-> IF b = g.boundary THEN Bot(g) ELSE Top(g)]
FirstAfter(g) == [b \in Blocks(g) |-> Top(g)]

(* Variant: the fill loop runs to n inclusive.                             *)
FirstWorklistOnePast(g) == [i \in 1..(g.size + 1) |-> i - 1]
FirstWorklist(g) == [i \in 1..g.size |-> i - 1]

Init ==
  /\ graph \in Graphs
  /\ before = FirstBefore(graph) /\ after = FirstAfter(graph)
  /\ worklist = FirstWorklist(graph) /\ waking = << >>

(* Variant: the blocks the changed block reads are pushed, not its readers. *)
VisitFeeders ==
  /\ waking = << >> /\ worklist # << >>
  /\ worklist' = Tail(worklist)
  /\ LET id == Head(worklist)
         new == Joined(graph, after, id)
     IN  IF new = before[id]
         THEN UNCHANGED <<before, after, waking>>
         ELSE /\ before' = [before EXCEPT ![id] = new]
              /\ after' = [after EXCEPT ![id] = Transfer(graph, id, new)]
              /\ waking' = graph.feeders[id]
  /\ UNCHANGED graph

(* Variant: the front is looked at and not popped.                         *)
VisitWithoutPop ==
  /\ waking = << >> /\ worklist # << >>
  /\ LET id == Head(worklist)
         new == Joined(graph, after, id)
     IN  IF new = before[id]
         THEN UNCHANGED <<before, after, waking>>
         ELSE /\ before' = [before EXCEPT ![id] = new]
              /\ after' = [after EXCEPT ![id] = Transfer(graph, id, new)]
              /\ waking' = graph.readers[id]
  /\ UNCHANGED <<graph, worklist>>

(* One round of the loop on the block at the front.                        *)
Visit ==
  /\ waking = << >> /\ worklist # << >>
  /\ worklist' = Tail(worklist)
  /\ LET id == Head(worklist)
         new == Joined(graph, after, id)
     IN  IF new = before[id]
         THEN UNCHANGED <<before, after, waking>>
         ELSE /\ before' = [before EXCEPT ![id] = new]
              /\ after' = [after EXCEPT ![id] = Transfer(graph, id, new)]
              /\ waking' = graph.readers[id]
  /\ UNCHANGED graph

(* Variant: pushed without the search.                                     *)
WakeAnyway ==
  /\ waking # << >>
  /\ waking' = Tail(waking)
  /\ worklist' = Append(worklist, Head(waking))
  /\ UNCHANGED <<graph, before, after>>

(* The inner loop: a reader is pushed unless std::find sees it waiting.    *)
Wake ==
  /\ waking # << >>
  /\ waking' = Tail(waking)
  /\ worklist' = IF Head(waking) \in Range(worklist)
                 THEN worklist ELSE Append(worklist, Head(waking))
  /\ UNCHANGED <<graph, before, after>>

Done == worklist = << >> /\ waking = << >>

(* solve returns.                                                          *)
Return == Done /\ UNCHANGED vars

Next == Visit \/ Wake \/ Return

Spec == Init /\ [][Next]_vars /\ WF_vars(Visit \/ Wake)
-----------------------------------------------------------------------------
Shape ==
  /\ IsGraph(graph)
  /\ DOMAIN before = Blocks(graph) /\ DOMAIN after = Blocks(graph)
  /\ worklist \in Seq(Blocks(graph))
  /\ waking \in Seq(Blocks(graph))

TypeOK ==
  /\ IsGraph(graph)
  /\ before \in [Blocks(graph) -> Facts(graph)] /\ after \in [Blocks(graph) -> Facts(graph)]
  /\ Range(worklist) \cup Range(waking) \subseteq Blocks(graph)

(* Every block whose equation does not hold is waiting or about to be put  *)
(* back, although only the readers of the block just changed are ever put  *)
(* back, and only when they are not already waiting.                       *)
PendingCovers ==
  \A b \in Blocks(graph) :
    \/ b \in Range(worklist) \cup Range(waking)
    \/ before[b] = Joined(graph, after, b)

(* The after side is transfer of the before side, or has never been        *)
(* computed.                                                               *)
AfterIsTransfer ==
  \A b \in Blocks(graph) :
    after[b] = Top(graph) \/ after[b] = Transfer(graph, b, before[b])

(* A block waits at most once: the deque never outgrows the graph.         *)
WaitsOnce == \A i, j \in DOMAIN worklist : worklist[i] = worklist[j] => i = j

(* When solve returns, the before side satisfies the join equations of the *)
(* whole graph, and the after side is its transfer wherever it was ever    *)
(* computed (a block whose first value equals its initial one keeps top).  *)
Solved ==
  Done => /\ AfterIsTransfer
          /\ \A b \in Blocks(graph) : before[b] = Joined(graph, after, b)

=============================================================================
