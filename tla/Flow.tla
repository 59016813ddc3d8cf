-------------------------------- MODULE Flow --------------------------------
(***************************************************************************)
(* The dataflow library as its client uses it: build_cfg on a program,     *)
(* an analysis of the graph it returns, compute_dominators on the same     *)
(* graph.  A client may also fill a cfg by hand, with add_edge.  Each call *)
(* runs to its end before the next; what one leaves is what the next       *)
(* starts from, so its promises have to be the next one's assumptions.     *)
(*                                                                         *)
(* graph, before, after, worklist and waking are the solver's; the other   *)
(* variables are those of CfgBuild (blocks is its graph of the first pass) *)
(* and Dominators, which reads the solver's graph.                         *)
(***************************************************************************)
EXTENDS Analyses

CONSTANTS
  Programs,   \* what build_cfg is called with
  Exprs,      \* the expressions of the programs, and their parts
  Flatten(_), \* flatten_block
  Wanted,     \* the analyses run on its result
  MaxBlocks   \* bound: the blocks of a result that is analysed

VARIABLES
  flat, building, at, blocks, refined, capacity, entry_id, exit_id,
  computing, path, counter, dfn, vertex, parent, semi, label, ancestor, bucket, idom, i

B == INSTANCE CfgBuild WITH graph <- blocks, pc <- building
D == INSTANCE Dominators WITH pc <- computing

ASSUME ProgramAssumption ==
  B!ProgramsFit /\ (\A e \in Exprs : WalksFit(e)) /\ Wanted \subseteq AnalysisNames
ASSUME TreeAssumption == D!GraphsFit

build == <<flat, building, at, blocks, refined, capacity, entry_id, exit_id>>
tree == <<computing, path, counter, dfn, vertex, parent, semi, label, ancestor, bucket, idom, i>>
solver == <<graph, before, after, worklist, waking>>
allvars == <<build, solver, tree>>

NoGraph == [size |-> 0, analysis |-> "none"]

(* The cfg build_cfg returns, as the analyses see it.                      *)
Returned ==
  LET bs == B!Result
      ids == 0..(Len(bs) - 1)
  IN  [size |-> Len(bs), entry |-> entry_id, exit |-> exit_id,
       code |-> [b \in ids |-> bs[b + 1].code],
       succ |-> [b \in ids |-> bs[b + 1].successors],
       pred |-> [b \in ids |-> bs[b + 1].predecessors]]

FlowInit ==
  /\ \/ /\ B!Init
        /\ graph = NoGraph
        /\ before = << >> /\ after = << >> /\ worklist = << >> /\ waking = << >>
     \/ /\ Init
        /\ building = "none" /\ at = 1 /\ flat = << >> /\ blocks = << >> /\ refined = << >>
        /\ capacity = 0 /\ entry_id = 0 /\ exit_id = 0
  /\ D!Idle

(* A step of build_cfg.                                                    *)
Build ==
  /\ B!Split \/ B!CopyBlock \/ B!ExpandConditional \/ B!Finish
  /\ UNCHANGED <<solver, tree>>

(* compute_reaching_defs and its like, on the graph built: solve begins.   *)
Analyse(analysis) ==
  /\ building = "done" /\ graph = NoGraph /\ Len(B!Result) <= MaxBlocks
  /\ graph' = For(analysis, Returned)
  /\ before' = FirstBefore(graph') /\ after' = FirstAfter(graph')
  /\ worklist' = FirstWorklist(graph') /\ waking' = << >>
  /\ UNCHANGED <<build, tree>>

Solve == (Visit \/ Wake) /\ UNCHANGED <<build, tree>>

(* compute_dominators, once the analysis has returned.                     *)
Rank == graph # NoGraph /\ Done /\ D!Compute /\ UNCHANGED <<build, solver>>

Dominate ==
  /\ \/ D!Descend \/ D!Ascend \/ D!StartSemi \/ D!Process \/ D!StartIdom
     \/ D!Adjust \/ D!FinishTree
  /\ UNCHANGED <<build, solver>>

(* The library is idle for good: the last call has returned, or build_cfg  *)
(* wrote outside a vector and nothing more can be said.                    *)
Ended ==
  \/ computing = "done" \/ building = "undefined"
  \/ building = "done" /\ Len(B!Result) > MaxBlocks

FlowNext ==
  \/ Build \/ \E a \in Wanted : Analyse(a)
  \/ Solve \/ Rank \/ Dominate
  \/ Ended /\ UNCHANGED allvars

(* solve is a sequential loop that goes on while it has something to do.   *)
(* Nothing is assumed of the client or of the other calls.                 *)
FlowSpec == FlowInit /\ [][FlowNext]_allvars /\ WF_allvars(Solve)
-----------------------------------------------------------------------------
FlowTypeOK ==
  /\ building = "none" \/ B!TypeOK
  /\ graph = NoGraph \/ TypeOK
  /\ computing = "none" \/ D!TypeOK

(* What build_cfg returns is what the calls after it take for granted,     *)
(* whatever ids it read through stale references: every edge leads to a    *)
(* block, is recorded at both its ends and only once, and the entry and    *)
(* the exit are the blocks flagged as such, the only ones.                 *)
BuiltFits ==
  building = "done" /\ graph = NoGraph =>
    /\ B!EdgesMirror /\ B!EndsFlagged
    /\ \A a \in {"liveness", "reaching"} : IsGraph(For(a, Returned))
    /\ D!IsFlowGraph(Returned)

(* The instructions of the graph built, block by block, are the program's  *)
(* in order: none is lost or repeated in either pass.                      *)
CodeKept == B!CodeKept

(* The dominator tree of a graph that has been analysed: following         *)
(* dominators ends, on any graph; and on graphs of at most four blocks     *)
(* with the entry first, where no ancestor is taken for none, dominates    *)
(* answers whether every way from the entry to b passes a.                 *)
DominatesDecides ==
  /\ D!ChainsEnd
  /\ graph.size \in 1..4 => D!Correct
  /\ graph.size \in 1..4 /\ graph.entry = 0 => D!Decides

(* In a graph without cycles, reverse_postorder lists every reachable      *)
(* block once, after all its reachable predecessors.                       *)
TopologicalOrder == D!TopologicalOrder

(* solve returns, on every graph and for every analysis, although constant *)
(* propagation's transfer is not monotone.                                 *)
SolveReturns == graph # NoGraph ~> Done
=============================================================================
