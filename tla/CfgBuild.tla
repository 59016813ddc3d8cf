------------------------------ MODULE CfgBuild ------------------------------
(***************************************************************************)
(* build_cfg of src/dataflow/dataflow.cpp: how a program becomes a flow    *)
(* graph.  The first pass cuts the flattened program after every           *)
(* conditional; the second copies the blocks into a new graph and expands  *)
(* a block that is one conditional into a diamond; the last removes        *)
(* duplicate edges and recomputes predecessors.                            *)
(*                                                                         *)
(* The second pass keeps references to blocks of a vector it goes on       *)
(* growing.  capacity is the vector's: a reference taken before it grows   *)
(* is stale, and what is read through it is undefined: the id the block    *)
(* had, the id of any other block, or no block at all, and then add_edge   *)
(* writes outside the vector and nothing more is said (pc = "undefined").  *)
(* Block k of the code is element k + 1 of the sequences here.             *)
(***************************************************************************)
EXTENDS Ast, FiniteSets, Orders

CONSTANTS
  Programs,    \* sequences of top-level expressions
  Exprs,       \* the expressions of the programs, and their parts
  Flatten(_)   \* flatten_block: an expression as a list of instructions

(* Conditionals have their parts among the expressions, and flattening     *)
(* makes expressions of expressions.                                       *)
ProgramsFit ==
  /\ \A p \in Programs : p \in Seq(Exprs)
  /\ \A e \in Exprs : /\ Flatten(e) \in Seq(Exprs)
                      /\ IsIf(e) => {e.cond, e.then, e.else} \subseteq Exprs

VARIABLES
  flat,      \* the flattened program
  pc,        \* "split", "refine", "finish", "done" or "undefined"
  at,        \* the position the current pass has reached
  graph,     \* blocks of the first pass
  refined,   \* blocks of the second
  capacity,  \* capacity of refined
  entry_id, exit_id

vars == <<flat, pc, at, graph, refined, capacity, entry_id, exit_id>>

NewBlock(id) ==
  [id |-> id, code |-> << >>, successors |-> << >>, predecessors |-> << >>,
   is_entry |-> FALSE, is_exit |-> FALSE]

(* add_edge *)
AddEdge(bs, from, to) ==
  [k \in DOMAIN bs |->
     [bs[k] EXCEPT !.successors = IF k = from + 1 THEN Append(@, to) ELSE @,
                   !.predecessors = IF k = to + 1 THEN Append(@, from) ELSE @]]

(* Capacity of a vector of capacity c after it has grown to n elements:    *)
(* doubled as often as it takes.                                           *)
Grown(c, n) ==
  LET doubled[k \in 0..n] == IF k = 0 THEN (IF c = 0 THEN 1 ELSE c) ELSE 2 * doubled[k - 1]
  IN  IF n <= c THEN c ELSE doubled[Min({k \in 0..n : doubled[k] >= n})]

Init ==
  /\ \E p \in Programs : flat = FlattenSeq([k \in DOMAIN p |-> Flatten(p[k])])
  /\ at = 1 /\ refined = << >> /\ capacity = 0
  /\ entry_id = 0 /\ exit_id = 0
  /\ graph = << [NewBlock(0) EXCEPT !.is_entry = TRUE, !.is_exit = (flat = << >>)] >>
  /\ pc = IF flat = << >> THEN "done" ELSE "split"

(* First pass: one instruction.  current_block is always the last block.   *)
Split ==
  /\ pc = "split"
  /\ LET n == Len(graph)
         taken == [graph EXCEPT ![n].code = Append(@, flat[at]),
                                ![n].is_exit = (at = Len(flat))]
     IN  graph' = IF IsIf(flat[at]) /\ at < Len(flat)
                  THEN AddEdge(Append(taken, NewBlock(n)), n - 1, n)
                  ELSE taken
  /\ IF at < Len(flat) THEN pc' = pc /\ at' = at + 1 ELSE pc' = "refine" /\ at' = 1
  /\ UNCHANGED <<flat, refined, capacity, entry_id, exit_id>>

(* Second pass, the end of an iteration that leaves the blocks bs.         *)
Refined(bs, first, last) ==
  /\ refined' = bs
  /\ capacity' = Grown(capacity, Len(bs))
  /\ entry_id' = IF graph[at].is_entry THEN first ELSE entry_id
  /\ exit_id' = IF graph[at].is_exit THEN last ELSE exit_id
  /\ IF at < Len(graph) THEN pc' = pc /\ at' = at + 1 ELSE pc' = "finish" /\ at' = 1
  /\ UNCHANGED <<flat, graph>>

IsConditionalBlock(bb) == Len(bb.code) = 1 /\ IsIf(bb.code[1])

CopyBlock ==
  /\ pc = "refine" /\ ~ IsConditionalBlock(graph[at])
  /\ LET n == Len(refined)
     IN  Refined(Append(refined, [NewBlock(n) EXCEPT !.is_entry = graph[at].is_entry,
                                                     !.is_exit = graph[at].is_exit,
                                                     !.code = graph[at].code]), n, n)

(* Variant: the else block is filled with the then branch.                 *)
DiamondThenTwice(bb, n) ==
  << [NewBlock(n) EXCEPT !.is_entry = bb.is_entry, !.code = <<bb.code[1].cond>>],
     [NewBlock(n + 1) EXCEPT !.code = Flatten(bb.code[1].then)],
     [NewBlock(n + 2) EXCEPT !.code = Flatten(bb.code[1].then)],
     [NewBlock(n + 3) EXCEPT !.is_exit = bb.is_exit] >>

(* The four blocks of a conditional, n..n+3.                               *)
Diamond(bb, n) ==
  << [NewBlock(n) EXCEPT !.is_entry = bb.is_entry, !.code = <<bb.code[1].cond>>],
     [NewBlock(n + 1) EXCEPT !.code = Flatten(bb.code[1].then)],
     [NewBlock(n + 2) EXCEPT !.code = Flatten(bb.code[1].else)],
     [NewBlock(n + 3) EXCEPT !.is_exit = bb.is_exit] >>

(* Whether the reference to block b is stale once there are n blocks.      *)
Stale(b, n) == Grown(capacity, b + 1) # Grown(capacity, n)

(* What id can be read through a reference to block b: its id, or if the   *)
(* reference is stale the id of any block or one that is out of range.     *)
IdsRead(b, n) == IF Stale(b, n) THEN 0..n ELSE {b}

ExpandConditional ==
  /\ pc = "refine" /\ IsConditionalBlock(graph[at])
  /\ LET n == Len(refined)
         four == refined \o Diamond(graph[at], n)
     IN  \E c \in IdsRead(n, n + 4), t \in IdsRead(n + 1, n + 4), e \in IdsRead(n + 2, n + 4) :
           IF n + 4 \in {c, t, e}
           THEN pc' = "undefined" /\ UNCHANGED <<flat, at, graph, refined, capacity, entry_id, exit_id>>
           ELSE Refined(AddEdge(AddEdge(AddEdge(AddEdge(four, c, t), c, e), t, n + 3), e, n + 3),
                        n, n + 3)

(* Duplicate edges are removed, which sorts them, and the predecessors are *)
(* computed again, the blocks in ascending order.                          *)
SortedUnique(s) == Ascending(Range(s))

(* Variant: the predecessors are left as they are.                         *)
FinishKeepPredecessors ==
  /\ pc = "finish"
  /\ refined' = [k \in DOMAIN refined |->
                   [refined[k] EXCEPT !.successors = SortedUnique(@)]]
  /\ pc' = "done"
  /\ UNCHANGED <<flat, at, graph, capacity, entry_id, exit_id>>

Finish ==
  /\ pc = "finish"
  /\ refined' = [k \in DOMAIN refined |->
       [refined[k] EXCEPT
          !.successors = SortedUnique(@),
          !.predecessors = Ascending({j \in 0..(Len(refined) - 1) :
                                        k - 1 \in Range(refined[j + 1].successors)})]]
  /\ pc' = "done"
  /\ UNCHANGED <<flat, at, graph, capacity, entry_id, exit_id>>

Stopped == pc \in {"done", "undefined"}
Return == Stopped /\ UNCHANGED vars

Next == Split \/ CopyBlock \/ ExpandConditional \/ Finish \/ Return

Spec == Init /\ [][Next]_vars

(* The graph returned. *)
Result == IF flat = << >> THEN graph ELSE refined
-----------------------------------------------------------------------------
TypeOK ==
  /\ pc \in {"split", "refine", "finish", "done", "undefined"}
  /\ at \in 1..(Len(flat) + 1)
  /\ \A k \in DOMAIN graph : graph[k].id = k - 1
  /\ \A k \in DOMAIN refined : refined[k].id = k - 1
  /\ capacity >= Len(refined) /\ entry_id \in Nat /\ exit_id \in Nat

(* Every edge is recorded at both its ends, once, whatever ids were read.  *)
EdgesMirror ==
  pc = "done" =>
    \A j, k \in DOMAIN Result :
      /\ k - 1 \in Range(Result[j].successors) <=> j - 1 \in Range(Result[k].predecessors)
      /\ IsInjective(Result[j].successors) /\ IsInjective(Result[j].predecessors)

(* The code of the result, block by block, is the program's code in order, *)
(* each conditional that was expanded giving its condition, its then and   *)
(* its else instructions: nothing is lost or repeated on the way.          *)
Expanded(bb) ==
  IF IsConditionalBlock(bb)
  THEN <<bb.code[1].cond>> \o Flatten(bb.code[1].then) \o Flatten(bb.code[1].else)
  ELSE bb.code

CodeOf(bs) == FlattenSeq([k \in DOMAIN bs |-> bs[k].code])

CodeKept ==
  /\ pc # "split" => CodeOf(graph) = flat
  /\ pc \in {"finish", "done"} /\ flat # << >> =>
       CodeOf(refined) = FlattenSeq([k \in DOMAIN graph |-> Expanded(graph[k])])

(* The entry and the exit are the blocks flagged as such, the only ones.   *)
EndsFlagged ==
  pc = "done" =>
    /\ {k \in DOMAIN Result : Result[k].is_entry} = {entry_id + 1}
    /\ {k \in DOMAIN Result : Result[k].is_exit} = {exit_id + 1}

-----------------------------------------------------------------------------
(* "Second pass: refine CFG for conditionals" (dataflow.cpp:180): every     *)
(* conditional at the top level of the program has a block of its own for  *)
(* its condition, which branches to two arms and nowhere else, and both    *)
(* arms lead to one block.                                                 *)
Branches(k) ==
  LET bb == Result[k]
  IN  /\ Len(bb.successors) = 2
      /\ \E m \in DOMAIN Result : \A b \in Range(bb.successors) :
           Result[b + 1].successors = <<m - 1>>

ConditionalsBranch ==
  pc = "done" =>
    \A k \in DOMAIN flat : IsIf(flat[k]) =>
      \E j \in DOMAIN Result : Result[j].code = <<flat[k].cond>> /\ Branches(j)
=============================================================================
