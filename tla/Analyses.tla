------------------------------ MODULE Analyses ------------------------------
(***************************************************************************)
(* The four analyses of src/dataflow/dataflow.cpp as instances of the      *)
(* solver of Solver.tla: what each takes for top, bot, meet and transfer.  *)
(* The results offered to callers are the before side and one more         *)
(* transfer of it.                                                         *)
(*                                                                         *)
(* A flow graph is a record with fields size, entry, exit, code (a         *)
(* sequence of expressions per block), succ and pred.                      *)
(***************************************************************************)
EXTENDS Ast

CONSTANTS
  Graphs,    \* flow graphs made with add_edge, and the analysis to run
  Literals,  \* the integers programs assign
  Uses(_),   \* collect_uses: the variables an expression mentions
  Defs(_)    \* collect_defs: the variables a statement binds

VARIABLES graph, before, after, worklist, waking    \* the solver's

Instructions(g, b) == DOMAIN g.code[b]

-----------------------------------------------------------------------------
(* compute_liveness: facts are sets of variables, joined with union, and   *)
(* top() and bot() are both the empty set.                                 *)
LiveTransfer(g, b, x) ==
  FoldRight(LAMBDA e, live : (live \ Range(Defs(e))) \cup Range(Uses(e)), g.code[b], x)

-----------------------------------------------------------------------------
(* compute_reaching_defs: facts are sets of definitions, joined with union. *)
Definition(x, b, j) == [variable |-> x, block_id |-> b, instr_index |-> j]

DefsAt(g, b, j) == {Definition(x, b, j) : x \in Range(Defs(g.code[b][j]))}

AllDefs(g) == UNION {UNION {DefsAt(g, b, j) : j \in Instructions(g, b)} : b \in DOMAIN g.code}

Mentions(defs, x) == \E d \in defs : d.variable = x

(* Variant: the definition made is not inserted.                           *)
ReachStepKillOnly(g, b, j, x) ==
  {d \in x : ~ Mentions(DefsAt(g, b, j), d.variable)}

ReachStep(g, b, j, x) ==
  LET new == DefsAt(g, b, j)
  IN  {d \in x : ~ Mentions(new, d.variable)} \cup new

ReachTransfer(g, b, x) ==
  FoldLeftDomain(LAMBDA defs, j : ReachStep(g, b, j, defs), x, g.code[b])

(* compute_use_def_chains: a use is given the latest, by block number and  *)
(* then by instruction, of the definitions that reach the start of its     *)
(* block; those in the block before it are not among them.                 *)
reaching_at(ins, b, x) == {d \in ins[b] : d.variable = x}

Latest(defs) ==
  CHOOSE d \in defs : \A other \in defs :
    \/ d.block_id > other.block_id
    \/ d.block_id = other.block_id /\ d.instr_index >= other.instr_index

defs_for_use(g, ins, b, j) ==
  {Latest(reaching_at(ins, b, x)) :
     x \in {y \in Range(Uses(g.code[b][j])) : reaching_at(ins, b, y) # {}}}

uses_of_def(g, ins, d) ==
  UNION {{<<b, j>> : j \in {i \in Instructions(g, b) : d \in defs_for_use(g, ins, b, i)}} : b \in DOMAIN g.code}

-----------------------------------------------------------------------------
(* compute_available_exprs: facts are sets of binary expressions over two  *)
(* variables, joined with intersection; bot() is the empty set.            *)
Keys(e) ==
  IF e.node = "binary" /\ IsIdent(e.lhs) /\ IsIdent(e.rhs)
  THEN {[op |-> e.op, lhs_name |-> e.lhs.name, rhs_name |-> e.rhs.name]} ELSE {}

AllKeys(g) == UNION {UNION {Keys(g.code[b][j]) : j \in Instructions(g, b)} : b \in DOMAIN g.code}

AvailTransfer(g, b, x) ==
  FoldLeft(LAMBDA keys, e :
             {k \in keys : {k.lhs_name, k.rhs_name} \cap Range(Defs(e)) = {}} \cup Keys(e),
           x, g.code[b])

-----------------------------------------------------------------------------
(* compute_constant_propagation: facts are finite maps from variables to   *)
(* values; a variable outside the map is simply not mentioned, and bot()   *)
(* is the empty map.                                                       *)
TopValue == [tag |-> "top", ival |-> 0]
BottomValue == [tag |-> "bottom", ival |-> 0]
Constant(n) == [tag |-> "constant", ival |-> n]

NoValues == << >>

Variables(g) ==
  UNION {UNION {Range(Uses(g.code[b][j])) \cup Range(Defs(g.code[b][j])) :
                  j \in Instructions(g, b)} : b \in DOMAIN g.code}

AllTop(g) == [x \in Variables(g) |-> TopValue]

MeetValue(v, w) ==
  CASE v = TopValue -> w
    [] w = TopValue -> v
    [] v = w        -> v
    [] OTHER        -> BottomValue

MeetMaps(x, y) ==
  [v \in DOMAIN x \cup DOMAIN y |->
     IF v \in DOMAIN x \cap DOMAIN y THEN MeetValue(x[v], y[v])
     ELSE IF v \in DOMAIN x THEN x[v] ELSE y[v]]

Put(x, v, val) == [w \in DOMAIN x \cup {v} |-> IF w = v THEN val ELSE x[w]]

Assigns(e) == e.node = "binary" /\ e.op = "=" /\ IsIdent(e.lhs)

(* A let copies a constant or another variable's constant; an assignment   *)
(* only takes a literal.                                                   *)
ConstStep(x, e) ==
  CASE e.node = "let" ->
         Put(x, e.name,
             CASE e.value.node = "int" -> Constant(e.value.ival)
               [] /\ IsIdent(e.value) /\ e.value.name \in DOMAIN x
                  /\ x[e.value.name].tag = "constant" -> x[e.value.name]
               [] OTHER -> BottomValue)
    [] Assigns(e) ->
         Put(x, e.lhs.name,
             IF e.rhs.node = "int" THEN Constant(e.rhs.ival) ELSE BottomValue)
    [] OTHER -> x

ConstTransfer(g, b, x) == FoldLeft(ConstStep, x, g.code[b])

-----------------------------------------------------------------------------
(* The solver's parameters for the analysis a graph is solved for.         *)
FactsFor(g) ==
  CASE g.analysis = "liveness"  -> SUBSET Variables(g)
    [] g.analysis = "reaching"  -> SUBSET AllDefs(g)
    [] g.analysis = "available" -> SUBSET AllKeys(g)
    [] g.analysis = "constants" ->
         UNION {[S -> {TopValue, BottomValue} \cup {Constant(n) : n \in Literals}] :
                  S \in SUBSET Variables(g)}

TopFor(g) ==
  CASE g.analysis = "liveness"  -> {}
    [] g.analysis = "reaching"  -> AllDefs(g)
    [] g.analysis = "available" -> AllKeys(g)
    [] g.analysis = "constants" -> AllTop(g)

BotFor(g) == IF g.analysis = "constants" THEN NoValues ELSE {}

MeetFor(g, x, y) ==
  CASE g.analysis \in {"liveness", "reaching"} -> x \cup y
    [] g.analysis = "available" -> x \cap y
    [] g.analysis = "constants" -> MeetMaps(x, y)

TransferFor(g, b, x) ==
  CASE g.analysis = "liveness"  -> LiveTransfer(g, b, x)
    [] g.analysis = "reaching"  -> ReachTransfer(g, b, x)
    [] g.analysis = "available" -> AvailTransfer(g, b, x)
    [] g.analysis = "constants" -> ConstTransfer(g, b, x)

(* The graph given to solve: liveness runs backward.                       *)
For(analysis, g) ==
  LET backward == analysis = "liveness"
  IN  [size |-> g.size, entry |-> g.entry, exit |-> g.exit,
       code |-> g.code, succ |-> g.succ, pred |-> g.pred, analysis |-> analysis,
       boundary |-> IF backward THEN g.exit ELSE g.entry,
       feeders |-> IF backward THEN g.succ ELSE g.pred,
       readers |-> IF backward THEN g.pred ELSE g.succ]

INSTANCE Solver WITH
  Facts <- FactsFor, Top <- TopFor, Bot <- BotFor, Meet <- MeetFor, Transfer <- TransferFor

(* What For makes of a flow graph with code in each of its blocks.         *)
IsFor(g) ==
  /\ g = For(g.analysis, g)
  /\ DOMAIN g.code = Blocks(g)
  /\ \A b \in Blocks(g) : g.code[b] \in Seq(Range(g.code[b]))

(* What the walks make of the two forms that give a variable a value: a    *)
(* let defines its name, an assignment mentions its target.                *)
WalksFit(e) ==
  /\ e.node = "let" => e.name \in Range(Defs(e)) /\ (e.value.node = "int" => e.value.ival \in Literals)
  /\ Assigns(e) => e.lhs.name \in Range(Uses(e)) /\ (e.rhs.node = "int" => e.rhs.ival \in Literals)

AnalysisNames == {"liveness", "reaching", "available", "constants"}

IsAnalysed(g) ==
  g.analysis \in AnalysisNames /\ \A b \in Blocks(g) : \A e \in Range(g.code[b]) : WalksFit(e)

ASSUME GraphAssumption == GraphsFit /\ \A g \in Graphs : IsFor(g) /\ IsAnalysed(g)

-----------------------------------------------------------------------------
(* What the results mean, by the paths of the graph.                       *)

DefinesIn(g, b, x) == \E j \in Instructions(g, b) : x \in Range(Defs(g.code[b][j]))

(* The blocks control can be in, starting in one of the blocks of from and *)
(* leaving only blocks that do not define x: the least set that has from   *)
(* and what its blocks that do not define x lead to.                       *)
ClosedUndefined(g, x, S) == \A b \in S : ~ DefinesIn(g, b, x) => Range(g.succ[b]) \subseteq S

Undefined(g, x, from) ==
  {b \in Blocks(g) : \A S \in SUBSET Blocks(g) :
                       from \subseteq S /\ ClosedUndefined(g, x, S) => b \in S}

(* The blocks whose start d reaches.                                       *)
ReachedBy(g, d) ==
  IF \E j \in Instructions(g, d.block_id) :
       j > d.instr_index /\ d.variable \in Range(Defs(g.code[d.block_id][j]))
  THEN {} ELSE Undefined(g, d.variable, Range(g.succ[d.block_id]))

(* Control can come to the end of b and then use x before redefining it.   *)
UsedFirst(g, b, x) ==
  \E j \in Instructions(g, b) :
    /\ x \in Range(Uses(g.code[b][j]))
    /\ \A i \in 1..(j - 1) : x \notin Range(Defs(g.code[b][i]))

LiveOut(g, b, x) == \E c \in Undefined(g, x, Range(g.succ[b])) : UsedFirst(g, c, x)

(* A definition that can reach a block other than the entry is in the      *)
(* result, so no optimisation built on it overlooks an assignment.  In the *)
(* chains a use in the block then has a definition of its variable, and    *)
(* the only definition of a variable knows of the use: what uses_of_def    *)
(* gives no use, and is the only one, is dead outside its block.           *)
ReachesAll ==
  Done /\ graph.analysis = "reaching" =>
    \A d \in AllDefs(graph) : \A b \in ReachedBy(graph, d) \ {graph.entry} :
      /\ d \in before[b]
      /\ \A j \in Instructions(graph, b) : d.variable \in Range(Uses(graph.code[b][j])) =>
           /\ Mentions(defs_for_use(graph, before, b, j), d.variable)
           /\ (\A other \in AllDefs(graph) \ {d} : other.variable # d.variable) =>
                <<b, j>> \in uses_of_def(graph, before, d)

(* "Liveness analysis" (dataflow.hpp:74): a variable some path uses     *)
(* after a block before redefining it is live at the block's exit.         *)
LiveAtExit ==
  Done /\ graph.analysis = "liveness" =>
    \A b \in Blocks(graph) \ {graph.exit} : \A x \in Variables(graph) :
            LiveOut(graph, b, x) => x \in before[b]

=============================================================================
