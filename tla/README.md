# A TLA+ model of On1x

On1x is an expression language written in C++: a parser, a tree-walking
evaluator, an embedding C API, and a set of compiler libraries around them
(semantic analysis, dataflow analyses, a rewriting engine, e-graphs, an ISA
description reader), with thin layers for memory, foreign calls and plugins.
This directory holds TLA+ modules that model that code, TLC configurations that
check them on small instances, and proofs checked by TLAPS. Paths below are
relative to `src/src` unless they say otherwise.

The program has no threads. What makes it hard is elsewhere: environments that
closures share by reference, calls that leave early by an error string or an
exception, resources with one owner that moves, fixpoint loops that must stop
at the right place, and references into containers that grow.

## 1. Inventory

| Part | Source | State it keeps | Operations | What makes it correct |
|---|---|---|---|---|
| C API virtual machine | `core/c_api.cpp` | `scope`, `sink` of each `on1x_vm` | create, destroy, reset, eval_string, eval_file | an evaluation takes effect at once or not at all; output goes to the call that printed it |
| Environments and evaluator | `core/runtime.cpp` | chains of environments, values | lookup, bind, eval of every AST node, closures | closures see the environment they captured; errors and panics leave no trace |
| Prelude | `core/builtins.cpp` | the generator of `random` | print, println, show, panic, assert, random, randint | prints reach the evaluation that made them |
| One-shot evaluation | `core/eval.cpp` | none between calls | eval_string, eval_file | each call starts from the prelude |
| Dataflow solver and analyses | `dataflow/dataflow.cpp`, `include/on1x/dataflow/dataflow.hpp` | facts per block, a worklist | solve; liveness, reaching definitions, available expressions, constants | the solver stops at a fixpoint of its equations, which covers every path |
| Control flow graphs | `dataflow/dataflow.cpp` | blocks, edges, flags | build_cfg, add_edge, postorder | every instruction in one block, every branch two edges |
| Dominators | `dataflow/dataflow.cpp` | the tables of Lengauer and Tarjan | compute_dominators, dominates | the table is the definition of dominance |
| Rewriting | `rewrite/rewrite.cpp` | rules, captures, counters | match, apply, fixed point, rule sets | a rewritten program computes what the original did |
| Semantic analysis | `sema/sema.cpp` | scopes, diagnostics | subtyping, inference, checking | what is accepted evaluates; an error is reported where a form has no type, only |
| Lexer and parser | `frontend/parser.cpp` | token stream, cursor, error | lex, parse | the parser always advances; the written precedence is the parsed one |
| E-graph adapter | `egraph/egraph.cpp` | an e-graph and its root | to and from expressions, run | a term survives the round trip |
| ISA reader | `codegen/codegen.cpp` | the instruction set being read | parse_blocks, parse, load | blocks nest as the braces do |
| Memory wrappers | `memory/memory.cpp` | one native handle per arena or pool | construct, move, reset, save, restore, destroy | a handle is destroyed once, by its only owner |
| Foreign calls | `ffi/ffi.cpp` | libraries, the call machine | load, get, call, typed reads and writes | the call machine is freed on every path; no call is entered half built |
| Plugins | `plugin/plugin.cpp` | one library handle and its exports | load, move, initialize, shutdown | the exports run are those of the handle held |
| Command line | `tool/main.cpp` | none between lines | -e, run, check, repl | every input line is answered |

How they interact. The C API calls the parser, then the evaluator once per form,
in an environment chained to the machine's scope; the evaluator calls back into
natives the C API installed, which write to the machine's sink. `parse_program`
reads a source twice: against the grammar, then with its own parser. `build_cfg`
and the analyses are called one after another on the same graph; the solver calls
the lattice it is a template over. Semantic analysis puts every binary operation
into an e-graph to ask whether it divides by zero. The rewriting engine, the
e-graph adapter and semantic analysis share the AST. Memory, foreign calls and
plugins each wrap a native library and do not call each other.

`PROJECT.json` lists every component with what is modelled of it, and every
hazard: what can go wrong at a given line that a test would hardly reach, and
the property that would notice.

## 2. Modules

| Module | Models | State and actions |
|---|---|---|
| `Session` | what the C API promises: a machine is a set of definitions, an evaluation commits or is abandoned | `live`, `defs`, `running`, `status`; Create, Destroy, Reset, Refuse, Start, Commit, Abandon |
| `Vm` | `core/c_api.cpp` over the environments of `core/runtime.cpp` | `envs` is every environment ever made, `frames` the environments of the call in progress, `acc` the last value; one action per evaluation step, per way out of a call, and per API function |
| `VmProofs` | theorems about `Vm` | |
| `Orders` | `std::sort` of numbers, as the one ascending sequence of a set | `Ascending` |
| `Ast` | the expressions of `ast.hpp` | node constructors and parts |
| `Walks` | the three walks of `dataflow.cpp` over expressions | `flatten_block`, `collect_uses`, `collect_defs` |
| `Eval` | the pure fragment of the evaluator | `eval(e, s)` |
| `Grammar` | `frontend/On1x.g` | productions, and `Derives` over the words of a source |
| `Parser` | `frontend/parser.cpp` | `source`, the cursor `at`, `forms`; Validate holds the source against the grammar, ParseForm is one round of `parser::parse`; the parsing functions answer where they stopped, the tree, and whether they failed or threw |
| `Printing` | no code: what `Parser` is held against | the words a tree is printed as; `RoundTrip` and `NothingLost` |
| `ParserProofs` | theorems about `Parser` | |
| `Terms` | `egraph/egraph.cpp` | `to_term`, `from_term`, `parse_term` |
| `Sema` | `sema/sema.cpp` | `symbols` of the global scope, the `messages` of the checker, the `program` and the types of its forms; Define, Check, CheckForm, EndOfProgram. `infer` takes the messages so far and answers a type and the messages since, as the code's diagnostics object does |
| `Solver` | `dataflow_solver::solve`, for any lattice and graph, in both directions | `before`, `after`, `worklist`, `waking`; Visit is one round of the loop, Wake one turn of the inner loop that requeues readers |
| `SequenceLemmas` | facts about sequences the proofs share | recursion over positions, flattening, folds over sets of positions, ascending lists |
| `Analyses` | the four analyses as instances of the solver | top, bot, meet and transfer of each; the use-def chains over the reaching definitions |
| `CfgBuild` | `build_cfg` | Split is one instruction of the first pass, CopyBlock and ExpandConditional one block of the second, Finish the last two loops |
| `CfgBuildProofs` | theorems about `CfgBuild` | |
| `Dominators` | `compute_dominators`, `postorder`, `reverse_postorder` | Descend and Ascend are the search, Process one iteration of the main loop, Adjust one of the last |
| `DominatorsProofs` | theorems about `Dominators` | |
| `Flow` | the three components above as a client calls them | Build, Analyse, Solve, Rank, Dominate: each call starts from what the one before left |
| `FlowProofs` | lemmas about the solver and the analyses; theorems about `Flow`, out of those about its parts | |
| `Rewrite` | the rewriting engine and its rule sets | Round is one pass of `apply` and the test of `apply_fixed_point` |
| `IsaReader` | `codegen/codegen.cpp` | the listing of a directory, the line read, the block being read and its depth, the documents; NextEntry, SkipLine, OpenBlock, BodyLine, CloseBlock, EndFile, SortDocuments, and RefuseHeader and RefuseRegister, which throw |
| `IsaReaderProofs` | theorems about `IsaReader` | |
| `Handles` | `memory`, `ffi` and `plugin` as owners of native handles, and a foreign call | `held`, `open`, `exports`, `call`, `callVMs`; construction, the two moves, reset, destruction, and one action per argument pushed |
| `HandlesProofs` | theorems about `Handles` | |

`Flow` extends `Analyses`, which takes `Solver` with the four lattices for its
parameters, and instantiates `CfgBuild` and `Dominators`. These three do not
know how an expression is walked: the walks are parameters (`Flatten`, `Uses`,
`Defs`, over a set `Exprs`), for which the `MC` modules give those of `Walks`, so
that what is proved holds of any walk and the proofs meet no recursion over
trees. `Sema` extends `Eval` and `Terms`; `Rewrite` extends `Eval`; `Parser`
extends `Grammar` and `Ast`, and `Printing` extends `Parser`. `MC*` modules give the constants their values for TLC,
and `SamplePrograms` the programs two of them share. Definitions keep the
source's names where they have one (`lookup`, `bind`, `match_pattern_impl`,
`apply`, `parse_block_or_expr`, `is_subtype`); `map` in `PROJECT.json` gives the
lines each stands for. Definitions commented "Variant" are plausible bugs: each
property is known to fail when the variant takes the place of the definition it
varies.

Abstractions worth knowing:

- `Vm` forgets program text. Within a call every next step of the evaluator is
  possible, so what holds in the model holds for every program; values are a
  datum, a closure, or a native. An environment is its bindings and the set of
  environments `lookup` visits. Parse errors are a call that is refused.
- Memory exhaustion is the choice `Made` offers: the pool returns null, which
  the code binds without a test and reads back as an unknown name.
- In `CfgBuild` the second pass reads ids through references into a vector that
  has been reallocated. What is read is undefined, so the model chooses any
  block's id or one out of range, which ends the behaviour (`"undefined"`).
- `Dominators` keeps the code's one symbol for both "none" and "block 0".
- `Rewrite` keeps the builder's null answer: `rewrite_rule::apply` wraps it in an
  optional that has a value, so a rule that declines still replaces the
  expression, by a null one.
- `defs_for_use` answers a vector with at most one definition in it; in the model it
  is the set of what the vector holds.
- In `Grammar`, `Parser`, `IsaReader` and the reader of `Terms` an input is a
  sequence of words, where the code reads characters; which words may be glued
  together is said in each module. An error or a message is its kind.
- Floats and strings have no node of their own: where the tree is walked they
  behave as integers do. `Sema` knows the float types, as types of symbols.
- The e-graph of the test for a division by zero is reduced to what its two
  patterns can match in a term without rules: a literal zero under the root.
- Foreign code, the dynamic loader, the hash table, the allocator and dyncall are
  external: modelled by what the code relies on.

## 3. Runs

| Run | Instance | What it shows |
|---|---|---|
| `vm_two_machines` | two machines, one identifier, memory never short, four environments; 274 000 states | nothing of an uncommitted evaluation escapes, earlier definitions keep their meaning, the sink is redirected only during a call, machines share nothing, and `Vm` implements `Session` where an evaluation that fails changes nothing |
| `vm_memory_short` | one machine, two identifiers, any allocation may fail, three environments | `Vm` implements `Session` where a commit whose output cannot be copied reports an error; a reset forgets what programs defined |
| `flow` | programs of up to four forms and what `build_cfg` makes of them, every graph of four blocks, every one of three with another entry, and about 2300 of three and four blocks with code, under all four lattices; 300 000 states | whatever is read through stale references, the graph built fits what solver and dominators assume and has the program's instructions in order; the worklist forgets no unsolved block and holds none twice, solve returns, its result solves the equations, reaching definitions and the chains over them miss none; up to four blocks dominance is decided rightly |
| `parser` | the printed form of some 4000 trees, every source of up to three of 26 words, five programs with one word left out, put in or replaced; 65 000 states | trees come back as they were printed, no name or number is dropped, no tree with a null part is returned, every round reads on and none reads past the end |
| `sema` | a thousand forms and pairs of forms over two names, six types a client may give them, before, between and after two checks by one checker; 163 000 states | errors are reported exactly where a form has no type, and stick; what is accepted evaluates to a value of its type; assignments compose; terms survive both round trips; further symbols never turn an accepted form down |
| `isa_files` | some 17 000 files of up to six lines, and directories of three files listed in any order; 170 000 states | blocks nest as their braces do, the bundle does not depend on the listing, and a throw leaves none |
| `rewrite` | some 1600 typed expressions, two or three operators deep, every rule set, both orders, one round and twelve | nothing is left to apply at the fixed point, the loop ends within the number of nodes, and what is not lost keeps its value |
| `handles` | two places for an arena, a foreign library and a plugin each, three handles; 265 000 states | no handle leaks or is closed twice, plugins run their own exports, the call machine is freed however a call ends, foreign code is entered with the arguments it declares |

Bounds. `MaxEnvs` stops a machine of `Vm`: two environments hold
the prelude and a committed layer, and two more are what a later call needs to
call a closure the earlier one left, which is where every property could break
(with memory short three are enough for a later evaluation to fail over what an
earlier one left); the theorems of section 5 have no bound. Three graph blocks suffice for a block
to be requeued while it waits and for a change to travel a cycle twice.
Four blocks suffice for a bucket emptied at the wrong time, and not for the
error of `dominators_five`, which is why `DominatesDecides` stops there;
`MaxBlocks = 5` lets the graph of one expanded conditional through to the
analyses. Three handles let both places of a kind hold one
while a third is opened. The built-in rules look at most two operators
deep, and two rounds on such an expression show one rule enabling another.
The parser's ladder shows in trees of two operators, its skips and errors in
sources where one word is wrong; no loop of the parser looks further ahead than
two words. A file of four lines holds a block within a block and a line that
should not be there; six hold two blocks. A checker used twice (`checks < 2`) is
enough for what sticks to be seen, and a second use of a checker that has
reported something differs from no later one.

Fairness. Weak fairness is stated of sequential loops that run whenever they have
something to do: of `solve` in `Solver`'s `Spec` and in `Flow` (`SolveReturns`
needs it), and of the parser's rounds. Nothing is assumed of the callers of any
component.

Deadlock checking is off for the `Vm` runs, where the bound on environments
stops the machine, and for `rewrite` and `sema`, where the loop returns and the
instance has no further call to make.

## 4. Where the code and its documentation disagree

Four runs check something a comment or a document says and find it violated.

- `liveness_at_exit` — `solve` applies transfer only when the joined value differs
  from the initial one (`dataflow.cpp:286`, `301`); liveness starts from the value
  it joins to, so no variable is ever live.
- `conditionals_branch` — a conditional that is not alone in its block is not
  expanded, and the edges of one that is are taken from references into a
  reallocated vector (`dataflow.cpp:191`, `212`).
- `dominators_five` — 0 stands for "not linked" and is also the entry block, so
  paths through a child of the entry are not compressed; on five blocks the
  table is wrong (`dataflow.cpp:781`).
- `only_constants_folded` — folding turns `x + 1` into a null expression, as a
  builder's `nullptr` is an optional that holds a value (`rewrite.cpp:642`).
  With all rule sets together the folding rules come first, so `x + 0 → x` is
  never reached.

Met while reading, and not settled by a run of its own.

C API and evaluator:
- `on1x_vm_reset` builds the prelude with a null sink (`core/c_api.cpp:72`), so what a
  program prints after a reset is dropped and the evaluation is still OK
  (`specs/On1x-REPLDirectives.yaml:92` speaks of resetting, not of silencing).
- Every call of `eval_string` starts from a fresh prelude, and the REPL calls it line
  by line: a definition is gone before the next line.

Dataflow:
- the second pass of `build_cfg` drops the edges of the first (`old_to_new` is filled
  and not read), so blocks after the first are unreachable;
- available expressions are always empty, as the join starts from the bottom of a
  lattice whose meet is intersection; constant propagation never transfers the
  entry block;
- use-def chains choose between definitions by block number, and look up what
  reaches the start of the block: a use after a definition in its own block is
  given another one, or none;
- `dominance_frontier` returns nothing; the children of block 0 are left out of the
  dominator tree; `dominates` goes by block 0 also when the entry is another.

Parser (all are behaviours of `Grammar` and `Parser`):
- the grammar has no calls: `f(x)` passes as two expressions in a row, and
  `f(g(x))`, which the parser would read, is refused; so are `>>=` and `+=`;
- `if x {1} else if y {2} else {3}; z` puts `z` into the last branch
  (`parser.cpp:344`); `{ x; y }` as an expression, `let x = 1` without `in` and a
  function `fn(x) = x` at the top of a program pass the grammar and fail in
  the parser;
- `parse_type` skips whole bracketed groups, braces too, so `fn f(x) -> int { x }` loses
  its body to the return type; `type t = int; x` drops everything up to the next
  `fn`, `type`, `module` or `import`;
- a numeral above 64 bits leaves by the exception of `std::stoll`; `synchronize` is
  never reached.

Semantic analysis:
- a top-level `fn f(x) { ... }` is an assignment to a name nobody defined and is
  always refused;
- in a function of `x`, `x + 1` is accepted and `1 + x` has the type of `x`, which is
  no number, and is refused; `true < false` is accepted, the evaluator refuses it;
- a string literal with the text `sema_error_div_zero` in a binary operation is
  reported as a division by zero.

Other:
- a block of an ISA file that opens and closes on one line stays open: of
  `extra/ISA/amd64.isa` the `flags` block at line 675 takes the rest of the file
  with it (no encoding and no operation is read);
- in a written term only spaces and closing brackets end a name, so `(a(b))` is
  one operator named `a(b` and an input after its end;
- a function looked up by `get_function` outlives its library; strength reduction
  produces operators the evaluator does not have.

## 5. Theorems

All are proved for every value of the constants, from the assumptions the
modules name. TLC evaluates each of these on a passing run:

| Assumption | Says | Why the code justifies it |
|---|---|---|
| `VmAssumption` (`Vm`) | the mark for "no machine" is no machine; `print` is a name | the prelude binds it |
| `GraphAssumption` (`Analyses`) | edges lead to blocks and are recorded at both ends; the graph is one for one of the four analyses; the walks find the name of a `let` among the definitions of an expression, the target of an assignment among its uses, and both give integers of `Literals` | graphs are filled with `add_edge`, by `build_cfg` or by hand; `collect_uses` (`dataflow.cpp:51`) and `collect_defs` (`dataflow.cpp:87`) |
| `TreeAssumption` (`Flow`) | the same of the edges, for `compute_dominators`, and that the entry is a block | as above |
| `ProgramAssumption` (`Flow`; `ProgramsFit` in `CfgBuild`) | flattening gives expressions, and so do the arms of a conditional; what the walks find, as above, of the expressions of programs | the parser builds `if` with its three parts |
| `HandlesAssumption` (`Handles`) | owners have a kind, argument types are strings | the types of the C++ classes |
| `DirectoriesFit` (`IsaReader`) | a directory is a finite set of files of lines of words | what `directory_iterator` and `getline` give |
| `SourceAssumption` (`Parser`) | sources are sequences of words; the end token is no word of the language and no numeral | the lexer makes it (`tok_kind::eof`) and no text of a source does |

Names of files and expressions are not described further. `GraphsFit` and
`ProgramsFit` are hypotheses of the theorems of `DominatorsProofs` and
`CfgBuildProofs`, and are discharged in `FlowProofs`.

**Vm** (`VmProofs`). The inductive invariant is `IInv`: types; `Chains`
(environments are closed under "parent of", and a parent is older than its
child); `Pointers` (every closure and frame names an environment that exists);
`CallShape` (the bottom frame is the layer, over the machine's scope);
`SinkFollowsCall`; `NoEscape`. `NoEscape` is not inductive without the rest: that
an assignment lands in a new environment needs `lookup` to find the youngest
binder, which needs the order of `Chains`. From it:

- `TypeCorrectness`, `SinkDiscipline`, `Confinement`: its conjuncts;
- `EarlierMeaning`: `EarlierMeaningIsStable`, since every binding a step changes is
  in an environment of the call in progress and `lookup` from an old one never
  leaves the old ones;
- `Atomicity`: `ImplementsSession`, the refinement of `Session`: each action maps to
  the `Session` action of the same name, and every evaluation step to a stutter;
- `MachinesShareNothing`: `Isolation`. It follows the root of every environment,
  its prelude. A binding is only ever given the value in flight, and that value was
  read anywhere along a chain, so the strengthening `Families` says that a whole
  chain has one root and that the value in flight has the root of the machine
  that is evaluating.

**Solver** (first part of `FlowProofs`). The invariant `SolverInv` is `Shape`,
`PendingCovers`, `AfterIsTransfer` and `WaitsOnce`. `PendingCovers` is the heart: the
readers of the block just changed are either waiting or still to be woken, and
every other block's equation reads nothing that moved. From it: the worklist
forgets no unsolved block and holds none twice, and whatever `solve` returns, for any
graph and whether or not the transfer is monotone, satisfies the join equations.
Nothing of this asks what the lattice is; the types do, and
are proved for the four lattices of the library.

**Graph construction** (`CfgBuildProofs`). The invariant says, phase by phase, what
has been made of the program. In the first pass (`Cutting`) the code of the blocks is
the first `at - 1` instructions; after it (`Cut`) it is all of them. In the second
(`Refining`, `RefinedAll`) the code of the refined blocks is that of the blocks before
`at`, each conditional replaced by its diamond. `Linked` holds every edge at both
ends. It is inductive although the ids that ExpandConditional reads
through stale references are arbitrary: `AddEdge` keeps `Linked` for any pair in
range, and out of range ends the behaviour. That is also why an edge may be wrong
(`conditionals_branch`) and the graph still be well made. From it:

- `EdgesAtBothEnds`: `EdgesMirror`, each edge at both ends and once;
- `OneEntryOneExit`: `EndsFlagged`;
- `NothingLostOrRepeated`: `CodeKept`, the instructions in the order of the program
  (the listed theorem is `NothingLost` of `FlowProofs`, which states it of `Flow`).

**Reaching definitions** (also in `FlowProofs`). `Solved` alone does not say that no
definition is missed: the facts could be a solution that leaves some out, since
`solve` skips the transfer of a block whose joined value is the initial one, and
the entry is such a block always. What helps is that a block never transferred
keeps the top of the lattice, every definition, on its after side. The invariant
`Reaching` keeps the entry that way and all facts among the definitions of the
program. `ReachedBefore` then takes the blocks where `d` is in the before side,
and the entry: that set has the blocks after the definition and is closed under
edges out of blocks that do not redefine the variable (`ReachPasses`,
`ReachJoined`), so it has the least such set, which is what a definition reaches. The use-def
chains follow with `LatestIn`: a non-empty set of definitions has a latest one.

**Dominators** (`DominatorsProofs`). `Correct` and `Decides` cannot be theorems, as they
are false from five blocks on. What does hold on every graph, cyclic or not and
with any entry, is `EveryChainEnds`: the search numbers every reachable block, and
the dominator given to a block is one numbered before it. The tables can be
wrong, and this has to be proved of wrong tables too. The invariant is `Inv`, in
the order of the algorithm:

- `AtOrAbove(a, k)`: the parents of the numbers between `a` and `k` are at least `a`,
  that is, `a` is an ancestor of `k` in the search tree or `k` itself. It is said of
  numbers, in the form that is transitive, so that no path of the tree is spoken of.
- At every stage `Numbering` says that numbers and blocks correspond and that the
  parent of a number is an ancestor of it with an edge to it, and `Scanned` that an
  edge the search has looked at leads to a numbered block, an earlier one or one
  below its own. While the search runs, `Searching` adds that every call under way
  is for an ancestor of the last number given. When no call is under way all edges
  have been looked at, so every reachable block is numbered and a predecessor
  numbered before a block is its ancestor.
- In the main loop `SemiFits` says that the semidominator of a block already treated
  is an ancestor of it, and `ForestFits` that the label of a linked block is
  an ancestor of the block (or itself) and its recorded ancestor one of both and not
  the label. They are kept by `compress` whether or not it stops too early: taking a
  child of block 0 for one that is not linked leaves a label that is less good, never
  one that is not an ancestor. That is why the chains end even where the dominators are
  wrong.
- `Waiting` says that the blocks of a bucket are those whose semidominator it is, and
  `DominatedSoFar` follows a block from its bucket to its dominator: one already
  treated either waits in the bucket of its semidominator or is `Assigned`, given a
  block numbered before it that is its semidominator or not the entry. In the last
  loop (`Adjusting`) the dominator of a dominator is final when it is copied, as its
  number is smaller; that the entry is assigned only as the semidominator is
  what keeps the entry itself, which has no dominator, from being followed.

`compress` is a recursive function over blocks, of which the proof uses only that
it is *some* function with the equation; that there is one follows from the order
of the numbers (`AtOrAbove` again: an ancestor is numbered before). The theorems are
`TablesHold` (the invariant), `TypeCorrectness` and `EveryChainEnds`.

The order the analyses go by is a lemma of the same module, `OrderIsTopological`:
`reverse_postorder` lists every block that can be reached, once, and where an edge
leads to a block at or before its own in the list, it goes back along a cycle.
`postorder` marks a block when its call begins and lists it when the call ends,
so what one call answers depends on which calls are still open. `Lists`
says of a call, from the blocks `R` visited before it: it lists what it visits, once
each, all of it led to from its own block, and every edge of a listed block goes to one
listed before it, or into `R`, or back to a block it can be reached from (`After`,
`Leads`). The proof is by induction on the number of blocks not yet visited; the
loop over the successors carries the same statement from one edge to the
next (`FurtherLists`). At the call for the entry `R` is empty.

**The three together** (`FlowProofs`). `FlowInv` is: nothing is being built or the
builder's `Inv` holds; no analysis has begun, or the solver's `Inv` holds with
`Reaching` and `Typed`; the dominator tree is idle or its `Inv` holds. The step that matters is Analyse: that the solver's assumption on
graphs is met by whatever the builder returns (`ReturnedFits`), so that nothing
about graphs is assumed of a program's own. `LatticeOf` says that the four lattices
are closed: each transfer is a fold over the instructions of a block, and a set of facts
that has the first and is kept by every instruction has the last (`ChoiceFold`,
`FoldStays`). Since an instance has its own copy of
every operator, the first lemmas say the copies agree. From it: `PromisesKept`
(`BuiltFits`), `NothingLost`, `FlowWorklistComplete`, `FlowNoDuplicateWork`,
`FlowSolves`, `NoDefinitionOverlooked` (`ReachesAll`), `FlowTypes` (`FlowTypeOK`),
`OrderedThroughout` (`TopologicalOrder`) and `ChainsAlwaysEnd` (the first part of
`DominatesDecides`), of the specification the runs check.

**Handles** (`HandlesProofs`). `TypeOK`, `OwnedOnce` and `ExportsFollowHandle` are
inductive together; the part about calls adds what has been pushed so far.
From them: `TypeCorrectness`, `NoLeakNoDoubleClose`, `ExportsOfTheHandle`,
`CallMachineReleased` and `EnteredWithArguments`, for any number of owners and any
signatures.

**ISA reader** (`IsaReaderProofs`). For directories of any size and files of any
length:

- `TypeCorrectness`;
- `OneBundle`: `BundleInOrder`. The invariant `OneEach` says that after any part of
  the listing there is one document for every description read, `InOrder` that
  the last sort puts them by name; that two listings give the same bundle follows
  since a set has one ascending sequence (`AscendingLists`);
- `BlocksAsWritten`: `BlocksNest`. The invariant `Nested` says that in a well laid
  out file the reader, after `at - 1` lines, has the blocks of these lines, and
  of the block it is in just what was written since its first line, and that
  its depth is the level of the braces. It is not inductive with the depth
  alone: when a block closes, that no other block began in between has to be known.

**Parser** (`ParserProofs`). For every source, of any length and any words, and for
every parsing function, not only at the places a program calls it from. `Answers` is what
a call from a cursor `i` promises:

- it answers a cursor from `i` to the end token, never past it: every function looks
  at a token through the same cursor and the end token is never consumed;
- it moves on, so that a loop that calls it again ends. A block may have no statement,
  so the list of them is the exception, and it stands between two braces;
- it does not succeed once there has been an error: what an inner function met is
  not passed over by an outer one that goes on to build a node;
- where it succeeds, the tree has no missing part. This is said by `IsExpression` as membership in some
  set of trees that is closed under parts and does not have `Null` (`Sound`): a recursion
  over trees is not needed, and `TreeIsNullFree` gives it for the set of a tree's nodes.

There is one lemma for each function of the parser (`...Right`), and each takes the
promise for the calls it makes. They are put together by induction on the
weight of a call: the tokens left, and among calls at the same cursor the rank of
the function, that is, how far it stands above `parse_primary` on the ladder. A
function calls one of its own or a higher rank only after it has consumed a token, so
every call it makes is lighter (`CalledRight`). In the model a call also has a depth, since a recursion needs
something to recurse on; that the depth given to it is never used up (`DeepEnough`) is the
same weight, bounded by the tokens times the number of functions. From it:

- `CursorStays`: `TypeOK`;
- `NoErrorPassedOver`: `NoNull`, no tree with a null part is ever among the forms;
- `EveryRoundReads`: `Progress`, every round of `parse` leaves fewer tokens.

`SequenceLemmas` holds what these proofs share. The library's induction theorems
cannot be used with the provers at hand, so a fact about all positions of a
sequence is proved by the least counterexample (`Counting`), and that a recursive
function exists by the set of its partial versions (`Recursion`, `ChoiceFold`,
`FlattenIs`); every later lemma is about a given function.

What is only model-checked, and why:

- `SolveReturns` is liveness, which is outside the prover's reach; TLC checks it under fairness, for
  constant propagation too, whose transfer is not monotone.
- That dominance is decided rightly on graphs of up to four blocks (the rest of
  `DominatesDecides`) is a fact about four blocks and false for five: there
  is no general theorem behind it, and TLC goes through all such graphs.
- `RoundTrip` and `NothingLost` of the parser: what a tree is printed as is a recursion
  over trees (`Printing`), and that it is read back is an induction over them.
- All properties of `Rewrite` and `Sema`, with `Eval` and `Terms`. The evaluator, the
  type checker and the matcher recurse over expressions with a scope for an argument that
  grows on the way down, by values or types computed on the way; they are `RECURSIVE`
  operators. Written as functions they would need a set of all scopes, closed
  under what inference and evaluation make, and TLC cannot decide membership
  in such a set.

## 6. Not modelled

- Strings and floats as values, and the formatting of any value; the rules of the
  rewriter over floats; the generator behind `random`; the depth of evaluation.
- The lexing of characters; the escapes of strings; the wording of messages;
  `type_to_string`.
- Aliases, generic types, `resolve_alias` and `unify` of `sema.cpp`: no path from
  `check` reaches them.
- The numbers of the ISA reader (widths, opcodes), its unquoting, and `describe`.
- `dominance_frontier`, a stub; the wrapper around the e-graph, which forwards to
  a vendored library.
- Typed reads and writes of raw memory; save, restore and allocate of an arena, which
  forward to the native library; the collector's wrappers.
- `eval.cpp`, which is the loop of `c_api.cpp` over a fresh prelude, with nothing
  kept; the command line; the formatter; the vendored libraries.
- Overflow of 64 bits in `Eval` and in the rewriter: the expressions of the
  instances stay far from it.

## 7. Plan

1. The rest of `ffi.cpp`: functions that outlive their library
   (`ffi.cpp:146`), once something is promised about them.
2. The generator of `random` and the numbers of the ISA reader, with their widths.
