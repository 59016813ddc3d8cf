------------------------------- MODULE Rewrite ------------------------------
(***************************************************************************)
(* src/rewrite/rewrite.cpp: patterns and matching, rewrite rules, one pass *)
(* of a rewriter over an expression, and the loop that repeats passes to a *)
(* fixed point, with the library's four rule sets.                         *)
(*                                                                         *)
(* A rule that matches always answers: its builder returns an expr_ptr,    *)
(* and a builder that declines returns a null one, which rewrite_rule::    *)
(* apply wraps into an optional that HAS a value.  So the first rule whose *)
(* pattern matches decides, and a null answer replaces the expression.     *)
(* For the same reason the four rules that fold floats are not here: each  *)
(* has the pattern of the integer rule before it and is never reached.     *)
(***************************************************************************)
EXTENDS Eval, TLC

CONSTANTS
  Inputs,     \* expressions given to apply_fixed_point
  RuleSets,   \* names of the rule sets a rewriter is made with
  ClientRules, \* rules a client makes with make_rule
  Orders,     \* "bottom_up", "top_down"
  Limits,     \* values of max_rounds
  Scopes      \* bindings the expressions are evaluated in

VARIABLES
  input, max_rounds, rules, order,  \* the call's arguments, the rewriter's fields
  current,              \* the expression the loop has reached
  round,                \* passes begun
  rules_applied, nodes_visited,   \* the rewriter's stats
  pc                    \* "loop", "fixed", "exhausted"

vars == <<input, max_rounds, rules, order, current, round, rules_applied, nodes_visited, pc>>
-----------------------------------------------------------------------------
(* Patterns are expressions with two more nodes; an operator or let name   *)
(* "" matches every one.                                                   *)
Wildcard == [node |-> "wildcard"]
Capture(x) == [node |-> "capture", name |-> x]

(* What two nodes have to agree on besides their children.                 *)
SameHead(p, e) ==
  /\ p.node = e.node
  /\ CASE p.node = "int" -> p.ival = e.ival
       [] p.node = "bool" -> p.bval = e.bval
       [] p.node \in {"unary", "binary"} -> p.op \in {"", e.op}
       [] p.node = "let" -> p.name \in {"", e.name}
       [] p.node = "lambda" -> p.params = e.params
       [] p.node = "record" -> [i \in DOMAIN p.fields |-> p.fields[i][1]] = [i \in DOMAIN e.fields |-> e.fields[i][1]]
       [] p.node = "ident" -> FALSE
       [] OTHER -> Len(Parts(p)) = Len(Parts(e))

Mismatch == [ok |-> FALSE, captures |-> << >>]
Matched(captures) == [ok |-> TRUE, captures |-> captures]

(* A name captured before matches equal expressions only.                  *)
Captured(captures, x, e) ==
  IF x \notin DOMAIN captures THEN Matched(captures @@ (x :> e))
  ELSE IF captures[x] = e THEN Matched(captures) ELSE Mismatch

RECURSIVE match_pattern_impl(_, _, _)
match_pattern_impl(p, e, captures) ==
  IF Null \in {p, e} THEN IF p = e THEN Matched(captures) ELSE Mismatch
  ELSE IF p = Wildcard THEN Matched(captures)
  ELSE IF p.node = "capture" THEN Captured(captures, p.name, e)
  ELSE IF ~ SameHead(p, e) THEN Mismatch
  ELSE FoldLeft(LAMBDA m, i : IF m.ok THEN match_pattern_impl(Parts(p)[i], Parts(e)[i], m.captures)
                              ELSE m,
                Matched(captures), [i \in DOMAIN Parts(p) |-> i])

match_pattern(p, e) == match_pattern_impl(p, e, << >>)

(* The node with other children.                                           *)
WithParts(e, ks) ==
  CASE e.node = "unary"  -> Unary(e.op, ks[1])
    [] e.node = "binary" -> Binary(e.op, ks[1], ks[2])
    [] e.node = "call"   -> Call(ks[1], Tail(ks))
    [] e.node = "if"     -> If(ks[1], ks[2], ks[3])
    [] e.node = "let"    -> Let(e.name, ks[1], ks[2])
    [] e.node = "block"  -> Block(Front(ks), Last(ks))
    [] e.node = "list"   -> List(ks)
    [] e.node = "tuple"  -> Tuple(ks)
    [] e.node = "record" -> Record([i \in DOMAIN ks |-> <<e.fields[i][1], ks[i]>>])
    [] e.node = "lambda" -> Lambda(e.params, ks[1])
    [] OTHER             -> e

(* make_rule's substitution: every identifier that names a capture, also   *)
(* one the template binds itself.                                          *)
RECURSIVE substitute(_, _)
substitute(e, captures) ==
  IF e.node = "ident" /\ e.name \in DOMAIN captures THEN captures[e.name]
  ELSE WithParts(e, [i \in DOMAIN Parts(e) |-> substitute(Parts(e)[i], captures)])

RECURSIVE expr_node_count(_)
expr_node_count(e) ==
  1 + FoldLeft(LAMBDA n, k : n + expr_node_count(k), 0, Kids(e))
-----------------------------------------------------------------------------
(* Variant: the operands of a difference are swapped.                      *)
FoldedSwapped(op, a, b) ==
  CASE op = "+" -> Literal(a + b)
    [] op = "-" -> Literal(b - a)
    [] OTHER -> Null

Folded(op, a, b) ==
  CASE op = "+" -> Literal(a + b)
    [] op = "-" -> Literal(a - b)
    [] op = "*" -> Literal(a * b)
    [] op = "/" -> IF b = 0 THEN Null ELSE Literal(Quotient(a, b))
    [] op = "%" -> IF b = 0 THEN Null ELSE Literal(Remainder(a, b))
    [] op = "==" -> Bool(a = b)
    [] op = "!=" -> Bool(a # b)
    [] op = "<" -> Bool(a < b)
    [] op = ">" -> Bool(a > b)

(* The builders: a template to fill in, or a computation on literals.      *)
Template(e) == [how |-> "template", as |-> e]
Fold == [how |-> "fold"]

FoldAnswer(e) ==
  LET kinds == {Parts(e)[i].node : i \in DOMAIN Parts(e)} IN
  CASE kinds = {"int"} /\ e.node = "unary" /\ e.op = "-" -> Literal(-e.rhs.ival)
    [] kinds = {"int"} /\ e.node = "binary" /\ e.op \notin {"&&", "||"} ->
         Folded(e.op, e.lhs.ival, e.rhs.ival)
    [] kinds = {"bool"} /\ e.node = "unary" /\ e.op = "!" -> Bool(~ e.rhs.bval)
    [] kinds = {"bool"} /\ e.node = "binary" /\ e.op = "&&" -> Bool(e.lhs.bval /\ e.rhs.bval)
    [] kinds = {"bool"} /\ e.node = "binary" /\ e.op = "||" -> Bool(e.lhs.bval \/ e.rhs.bval)
    [] OTHER -> Null

Build(r, captures) ==
  CASE r.build.how = "template" -> substitute(r.build.as, captures)
    [] r.build.how = "fold" ->
         FoldAnswer(WithParts(r.lhs, [i \in DOMAIN Parts(r.lhs) |-> captures[Parts(r.lhs)[i].name]]))
    [] r.build.how = "div-self" ->
         IF captures["x"].node = "int" /\ captures["x"] # Literal(0) THEN Literal(1) ELSE Null

Rule(lhs, build) == [lhs |-> lhs, build |-> build]
PatA == Capture("a")
PatB == Capture("b")
PatX == Capture("x")
X == Ident("x")

FoldRule(op) == Rule(Binary(op, PatA, PatB), Fold)
constant_folding_rules ==
  [i \in 1..11 |-> FoldRule(<<"+", "-", "*", "/", "%", "&&", "||", "==", "!=", "<", ">">>[i])]
  \o <<Rule(Unary("-", PatA), Fold), Rule(Unary("!", PatA), Fold)>>

(* Variant: sums are also brought into another order.                      *)
algebraic_rules_commuting ==
  <<Rule(Binary("+", PatX, Literal(0)), Template(X)),
    Rule(Binary("+", PatA, PatB), Template(Binary("+", Ident("b"), Ident("a"))))>>

algebraic_simplification_rules ==
  <<Rule(Binary("+", PatX, Literal(0)), Template(X)),
    Rule(Binary("+", Literal(0), PatX), Template(X)),
    Rule(Binary("-", PatX, Literal(0)), Template(X)),
    Rule(Binary("*", PatX, Literal(1)), Template(X)),
    Rule(Binary("*", Literal(1), PatX), Template(X)),
    Rule(Binary("*", PatX, Literal(0)), Template(Literal(0))),
    Rule(Binary("*", Literal(0), PatX), Template(Literal(0))),
    Rule(Binary("/", PatX, Literal(1)), Template(X)),
    Rule(Binary("-", PatX, PatX), Template(Literal(0))),
    Rule(Binary("/", PatX, PatX), [how |-> "div-self"]),
    Rule(Unary("-", Unary("-", PatX)), Template(X))>>

strength_reduction_rules ==
  <<Rule(Binary("*", PatX, Literal(2)), Template(Binary("<<", X, Literal(1)))),
    Rule(Binary("*", PatX, Literal(4)), Template(Binary("<<", X, Literal(2)))),
    Rule(Binary("*", PatX, Literal(8)), Template(Binary("<<", X, Literal(3)))),
    Rule(Binary("/", PatX, Literal(2)), Template(Binary(">>", X, Literal(1)))),
    Rule(Binary("*", PatX, PatX), Template(Binary("**", X, Literal(2))))>>

boolean_simplification_rules ==
  <<Rule(Unary("!", Unary("!", PatX)), Template(X)),
    Rule(Binary("&&", PatX, Bool(TRUE)), Template(X)),
    Rule(Binary("&&", Bool(TRUE), PatX), Template(X)),
    Rule(Binary("&&", PatX, Bool(FALSE)), Template(Bool(FALSE))),
    Rule(Binary("&&", Bool(FALSE), PatX), Template(Bool(FALSE))),
    Rule(Binary("||", PatX, Bool(TRUE)), Template(Bool(TRUE))),
    Rule(Binary("||", Bool(TRUE), PatX), Template(Bool(TRUE))),
    Rule(Binary("||", PatX, Bool(FALSE)), Template(X)),
    Rule(Binary("||", Bool(FALSE), PatX), Template(X)),
    Rule(If(Bool(TRUE), PatA, PatB), Template(Ident("a"))),
    Rule(If(Bool(FALSE), PatA, PatB), Template(Ident("b")))>>

all_optimization_rules ==
  constant_folding_rules \o algebraic_simplification_rules
  \o strength_reduction_rules \o boolean_simplification_rules

RulesOf(name) ==
  CASE name = "folding" -> constant_folding_rules
    [] name = "strength and client" -> strength_reduction_rules \o ClientRules
    [] name = "algebraic and boolean" ->
         algebraic_simplification_rules \o boolean_simplification_rules
    [] name = "all" -> all_optimization_rules
-----------------------------------------------------------------------------
(* The rules that match at the root of e; the first decides.               *)
Firing(e) == {i \in DOMAIN RulesOf(rules) : match_pattern(RulesOf(rules)[i].lhs, e).ok}
Answer(e) ==
  LET r == RulesOf(rules)[CHOOSE i \in Firing(e) : \A j \in Firing(e) : i <= j]
  IN  Build(r, match_pattern(r.lhs, e).captures)

(* One pass: the expression it returns and what it adds to the statistics. *)
Pass(e, applied, visited) == [expr |-> e, applied |-> applied, visited |-> visited]

RECURSIVE apply(_)
apply(e) ==
  LET done == [i \in DOMAIN Parts(e) |-> apply(Parts(e)[i])]
      below == Pass(WithParts(e, [i \in DOMAIN done |-> done[i].expr]),
                    FoldLeft(LAMBDA n, p : n + p.applied, 0, done),
                    FoldLeft(LAMBDA n, p : n + p.visited, 1, done))
  IN  CASE e = Null -> Pass(Null, 0, 0)
        [] e # Null /\ order = "bottom_up" ->
             IF Firing(below.expr) = {} THEN below
             ELSE Pass(Answer(below.expr), below.applied + 1, below.visited)
        [] e # Null /\ order = "top_down" ->
             IF Firing(e) = {} THEN below ELSE Pass(Answer(e), 1, 1)
-----------------------------------------------------------------------------
(* apply_fixed_point on a rewriter just made.                              *)
Init ==
  /\ input \in Inputs /\ max_rounds \in Limits /\ rules \in RuleSets /\ order \in Orders
  /\ current = input /\ round = 0
  /\ rules_applied = 0 /\ nodes_visited = 0 /\ pc = "loop"

(* Variant: a pass that applied one rule is taken for the last.            *)
RoundOneTooFew ==
  /\ pc = "loop" /\ round < max_rounds
  /\ LET p == apply(current) IN
       /\ current' = p.expr
       /\ rules_applied' = rules_applied + p.applied
       /\ nodes_visited' = nodes_visited + p.visited
       /\ pc' = IF p.applied <= 1 THEN "fixed" ELSE "loop"
  /\ round' = round + 1
  /\ UNCHANGED <<input, max_rounds, rules, order>>

(* Variant: a rule is counted when it matches and when its answer is used. *)
RoundCountedTwice ==
  /\ pc = "loop" /\ round < max_rounds
  /\ LET p == apply(current) IN
       /\ current' = p.expr
       /\ rules_applied' = rules_applied + 2 * p.applied
       /\ nodes_visited' = nodes_visited + p.visited
       /\ pc' = IF p.expr = current \/ p.applied = 0 THEN "fixed" ELSE "loop"
  /\ round' = round + 1
  /\ UNCHANGED <<input, max_rounds, rules, order>>

Round ==
  /\ pc = "loop" /\ round < max_rounds
  /\ LET p == apply(current) IN
       /\ current' = p.expr
       /\ rules_applied' = rules_applied + p.applied
       /\ nodes_visited' = nodes_visited + p.visited
       /\ pc' = IF p.expr = current \/ p.applied = 0 THEN "fixed" ELSE "loop"
  /\ round' = round + 1
  /\ UNCHANGED <<input, max_rounds, rules, order>>

GiveUp ==
  /\ pc = "loop" /\ round = max_rounds
  /\ pc' = "exhausted"
  /\ UNCHANGED <<input, max_rounds, rules, order, current, round, rules_applied, nodes_visited>>

Next == Round \/ GiveUp
Spec == Init /\ [][Next]_vars
-----------------------------------------------------------------------------
RECURSIVE Nodes(_)
Nodes(e) == {e} \cup UNION {Nodes(Parts(e)[i]) : i \in DOMAIN Parts(e)}
Whole(e) == Null \notin Nodes(e)

TypeOK ==
  /\ round \in 0..max_rounds /\ pc \in {"loop", "fixed", "exhausted"}
  /\ rules_applied \in Nat /\ rules_applied <= nodes_visited

(* "fixed point reached": no rule matches anywhere in the expression the   *)
(* loop stops with, in either order of traversal, so doing it again        *)
(* changes nothing.                                                        *)
NothingLeftToApply ==
  pc = "fixed" => \A e \in Nodes(current) \ {Null} : Firing(e) = {}

(* Rewriting keeps what an expression evaluates to: whenever the original  *)
(* has a value and no rule that declined took part of the expression away, *)
(* the result has that value.  A client's rules are its own affair, and    *)
(* strength reduction is apart: its shifts and powers are operators the    *)
(* evaluator does not have.                                                *)
SameValue ==
  pc = "fixed" /\ rules # "strength and client" /\ Whole(current) =>
    \A s \in Scopes : eval(input, s) # Error => eval(current, s) = eval(input, s)

(* "when both are int constants": a sum with another operand stays.        *)
OnlyConstantsFolded ==
  pc = "fixed" /\ input.node = "binary" /\ input.op = "+" /\ {input.lhs.node, input.rhs.node} # {"int"}
    => current = input

(* Every pass but the last makes the expression smaller or cheaper, so the *)
(* loop ends long before max_rounds: in as many passes as the expression   *)
(* has nodes, and one more to see it.                                      *)
EndsWithinNodes == round <= expr_node_count(input) + 1
=============================================================================
