-------------------------------- MODULE Ast ---------------------------------
(***************************************************************************)
(* The expressions of include/on1x/frontend/ast.hpp.  A missing child (a   *)
(* null expr_ptr) is Null.  Floats and strings behave in the walks of      *)
(* Walks.tla as integers do and have no node of their own.                 *)
(***************************************************************************)
EXTENDS Integers, Sequences, SequencesExt

Null == [node |-> "null"]
Literal(n) == [node |-> "int", ival |-> n]
Bool(b) == [node |-> "bool", bval |-> b]
Ident(x) == [node |-> "ident", name |-> x]
Unary(o, r) == [node |-> "unary", op |-> o, rhs |-> r]
Binary(o, l, r) == [node |-> "binary", op |-> o, lhs |-> l, rhs |-> r]
Call(f, as) == [node |-> "call", callee |-> f, args |-> as]
If(c, t, e) == [node |-> "if", cond |-> c, then |-> t, else |-> e]
Let(x, v, b) == [node |-> "let", name |-> x, value |-> v, body |-> b]
Block(ss, v) == [node |-> "block", statements |-> ss, value |-> v]
List(es) == [node |-> "list", elements |-> es]
Tuple(es) == [node |-> "tuple", elements |-> es]
Record(fs) == [node |-> "record", fields |-> fs]   \* pairs of a name and a value
Nil == [node |-> "nil"]
Lambda(ps, b) == [node |-> "lambda", params |-> ps, body |-> b]

Present(es) == SelectSeq(es, LAMBDA e : e # Null)

(* The children of a node, missing ones included, in the order the code    *)
(* visits them, and those that are there.                                  *)
Parts(e) ==
  CASE e.node = "unary"  -> <<e.rhs>>
    [] e.node = "binary" -> <<e.lhs, e.rhs>>
    [] e.node = "call"   -> <<e.callee>> \o e.args
    [] e.node = "if"     -> <<e.cond, e.then, e.else>>
    [] e.node = "let"    -> <<e.value, e.body>>
    [] e.node = "block"  -> Append(e.statements, e.value)
    [] e.node \in {"list", "tuple"} -> e.elements
    [] e.node = "record" -> [i \in DOMAIN e.fields |-> e.fields[i][2]]
    [] e.node = "lambda" -> <<e.body>>
    [] OTHER             -> << >>
Kids(e) == Present(Parts(e))

IsIdent(e) == e.node = "ident"
IsIf(e) == e.node = "if"
=============================================================================
