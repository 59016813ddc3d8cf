-------------------------------- MODULE Terms --------------------------------
(***************************************************************************)
(* src/egraph/egraph.cpp: the terms an e-graph holds, the way of an        *)
(* expression to a term and back, and the reader of terms written as       *)
(* s-expressions.  The e-graph itself is another project's.                *)
(***************************************************************************)
EXTENDS Ast

(* A literal, a variable, or an operator and its operands.                 *)
Lit(kind, v) == [kind |-> kind, lit |-> v]
Var(x) == [kind |-> "var", name |-> x]
Op(name, ts) == [kind |-> "op", op |-> name, children |-> ts]
Texts(names) == [i \in DOMAIN names |-> Lit("text", names[i])]

RECURSIVE to_term(_)
to_term(e) ==
  LET parts == [i \in DOMAIN Parts(e) |-> to_term(Parts(e)[i])] IN
  CASE e.node = "bool" -> Lit("bool", e.bval)
    [] e.node = "int" -> Lit("int", e.ival)
    [] e.node = "ident" -> Op("ident", Texts(<<e.name>>))
    [] e.node \in {"unary", "binary"} -> Op(e.op, parts)
    [] e.node = "let" -> Op("let", Texts(<<e.name>>) \o parts)
    [] e.node = "lambda" -> Op("lambda", Texts(e.params) \o parts)
    [] e.node = "record" ->
         Op("record", FlattenSeq([i \in DOMAIN parts |-> <<Lit("text", e.fields[i][1]), parts[i]>>]))
    [] OTHER -> Op(e.node, parts)      \* nil, call, if, block, list, tuple

Text(s) == [node |-> "string", text |-> s]

(* Variant: a call comes back as an operator too.                          *)
KnownNoCall(op, es) ==
  LET n == Len(es) IN
  CASE op = "nil" /\ n = 0 -> Nil
    [] op = "ident" /\ n = 1 /\ es[1].node = "string" -> Ident(es[1].text)
    [] op = "if" /\ n = 3 -> If(es[1], es[2], es[3])
    [] op = "list" -> List(es)
    [] op = "tuple" -> Tuple(es)
    [] OTHER -> Null
(* The expression an operator stands for, or Null.                         *)
Known(op, es) ==
  LET n == Len(es) IN
  CASE op = "nil" /\ n = 0 -> Nil
    [] op = "ident" /\ n = 1 /\ es[1].node = "string" -> Ident(es[1].text)
    [] op = "call" /\ n > 0 -> Call(Head(es), Tail(es))
    [] op = "if" /\ n = 3 -> If(es[1], es[2], es[3])
    [] op = "let" /\ n = 3 /\ es[1].node = "string" -> Let(es[1].text, es[2], es[3])
    [] op = "list" -> List(es)
    [] op = "tuple" -> Tuple(es)
    [] OTHER -> Null
(* Blocks, records and functions have no way back: they too come back as   *)
(* an operator, or as a call of one.                                       *)
Operation(op, es) ==
  CASE Len(es) = 1 -> Unary(op, es[1])
    [] Len(es) = 2 -> Binary(op, es[1], es[2])
    [] OTHER -> Call(Ident(op), es)

RECURSIVE from_term(_)
from_term(t) ==
  CASE t.kind = "bool" -> Bool(t.lit)
    [] t.kind = "int" -> Literal(t.lit)
    [] t.kind = "text" -> Text(t.lit)
    [] t.kind = "var" -> Ident(t.name)
    [] t.kind = "op" ->
         LET es == [i \in DOMAIN t.children |-> from_term(t.children[i])]
             known == Known(t.op, es)
         IN  IF known = Null THEN Operation(t.op, es) ELSE known

-----------------------------------------------------------------------------
(* s-expressions.  An input is a sequence of words <<kind, what>>: the     *)
(* brackets, spaces, quoted texts, numerals, ?variables and other names.   *)
(* What has no space between it is one token: only a closing bracket ends  *)
(* a token, an opening one is part of it.                                  *)
Open == <<"(", "">>
Close == <<")", "">>
Space == <<" ", "">>

skip_space(w, i) == CHOOSE j \in i .. Len(w) + 1 :
                      (\A k \in i .. j - 1 : w[k] = Space) /\ (j <= Len(w) => w[j] # Space)
parse_atom_name(w, i) ==
  LET ends == {k \in i .. Len(w) : w[k] \in {Close, Space}}
  IN  SubSeq(w, i, IF ends = {} THEN Len(w) ELSE Min(ends) - 1)
(* A quoted text ends with its quote.                                      *)
parse_token(w, i) == IF w[i][1] = "text" THEN <<w[i]>> ELSE parse_atom_name(w, i)

(* The name of an operator; names of several words are all alike here.     *)
Spelled(token) == IF Len(token) = 1 /\ token[1][1] = "name" THEN token[1][2] ELSE "other"

Read(i, t) == [at |-> i, term |-> t]
Thrown == Read(0, Op("thrown", << >>))

Atom(token) ==
  LET kind == IF Len(token) = 1 THEN token[1][1] ELSE "name" IN
  CASE kind = "var" -> Var(token[1][2])
    [] kind \in {"text", "int"} -> Lit(kind, token[1][2])
    [] kind = "name" /\ Spelled(token) \in {"true", "false"} -> Lit("bool", Spelled(token) = "true")
    [] OTHER -> Op(Spelled(token), << >>)
parse_atom(w, i) ==
  LET token == parse_token(w, i) IN
  IF token = << >> THEN Thrown ELSE Read(i + Len(token), Atom(token))

RECURSIVE TermAt(_, _), Operands(_, _, _, _), Another(_, _, _, _)
TermAt(w, i) ==
  CASE i > Len(w) -> Thrown
    [] i <= Len(w) /\ w[i] # Open -> parse_atom(w, i)
    [] OTHER ->
         LET j == skip_space(w, i + 1)
             name == parse_atom_name(w, j)
         IN  IF name = << >> THEN Thrown ELSE Operands(w, skip_space(w, j + Len(name)), Spelled(name), << >>)
Operands(w, i, op, ts) ==
  CASE i > Len(w) -> Thrown
    [] i <= Len(w) /\ w[i] = Close -> Read(i + 1, Op(op, ts))
    [] OTHER -> Another(w, TermAt(w, i), op, ts)
Another(w, r, op, ts) ==
  IF r.at = 0 THEN Thrown ELSE Operands(w, skip_space(w, r.at), op, Append(ts, r.term))

(* What follows the term is refused.                                       *)
parse_term(w) ==
  LET r == TermAt(w, skip_space(w, 1))
  IN  IF r.at # 0 /\ skip_space(w, r.at) = Len(w) + 1 THEN r.term ELSE Thrown.term

-----------------------------------------------------------------------------
(* A reference: the words a term is written with.                          *)
RECURSIVE Written(_)
Written(t) ==
  CASE t.kind = "bool" -> <<<<"name", IF t.lit THEN "true" ELSE "false">>>>
    [] t.kind \in {"int", "text"} -> <<<<t.kind, t.lit>>>>
    [] t.kind = "var" -> <<<<"var", t.name>>>>
    [] t.kind = "op" ->
         <<Open, <<"name", t.op>>>>
           \o FlattenSeq([i \in DOMAIN t.children |-> <<Space>> \o Written(t.children[i])]) \o <<Close>>
=============================================================================
