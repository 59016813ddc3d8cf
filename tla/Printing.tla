------------------------------ MODULE Printing ------------------------------
(***************************************************************************)
(* What Parser.tla is held against: the words a tree is printed as, and    *)
(* the names and numbers of a tree and of a source.                        *)
(***************************************************************************)
EXTENDS Parser

(* A reference: the words of a tree with as few parentheses as the table   *)
(* of operators allows.  What binds less than its surroundings is put in   *)
(* parentheses; n is how tight those bind.                                 *)
Separated(lists) == FoldLeft(LAMBDA a, l : IF a = << >> THEN l ELSE a \o <<",">> \o l, << >>, lists)
LevelOf(o) ==
  CASE o = "=" -> 1 [] o = "|>" -> 2 [] o = "||" -> 3 [] o = "&&" -> 4
    [] o \in {"==", "!="} -> 5
    [] o \in {"<", "<=", ">", ">="} -> 6
    [] o \in {"+", "-", "|", "^"} -> 7
    [] OTHER -> 8
Tightest == 10
Strength(e) ==
  CASE e.node \in {"if", "let", "lambda"} \/ e = Record(<< >>) -> 0
    [] e.node = "binary" -> LevelOf(e.op)
    [] e.node = "unary" -> 9
    [] OTHER -> Tightest

RECURSIVE Printed(_, _), Branch(_), Bare(_)
Printed(e, n) == IF Strength(e) < n THEN <<"(">> \o Bare(e) \o <<")">> ELSE Bare(e)
PrintedAll(es) == [i \in DOMAIN es |-> Printed(es[i], 0)]
Statement(e) == Printed(e, 0) \o <<";">>
(* A block, or nothing, in the place of a branch or of a body.             *)
Branch(e) ==
  IF e = Nil THEN <<"{", "}">>
  ELSE <<"{">> \o FlattenSeq([i \in DOMAIN e.statements |-> Statement(e.statements[i])])
         \o Printed(e.value, 0) \o <<"}">>
Bare(e) ==
  CASE e.node = "int" -> <<CHOOSE t \in Numbers \ Huge : Value[t] = e.ival>>
    [] e.node = "bool" -> <<IF e.bval THEN "true" ELSE "false">>
    [] e.node = "ident" -> <<e.name>>
    [] e.node = "nil" -> <<"(", ")">>
    [] e.node = "unary" -> <<e.op>> \o Printed(e.rhs, Strength(e))
    [] e.node = "binary" ->
         LET n == LevelOf(e.op)
         IN  Printed(e.lhs, IF n = 1 THEN 2 ELSE n) \o <<e.op>> \o Printed(e.rhs, IF n = 1 THEN 1 ELSE n + 1)
    [] e.node = "call" -> Printed(e.callee, Tightest) \o <<"(">> \o Separated(PrintedAll(e.args)) \o <<")">>
    [] e.node = "let" -> <<"let", e.name, "=">> \o Printed(e.value, 0) \o <<"in">> \o Printed(e.body, 0)
    [] e.node = "if" ->
         <<"if">> \o Printed(e.cond, 0) \o Branch(e.then)
           \o CASE e.else = Nil -> << >>
                [] e.else.node = "if" -> <<"else">> \o Bare(e.else)
                [] OTHER -> <<"else">> \o Branch(e.else)
    [] e.node = "lambda" ->
         <<"fn", "(">> \o Separated([i \in DOMAIN e.params |-> <<e.params[i]>>]) \o <<")">>
           \o IF e.body.node = "block" THEN Branch(e.body) ELSE <<"=">> \o Printed(e.body, 0)
    [] e.node = "list" -> <<"[">> \o Separated(PrintedAll(e.elements)) \o <<"]">>
    [] e.node = "tuple" -> <<"(">> \o Separated(PrintedAll(e.elements)) \o <<")">>
    [] e.node = "record" ->
         <<"{">> \o Separated([i \in DOMAIN e.fields |-> <<e.fields[i][1], ":">> \o Printed(e.fields[i][2], 0)])
           \o <<"}">>
(* A program of one form; a function at the front would be a definition.   *)
Program(e) ==
  LET Top(f) == Printed(f, IF f.node = "lambda" THEN 1 ELSE 0)
  IN  IF e.node # "block" THEN Top(e)
      ELSE FlattenSeq([i \in DOMAIN e.statements |-> Append(Top(e.statements[i]), ";")]) \o Top(e.value)

RECURSIVE HasCall(_)
HasCall(e) == e.node = "call" \/ \E i \in DOMAIN Parts(e) : HasCall(Parts(e)[i])

(* The names and numbers of a tree in the order they stand in the source,  *)
(* and those of a source; a record's x: x may have been written x.         *)
RECURSIVE Leaves(_)
Leaves(e) ==
  LET kids == FlattenSeq([i \in DOMAIN Parts(e) |-> Leaves(Parts(e)[i])]) IN
  CASE e.node = "ident" -> <<e.name>>
    [] e.node = "int" -> <<CHOOSE t \in Numbers \ Huge : Value[t] = e.ival>>
    [] e.node = "let" -> <<e.name>> \o kids
    [] e.node = "lambda" -> e.params \o kids
    [] e.node = "record" -> FlattenSeq([i \in DOMAIN e.fields |-> <<e.fields[i][1]>> \o Leaves(e.fields[i][2])])
    [] OTHER -> kids
Named(words) ==
  LET kept == SelectSeq(words, LAMBDA w : w \in Names \cup Numbers)
  IN  FoldLeft(LAMBDA a, w : IF a # << >> /\ Last(a) = w THEN a ELSE Append(a, w), << >>, kept)

(* What parse_type, skip_balanced and skip_until_toplevel leave out.       *)
HasTypes ==
  LET words == ToSet(source)
  IN  words \cap {"type", "module", "import"} # {} \/ ("fn" \in words /\ words \cap {":", "->", "<"} # {})

-----------------------------------------------------------------------------
(* The grammar and the parser agree on every program that has no nested    *)
(* call, and the tree is the one it was printed from: the precedence, the  *)
(* associativity and the extent of every construct.  A call the grammar    *)
(* does not see as two expressions in a row is refused.  No tree of the    *)
(* instance has a statement after a chain of conditionals: the last branch *)
(* of the chain takes the statement in (parse_block_or_expr reads on).     *)
RoundTrip ==
  origin # Null /\ Ended =>
    \/ pc = "parsed" /\ forms = <<origin>>
    \/ pc = "refused" /\ HasCall(origin)

(* Whatever is accepted, each name and number outside types is read, once  *)
(* and in order: no token is dropped between two parsing functions.        *)
NothingLost ==
  pc = "parsed" /\ ~ HasTypes =>
    Named(FlattenSeq([i \in DOMAIN forms |-> Leaves(forms[i])])) = Named(source)
=============================================================================
