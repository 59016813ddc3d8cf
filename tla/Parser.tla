-------------------------------- MODULE Parser -------------------------------
(***************************************************************************)
(* src/frontend/parser.cpp: parse_program holds a source against the       *)
(* grammar, then reads it again by recursive descent.  Tokens are words;   *)
(* an error is that there is one, not its message.  The parsing functions  *)
(* answer [at, tree, err]: the cursor, what they made, and "none",         *)
(* "error" or "thrown" (std::stoll on a numeral above 64 bits).            *)
(***************************************************************************)
EXTENDS Grammar, Ast

CONSTANTS Value,    \* the number each numeral but the too big ones stands for
          Sources,  \* pairs of a source and the tree it was printed from, or Null
          Huge      \* the numerals above 64 bits

(* The token the lexer ends with is none of the source's.                  *)
ASSUME SourceAssumption ==
  (\A s \in Sources : s[1] \in Seq(STRING)) /\ "eof" \notin Words \cup Numbers \cup Huge

VARIABLES source, origin, at, forms, pc
vars == <<source, origin, at, forms, pc>>

Positions == 1..(Len(source) + 1)
Tok(i) == IF i <= Len(source) THEN source[i] ELSE "eof"

(* Some functions go on after an error: e is what error holds so far.      *)
Got(i, tree, e) == [at |-> i, tree |-> tree, err |-> e]
Failed(i) == [at |-> i, tree |-> Null, err |-> "error"]
Thrown(i) == [at |-> i, tree |-> Null, err |-> "thrown"]
(* What comes after r, if r is no error; what is made of r's tree.         *)
Then(r, rest) == IF r.err = "none" THEN rest ELSE r
Made(r, tree) == Then(r, Got(r.at, tree, "none"))
(* A list goes on after what it has.                                       *)
Joined(list, rest) == Made(rest, list \o rest.tree)

consume(i, token, e) == IF Tok(i) = token THEN Got(i + 1, Null, e) ELSE Failed(i)
consume_ident(i, e) == IF Tok(i) \in Words THEN Got(i + 1, Tok(i), e) ELSE Failed(i)
Consumed(r, token) == Then(r, Made(consume(r.at, token, "none"), r.tree))

-----------------------------------------------------------------------------
(* The skips.  How many brackets are open before each position from i on.  *)
Opening == {"(", "[", "{", "<"}
Closing == {")", "]", "}", ">"}
Nested(i, opens, closes) ==
  LET open[j \in i..(Len(source) + 1)] ==
        IF j = i THEN 0
        ELSE LET before == open[j - 1]
             IN  CASE Tok(j - 1) \in opens -> before + 1
                   [] Tok(j - 1) \in closes /\ before > 0 -> before - 1
                   [] OTHER -> before
  IN  open
(* The first of some positions, or the end of the source.                  *)
FirstOf(stops, i) == Min({j \in i..(Len(source) + 1) : j \in stops \/ Tok(j) = "eof"})

(* parse_type: a type is skipped, not read.  It ends at one of AfterType   *)
(* outside brackets; a brace is a bracket.                                 *)
AfterType == {",", ")", "]", "}", ";", "->", "=>", "=", "in", "else", "where", "do", "with"}
parse_type(i) ==
  LET open == Nested(i, Opening, Closing)
      j == FirstOf({k \in Positions : k >= i /\ open[k] = 0 /\ Tok(k) \in AfterType \cup {">"}}, i)
  IN  CASE Tok(j) = "eof" /\ open[j] # 0 -> Failed(j)
        [] Tok(j) = ">" -> Got(j + 1, Null, "none")
        [] OTHER -> Got(j, Null, "none")
TypeAfter(r, mark) == Then(r, IF Tok(r.at) = mark THEN Made(parse_type(r.at + 1), r.tree) ELSE r)

(* skip_balanced, after the bracket at i: any bracket opens, only its own  *)
(* kind closes.                                                            *)
skip_balanced(i, closing) ==
  LET open == Nested(i, Opening, {closing})
      j == FirstOf({k \in Positions : k > i /\ open[k] = 0}, i + 1)
  IN  IF open[j] = 0 THEN Got(j, Null, "none") ELSE Failed(j)

(* skip_until_toplevel: to the next module, import, type or fn outside     *)
(* brackets, over whatever else stands there.                              *)
Toplevels(i) ==
  LET open == Nested(i, {"(", "[", "{"}, {")", "]", "}"})
  IN  {j \in Positions : j > i /\ open[j] = 0 /\ Tok(j) \in {"module", "import", "type", "fn"}}
(* Variant: the loop does not look whether the source has ended.           *)
SkipUntilToplevelBlindly(i) == IF Tok(i) = "eof" THEN i + 1 ELSE FirstOf(Toplevels(i), i)
skip_until_toplevel(i) == FirstOf(Toplevels(i), i)

(* synchronize: past the next semicolon.                                   *)
Synchronized(i) ==
  LET j == FirstOf({k \in Positions : Tok(k) = ";"}, i) IN IF Tok(j) = "eof" THEN j ELSE j + 1

-----------------------------------------------------------------------------
(* The functions of the recursive descent.  p[<<f, i, e>>] is what f       *)
(* answers at position i when error holds e: the calls they make.          *)
Kinds == {"assignment", "pipeline", "logical_or", "logical_and", "equality", "comparison", "term",
          "factor", "unary", "call", "primary", "items", "fields", "statements", "sequence",
          "block_or_expr", "parameters"}
Calls == Kinds \X Positions \X {"none", "error"}

(* The parameters after "(" up to ")", their types, and the return type.   *)
Parameters(p, i, e) ==
  LET name == consume_ident(i, e)
      typed == TypeAfter(Made(name, <<name.tree>>), ":")
  IN  Then(typed, IF Tok(typed.at) = "," THEN Joined(typed.tree, p[<<"parameters", typed.at + 1, "none">>])
                  ELSE typed)
Signature(p, i, e) ==
  LET open == consume(i, "(", e)
      params == IF Tok(open.at) = ")" THEN Got(open.at, << >>, "none") ELSE p[<<"parameters", open.at, "none">>]
  IN  Then(open, TypeAfter(Consumed(params, ")"), "->"))

(* A list of expressions and the token that closes it; it may be empty.    *)
Items(p, i, e) ==
  LET item == p[<<"assignment", i, e>>]
  IN  IF item.err = "none" /\ Tok(item.at) = "," THEN Joined(<<item.tree>>, p[<<"items", item.at + 1, "none">>])
      ELSE Made(item, <<item.tree>>)
Enclosed(p, i, close, e) ==
  IF Tok(i) = close THEN Got(i + 1, << >>, e) ELSE Consumed(p[<<"items", i, e>>], close)

(* The fields of a record; x alone stands for x: x.                        *)
Fields(p, i, e) ==
  LET name == consume_ident(i, e)
      value == IF Tok(name.at) = ":" THEN p[<<"assignment", name.at + 1, "none">>]
               ELSE Got(name.at, Ident(name.tree), "none")
      field == <<name.tree, value.tree>>
  IN  Then(name, IF value.err = "none" /\ Tok(value.at) = ","
                 THEN Joined(<<field>>, p[<<"fields", value.at + 1, "none">>])
                 ELSE Made(value, <<field>>))

(* Expressions up to a closing brace, semicolons between them optional.    *)
Statements(p, i, e) ==
  LET one == p[<<"assignment", i, e>>]
      next == IF Tok(one.at) = ";" THEN one.at + 1 ELSE one.at
  IN  CASE Tok(i) \in {"}", "eof"} -> Got(i, << >>, e)
        [] Tok(i) = ";" -> p[<<"statements", i + 1, e>>]
        [] OTHER -> Then(one, Joined(<<one.tree>>, p[<<"statements", next, "none">>]))

(* Expressions with semicolons between them and perhaps one at the end.    *)
Sequence(p, i, e) ==
  LET one == p[<<"assignment", i, e>>]
  IN  Then(one, CASE Tok(one.at) # ";" -> Got(one.at, <<one.tree>>, "none")
                  [] Tok(one.at) = ";" /\ Tok(one.at + 1) \in {"eof", "}", ")", "]"} ->
                       Got(one.at + 1, <<one.tree>>, "none")
                  [] OTHER -> Joined(<<one.tree>>, p[<<"sequence", one.at + 1, "none">>]))

(* What is made of a list.                                                 *)
Whole(es) == CASE es = << >> -> Nil [] Len(es) = 1 -> es[1] [] OTHER -> Tuple(es)
(* Variant: the last statement is taken off before it becomes the value.   *)
BodyLosesLast(es) == IF Len(es) < 2 THEN Nil ELSE Block(Front(Front(es)), Last(Front(es)))
Body(es) == IF es = << >> THEN Nil ELSE Block(Front(es), Last(es))
parse_sequence(p, i, e) ==
  LET es == p[<<"sequence", i, e>>] IN Made(es, IF Len(es.tree) = 1 THEN es.tree[1] ELSE Body(es.tree))

parse_block_or_expr(p, i, e) ==
  LET block == Consumed(p[<<"statements", i + 1, e>>], "}")
  IN  CASE Tok(i) = "=" -> p[<<"assignment", i + 1, e>>]
        [] Tok(i) = "{" -> Made(block, Body(block.tree))
        [] OTHER -> parse_sequence(p, i, e)

LetIn(p, i, e) ==
  LET name == consume_ident(i, e)
      equals == consume(name.at, "=", "none")
      value == Consumed(p[<<"assignment", equals.at, "none">>], "in")
      body == p[<<"assignment", value.at, "none">>]
  IN  Then(name, Then(equals, Then(value, Made(body, Let(name.tree, value.tree, body.tree)))))

Conditional(p, i, e) ==
  LET cond == p[<<"assignment", i, e>>]
      then == Consumed(p[<<"assignment", cond.at + 1, "none">>], "else")
      else == p[<<"assignment", then.at, "none">>]
      branch == p[<<"block_or_expr", cond.at, "none">>]
      other == IF Tok(branch.at) = "else" THEN p[<<"block_or_expr", branch.at + 1, "none">>]
               ELSE Got(branch.at, Nil, "none")
  IN  Then(cond, IF Tok(cond.at) = "then" THEN Then(then, Made(else, If(cond.tree, then.tree, else.tree)))
                 ELSE Then(branch, Made(other, If(cond.tree, branch.tree, other.tree))))

Function(p, i, e) ==
  LET sig == Signature(p, i, e)
      body == p[<<"block_or_expr", sig.at, "none">>]
  IN  Then(sig, Made(body, Lambda(sig.tree, body.tree)))

parse_primary(p, i, e) ==
  LET paren == Enclosed(p, i + 1, ")", e)
      bracket == Enclosed(p, i + 1, "]", e)
      brace == IF Tok(i + 1) = "}" THEN Got(i + 2, << >>, e) ELSE Consumed(p[<<"fields", i + 1, e>>], "}")
  IN  CASE Tok(i) \in Huge -> Thrown(i + 1)
        [] Tok(i) \in Numbers \ Huge -> Got(i + 1, Literal(Value[Tok(i)]), e)
        [] Tok(i) \in {"true", "false"} -> Got(i + 1, Bool(Tok(i) = "true"), e)
        [] Tok(i) = "let" -> LetIn(p, i + 1, e)
        [] Tok(i) = "if" -> Conditional(p, i + 1, e)
        [] Tok(i) = "fn" -> Function(p, i + 1, e)
        [] Tok(i) = "(" -> Made(paren, Whole(paren.tree))
        [] Tok(i) = "[" -> Made(bracket, List(bracket.tree))
        [] Tok(i) = "{" -> Made(brace, Record(brace.tree))
        [] Tok(i) \in Words \ {"true", "false", "let", "if", "fn"} -> Got(i + 1, Ident(Tok(i)), e)
        [] OTHER -> Failed(i)

(* parse_pipeline down to parse_call, each with the operators its loop     *)
(* goes on after, and what it reads its operands with.                     *)
Tighter == [pipeline |-> "logical_or", logical_or |-> "logical_and", logical_and |-> "equality",
            equality |-> "comparison", comparison |-> "term", term |-> "factor", factor |-> "unary",
            call |-> "primary"]
Sums == {"+", "-", "|", "^"}
Comparisons == {"<", "<=", ">", ">="}
LadderOf(comparisons, sums) ==
  [pipeline |-> {"|>"}, logical_or |-> {"||"}, logical_and |-> {"&&"}, equality |-> {"==", "!="},
   comparison |-> comparisons, term |-> sums, factor |-> {"*", "/", "%", "<<", ">>"}, call |-> {"("}]
(* Variant: the comparisons bind tighter than sums.                        *)
LadderSwapped == LadderOf(Sums, Comparisons)
Ladder == LadderOf(Comparisons, Sums)

(* A round of such a loop, the k-th, after what it has, l: an error of the *)
(* first operand is not looked at before the first round.                  *)
GoesOn(kind, k, l) == Tok(l.at) \in Ladder[kind] /\ (l.err = "none" \/ (k = 1 /\ l.err = "error"))
Onward(p, kind, l) ==
  LET operand == p[<<Tighter[kind], l.at + 1, l.err>>]
      args == Enclosed(p, l.at + 1, ")", l.err)
  IN  IF kind = "call" THEN Made(args, Call(l.tree, args.tree))
      ELSE Made(operand, Binary(Tok(l.at), l.tree, operand.tree))
(* Every round reads two tokens at least, its operator and one more.       *)
Level(p, kind, i, e) ==
  LET first == p[<<Tighter[kind], i, e>>]
      round[k \in 0..((Len(source) + 1 - i) \div 2)] ==
        IF k = 0 THEN first
        ELSE LET l == round[k - 1] IN IF GoesOn(kind, k, l) THEN Onward(p, kind, l) ELSE l
  IN  IF GoesOn(kind, 1, first) THEN round[(Len(source) + 1 - i) \div 2] ELSE first

parse_unary(p, i, e) ==
  LET rhs == p[<<"unary", i + 1, e>>]
  IN  IF Tok(i) \in {"-", "!", "&"} THEN Made(rhs, Unary(Tok(i), rhs.tree)) ELSE p[<<"call", i, e>>]

(* Assignments associate to the right and take any left side.              *)
parse_assignment(p, i, e) ==
  LET lhs == p[<<"pipeline", i, e>>]
      rhs == p[<<"assignment", lhs.at + 1, "none">>]
  IN  IF lhs.err = "none" /\ Tok(lhs.at) = "=" THEN Made(rhs, Binary("=", lhs.tree, rhs.tree)) ELSE lhs

Called(p, kind, i, e) ==
  CASE kind = "assignment" -> parse_assignment(p, i, e)
    [] kind = "unary" -> parse_unary(p, i, e)
    [] kind = "primary" -> parse_primary(p, i, e)
    [] kind = "items" -> Items(p, i, e)
    [] kind = "fields" -> Fields(p, i, e)
    [] kind = "statements" -> Statements(p, i, e)
    [] kind = "sequence" -> Sequence(p, i, e)
    [] kind = "block_or_expr" -> parse_block_or_expr(p, i, e)
    [] kind = "parameters" -> Parameters(p, i, e)
    [] OTHER -> Level(p, kind, i, e)

(* What the functions answer when up to n calls wait for each other.  On   *)
(* every token as many do as there are kinds, at most, so Depth suffices.  *)
Depth == Cardinality(Kinds) * (Len(source) + 1)
Parsed ==
  LET parse[n \in 0..Depth] ==
        [c \in Calls |-> IF n = 0 THEN [at |-> c[2], tree |-> Null, err |-> "deep"]
                         ELSE Called(parse[n - 1], c[1], c[2], c[3])]
  IN  parse[Depth]

(* A definition becomes an assignment of a function to its name.           *)
Definition(i) ==
  LET name == consume_ident(i, "none")
      generics == CASE Tok(i + 1) = "[" -> skip_balanced(i + 1, "]")
                    [] Tok(i + 1) = "<" -> skip_balanced(i + 1, ">")
                    [] OTHER -> Got(i + 1, Null, "none")
      function == Function(Parsed, generics.at, "none")
  IN  Then(name, Then(generics, Made(function, Binary("=", Ident(name.tree), function.tree))))

Semicolon(r) == Then(r, IF Tok(r.at) = ";" THEN Got(r.at + 1, r.tree, "none") ELSE r)

(* Variant: the first word is only looked at, and not skipped.             *)
parse_toplevelPeeks(i) ==
  CASE Tok(i) \in {"module", "import", "type"} -> Got(FirstOf(Toplevels(i) \cup {i}, i), Nil, "none")
    [] Tok(i) = "fn" -> Semicolon(Definition(i + 1))
    [] OTHER -> Semicolon(parse_sequence(Parsed, i, "none"))

parse_toplevel(i) ==
  CASE Tok(i) \in {"module", "import", "type"} -> Got(skip_until_toplevel(i + 1), Nil, "none")
    [] Tok(i) = "fn" -> Semicolon(Definition(i + 1))
    [] OTHER -> Semicolon(parse_sequence(Parsed, i, "none"))

-----------------------------------------------------------------------------
Init ==
  /\ \E s \in Sources : source = s[1] /\ origin = s[2]
  /\ at = 1 /\ forms = << >> /\ pc = "validate"

(* validate_with_dparser: a source outside the grammar is a syntax error.  *)
Validate ==
  /\ pc = "validate"
  /\ pc' = IF Derives(source) THEN "parse" ELSE "refused"
  /\ UNCHANGED <<source, origin, at, forms>>

(* Variant: an error is looked at when the source has ended, and not       *)
(* before.                                                                 *)
ParseFormGoesOn ==
  /\ pc = "parse" /\ Tok(at) # "eof"
  /\ \E r \in {parse_toplevel(at)} :
     /\ at' = IF r.at > at THEN r.at ELSE at + 1
     /\ forms' = Append(forms, r.tree)
     /\ pc' = "parse"
  /\ UNCHANGED <<source, origin>>

(* One round of parser::parse.  An error answers an empty program.         *)
ParseForm ==
  /\ pc = "parse" /\ Tok(at) # "eof"
  /\ \E r \in {parse_toplevel(at)} :
     /\ at' = IF r.err = "none" /\ r.tree = Null THEN Synchronized(r.at) ELSE r.at
     /\ forms' = IF r.err # "none" THEN << >> ELSE IF r.tree = Null THEN forms ELSE Append(forms, r.tree)
     /\ pc' = IF r.err = "none" THEN "parse" ELSE r.err
  /\ UNCHANGED <<source, origin>>

EndOfSource ==
  /\ pc = "parse" /\ Tok(at) = "eof"
  /\ pc' = "parsed"
  /\ UNCHANGED <<source, origin, at, forms>>

Ended == pc \in {"parsed", "refused", "error", "thrown"}
Return == Ended /\ UNCHANGED vars

Next == Validate \/ ParseForm \/ EndOfSource \/ Return
Spec == Init /\ [][Next]_vars /\ WF_vars(Validate \/ ParseForm \/ EndOfSource)

-----------------------------------------------------------------------------
(* The parts of a tree, level by level; a tree has at most as many levels  *)
(* as its source has tokens, and the nil an if without else is given.      *)
NullFree(e) ==
  LET level[k \in 0..(Len(source) + 1)] ==
        IF k = 0 THEN {e} ELSE UNION {Range(Parts(x)) : x \in level[k - 1]}
  IN  \A k \in DOMAIN level : Null \notin level[k]

(* The cursor never passes the end of the source, whatever the source: no  *)
(* function reads tokens_ out of its bounds, and no more of them wait for  *)
(* each other than Parsed allows for.                                      *)
TypeOK ==
  /\ at \in Positions
  /\ pc \in {"validate", "parse", "parsed", "refused", "error", "thrown"}
  /\ Len(forms) < at
  /\ pc # "parse" /\ pc # "parsed" => forms = << >>

(* No error is passed over: a function that fails answers a null           *)
(* expression, or one with a null part, and no such tree reaches the       *)
(* caller.                                                                 *)
NoNull == \A i \in DOMAIN forms : NullFree(forms[i])

(* A round of parser::parse that goes on has read at least one token, so   *)
(* every source ends.                                                      *)
Progress == [][pc = "parse" /\ pc' = "parse" => at' > at]_vars
=============================================================================
