------------------------------ MODULE MCRewrite -----------------------------
(***************************************************************************)
(* Well-typed expressions over one integer and one boolean variable, to a  *)
(* depth of three nodes, under every rule set and in both orders.          *)
(***************************************************************************)
EXTENDS Rewrite

x == Ident("x")
p == Ident("p")
Numbers == {x, Literal(0), Literal(1), Literal(2)}
Truths == {p, Bool(TRUE), Bool(FALSE)}

Arith(ls, rs) == {Binary(o, l, r) : o \in {"+", "-", "*", "/"}, l \in ls, r \in rs}
Logic(ls, rs) == {Binary(o, l, r) : o \in {"&&", "||"}, l \in ls, r \in rs}
Signs(es) == {Unary("-", e) : e \in es}
Nots(es) == {Unary("!", e) : e \in es}

Sums == Arith(Numbers, Numbers) \cup Signs(Numbers)
        \cup {Binary("%", l, Literal(2)) : l \in Numbers}
Facts == Logic(Truths, Truths) \cup Nots(Truths)
         \cup {Binary(o, x, Literal(1)) : o \in {"<", "=="}}

Expressions ==
  Sums \cup Facts
  \cup Arith(Sums, {x, Literal(0), Literal(1)}) \cup Arith({x}, Sums)
  \cup Signs(Sums) \cup Nots(Facts)
  \cup Logic(Facts, Truths) \cup Logic(Truths, Facts)
  \cup {If(c, t, e) : c \in Truths \cup Nots(Truths), t \in {x, Unary("-", Unary("-", x))}, e \in {Literal(1), Null}}
  \cup {Let("x", e, f) : e \in {x, Binary("-", x, x)}, f \in {x, Binary("+", x, Literal(0))}}
  \cup {List(<<e, x>>) : e \in Signs(Signs({x}))}
  \cup {Block(<<e>>, v) : e \in Signs({Literal(2)}), v \in {Null, Binary("*", x, Literal(1))}}

(* let n = e in e and { e; v } with one statement, and lists of two.       *)
OwnRules ==
  <<Rule(Let("", PatA, PatA), Template(Ident("a"))),
    Rule(Block(<<Wildcard>>, PatB), Template(Ident("b"))),
    Rule(List(<<Unary("", PatA), PatB>>), Template(List(<<Ident("b"), Ident("a")>>)))>>

\* One pass only, or more than any expression here needs.
MaxRounds == {1, 12}

Bindings == {[n \in {"x", "p"} |-> IF n = "x" THEN Int1(i) ELSE Bool1(t)] :
               i \in {-3, 0, 2}, t \in BOOLEAN}

AllSets == {"folding", "strength and client", "algebraic and boolean", "all"}
=============================================================================
