------------------------------- MODULE MCSema -------------------------------
(* Programs for Sema: forms of two constructs over two names and a number, *)
(* alone, and in pairs one of which may be refused.                        *)
EXTENDS Sema

X == Ident("x")
Y == Ident("y")
One == Literal(1)
Zero == Literal(0)

Operators == {"+", "/", "%", "==", "<", "&&", "|", "="}
Ground == {X, Y, One, Bool(TRUE), Nil}
Small ==
  {Binary(o, X, r) : o \in Operators, r \in {Y, Zero, Bool(TRUE)}}
    \cup {Binary("/", One, Zero), Binary("%", One, Zero), Binary("<", One, X), Binary("=", One, X)}
    \cup {Unary(o, e) : o \in {"-", "!", "&"}, e \in {X, Bool(TRUE)}}
    \cup {If(c, X, e) : c \in {Y, Bool(TRUE)}, e \in {Y, Nil, One}}
    \cup {Let("y", e, Y) : e \in {X, Bool(TRUE)}}
    \cup {List(es) : es \in {<< >>, <<X>>, <<X, Y>>, <<One, X>>}}
    \cup {Tuple(<<X, One>>), Record(<<<<"f", X>>, <<"g", Y>>>>), Record(<<<<"f", X>>, <<"f", Y>>>>),
           Lambda(<<"x">>, X), Lambda(<<"x", "x">>, X), Lambda(<<"x">>, Binary("+", X, One)),
           Call(X, <<Y>>), Block(<<X>>, Y)}
Over(e) ==
  {Binary("+", e, One), Binary("<", One, e), Binary("&&", e, Y), Binary("==", e, X), Binary("=", X, e),
   Unary("-", e), If(e, X, Y), If(Bool(TRUE), X, e), If(Y, List(<<e>>), List(<<One>>)),
   Let("x", e, X), Block(<<X, e>>, X), Block(<< >>, e), List(<<X, e, Y>>), Record(<<<<"f", e>>, <<"g", One>>>>),
   Lambda(<<"y">>, e), Call(e, <<Y>>), Call(Lambda(<<"x", "y">>, X), <<e, One>>)}
Forms == Ground \cup Small \cup UNION {Over(e) : e \in Small}

MCRepeated ==
  {<< >>} \cup [1 .. 2 -> {One, Ident("z"), Binary("+", X, One), List(<<X, Y>>), Binary("/", One, Zero)}]
MCPrograms == {<<f>> : f \in Forms} \cup MCRepeated

MCDeclared ==
  {Symbol(Prim(k), TRUE) : k \in {"f32", "f64", "bool"}}
    \cup {Symbol(I64, FALSE), Symbol(ListT(Prim("f64")), TRUE), Symbol(FuncT(<<I64>>, BoolT), TRUE)}
=============================================================================
