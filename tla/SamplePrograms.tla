--------------------------- MODULE SamplePrograms ---------------------------
(* Programs of up to four top-level forms for build_cfg: simple            *)
(* statements, blocks, and conditionals with one, several and nested       *)
(* instructions in their arms.                                             *)
EXTENDS Walks

A == Let("x", Literal(1), Ident("x"))
Plain == If(Ident("c"), A, Ident("x"))
Nested == If(Ident("d"), Block(<<Ident("t1"), Plain>>, Ident("t2")), Literal(0))
Body == Block(<<Ident("b1"), Block(<<Plain>>, Null)>>, Ident("b2"))

AllParts == {A, Plain, Nested, Body, Nested.then, Nested.else, Body.statements[2]}
            \cup {Ident(x) : x \in {"c", "d", "x", "t1", "t2", "b1", "b2"}}

AllPrograms == UNION {[1..n -> {A, Plain, Nested, Body}] : n \in 0..3}
LongPrograms == AllPrograms \cup [1..4 -> {A, Plain}]
ShortPrograms == UNION {[1..n -> {A, Plain}] : n \in 0..2}
=============================================================================
