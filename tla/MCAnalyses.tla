----------------------------- MODULE MCAnalyses -----------------------------
(***************************************************************************)
(* Flow graphs for the runs of Analyses.tla: every edge set over a few     *)
(* blocks, with code drawn block by block from small sets.  Edges are      *)
(* added in ascending order, so add_edge leaves ascending edge lists.      *)
(***************************************************************************)
EXTENDS Analyses, Walks

One == Literal(1)
Two == Literal(2)
Set(x, e) == Let(x, e, One)
Sum == Binary("+", Ident("x"), Ident("y"))

EdgeList(S) == SetToSortSeq(S, <)

(* The graph with the given code over the given edges.                     *)
Built(codes, edges) ==
  LET n == Len(codes)
      B == 0..(n - 1)
  IN  [size |-> n, entry |-> 0, exit |-> n - 1, code |-> [b \in B |-> codes[b + 1]],
       succ |-> [b \in B |-> EdgeList({c \in B : <<b, c>> \in edges})],
       pred |-> [b \in B |-> EdgeList({c \in B : <<c, b>> \in edges})]]

Coded(S1, S2, S3) == {<<c1, c2, c3>> : c1 \in S1, c2 \in S2, c3 \in S3}

Pairs(B) == {e \in B \X B : e[1] # e[2]}

(* Reaching definitions: all edge sets over three blocks.                  *)
Redefines == << Set("x", One), Set("x", Two) >>
ReachCode == Coded({<<Set("x", One)>>}, {<< >>, <<Set("x", One)>>, Redefines},
                   {<<Ident("x")>>, <<Set("x", Two)>>})
ReachGraphs == {For("reaching", Built(c, E)) : c \in ReachCode, E \in SUBSET Pairs(0..2)}

(* Constant propagation: three blocks with every edge set over them, and   *)
(* an entry with or without an edge to the last.                           *)
ConstCode == Coded({<<Set("x", One)>>, <<Set("x", Ident("y"))>>},
                   {<<Set("y", Ident("x"))>>, <<Binary("=", Ident("x"), One), Set("y", Ident("x"))>>},
                   {<<Set("x", Two), Set("y", Sum)>>, <<Set("y", Ident("x"))>>})
ConstGraphs ==
  {For("constants", Built(<< <<Set("x", Two)>> >> \o c, E \cup F)) :
     c \in ConstCode, E \in SUBSET Pairs(1..3), F \in SUBSET {<<0, 3>>}}

(* Liveness and available expressions: three blocks in a line, with any    *)
(* edge back.                                                              *)
LineCode == {<<Ident("x")>>, <<Set("x", One)>>, <<Sum>>}
LineGraphs ==
  {For(a, Built(c, {<<0, 1>>, <<1, 2>>} \cup E)) :
     a \in {"liveness", "available"}, c \in Coded(LineCode, LineCode, LineCode),
     E \in SUBSET {<<1, 0>>, <<2, 0>>, <<2, 1>>, <<1, 1>>}}

AnalysisGraphs == ReachGraphs \cup ConstGraphs \cup LineGraphs
=============================================================================
