---------------------------- MODULE MCDominators ----------------------------
(***************************************************************************)
(* A graph built with add_edge, for the run of Dominators alone.           *)
(***************************************************************************)
EXTENDS Dominators

EdgeList(S) == SetToSortSeq(S, <)

Built(n, edges) ==
  LET B == 0..(n - 1)
  IN  [size |-> n, entry |-> 0,
       succ |-> [b \in B |-> EdgeList({c \in B : <<b, c>> \in edges})],
       pred |-> [b \in B |-> EdgeList({c \in B : <<c, b>> \in edges})]]

(* Five blocks: two ways from the entry that meet in block 3, and any      *)
(* further edges to blocks 1 and 2.                                        *)
TwoWays == {<<0, 1>>, <<0, 2>>, <<1, 3>>, <<2, 4>>, <<4, 3>>}
FiveBlocks == {Built(5, TwoWays \cup E) : E \in SUBSET ((1..4) \X {1, 2} \ {<<1, 1>>, <<2, 2>>})}
=============================================================================
