------------------------------- MODULE Walks --------------------------------
(***************************************************************************)
(* The three walks of src/dataflow/dataflow.cpp over expressions.  CfgBuild *)
(* and Analyses take them as the parameters Flatten, Uses and Defs.        *)
(***************************************************************************)
EXTENDS Ast

(* collect_uses: every identifier below e, whatever binds it.              *)
RECURSIVE collect_uses(_)
collect_uses(e) ==
  IF IsIdent(e) THEN <<e.name>>
  ELSE FlattenSeq([i \in DOMAIN Kids(e) |-> collect_uses(Kids(e)[i])])

(* collect_defs: the lets of a statement that are not inside another let,  *)
(* a branch, a call or a function.                                         *)
RECURSIVE collect_defs(_)
collect_defs(e) ==
  CASE e.node = "let"   -> <<e.name>>
    [] e.node = "block" -> FlattenSeq([i \in DOMAIN Kids(e) |-> collect_defs(Kids(e)[i])])
    [] OTHER            -> << >>

(* flatten_block: nested blocks are spliced into one list of instructions. *)
RECURSIVE flatten_block(_)
flatten_block(e) ==
  CASE e.node = "null"  -> << >>
    [] e.node = "block" -> FlattenSeq([i \in DOMAIN Kids(e) |-> flatten_block(Kids(e)[i])])
    [] OTHER            -> <<e>>
=============================================================================
