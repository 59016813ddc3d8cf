-------------------------------- MODULE Orders -------------------------------
(***************************************************************************)
(* std::sort, and a std::set walked from begin to end, for what has no two *)
(* equal elements: the numbers of a finite set in ascending order.         *)
(***************************************************************************)
EXTENDS Naturals, FiniteSets

Ascending(S) ==
  [k \in 1..Cardinality(S) |-> CHOOSE x \in S : Cardinality({y \in S : y <= x}) = k]
=============================================================================
