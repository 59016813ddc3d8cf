------------------------------- MODULE MCFlow -------------------------------
(***************************************************************************)
(* Programs of up to four top-level forms, and flow graphs made with       *)
(* add_edge, whose edge lists are ascending: every graph of four blocks    *)
(* with no edge from a block to itself, and smaller ones with code, drawn  *)
(* block by block.                                                         *)
(***************************************************************************)
EXTENDS Flow, MCAnalyses, SamplePrograms

NoCode == [b \in 1..4 |-> << >>]
FourBlocks == {For("available", Built(NoCode, E)) : E \in SUBSET Pairs(0..3)}
EntryNotFirst ==
  {For("available", [Built(SubSeq(NoCode, 1, 3), E) EXCEPT !.entry = 1]) : E \in SUBSET ((0..2) \X (0..2))}

MCGraphs == AnalysisGraphs \cup FourBlocks \cup EntryNotFirst
=============================================================================
