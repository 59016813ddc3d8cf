CONSTANTS
  Graphs <- MCGraphs
  Programs <- LongPrograms
  Exprs <- AllParts
  Flatten <- flatten_block
  Wanted = {"liveness", "reaching"}
  MaxBlocks = 5
  Literals = {1, 2}
  Uses <- collect_uses
  Defs <- collect_defs
SPECIFICATION FlowSpec
INVARIANTS FlowTypeOK PendingCovers WaitsOnce ReachesAll Solved BuiltFits CodeKept DominatesDecides TopologicalOrder
PROPERTY SolveReturns
