CONSTANTS
  Graphs <- LineGraphs
  Literals = {1, 2}
  Uses <- collect_uses
  Defs <- collect_defs
SPECIFICATION Spec
INVARIANT LiveAtExit
