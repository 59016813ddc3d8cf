CONSTANTS
  Inputs <- Sums
  RuleSets = {"folding"}
  ClientRules <- OwnRules
  Orders = {"bottom_up", "top_down"}
  Limits <- MaxRounds
  Scopes <- Bindings
SPECIFICATION Spec
INVARIANT OnlyConstantsFolded
CHECK_DEADLOCK FALSE
