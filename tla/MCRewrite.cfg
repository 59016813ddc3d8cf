CONSTANTS
  Inputs <- Expressions
  RuleSets <- AllSets
  ClientRules <- OwnRules
  Orders = {"bottom_up", "top_down"}
  Limits <- MaxRounds
  Scopes <- Bindings
SPECIFICATION Spec
INVARIANT TypeOK NothingLeftToApply SameValue EndsWithinNodes
CHECK_DEADLOCK FALSE
