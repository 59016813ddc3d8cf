CONSTANTS
  Programs <- ShortPrograms
  Exprs <- AllParts
  Flatten <- flatten_block
SPECIFICATION Spec
INVARIANT ConditionalsBranch
