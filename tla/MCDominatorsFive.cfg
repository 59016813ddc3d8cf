CONSTANT Graphs <- FiveBlocks
SPECIFICATION Spec
INVARIANT Correct
