CONSTANTS
  Programs <- ChainedPrograms
  MaxDepth = 3
SPECIFICATION Spec
INVARIANT MainlinePolls
CHECK_DEADLOCK TRUE
