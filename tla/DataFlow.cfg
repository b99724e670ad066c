SPECIFICATION Spec
CONSTANTS
  N = 3
  Functions <- MCFunctions
  Domain <- Chain
  Top <- ChainTop
  Meet <- ChainMeet
  Transfer <- ChainTransfer
  Boundary <- Low
  InitValue <- High
INVARIANTS
  Fixpoint
  BestSolution
PROPERTIES
  Stops
CHECK_DEADLOCK FALSE
