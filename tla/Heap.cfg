SPECIFICATION Spec
CONSTANTS
  Header = 2
  Sizes = {0, 1, 3}
  FirstBreak = 4
  MaxBreak = 17
  MayRefuse = TRUE
INVARIANTS
  TypeOK
  BlocksDisjoint
  ChainTiles
  HeldIffUnavailable
  HeldIsMapped
PROPERTIES
  GrowsOnlyWhenNothingFits
  KeepsPromise
  AllocReturns
CHECK_DEADLOCK FALSE
