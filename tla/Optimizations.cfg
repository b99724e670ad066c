SPECIFICATION Spec
CONSTANTS
  Programs <- MCPrograms
  External <- MCExternal
  Inputs = {0, 1, 2}
  MaxRounds = 8
  MaxSteps = 150
INVARIANTS
  SameBehaviour
  EdgesMatchCode
  ParamsMatch
  LoopsAreNatural
  Settles
CHECK_DEADLOCK FALSE
