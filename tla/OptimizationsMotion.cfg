SPECIFICATION Spec
CONSTANTS
  Programs <- MotionPrograms
  External <- MCExternal
  Inputs = {0, 1, 2}
  MaxRounds = 8
  MaxSteps = 150
INVARIANTS
  SameBehaviour
CHECK_DEADLOCK FALSE
