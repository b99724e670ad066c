SPECIFICATION Spec
CONSTANTS
  Programs <- MCPrograms
  TrivialJumps = FALSE
INVARIANTS
  EdgesCoverFlow
  SameFlow
PROPERTIES
  Ends
CHECK_DEADLOCK FALSE
