SPECIFICATION Spec
CONSTANTS
  Functions <- MCFunctions
  Ints = {"x", "y"}
  Answers <- MCAnswers
  MaxCalls = 8
INVARIANTS
  SameCalls
PROPERTIES
  Ends
CHECK_DEADLOCK FALSE
