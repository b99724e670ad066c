SPECIFICATION Spec
CONSTANTS
  N = 4
  r1 = r1
  r2 = r2
  sp = sp
  None = None
  Hard = {r1, r2, sp}
  Binding = {r1, r2, sp, None}
  Colors <- MCColors
  Graphs <- MCGraphs
INVARIANTS
  TypeOK
  AlwaysAColor
  ProperColoring
  AllColored
CHECK_DEADLOCK FALSE
