SPECIFICATION Spec
CONSTANTS
  a = a
  b = b
  p = p
  g = g
  s = s
  o0 = o0
  o1 = o1
  NoLive = NoLive
  None = None
  Imm = Imm
  Vars <- MCVars
  Offsets <- MCOffsets
  Programs <- MCPrograms
  Globals = {g}
  Pointers = {p}
  PointerMembers <- MCPointerMembers
  First = 2
  Second = 1
  MaxSteps = 5
INVARIANTS
  DirectReadsSame
  LiveCoversPaths
CHECK_DEADLOCK FALSE
