SPECIFICATION Spec
CONSTANTS
  N = 3
  safe = safe
  unsafe = unsafe
  Standard = {safe, unsafe}
  Safe = {safe}
  Programs <- MCPrograms
INVARIANTS
  PureExact
PROPERTIES
  Ends
CHECK_DEADLOCK FALSE
