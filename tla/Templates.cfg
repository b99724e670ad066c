SPECIFICATION Spec
CONSTANTS
  Programs <- MCPrograms
  Builtin <- MCBuiltin
  Standard <- MCStandard
  MaxDepth = 3
INVARIANTS
  EveryPassOnce
  Complete
