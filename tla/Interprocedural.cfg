SPECIFICATION Spec
CONSTANTS
  entryFn = entryFn
  firstFn = firstFn
  secondFn = secondFn
  standardFn = standardFn
  Functions <- MCFunctions
  Standard = {standardFn}
  Main = entryFn
  Inlinable = {entryFn, firstFn, secondFn}
  Programs <- MCPrograms
  Factors = {2}
  ExitBlocks <- NoExitCalls
  MaxCalls = 2
  Width = 8
INVARIANTS
  CountsCalls
  NoDanglingCall
  CalleesFirst
  LookupsSucceed
PROPERTIES
  KeepsWhatRuns
CHECK_DEADLOCK FALSE
