SPECIFICATION Spec
CONSTANTS
  symbolic_registers <- MCregisters
  symbolic_float_registers <- MCfloats
  int_param_register <- MCint_params
  float_param_register <- MCfloat_params
  Standard <- MCStandard
  Programs <- MCPrograms
  Inputs = {0, 1}
  MaxSteps = 100
  LowSteps = 400
  MaxRounds = 12
INVARIANTS
  SameResult
  NeverFails
  RoundsEnd
CHECK_DEADLOCK FALSE
