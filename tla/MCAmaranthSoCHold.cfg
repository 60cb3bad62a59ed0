CONSTANTS
  Ids = {1}
  Operands = {1, 2}
  Values = {1, 2}
  Inputs <- MCInputs
  Registered = {1}
  Fns = {0, 1}
  HardwareDiv = TRUE
  DynamicClock = FALSE
SPECIFICATION Spec
INVARIANT OnlyCfuInstructions
