CONSTANTS
  Ids = {1}
  Operands = {1, 2}
  Values = {1, 2}
  Inputs <- MCInputs
  Registered = {1}
  Fns = {0, 1}
  HardwareDiv = FALSE
  DynamicClock = TRUE
SPECIFICATION FairSpec
INVARIANT TypeOK
INVARIANT OnlyCfuInstructions
INVARIANT ClocksStopSafely
INVARIANT StartsIdle
PROPERTY UnitSpec
PROPERTY UnitFinishes
