CONSTANTS
  PorCycles = 2
  HoldCycles = 4
  DynamicClock = TRUE
SPECIFICATION Spec
INVARIANT SysStartsClean
INVARIANT BootloaderNeedsHold
PROPERTY BootloaderReachable
PROPERTY SocStarts
