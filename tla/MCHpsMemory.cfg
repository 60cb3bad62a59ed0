CONSTANTS
  Blocks = 2
  Rows = 2
  DualPort = TRUE
  Lanes = {1}
  Values = {0, 1}
  DynamicClock = FALSE
SPECIFICATION Spec
INVARIANT ReadsExact
INVARIANT WritesLand
PROPERTY PortsExact
