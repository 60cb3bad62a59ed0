CONSTANTS
  Blocks = 1
  Rows = 2
  DualPort = FALSE
  Lanes = {1}
  Values = {0, 1}
  DynamicClock = TRUE
SPECIFICATION Spec
INVARIANT ReadsExact
