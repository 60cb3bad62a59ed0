CONSTANTS
  WORD = 1024
  Models <- EightChannels
  MaxResets = 0
SPECIFICATION Spec
INVARIANT ExactConvolution
