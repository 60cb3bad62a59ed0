CONSTANTS
  WORD = 1024
  Models <- PointwiseLayers
  MaxResets = 1
SPECIFICATION FairSpec
INVARIANT ExactOnFourChannels
INVARIANT SteadyConvolution
INVARIANT ReadsInTensors
PROPERTY LayersFinish
