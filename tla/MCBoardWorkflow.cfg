CONSTANTS
  Targets = {"digilent_arty", "icebreaker", "kosagi_fomu", "unsupported"}
  Variants <- MCVariants
  Sizes <- MCSizes
SPECIFICATION Spec
INVARIANT SoftwareAtReset
INVARIANT GatewareWhole
INVARIANT OkMeansBuilt
INVARIANT RunsOnItsCore
PROPERTY UsesLatestCore
