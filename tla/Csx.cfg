SPECIFICATION Spec
CONSTANTS
  MinLimit = 2
  MaxLimit = 4
  SizeMax = 4
  MaxEncodings = 2
  Grain = 2
  ByteSize = 4
  PatternsMax = 2
  Inputs <- MCInputs
  Orders <- MCOrders
  DeltaChoices <- MCDeltaChoices
INVARIANTS
  PatternsReachTheirEntries
  KernelMultipliesMatrix
  MirrorsInPhase
  DiagonalsOnce
  AbortsOnlyOutOfFlags
