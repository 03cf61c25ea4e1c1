SPECIFICATION Spec
CONSTANTS
  Inputs <- MCInputs
  MinLimit = 2
  MaxLimit = 4
  MinPerc = 10
INVARIANTS
  StatsBounded
  EncodingRestores
  SamplesAreWindows
  LookingLeavesMatrix
PROPERTIES
  EncodingGains
  EncodeAllEnds
