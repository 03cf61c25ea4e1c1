SPECIFICATION Spec
CONSTANTS
  Inputs <- MCInputs
  MinLimit = 2
  MaxLimit = 12
  MinPerc = 10
INVARIANTS
  WindowStartsInMatrix
