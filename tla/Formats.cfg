SPECIFICATION Spec
CONSTANTS
  Cases <- MCCases
  BlockMax = 2
  PageSize = 4
  ValueSize = 2
  IndexSize = 1
INVARIANTS
  ProductIsMatrixTimesX
  AbortsOnEmptyRows
  EvenMatricesSplit
  PagesOnMajorityNode
