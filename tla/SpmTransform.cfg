SPECIFICATION Spec
CONSTANTS
  Shapes <- MCShapes
  Orders <- MCOrders
INVARIANTS
  EntriesInPlace
  RowsSorted
  RowPtrFits
PROPERTIES
  KeepsEntries
  WindowLeavesMatrix
