SPECIFICATION Spec
CONSTANTS
  Loaders = {"SPM", "SPMSym", "CSR"}
  NRows = 5
  MaxPerRow = 2
  ThreadCounts = {1, 2, 3, 4}
  EmptyFirstRow = FALSE
INVARIANTS
  EntriesAtTheirRows
  KernelRowsDisjoint
  AllLoaded
