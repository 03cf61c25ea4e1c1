SPECIFICATION Spec
CONSTANTS
  Loaders = {"SPM", "SPMSym"}
  NRows = 4
  MaxPerRow = 2
  ThreadCounts = {2, 3}
  EmptyFirstRow = FALSE
INVARIANTS
  EveryRowWritten
