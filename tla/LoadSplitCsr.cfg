SPECIFICATION Spec
CONSTANTS
  Loaders = {"CSR"}
  NRows = 4
  MaxPerRow = 2
  ThreadCounts = {1, 2}
  EmptyFirstRow = TRUE
INVARIANTS
  EntriesAtTheirRows
