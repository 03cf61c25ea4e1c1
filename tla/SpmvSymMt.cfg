SPECIFICATION FairSpec
CONSTANTS
  NRows = 4
  NLoops = 2
  Partitions <- MCPartitions
INVARIANTS
  MapCoversConflicts
  RaceFree
  PassComplete
PROPERTIES
  Termination
