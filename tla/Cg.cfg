SPECIFICATION FairSpec
CONSTANTS
  Prime = 101
  NRows = 4
  NLoops = 2
  Systems <- MCAllSystems
INVARIANTS
  RaceFree
  FollowsSequentialMethod
PROPERTIES
  Termination
