SPECIFICATION FairSpec
CONSTANTS
  t0 = t0
  t1 = t1
  t2 = t2
  Threads = {t0, t1, t2}
  Swapper = t0
  NLoops = 3
INVARIANTS
  TypeOK
  RaceFree
  GathersOneIterate
  ResultIsPower
PROPERTIES
  ImplementsPowerIteration
  Termination
