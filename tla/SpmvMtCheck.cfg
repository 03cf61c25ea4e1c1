SPECIFICATION FairSpec
CONSTANTS
  t0 = t0
  t1 = t1
  t2 = t2
  main = main
  Threads = {t0, t1, t2}
  First = t0
  Main = main
  NLoops = 2
  Turns = 2
INVARIANTS
  ParallelEqualsSerial
  MainRaceFree
  KernelsAreBuilt
PROPERTIES
  CheckEnds
