SPECIFICATION FairSpec
CONSTANTS
  j1 = j1
  j2 = j2
  j3 = j3
  Jobs = {j1, j2}
  NoJob = NoJob
  Roots = {j1, j2}
  Spawn <- EndlessSpawn
  MaxThreads = 2
  Faults = {}
PROPERTIES StopReturns
