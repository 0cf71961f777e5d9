SPECIFICATION FairSpec
CONSTANTS
  j1 = j1
  j2 = j2
  j3 = j3
  Jobs = {j1, j2, j3}
  NoJob = NoJob
  Roots <- MCRoots
  Spawn <- MCSpawn
  MaxThreads = 3
  Faults = {"harvest"}
INVARIANTS TypeOK HarvestExclusive EachJobOnce JoinedOnReturn
PROPERTIES ImplementsWorkPool StartReturns
