SPECIFICATION MCSpec
CONSTANTS
  Blocks = {b1, b2, b3}
  Null = Null
  Limit = 1
  MaxAllocs = 4
  c1 = c1
  c2 = c2
  c3 = c3
  None = None
  Subjects = {"list", "grouped", "simple", "block", "shared", "lock", "strings"}
  AnyToC = FALSE
INVARIANT LiveKept
INVARIANT ChainExact
INVARIANT FreeMemoryExact
INVARIANT PointersExact
PROPERTY CycleComplete
PROPERTY CollectorsKeepPromise
PROPERTY CycleEnds
