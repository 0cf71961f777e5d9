SPECIFICATION MCSpec
CONSTANTS
  Values = {a, b}
  Junk = junk
  Capacities = {1, 2}
  MaxCap = 8
  AliasedFull = FALSE
  Nil = Nil
  NoItem = NoItem
INVARIANT StructuresExact
INVARIANT SegmentFound
PROPERTY ImplementsFifo
PROPERTY CollectionsKeepPromise
CHECK_DEADLOCK FALSE
