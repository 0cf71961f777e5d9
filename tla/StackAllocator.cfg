SPECIFICATION Spec
CONSTANTS
  Size = 3
  Buffers = {1, 5, 9}
  Requests = {0, 1, 2, 3}
  MarkInside = TRUE
  SameChunk = TRUE
  MaxBlocks = 5
  MaxMarks = 2
INVARIANT BlocksSound
INVARIANT TopIsEndOfLast
CHECK_DEADLOCK FALSE
