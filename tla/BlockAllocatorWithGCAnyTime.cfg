SPECIFICATION Spec
CONSTANTS
  PerChunk = 2
  MaxChunks = 2
  AnyTime = TRUE
INVARIANTS NoLivingBlockFree
