CONSTANTS
  Chunks <- TwoChunks
  CUT = FALSE
  WRAP = 64
SPECIFICATION ChunkSpec
INVARIANTS ChunksJoined
CHECK_DEADLOCK FALSE
