SPECIFICATION Spec
CONSTANTS
  Job <- MCJob
  Chunk <- MCChunk
  ChunksOf <- MCChunksOf
  Prev <- MCPrev
  Worker = {w1, w2}
  Null = Null
  Foreign <- MCForeign
  Limit = 2
  Page = 2
  MaxAttempts = 2
  MaxFaults = 3
INVARIANTS TypeOK
PROPERTIES KeepsPromise
CHECK_DEADLOCK FALSE
