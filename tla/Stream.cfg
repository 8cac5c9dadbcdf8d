SPECIFICATION FairSpec
CONSTANTS
  o1 = o1
  o2 = o2
  NoDeadline = NoDeadline
  Chunk <- Chunks
  Want = {0, 2}
  Object = {o1, o2}
  Size = 3
  Cap = 2
  Timeout = 1
  MaxSent = 4
  MaxTime = 2
INVARIANTS TypeOK Adjacent BufferExact LineExact
PROPERTIES ReadCountExact WriteCountExact ReadReturns
CHECK_DEADLOCK FALSE
