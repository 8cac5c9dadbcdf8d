SPECIFICATION FairSpec
CONSTANTS
  i1 = i1
  i2 = i2
  h1 = h1
  Null = Null
  NoDeadline = NoDeadline
  Iop = {i1, i2}
  Fd = {1}
  Handle = {h1}
  Kind = {"read_some", "write_some"}
  NewSock = {}
  Timeout = {1}
  Ms = 1
  IntMax = 100
  MaxTime = 1
  PipeCap = 2
  HupWritable = TRUE
  CancelsWoken = FALSE
INVARIANT WakePending
PROPERTIES DeadlineMet HandleResumed ResumeAllEnds ReadyServed
