SPECIFICATION Spec
CONSTANTS
  i1 = i1
  i2 = i2
  Null = Null
  NoDeadline = NoDeadline
  Iop = {i1, i2}
  Fd = {1}
  Handle = {}
  Kind = {"connect", "accept", "write_ready"}
  NewSock = {}
  Timeout = {2}
  Ms = 2
  IntMax = 100
  MaxTime = 2
  PipeCap = 1
  HupWritable = TRUE
  CancelsWoken = TRUE
SYMMETRY IopSymmetry
INVARIANT Registered
PROPERTY KeepsIopLifeSoFar
CHECK_DEADLOCK FALSE
