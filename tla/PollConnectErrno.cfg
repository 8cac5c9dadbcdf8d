SPECIFICATION Spec
CONSTANTS
  i1 = i1
  Null = Null
  NoDeadline = NoDeadline
  Iop = {i1}
  Fd = {1}
  Handle = {}
  Kind = {"connect"}
  NewSock = {}
  Timeout = {1, 3}
  Ms = 2
  IntMax = 100
  MaxTime = 3
  PipeCap = 1
  HupWritable = TRUE
  CancelsWoken = FALSE
PROPERTY ConnectReported
CHECK_DEADLOCK FALSE
