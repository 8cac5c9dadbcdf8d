SPECIFICATION Spec
CONSTANTS
  i1 = i1
  i2 = i2
  Null = Null
  NoDeadline = NoDeadline
  Iop = {i1, i2}
  Fd = {1}
  Handle = {}
  Kind = {"read_some", "write_some", "sleep", "close"}
  NewSock = {"open"}
  Timeout = {1, 3}
  Ms = 2
  IntMax = 100
  MaxTime = 3
  PipeCap = 1
  HupWritable = FALSE
  CancelsWoken = FALSE
SYMMETRY IopSymmetry
INVARIANTS TypeOK NoUndefined PointersLive WakesInTime Outcomes
PROPERTY KeepsIopLife
