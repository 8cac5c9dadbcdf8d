SPECIFICATION Spec
CONSTANTS
  i1 = i1
  i2 = i2
  Null = Null
  Iop = {i1, i2}
  Handle = {}
  Kind = {"read_some", "sleep", "close"}
  Deadlined = {TRUE, FALSE}
  Entries = 3
  SubmitFails = TRUE
  HoldsIop = TRUE
SYMMETRY IopSymmetry
INVARIANTS TypeOK UserDataLive CountExact OutstandingLive WillResume NothingLeaked
CHECK_DEADLOCK FALSE
