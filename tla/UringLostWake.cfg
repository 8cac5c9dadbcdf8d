SPECIFICATION Spec
CONSTANTS
  i1 = i1
  h1 = h1
  Null = Null
  Iop = {i1}
  Handle = {h1}
  Kind = {"read_some"}
  Deadlined = {FALSE}
  Entries = 1
  SubmitFails = FALSE
  HoldsIop = FALSE
INVARIANT WakePending
CHECK_DEADLOCK FALSE
