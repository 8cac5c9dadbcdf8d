SPECIFICATION FairSpec
CONSTANTS
  i1 = i1
  h1 = h1
  h2 = h2
  Null = Null
  Iop = {i1}
  Handle = {h1, h2}
  Kind = {"read_some", "connect", "sleep"}
  Deadlined = {TRUE, FALSE}
  Entries = 5
  SubmitFails = FALSE
  HoldsIop = FALSE
INVARIANT NoUndefined
PROPERTIES DeadlineMet HandleResumed KeepsIopLife
CHECK_DEADLOCK FALSE
