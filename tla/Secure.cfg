CONSTANTS
  a1 = a1
  a2 = a2
  Addr = {a1, a2}
  Listening = a2
  Hosts <- HostLists
  Secured = {FALSE, TRUE}
  Backend = "poll"
  Timeout = 1
  NoDeadline = NoDeadline
  None = None
  MaxTime = 1
  MaxBacklog = 1
  Cap = 2
  HsLen = 1
  RecLen = 2
  MaxMade = 4
  MaxFed = 4
SPECIFICATION FairSpec
INVARIANTS TypeOK SocketsClosed AttemptsInOrder WireExact FlushedBeforeAwait BioFits
PROPERTIES OperationsEnd
CHECK_DEADLOCK FALSE
