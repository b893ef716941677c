CONSTANTS
  Workers = {0, 1}
  MaxSocketManagers = 2
  Sockets <- MCSockets
  InvalidSockets <- MCInvalidSockets
  ThreadCounts <- MCThreadCounts
  FdSetSize = 1
  StopMayTimeOut = TRUE
  Id = 7
  MaxAddCalls = 4
  None = None
SPECIFICATION Spec
INVARIANT
  ImplDeletedAfterThreadStopped
