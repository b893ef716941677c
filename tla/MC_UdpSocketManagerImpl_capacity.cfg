CONSTANTS
  Workers <- MCWorkers
  Sockets <- MCSockets
  InvalidSockets <- MCInvalidSockets
  FdSetSize = 1
  StopMayTimeOut = TRUE
  None = None
SPECIFICATION ImplSpec
INVARIANT
  LiveSetWithinFdSetSize
