CONSTANTS
  Workers <- MCWorkers
  Sockets <- MCSockets
  InvalidSockets <- MCInvalidSockets
  FdSetSize = 1
  StopMayTimeOut = TRUE
  None = None
SPECIFICATION ImplSpec
INVARIANTS
  TypeOK
  OwnershipConsistent
  NoDispatchToDeleted
PROPERTIES
  PendingApplied
