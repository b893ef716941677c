CONSTANTS
  t1 = t1
  t2 = t2
  t3 = t3
  Threads <- MCThreads
  MaxToggles = 5
  MaxPending = 3
SPECIFICATION Spec
INVARIANTS
  TypeOK
  OneLoopWhileActive
PROPERTY
  PollerRefinement
