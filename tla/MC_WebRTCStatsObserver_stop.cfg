CONSTANTS
  t1 = t1
  t2 = t2
  t3 = t3
  Threads <- MCThreads
  MaxToggles = 4
  MaxPending = 2
SPECIFICATION Spec
PROPERTY
  PollingStopsWhenDisabled
