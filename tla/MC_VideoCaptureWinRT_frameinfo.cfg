CONSTANTS
  Requests <- MCRequests
  MaxCalls = 3
  MaxFailures = 1
SPECIFICATION Spec
INVARIANT
  FrameInfoMatchesSample
