CONSTANTS
  Requests <- MCRequests
  MaxCalls = 4
  MaxFailures = 2
SPECIFICATION Spec
INVARIANTS
  TypeOK
  CaptureStartedImpliesSink
  CaptureStartedMeansRecording
PROPERTIES
  FailureStopsCapture
  SessionRefinement
