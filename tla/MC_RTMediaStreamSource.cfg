CONSTANTS
  s1 = s1
  Sources <- MCSources
  Sizes <- MCSizes
  MaxFrames = 2
  MaxAllocFailures = 1
SPECIFICATION Spec
INVARIANTS
  TypeOK
  BufferFitsFrame
PROPERTIES
  DeferralCompletes
  NewestFrameShown
  StreamRefinement
