CONSTANTS
  Cpus = {c0}
  PageSize = 4
  BitsPerByte = 4
  SegmentArgs <- TwoSegments
  ReserveArgs <- TwoReserves
  Sizes <- TwoSizes
  MaxCalls = 5
  Frames <- AllFrames
SPECIFICATION FairSpec
INVARIANT TypeOK
INVARIANT GrantsDisjoint
PROPERTY ImplementsFrameOwnership
PROPERTY FirstFit
CHECK_DEADLOCK FALSE
