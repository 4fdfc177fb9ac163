CONSTANTS
  Cpus = {c0, c1}
  PageSize = 4
  BitsPerByte = 3
  SegmentArgs <- OneSegment
  ReserveArgs <- KernelImage
  Sizes <- TwoSizes
  MaxCalls = 2
  Frames <- AllFrames
SPECIFICATION FairSpec
INVARIANT ReservedNeverGranted
INVARIANT GrantsInsideSegment
INVARIANT MarksAccounted
PROPERTY AllocReturns
CHECK_DEADLOCK FALSE
