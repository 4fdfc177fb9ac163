CONSTANTS
  NCores = 4
  HeapEnds <- TwoHeaps
  BoardEnd = 32768
  NPages = 258048
  DevBytes = 64
  ConsBytes = 40
  SegBytes = 40
SPECIFICATION Spec
INVARIANT BreakAboveBlocks
INVARIANT HeapIsBigEnough
 
CHECK_DEADLOCK FALSE
