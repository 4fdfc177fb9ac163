CONSTANTS
  NCores = 4
  ImagePages = 2
  MappedPages = 8
SPECIFICATION FairSpec
INVARIANT RightMessages
INVARIANT StacksPrivate
INVARIANT MmuAfterTables
PROPERTY AllCoresStart
CHECK_DEADLOCK FALSE
