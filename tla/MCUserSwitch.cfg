CONSTANTS
  Keys <- SomeKeys
  Trigger = 2
  FifoSize = 3
  MaxTyped = 6
  MaxDepth = 3
SPECIFICATION FairUserSpec
CHECK_DEADLOCK FALSE
INVARIANT EntersUserUnlessHit
INVARIANT StackRestored
PROPERTY ExitReturns
