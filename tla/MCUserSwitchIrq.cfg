CONSTANTS
  Keys <- SomeKeys
  Trigger = 2
  FifoSize = 3
  MaxTyped = 6
  MaxDepth = 3
SPECIFICATION UserSpec
CHECK_DEADLOCK FALSE
INVARIANT EntersUser
