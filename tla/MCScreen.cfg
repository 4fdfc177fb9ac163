SPECIFICATION Spec
CONSTANTS
  W = 4
  H = 8
  FW = 1
  FH = 2
  Quota <- SomeQuota
  Depth = 2
  Strays = 1
 
 
PROPERTY VideoModeEnds
CHECK_DEADLOCK FALSE
