CONSTANTS
  MaxLevel = 3
  SpsrAtReset <- El1
SPECIFICATION FairSpec
INVARIANT UnmaskedOnlyAtZero
INVARIANT HandlerNotInterrupted
INVARIANT OneAtTheCursor
PROPERTY ResumeWhereStopped
 
INVARIANT DispatchFindsHandler
