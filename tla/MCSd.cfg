SPECIFICATION Spec
CONSTANTS
  LastSector = 2
  BlockSize <- MCBlockSize
  MaxNum = 2
  MaxCalls = 3
  Tries <- MCTries
INVARIANT ReadGivesTheSectors
INVARIANT NoStrayWrite
 
PROPERTY WriteDoneIsStored
PROPERTY CallsReturn
CHECK_DEADLOCK FALSE
