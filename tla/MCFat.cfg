CONSTANTS
  Volbase = 1
  Fsize = 2
  FatPerSector = 4
  DirPerSector = 2
  SS = 2
  Csize = 2
  NFatent = 8
  Values = {2}
  Sizes = {1, 5}
  Offsets = {0, 7}
  MaxSize = 8
  MaxCalls = 4
  MaxFaults = 1
  FaultAt = {0, 2, 5}
  Names <- MCNames
  Paths <- MCPaths
  Modes <- MCModes
  DirPaths <- MCDirPaths
  MaxDepth = 2
  Disks <- MCDisks
SPECIFICATION Spec
CHECK_DEADLOCK FALSE
VIEW View
INVARIANT TypeOK
INVARIANT ChainsSound
INVARIANT SpaceAccounted
INVARIANT SafeFilesStay
PROPERTY ImplementsFileStore
