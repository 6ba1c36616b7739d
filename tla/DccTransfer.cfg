SPECIFICATION FairSpec
CONSTANTS
  Scenarios <- MCScenarios
  Offers = 2
  Size = 4
  Parts = {0, 2}
  AckMod = 5
  HugeSize = 6
  SockBuf = 2
INVARIANTS TypeOK FilesAreRight
PROPERTIES NothingUndone Delivers CopiesFile
CHECK_DEADLOCK FALSE
