SPECIFICATION FairSpec
CONSTANTS
  SessList <- Tabs
  Dialogs = {"d"}
  Scenarios <- MCAnswering
  FuzzInterval = 0
  ChunkSize = 1
  StaleLimit = 3
  SanityLimit = 4
  FirstLast = 3
  MaxLast = 3
  MaxLost = 1
PROPERTIES CatchupEnds
CHECK_DEADLOCK FALSE
