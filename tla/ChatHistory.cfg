SPECIFICATION Spec
CONSTANTS
  SessList <- Tabs
  Dialogs = {"d"}
  Scenarios <- MCScenarios
  FuzzInterval = 0
  ChunkSize = 1
  StaleLimit = 3
  SanityLimit = 4
  FirstLast = 3
  MaxLast = 4
  MaxLost = 1
INVARIANTS TypeOK RequestsInOrder
PROPERTIES NothingMissed
CHECK_DEADLOCK FALSE
