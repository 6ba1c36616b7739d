SPECIFICATION FairSpec
CONSTANTS
  Scenarios <- MCScenarios
  Entries = 2
  MaxCps = 2
  Limit = 1
INVARIANTS TypeOK ListIsTended RightEntry
PROPERTIES ThrottlingEnds
CHECK_DEADLOCK FALSE
