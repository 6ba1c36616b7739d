SPECIFICATION FairSpec
CONSTANTS
  Scenarios <- MCScenarios
  LabelTimeout = 4
  BatchTimeout = 8
  MaxLabels = 2
INVARIANTS TypeOK SweepArmed OneEntry
PROPERTIES ConfirmedByItsAnswer Drains
