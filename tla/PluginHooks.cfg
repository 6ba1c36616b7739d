SPECIFICATION Spec
CONSTANTS
  Scenarios <- MCScenarios
  MaxHooks = 3
  MaxDepth = 2
INVARIANTS TypeOK NothingFreedIsUsed RunsInOrder CallsAreDue
CHECK_DEADLOCK FALSE
