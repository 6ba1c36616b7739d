SPECIFICATION Spec
CONSTANTS
  Chan = {"a", "b"}
  Fav = {"a"}
  Scenarios <- MCScenarios
  MaxEvents = 7
INVARIANTS TypeOK TabsMatch OnWanted
CHECK_DEADLOCK FALSE
