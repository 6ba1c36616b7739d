SPECIFICATION FairSpec
CONSTANTS
  Caps = {"sasl"}
  Logins = {"PLAIN"}
  Scenarios = {{"drop"}}
  MaxLate = 1
PROPERTIES RegistersAfterLoss
