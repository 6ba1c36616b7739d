SPECIFICATION FairSpec
CONSTANTS
  Caps = {"sasl", "server-time"}
  Logins = {"none", "PLAIN", "EXTERNAL", "SCRAM", "OAUTHBEARER"}
  Scenarios <- MCScenarios
  MaxLate = 1
INVARIANTS TypeOK EndIsDue NothingCarriedOver
PROPERTIES Registers
