SPECIFICATION Spec
CONSTANTS
  Scenarios = {{"reconnect"}}
  MaxTimers = 4
  MaxRefreshes = 2
PROPERTIES DisconSticksAfterReconnect
CHECK_DEADLOCK FALSE
