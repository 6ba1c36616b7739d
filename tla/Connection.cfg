SPECIFICATION FairSpec
CONSTANTS
  Scenarios <- MCScenarios
  MaxTimers = 4
  MaxRefreshes = 2
INVARIANTS TypeOK SourcesMatch NothingStale
PROPERTIES UpThroughAttempt DisconSticks LostIsRetried
CHECK_DEADLOCK FALSE
