SPECIFICATION FairSpec
CONSTANTS
  Lines <- MCLines
  Bursts <- MCBursts
  MaxLines = 4
  MaxNow = 16
  LastSubmit = 1
  MaxSkews = 1
INVARIANTS TypeOK TimerPending
PROPERTIES LeavesInOrder FloodLimit QueueDrains
CHECK_DEADLOCK FALSE
