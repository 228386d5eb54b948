CONSTANTS
  NumNodes = 3
  Kind <- RelaysAndOnion
  LaunchPhase <- OnePhase
  StartTime = 2
  PrintDelay = 1
  CheckDelay = 1
  WaitTime = 0
  MinTime = 0
  Clock <- ClockRange
  Starts = {0}
  Steady = TRUE
  MaxPass = 0
  MayRestart = FALSE
  LogsExist = TRUE
  Horizon = 5
SPECIFICATION FairSpec
INVARIANTS
  SuccessMeansPublished
PROPERTIES
  ImplementsWait
CHECK_DEADLOCK FALSE
