CONSTANTS
  NumNodes = 1
  OnionServices = {1}
  Publishers = {}
  StartTime = 5
  PrintDelay = 3
  CheckDelay = 1
  WaitTime = 1
  MinTime = 2
  Horizon = 8
  Clock <- ClockRange
  Starts = {0, 2}
  Steady = FALSE
  MaxPass = 0
  MayRestart = TRUE
  LogsExist = FALSE
SPECIFICATION FairSpec
INVARIANTS
  PassesBounded
PROPERTY
  Returns
CHECK_DEADLOCK FALSE
