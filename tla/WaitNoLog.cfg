CONSTANTS
  NumNodes = 2
  OnionServices = {2}
  Publishers = {1}
  StartTime = 20
  PrintDelay = 8
  CheckDelay = 2
  WaitTime = 2
  MinTime = 5
  Clock <- ClockRange
  Starts = {0}
  Steady = TRUE
  MaxPass = 1
  MayRestart = FALSE
  LogsExist = FALSE
  Horizon = 40
SPECIFICATION Spec
INVARIANT
  AlwaysAnswers
CHECK_DEADLOCK FALSE
