CONSTANTS
  NumNodes = 2
  OnionServices = {2}
  Publishers = {1}
  StartTime = 20
  PrintDelay = 8
  CheckDelay = 2
  WaitTime = 2
  MinTime = 5
  Clock <- ClockRange
  Starts = {0}
  Steady = TRUE
  MaxPass = 1
  MayRestart = FALSE
  LogsExist = TRUE
  Horizon = 40
SPECIFICATION FairSpec
INVARIANTS
  TypeOK
  SuccessMeansReady
  MinimumRunTime
  PromptHostGivesUpOnlyAtTheLimit
PROPERTY
  ReadyPassSucceeds
CHECK_DEADLOCK FALSE
