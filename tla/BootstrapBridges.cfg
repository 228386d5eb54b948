CONSTANTS
  NumNodes = 3
  Kind <- BridgeNetwork
  LaunchPhase <- Phases
  StartTime = 2
  PrintDelay = 2
  CheckDelay = 1
  WaitTime = 0
  MinTime = 0
  Clock <- ClockRange
  Starts = {0}
  Steady = TRUE
  MaxPass = 0
  MayRestart = FALSE
  LogsExist = TRUE
  Horizon = 8
SPECIFICATION Spec
INVARIANT
  BridgesReachBridgeClients
CHECK_DEADLOCK FALSE
