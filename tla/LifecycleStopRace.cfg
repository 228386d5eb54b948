CONSTANTS
  NumNodes = 2
  LaunchPhase <- OnePhase
  p1 = p1
  p2 = p2
  p3 = p3
  p4 = p4
  Pids <- TwoPids
  None = None
  Other = Other
  Foreign = Foreign
  MaxPolls = 2
  Timely = TRUE
  Settled = TRUE
  PidReuse = FALSE
  LaunchMayFail = FALSE
SPECIFICATION Spec
INVARIANT
  StopStopsRunningNodes
