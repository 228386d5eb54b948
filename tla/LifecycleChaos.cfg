CONSTANTS
  NumNodes = 1
  LaunchPhase <- LatePhase
  p1 = p1
  p2 = p2
  p3 = p3
  p4 = p4
  Pids <- TwoPids
  None = None
  Other = Other
  Foreign = Foreign
  MaxPolls = 2
  Timely = FALSE
  Settled = FALSE
  PidReuse = TRUE
  LaunchMayFail = TRUE
SPECIFICATION FairSpec
PROPERTY
  CommandsEnd
