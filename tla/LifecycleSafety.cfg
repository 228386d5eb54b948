CONSTANTS
  NumNodes = 2
  LaunchPhase <- LatePhase
  p1 = p1
  p2 = p2
  p3 = p3
  p4 = p4
  Pids <- FourPids
  None = None
  Other = Other
  Foreign = Foreign
  MaxPolls = 2
  Timely = TRUE
  Settled = TRUE
  PidReuse = FALSE
  LaunchMayFail = TRUE
SYMMETRY Symmetry
SPECIFICATION HistorySpec
INVARIANTS
  TypeOK
  LiveTorsAreFound
  StopStopsAll
  StartIsHonest
PROPERTY
  KillIsLastResort
  ImplementsNodeControl
