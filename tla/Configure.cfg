CONSTANTS
  Networks <- SomeNetworks
  Options <- SomeOptions
  Interval = 9
  Durations = {0, 4, 13}
  MaxRandomLen = 3
  MaxIterations = 4
SPECIFICATION ConfigureSpec
INVARIANTS
  ConfigureTypeOK
  NoOrphans
  SuccessIsEarned
  RoundPace
  PortComesBack
  DataIsCarried
  TorrcsAgree
  CheckedFirst
  ExpansionIsExact
PROPERTIES
  Ends
  ImplementsTestNetwork
CHECK_DEADLOCK FALSE
