CONSTANTS
  c1 = c1
  c2 = c2
  Clients <- TwoClients
  Pieces = 2
  Cap <- WideAndNarrow
  Modes <- AllModes
  MayFail = TRUE
SPECIFICATION Spec
INVARIANTS
  TypeOK
  TrueMeansVerified
  CountsAgree
  PiecesAreKept
  NoTestIsStranded
  IdleMeansVerified
CHECK_DEADLOCK FALSE
