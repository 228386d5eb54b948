CONSTANTS
  Initially <- PlainContent
  MaxWrites = 0
SPECIFICATION Spec
INVARIANT
  MissingConsensusIsAnError
CHECK_DEADLOCK FALSE
