CONSTANTS
  Initially <- PlainContent
  MaxWrites = 2
SPECIFICATION Spec
INVARIANTS
  TypeOK
  SuccessHasEvidence
  BothFlavoursCount
  CompleteIsFound
  OrderIsIrrelevant
CHECK_DEADLOCK FALSE
