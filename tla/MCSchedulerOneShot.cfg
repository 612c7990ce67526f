SPECIFICATION Spec
CONSTANTS
  MaxId = 1
  Kinds <- MCKinds
  Times <- MCNoTimes
  MaxHistory = 2
CHECK_DEADLOCK FALSE
INVARIANTS
  OneShotRunsOnce
