SPECIFICATION Spec
CONSTANTS
  MaxId = 3
  Kinds <- MCKinds
  Times <- MCTimes
  MaxHistory = 3
CHECK_DEADLOCK FALSE
INVARIANTS
  TypeOK
  DeliveredExactly
  TickSizeIndependent
  OneShotUnregistered
