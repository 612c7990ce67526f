SPECIFICATION FairSpec
CONSTANTS
  r1 = r1
  r2 = r2
  d1 = d1
  plain = plain
  elsewhere = elsewhere
  MaxId = 2
  Registrations <- MCRegistrations
  Drivers <- MCOneDriver
  Operands <- MCOneOperand
  WellFormed <- MCOneOperand
  AttributeDst <- MCOneOperand
  MaxHandlers = 2
  Nested = TRUE
CHECK_DEADLOCK FALSE
INVARIANTS
  WaitHasARunner
PROPERTIES
  HandlersDrain
  CommitReturns
