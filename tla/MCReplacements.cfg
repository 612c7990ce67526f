SPECIFICATION Spec
CONSTANTS
  r1 = r1
  r2 = r2
  d1 = d1
  plain = plain
  elsewhere = elsewhere
  MaxId = 2
  Registrations <- MCRegistrations
  Drivers <- MCOneDriver
  Operands <- MCOperands
  WellFormed <- MCWellFormed
  AttributeDst <- MCAttributeDst
  MaxHandlers = 2
  Nested = FALSE
SYMMETRY Symmetry
CHECK_DEADLOCK FALSE
INVARIANTS
  TypeOK
  ParticipantsExact
  AppliedOnceAsAmended
  ExecutionFresh
PROPERTIES
  SealedIsFrozen
  ImplementsStaging
