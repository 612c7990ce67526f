SPECIFICATION Spec
CONSTANTS
  f1 = f1
  f2 = f2
  card = card
  other = other
  Drivers <- MCTwoDrivers
  Subjects <- MCSubjects
  Bodies <- MCAllBodies
  Budgets <- MCAnyBudget
  MaxPasses = 1
  MaxPushes = 3
SYMMETRY Symmetry
CHECK_DEADLOCK FALSE
INVARIANTS
  TypeOK
  StackIsHeld
  ReportedOnce
  NegatedFirstNeverRuns
PROPERTIES
  LastInFirstReported
  ImplementsStack
