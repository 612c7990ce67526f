SPECIFICATION Spec
CONSTANTS
  f1 = f1
  f2 = f2
  card = card
  other = other
  Drivers <- MCOneDriver
  Subjects <- MCOneSubject
  Bodies <- MCNegatingBodies
  Budgets <- MCEnough
  MaxPasses = 0
  MaxPushes = 1
CHECK_DEADLOCK FALSE
INVARIANTS
  NegatedSkipsItsBody
