SPECIFICATION FairSpec
CONSTANTS
  f1 = f1
  f2 = f2
  card = card
  other = other
  Drivers <- MCOneDriver
  Subjects <- MCOneSubject
  Bodies <- MCCommittingBodies
  Budgets <- MCOneStep
  MaxPasses = 0
  MaxPushes = 2
CHECK_DEADLOCK FALSE
PROPERTIES
  TwoStepsMakeProgress
