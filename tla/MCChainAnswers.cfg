SPECIFICATION FairSpec
CONSTANTS
  f1 = f1
  f2 = f2
  card = card
  other = other
  Drivers <- MCOneDriver
  Subjects <- MCOneSubject
  Bodies <- MCQuestions
  Budgets <- MCEnough
  MaxPasses = 0
  MaxPushes = 3
CHECK_DEADLOCK FALSE
INVARIANTS
  AnswerMeetsItsDecision
PROPERTIES
  ResolveReturns
