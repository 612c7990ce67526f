SPECIFICATION Spec
CONSTANTS
  life = life
  counter = counter
  Fields <- MCOneField
  Lo <- MCLo
  Hi = 1
  Values <- MCOne
  Amounts <- MCAmounts
  MaxId = 1
CHECK_DEADLOCK FALSE
INVARIANTS
  ContributionsLeaveNoTrace
