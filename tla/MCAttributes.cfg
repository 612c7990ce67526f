SPECIFICATION Spec
CONSTANTS
  life = life
  counter = counter
  Fields <- MCFields
  Lo <- MCLo
  Hi = 2
  Values <- MCValues
  Amounts <- MCAmounts
  MaxId = 2
SYMMETRY Symmetry
CHECK_DEADLOCK FALSE
INVARIANTS
  TypeOK
  BaseMatchesLedger
PROPERTIES
  ReadableUntilChanged
