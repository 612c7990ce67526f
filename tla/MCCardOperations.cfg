SPECIFICATION Spec
CONSTANTS
  p1 = p1
  p2 = p2
  monster = monster
  weapon = weapon
  token = token
  field = field
  none = none
  Cards <- MCCards
  Tokens <- MCTokens
  Operated <- MCOperated
  Equipment <- MCEquipment
  Changes <- MCChanges
  Players <- MCPlayers
  Zones <- MCOneZone
  Prototype <- MCPrototype
  MaxFailures = 1
SYMMETRY Symmetry
CHECK_DEADLOCK FALSE
INVARIANTS
  TypeOK
  FieldsAgree
  EventsLocate
  EventsEquip
