SPECIFICATION Spec
CONSTANTS
  WordBits = 30
  TagBits = 4
  LevelBits = 3
  PlayerBits = 1
  ZoneBits = 2
  SlotBits = 1
  CardBits = 3
  AttributeBits = 1
  BankBits = 2
  IndexBits = 3
  OpBits = 6
  MethodBits = 3
  ModeBits = 3
  FlagsBits = 7
  CauseBits = 3
  AuxBits = 1
  RandomBits = 4
  MaxRefusals = 1
  MaxFrames = 3
  MaxLines = 4
  Places <- MCPlaces
  Alphabets <- MCAlphabets
  Plans <- MCPlans
CHECK_DEADLOCK FALSE
INVARIANTS
  TypeOK
  PcInTrace
  DecisionMatchesPc
  PublishedIntact
  AssembledAsWritten
  ModulesAreScoped
  QueriesExact
  MovesWithinRequest
  DrawIsUniform
PROPERTIES
  ReportedMoves
  RegisteredIsReported
  QueriesEnd
