CONSTANTS
  HighWater = 3
  LowWater = 1
  Timeout = 2
  MaxOut = 4
  MaxIn = 3
  MaxTicks = 1
  MaxUnits = 3
  MaxResponse = 2
SPECIFICATION HttpFairSpec
INVARIANTS
  OneAnswerEach
  NothingStranded
  OutputBounded
PROPERTIES
  RequestsAnswered
CHECK_DEADLOCK FALSE
