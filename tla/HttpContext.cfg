CONSTANTS
  MAX_LINE_SIZE = 5
  MAX_HEAD_SIZE = 8
  MAX_BODY_SIZE = 2
  Streams <- AllStreams
SPECIFICATION Spec
INVARIANTS
  HoardsOneLine
  CutsDoNotMatter
PROPERTY ImplementsUncut
CHECK_DEADLOCK FALSE
