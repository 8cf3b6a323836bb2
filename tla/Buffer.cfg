CONSTANTS
  Byte = {a, lf}
  LF = lf
  BUFFER_SIZE = 2
  MaxWrite = 3
  MaxUnread = 4
SPECIFICATION Spec
INVARIANTS
  NoBloat
PROPERTIES
  ImplementsQueue
CHECK_DEADLOCK FALSE
