CONSTANTS
  Fd = {f1, f2}
  File = {a, b}
  NoChan = none
  Event = {in}
  MaxRefusals = 1
SPECIFICATION Spec
INVARIANTS
  InterestKept
PROPERTIES
  ImplementsDemultiplexer
CHECK_DEADLOCK FALSE
