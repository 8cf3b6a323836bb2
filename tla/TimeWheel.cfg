CONSTANTS
  Id = {c1, c2}
  Obj = {o1, o2, o3}
  Cap = 3
  Timeouts = {0, 1, 2, 3}
  MaxExpirations = 2
SPECIFICATION FairSpec
INVARIANTS
  TimerReachable
PROPERTIES
  ImplementsTimers
  EventuallyRings
CHECK_DEADLOCK FALSE
