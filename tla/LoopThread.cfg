CONSTANTS
  Users = {owner, u1, u2}
  Owner = owner
  Loop = loop
  EfdMax = 2
  MaxPosts = 4
SPECIFICATION ThreadSpec
INVARIANTS
  CallsHitLiveLoop
  NoLostWakeup
  InOrder
PROPERTIES
  Joins
  EveryTaskRuns
  StopEnds
CHECK_DEADLOCK FALSE
