CONSTANTS
  Main = main
  MaxThreads = 2
  Fd = {f1, f2}
  MaxIds = 3
  MaxAfters = 1
  MaxIdsThrown = 2
SPECIFICATION FairSpec
INVARIANTS
  TypeOK
  OneOwner
  PollersExact
  TimersDistinct
  Registered
PROPERTIES
  Served
  Removed
CHECK_DEADLOCK FALSE
