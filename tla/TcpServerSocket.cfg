CONSTANTS
  Main = main
  MaxThreads = 2
  Fd = {f1, f2}
  MaxIds = 2
  MaxAfters = 1
  MaxIdsThrown = 2
SPECIFICATION Spec
INVARIANTS
  OneSocketPerFd
CHECK_DEADLOCK FALSE
