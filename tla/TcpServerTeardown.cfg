CONSTANTS
  Main = main
  MaxThreads = 2
  Fd = {f1, f2}
  MaxIds = 2
  MaxAfters = 1
  MaxIdsThrown = 0
SPECIFICATION TeardownSpec
PROPERTIES
  PollersConfined
CHECK_DEADLOCK FALSE
