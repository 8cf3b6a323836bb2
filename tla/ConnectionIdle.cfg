CONSTANTS
  HighWater = 3
  LowWater = 1
  Timeout = 2
  MaxOut = 4
  MaxIn = 2
  MaxTicks = 2
SPECIFICATION Spec
PROPERTIES
  TimeoutMeansSilence
CHECK_DEADLOCK FALSE
