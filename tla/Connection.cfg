CONSTANTS
  HighWater = 3
  LowWater = 1
  Timeout = 2
  MaxOut = 4
  MaxIn = 2
  MaxTicks = 2
SPECIFICATION FairSpec
INVARIANTS
  OutputIsWatched
  BackPressure
  ClosingHasOutput
  ReleasedOnce
  TimerMatchesSetting
PROPERTIES
  StatuGoesForward
  DropsNoOutput
  ShutdownEnds
  PauseEnds
  ResetReleases
CHECK_DEADLOCK FALSE
