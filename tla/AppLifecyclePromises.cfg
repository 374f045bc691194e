SPECIFICATION FairSpec
CONSTANTS
  Modules <- MCModules
  Configs <- OneConfig
  MaxActive = 1
  MaxFaults = 1
CHECK_DEADLOCK FALSE
INVARIANTS
  CancelIsNoError
  LimiterStops
