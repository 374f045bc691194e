SPECIFICATION FairSpec
CONSTANTS
  Modules <- MCModules
  Configs <- ZeroConfig
  MaxActive = 1
  MaxFaults = 1
CHECK_DEADLOCK FALSE
INVARIANT
  StopsInGrace
