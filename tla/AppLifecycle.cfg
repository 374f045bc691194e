SPECIFICATION FairSpec
CONSTANTS
  Modules <- MCModules
  Configs <- MCConfigs
  MaxActive = 1
  MaxFaults = 1
CHECK_DEADLOCK FALSE
INVARIANTS
  OrderIsRight
  NewLeaksNothing
  DependenciesStartFirst
  WorkHasResources
  PortsAreDistinct
PROPERTIES
  RunEnds
  ShutdownCloses
