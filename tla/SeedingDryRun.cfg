SPECIFICATION Spec
CONSTANTS
  Modules <- MCSeeders
  Configs <- MCConfigs
  MaxFaults = 2
CHECK_DEADLOCK FALSE
INVARIANT DryRunLeavesAlone
