SPECIFICATION Spec
CONSTANTS
  Requests = {r1, r2}
  Configs <- MCConfigs
  Errors <- MCErrors
  MaxFaults = 1
SYMMETRY MCSymmetry
CHECK_DEADLOCK FALSE
INVARIANTS
  StatusIsDurable
  GaugeReturns
