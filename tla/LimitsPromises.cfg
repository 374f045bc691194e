SPECIFICATION Spec
CONSTANTS
  Callers = {c1, c2}
  Keys = {k1, k2}
  Configs <- MCConfigs
  MaxTime = 3
  MaxCalls = 4
  MaxFaults = 2
CHECK_DEADLOCK FALSE
PROPERTIES
  QuietFailureIsHarmless
  RefusedFailsFast
