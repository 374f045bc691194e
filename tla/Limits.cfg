SPECIFICATION Spec
CONSTANTS
  Callers = {c1, c2}
  Keys = {k1, k2}
  Configs <- MCConfigs
  MaxTime = 3
  MaxCalls = 4
  MaxFaults = 2
SYMMETRY MCSymmetry
CHECK_DEADLOCK FALSE
INVARIANTS
  RateHeld
  CallsAreBounded
