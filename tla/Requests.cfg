SPECIFICATION Spec
CONSTANTS
  Requests = {r1, r2}
  Configs <- AllConfigs
  Errors <- MCErrors
  MaxFaults = 2
SYMMETRY MCSymmetry
CHECK_DEADLOCK FALSE
INVARIANTS
  DurableReply
  NothingLeaks
