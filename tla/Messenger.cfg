SPECIFICATION FairSpec
CONSTANTS
  Cmds <- MCCmds
  Loops = {l1, l2}
  Cap = 1
  BatchSize = 2
  MaxRetries = 2
  Retries = 1
  Configs <- MCConfigs
CHECK_DEADLOCK FALSE
INVARIANTS
  MemoryConserves
  PublishedIsHandled
  NoSharedEntry
  RetryIsEarned
PROPERTIES
  AsyncSettles
  LoopsStop
