SPECIFICATION FairSpec
CONSTANTS
  Cmds <- MCCmds
  Loops = {l1}
  Cap = 2
  BatchSize = 2
  MaxRetries = 2
  Retries = 1
  Configs <- ForcedConfig
CHECK_DEADLOCK FALSE
PROPERTY
  HandlerRunsLater
