SPECIFICATION FairSpec
CONSTANTS
  Configs <- MCConfigs
  MaxWorkers = 3
  MaxFaults = 2
  MaxEpochs = 3
CHECK_DEADLOCK FALSE
PROPERTY
  CancelEndsFanOut
