SPECIFICATION FairSpec
CONSTANTS
  Configs <- MCConfigs
  MaxWorkers = 3
  MaxFaults = 2
  MaxEpochs = 3
CHECK_DEADLOCK FALSE
INVARIANTS
  DrainIsComplete
  TasksConserved
PROPERTY
  EverybodyGoesHome
