SPECIFICATION Spec
CONSTANTS
  Entries <- MCEntries
  Workers = {w1, w2}
  Tokens = {t1, t2, t3, t4, t5}
  NULL = NULL
  Blank = Blank
  DefaultToken = Blank
  BatchSize = 2
  MaxRetries = 2
  Poison = {1}
  Slow = {}
  LeaseTimeout = 1
  PollTimeout = 1
  CleanupEvery = 1
  Setups <- MCSetups
  MaxFailures = 9
  MaxFaults = 2
SYMMETRY Symmetry
INVARIANTS
  NoEventLost
  LeaseHeld
  OneLiveOwner
  RetriesAreFailures
PROPERTY
  RefinesAtLeastOnce
