SPECIFICATION FairSpec
CONSTANTS
  Entries <- MCEntries
  Workers = {w1}
  Tokens = {t1, t2, t3, t4, t5}
  NULL = NULL
  Blank = Blank
  DefaultToken = Blank
  BatchSize = 1
  MaxRetries = 1
  Poison = {1}
  Slow = {}
  LeaseTimeout = 2
  PollTimeout = 2
  CleanupEvery = 2
  Setups <- NoDLQ
  MaxFailures = 1
  MaxFaults = 2
PROPERTIES
  EventuallySettled
