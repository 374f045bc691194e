SPECIFICATION FairSpec
CONSTANTS
  Entries <- MCEntries
  Workers = {w1}
  Tokens = {t1, t2, t3, t4, t5}
  NULL = NULL
  Blank = Blank
  DefaultToken = Blank
  BatchSize = 2
  MaxRetries = 1
  Poison = {}
  Slow = {1}
  LeaseTimeout = 2
  PollTimeout = 2
  CleanupEvery = 1
  Setups <- WithDLQ
  MaxFailures = 1
  MaxFaults = 0
PROPERTIES
  GoodEventsSettle
