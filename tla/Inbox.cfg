SPECIFICATION FairSpec
CONSTANTS
  Msgs <- MCMsgs
  EventOf <- MCEventOf
  IdOf <- MCEventOf
  Malformed <- MCMalformed
  Subs = {"s1"}
  Consumers = {"c1", "c2"}
  SubOf <- OneSub
  Configs <- AllConfigs
  MaxFaults = 2
INVARIANTS
  AckedMeansHandled
  MarkedIsSkipped
  HandledOnce
PROPERTIES
  EventuallyAcked
CHECK_DEADLOCK FALSE
