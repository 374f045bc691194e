SPECIFICATION Spec
CONSTANTS
  Msgs <- TwoCommands
  EventOf <- OwnEvent
  IdOf <- BlankId
  Malformed = {}
  Subs = {"s1"}
  Consumers = {"c1", "c2"}
  SubOf <- OneSub
  Configs <- WrapConfig
  MaxFaults = 0
INVARIANTS
  AckedMeansHandled
CHECK_DEADLOCK FALSE
