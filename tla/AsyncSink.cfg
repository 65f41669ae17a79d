\* Every overflow policy; calls and the destructor in any order.
SPECIFICATION FairSpec
CONSTANTS
  Producers = {1, 2}
  Flushers = {f1}
  Configurations <- MCConfigurations
  BatchCap = 2
  MaxLogs <- MCMaxLogs
INVARIANTS
  RetireAccounting
  Capacity
  NoSilentLoss
  CallOrder
  FlushDeliversUnlessEvicting
  ShutdownDelivers
PROPERTY CallsReturn
