\* The default overflow policy, one producer, nobody destroys the sink early.
SPECIFICATION Spec
CONSTANTS
  Producers = {1}
  Flushers = {f1}
  Configurations <- MCDefault
  BatchCap = 1
  MaxLogs <- MCFourLogs
INVARIANT FlushDelivers
