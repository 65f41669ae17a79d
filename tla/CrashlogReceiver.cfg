\* A matching name and another one, three files, a queue of two notifications.
SPECIFICATION FairSpec
CONSTANTS
  Names = {a, b}
  Matching = {a}
  NoName = NoName
  MaxFiles = 3
  MaxQueued = 2
INVARIANTS
  EmittedOnce
  ProcessedPruned
PROPERTIES
  ShutdownIsFinal
