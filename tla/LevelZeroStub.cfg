\* Two control threads, a caller and a listener over files of two sizes.
CONSTANTS
  CtlThreads = {c1, c2}
  ApiThreads = {a1}
  Listeners = {l1}
  StubPaths = {"p"}
  StubTrees <- MCTrees
  StubFns <- MCFns
  StubHandles <- MCHandles
  HandleBits = 1
  ListenRequests <- MCRequests
  StubCaps = {3}
  MaxChanges = 2
  MaxStubOps = 3
SPECIFICATION StubSpec
PROPERTIES HandlesFitAndResolve ListenIsCurrent UpdateNotMissed ControlReturns
CHECK_DEADLOCK FALSE
