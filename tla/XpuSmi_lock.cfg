\* Three firmware updates by two processes, one GPU.
CONSTANTS
  SmiModes = {"updatefw"}
  IdleLine <- MCIdleLine
  Gpus <- MCGpus
  CommandLines <- MCLines
  TileBits = 3
  ReenumPolls = 3
  BindPolls = 2
  VgProcs = {"p", "q"}
  VgRequests <- MCRequests
  ConfFiles <- MCConfFiles
  MaxVfNum = 128
  TotalVfs = 2
  Memory = 6
  OthersUse = {1, 6}
  Spare = 1
  LmemBits = 5
  MaxVgRuns = 2
  MaxVgFaults = 1
  FwProcs = {"a", "b"}
  FwDevices = {"d1"}
  Openable <- MCOpenable
  MaxFwRuns = 3
  DumpLines <- MCDumpLines
  CounterBits = 6
  MaxDumpRows = 3
  MaxEndlessRows = 2
  MaxDumpFaults = 2
SPECIFICATION SmiSpec
INVARIANT UpdatesExclude
CHECK_DEADLOCK FALSE
