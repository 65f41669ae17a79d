\* Each command on its own: every kind of command line on two GPUs; two vgpu and
\* two updatefw processes at a time; dumps and queries of up to three rows.
CONSTANTS
  SmiModes = {"config", "vgpu", "updatefw", "dump"}
  IdleLine <- MCIdleLine
  Gpus <- MCGpus
  CommandLines <- MCLines
  TileBits = 3
  ReenumPolls = 3
  BindPolls = 2
  VgProcs = {"p", "q"}
  VgRequests <- MCRequests
  ConfFiles <- MCConfFiles
  MaxVfNum = 128
  TotalVfs = 2
  Memory = 6
  OthersUse = {1, 6}
  Spare = 1
  LmemBits = 5
  MaxVgRuns = 2
  MaxVgFaults = 1
  FwProcs = {"a", "b"}
  FwDevices = {"d1", "d2"}
  Openable <- MCOpenable
  MaxFwRuns = 2
  DumpLines <- MCDumpLines
  CounterBits = 6
  MaxDumpRows = 3
  MaxEndlessRows = 2
  MaxDumpFaults = 2
SPECIFICATION SmiSpec
INVARIANTS
  ExitCodeTells
  SuccessMeansApplied
  WritesWithinSelection
  ColdResetIsReal
  VfsProvisioned
  UpdateReported
  RateOfTheTick
  DumpEndsClean
PROPERTIES
  RemoveGivesBack
  CommandsEnd
CHECK_DEADLOCK FALSE
