\* Two cards; a package of two components, the first not a multiple of the
\* transfer size; files that are empty, one part, and one part and a half.
SPECIFICATION AmcFairSpec
CONSTANTS
  NumCards = 2
  SupportedTypes <- Types
  Repository <- Pdrs
  SensorIds = {1, 3, 9}
  FileIds = {1, 4}
  FileSizes = {0, 3, 4}
  FruParts = 2
  ChunkSize = 3
  IdMax = 8
  MaxNumRetries = 3
  RetryCount = 3
  MaxFaults = 1
  CompSize <- TwoSizes
  CompLocOffset <- TwoOffsets
  FileSize = 6
  MaxTransferSize = 2
  InstanceIdMax = 8
INVARIANTS
  ActivatesThePackage
  FailureCleansUp
  ResetIsReal
  FileReadWhole
  AnswersWhatWasAsked
PROPERTY AmcCommandEnds
