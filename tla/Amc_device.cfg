\* Two cards and no fault; --device as an index or as a PCI address.
SPECIFICATION AmcSpec
CONSTANTS
  NumCards = 2
  SupportedTypes <- Types
  Repository <- Pdrs
  SensorIds = {1, 3, 9}
  FileIds = {1, 4}
  FileSizes = {0, 3, 4}
  FruParts = 2
  ChunkSize = 3
  IdMax = 8
  MaxNumRetries = 3
  RetryCount = 3
  MaxFaults = 0
  CompSize <- OneSize
  CompLocOffset <- OneOffset
  FileSize = 3
  MaxTransferSize = 2
  InstanceIdMax = 8
INVARIANT ResetsNamedDevice
