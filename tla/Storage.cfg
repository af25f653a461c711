SPECIFICATION Spec
CONSTANTS
  None = None
  IOs <- MCIOs
  Configs <- MCConfigs
  UnplugThreshold = 3
  MaxReqSize = 4
  SmallSizes = {1, 2, 4}
  LargeSizes <- MCLargeSizes
  LargestSize = 2
CHECK_DEADLOCK FALSE
INVARIANTS PartsAccounted BlocksDistinct DiskAwake DoneMeansTransferred
PROPERTY EveryIoFinishes
