SPECIFICATION Spec
CONSTANTS
  MinPartSize = 3
  DefaultPartSize = 5
  MaxPartSize = 8
  MaxPartCount = 3
  Unit = 2
  FileSizes <- MCFileSizes
  PartSizes <- MCPartSizes
INVARIANTS
  PartsWithinLimits
  RangesTile
  AssembledIsFile
  RefusedOnlyIfTooLarge
CHECK_DEADLOCK FALSE
