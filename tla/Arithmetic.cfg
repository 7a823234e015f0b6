SPECIFICATION ArithmeticSpec
CONSTANTS
  LastYear = 2105
  Counts <- MCCounts
  Volumes <- MCVolumes
  Skips <- MCSkips
  Reads <- MCReads
INVARIANTS
  DatesAgree
  FatDescribesPartition
  FatFilesRead
  Ext2DescribesPartition
CHECK_DEADLOCK FALSE
