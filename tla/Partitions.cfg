SPECIFICATION Spec
CONSTANTS
  Drives = {0}
  Slots = {0, 2, 4}
  Starts = {0, 1}
  Counts = {3, 12, 144}
INVARIANTS
  TypeOK
  TableBehindSignature
  FormatStaysInside
PROPERTIES
  KeepsOtherPartitions
