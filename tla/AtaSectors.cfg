SPECIFICATION Spec
CONSTANTS
  Present = {2}
  CallDrives = {2}
  Lbas = {0, 1}
  CallLbas = {0}
  CallData <- MCData
  FirstMedia <- MCMedia
  Words = 2
  Values = {"x", "y"}
  Junk = Junk
  MaxCount = 2
CHECK_DEADLOCK FALSE
INVARIANTS
  WritesLand
