SPECIFICATION Spec
CONSTANTS
  Present = {0}
  CallDrives = {0}
  Lbas = {0}
  CallLbas = {0}
  CallData <- MCData
  FirstMedia <- MCMedia
  Words = 2
  Values = {"x", "y"}
  Junk = Junk
  MaxCount = 1
CHECK_DEADLOCK FALSE
PROPERTIES
  WriteKeepsQuiet
