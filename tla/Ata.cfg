SPECIFICATION Spec
CONSTANTS
  Present = {1, 2}
  CallDrives = {1, 2, 4}
  Lbas = {0, 1}
  CallLbas = {0, 2}
  CallData <- MCData
  FirstMedia <- MCMedia
  Words = 2
  Values = {"x", "y"}
  Junk = Junk
  MaxCount = 2
CONSTRAINT NotBehind
CHECK_DEADLOCK FALSE
INVARIANTS
  TypeOK
  TransferReady
  IdleBetweenCalls
PROPERTIES
  Implements
  ReadKeepsQuiet
  Answered
