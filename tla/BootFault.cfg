SPECIFICATION Spec
CONSTANTS
  Lines = {0, 1, 14}
  LoaderCS = 16
  Selectors = {0, 8, 16, 24}
  MaxFaults = 3
CHECK_DEADLOCK FALSE
INVARIANT FaultIsFinal
