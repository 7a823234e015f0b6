SPECIFICATION Spec
CONSTANTS
  Letters = {"a"}
  Symbols = {}
  Plain = {"spc"}
  Blank = "spc"
  ShiftKeys = {"lshift", "rshift"}
  NUL = NUL
  CmdSize = 5
  MaxArgs = 2
  HaltNames <- MCHaltNames
  MaxKeys = 7
INVARIANTS
  TypeOK
  ParseStaysInBuffer
  RanAsTyped
  EachAcceptedRunsOnce
  ShiftOnlyWhileHeld
PROPERTIES
  ShellComesBack
  
CHECK_DEADLOCK FALSE
