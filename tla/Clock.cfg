SPECIFICATION Spec
CONSTANTS
  Hz = 4
  ResyncTicks = 12
  UptimeMod = 30
  UpdateTicks = 2
  FastTicks = 1
  SetupTicks = 1
  LeapFebruary <- MCFebruary
  Day = 40
  MaxTicks = 100
INVARIANTS
  TypeOK
  WithinASecond
PROPERTIES
  NeverBackwards
  HandlerReturns
CHECK_DEADLOCK FALSE
