SPECIFICATION Spec
CONSTANTS
  VGA_WIDTH = 3
  VGA_HEIGHT = 2
  MaxBurst = 5
INVARIANTS
  TypeOK
  CursorComesBack
  WritesInPage
  SequentialPut
