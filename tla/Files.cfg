SPECIFICATION Spec
CONSTANTS
  Disks <- MCDisks
  Count = 6
  Typed <- MCTyped
  ls <- MCls
  cat <- MCcat
  mkfs <- MCmkfs
  eosfs <- MCeosfs
  FileCells = 5
  Cleared = 3
  NameSize = 3
  Rows = 4
  Columns = 6
INVARIANTS
  TypeOK
  ListingFaithful
  EntryWhereSaid
  CatFinds
PROPERTIES
  CommandReturns
CHECK_DEADLOCK FALSE
