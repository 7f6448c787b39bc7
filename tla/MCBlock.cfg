\* Blocks of 12 bytes with 2 of header, items of 2; up to 3 tuples fit.
CONSTANTS
  BLOCKSIZE = 12
  HeaderSize = 2
  ItemSize = 2
  short = short
  mid = mid
  full = full
  Rows <- MCRows
  LenOf <- MCLenOf
  Fill = Fill
  Deleted = Deleted
  Junk = Junk
  MaxBlocks = 2
SPECIFICATION Spec
INVARIANTS TypeOK
PROPERTIES PacksAll ListSpec
