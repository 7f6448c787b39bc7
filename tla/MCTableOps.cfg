\* Loads, statements and crashes on blocks of two rows.
CONSTANTS
  RelOid = 0
  Rows = {r1, r2, r3}
  MaxVer = 1
  Cap = 2
  MaxBlk = 4
  INValidBlockNumber = 9
  AddrRange = 8
  Kinds = {"load", "insert", "select", "delete", "update"}
  Saves = {"load"}
SPECIFICATION Spec
INVARIANTS TypeOK ScanExact OneVersion
PROPERTIES TableSpec
