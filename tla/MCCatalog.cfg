\* CREATE and DROP of two tables, with crashes; blocks of three rows.
CONSTANTS
  Names = {"t", "u"}
  Definitions <- MCDefinitions
  Cap = 3
  INValidBlockNumber = 9
  baseTableid = 1
  MaxId = 2
  MaxCrashes = 2
  MaxBlk = 1
SPECIFICATION Spec
CHECK_DEADLOCK FALSE
INVARIANTS LookupsExact IdsOnce AcceptedSound
PROPERTIES OnlyItsName
