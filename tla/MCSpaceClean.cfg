\* Inserts, orderly restarts and vacuum; no tuple needs exactly what is left.
CONSTANTS
  HEAP_INIT_SIZE = 4
  HEAPINCREMENT = 1
  MIN_FreeSpace = 1
  INValidBlockNumber = 100
  NewBlockSpace = 11
  InsertNeeds = {2, 8}
  AppendNeeds = {}
  Reclaims = {0, 2}
  OffsetRange = 99
  MaxBlk = 3
  Crashes = FALSE
SPECIFICATION Spec
INVARIANTS HeapOrdered EntriesExact KnowsLastBlock BlockFound
