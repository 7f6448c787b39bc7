\* With updates, replaced buffers, and processes that end without flushing, or
\* in the middle of it.
CONSTANTS
  HEAP_INIT_SIZE = 4
  HEAPINCREMENT = 1
  MIN_FreeSpace = 1
  INValidBlockNumber = 100
  NewBlockSpace = 5
  InsertNeeds = {2, 3}
  AppendNeeds = {2}
  Reclaims = {0, 2}
  OffsetRange = 99
  MaxBlk = 2
  Crashes = TRUE
SPECIFICATION Spec
INVARIANTS TypeOK
PROPERTIES MissedOnlyOnTie MapSpec
