\* One scan beside a caller, over more blocks than there are buffers.
CONSTANTS
  BUFFER_MAX_COUNT = 2
  MaxFileNumforRelation = 2
  INValidBlockNumber = 6
  UintRange = 16
  Rels = {0}
  MaxBlk = 3
  Scans = {0}
  ScanRel <- MCScanRel
  Fresh = Fresh
  Zeroed = Zeroed
  Vals = {Fresh, v1}
SPECIFICATION Spec
INVARIANTS TypeOK HandlesStayBound LookupExact CleanBuffersOnDisk
PROPERTIES SecondChance ShutdownSaves StoreSpec
