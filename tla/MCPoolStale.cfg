\* Relation 1 (file id 2) has more blocks than there are buffers.
CONSTANTS
  BUFFER_MAX_COUNT = 3
  MaxFileNumforRelation = 2
  INValidBlockNumber = 5
  UintRange = 64
  Rels = {1}
  MaxBlk = 3
  Scans = {}
  ScanRel <- MCScanRel
  Fresh = Fresh
  Zeroed = Zeroed
  Vals = {Fresh, v1}
SPECIFICATION Spec
INVARIANTS HandlesStayBound
