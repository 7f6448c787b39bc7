------------------------------ MODULE FreeSpace ------------------------------
(***************************************************************************)
(* How a relation hands out the space of its blocks: the block allocation  *)
(* of storage/relation.c, the free space heap of storage/fsm.c with its    *)
(* file, the space check of storage/block.c, the inserting calls of        *)
(* storage/tuple.c and the vacuum program of vacuum/vacuum.c.              *)
(*                                                                         *)
(* A block is reduced to the space left between its offset table and its   *)
(* tuples. The space a tuple needs includes its entry of the table.        *)
(***************************************************************************)
EXTENDS FSMHeap

CONSTANTS
  NewBlockSpace,   \* BLOCKSIZE - sizeof(BlockHeaderData)
  InsertNeeds,     \* what Tup_vInsert is called with
  AppendNeeds,     \* what Tup_vAppend is called with
  Reclaims,        \* what packing a block without its deleted tuples gains
  OffsetRange,     \* number of blocks a uint32 offset reaches
  MaxBlk,          \* bound: highest block number of the relation
  Crashes          \* may a process end without Rel_vDestoryRelation?

BlockNums == 0 .. MaxBlk
Spaces == 0 .. NewBlockSpace

ASSUME SpaceAssumption ==
  /\ NewBlockSpace \in Nat /\ MIN_FreeSpace < NewBlockSpace
  /\ \A need \in InsertNeeds \cup AppendNeeds : need \in 1 .. NewBlockSpace - 1
  /\ Reclaims \subseteq Nat
  /\ OffsetRange \in Nat \ {0}
  /\ MaxBlk \in Nat /\ MaxBlk < INValidBlockNumber /\ MaxBlk < OffsetRange
  /\ Crashes \in BOOLEAN

\* No vacuum runs.
NoVacuum == -1

VARIABLES
  up,              \* does a process have the relation open?
  Rel_fsh,         \* its free space heap
  Rel_curMaxBlock, \* the relation's last block, as this process knows it
  Rel_curBlock,    \* the block of the last insert
  updating,        \* is an UPDATE statement running?
  packed,          \* blocks a running vacuum has packed, or NoVacuum
  writes,          \* writes done of a running FSM_vFlushHeapToFile
  space,           \* block -> space left, as the buffer manager shows it
  disk,            \* block -> space left, in the data file
  fsmFile,         \* what the fsm file holds, as a heap
  whole,           \* (history) the last heap that was flushed to its end
  torn,            \* (history) was fsmFile left a mixture of two heaps?
  missed           \* (history) did the last insert get no block from the heap?

hist == <<whole, torn>>
fsVars == <<up, Rel_fsh, Rel_curMaxBlock, Rel_curBlock, updating, packed, writes,
            space, disk, fsmFile, hist, missed>>

-----------------------------------------------------------------------------
\* The calls, as functions on the open relation and its blocks

Relation == [fsh |-> Rel_fsh, max |-> Rel_curMaxBlock, cur |-> Rel_curBlock,
             space |-> space, disk |-> disk]
Becomes(rel) ==
  /\ Rel_fsh' = rel.fsh /\ Rel_curMaxBlock' = rel.max /\ Rel_curBlock' = rel.cur
  /\ space' = rel.space /\ disk' = rel.disk

NextBlock(rel) == IF IsValidBlockNumber(rel.max) THEN rel.max + 1 ELSE 0
With(blocks, bnum, left) ==
  [b \in DOMAIN blocks \cup {bnum} |-> IF b = bnum THEN left ELSE blocks[b]]

Rel_AppendNewBlock(rel) ==
  LET bnum == NextBlock(rel)
      item == [freeSpaceSize |-> NewBlockSpace, blockNum |-> bnum]
  IN  [fsh |-> FSM_vAddNodeToHeap(rel.fsh, item), max |-> bnum, cur |-> bnum,
       space |-> With(rel.space, bnum, NewBlockSpace),
       disk |-> With(rel.disk, bnum, NewBlockSpace)]

\* What the relation may become when its heap is asked for a block.
Allocate(rel, need) ==
  {[rel EXCEPT !.fsh = got.heap, !.cur = got.bnum] :
     got \in FSM_uAllocateNodeHeap(rel.fsh, need)}

\* (mutant) gives up when the heap has no block.
GetBlockOnce(rel, need) == Allocate(rel, need)

\* The block to insert into is cur. One is appended if the heap gives none.
Rel_GetBlockToInsert(rel, need) ==
  LET first == Allocate(rel, need)
      none == {got \in first : ~IsValidBlockNumber(got.cur)}
  IN  (first \ none) \cup UNION {Allocate(Rel_AppendNewBlock(got), need) : got \in none}

BLK_bCheckEnoughSpace(rel, bnum, need) == need < rel.space[bnum]

\* (mutant) the new entry of the offset table takes no space.
InsertedUncounted(rel, bnum, need) ==
  LET left == rel.space[bnum] - need + 1
  IN  [rel EXCEPT !.space[bnum] = left, !.disk[bnum] = left]

\* BLK_vBlockInsert where there is room, and the flush of the buffer.
InsertedInto(rel, bnum, need) ==
  LET left == rel.space[bnum] - need
  IN  [rel EXCEPT !.space[bnum] = left, !.disk[bnum] = left]

\* BLK_vBlockInsert where there is none appends a block, loads it and inserts
\* there; but the caller marks and flushes the buffer of the block it loaded.
InsertedInNewBlock(rel, need) ==
  LET new == Rel_AppendNewBlock(rel)
  IN  [new EXCEPT !.space[new.max] = @ - need]

\* The block that is read and written as block INValidBlockNumber, whose
\* offset in the file, a uint32, wraps round. Its buffer is not that block's.
WrapBlock == INValidBlockNumber % OffsetRange
InsertedByWrap(rel, need) == [rel EXCEPT !.disk[WrapBlock] = @ - need]

-----------------------------------------------------------------------------
\* A process ends: the relation's memory and the buffers go.

Closed ==
  /\ up' = FALSE /\ updating' = FALSE /\ packed' = NoVacuum /\ writes' = 0
  /\ Rel_fsh' = NewHeap
  /\ Rel_curMaxBlock' = INValidBlockNumber /\ Rel_curBlock' = INValidBlockNumber

\* It crashed, maybe between two writes of FSM_vFlushHeapToFile; or the relation
\* is a user's table, whose Rel_vDestoryRelation no statement calls.
Crash ==
  /\ Crashes /\ up
  /\ Closed
  /\ space' = disk
  /\ torn' = (fsmFile \notin {whole, Rel_fsh})
  /\ whole' = IF torn' THEN NewHeap ELSE fsmFile
  /\ missed' = FALSE
  /\ UNCHANGED <<disk, fsmFile>>

-----------------------------------------------------------------------------
\* The operations of the server, and the end of any process

Init ==
  /\ up = FALSE /\ updating = FALSE /\ packed = NoVacuum /\ writes = 0
  /\ Rel_fsh = NewHeap
  /\ Rel_curMaxBlock = INValidBlockNumber /\ Rel_curBlock = INValidBlockNumber
  /\ space = [b \in {} |-> 0] /\ disk = space
  /\ fsmFile = NewHeap
  /\ whole = NewHeap /\ torn = FALSE /\ missed = FALSE

\* A file that is not there, or has no header yet, reads as a new heap.
FSM_CreateHeapFromFile == fsmFile

Rel_CreateRelation ==
  /\ ~up /\ ~torn
  /\ up' = TRUE
  /\ Rel_fsh' = FSM_CreateHeapFromFile
  /\ Rel_curMaxBlock' = FSM_CreateHeapFromFile.FSH_maxBlockNum
  /\ missed' = FALSE
  /\ UNCHANGED <<Rel_curBlock, updating, packed, writes, space, disk, fsmFile, hist>>

\* A process that reads a mixture of two heaps is not followed: it may find
\* blocks listed twice, or not at all, and nodes that nobody wrote.
StartsTorn ==
  /\ ~up /\ torn
  /\ UNCHANGED fsVars

\* The process is at Rel_vDestoryRelation.
AtEnd == up /\ ~updating /\ packed \in {NoVacuum, Rel_curMaxBlock}

\* (mutant) the length is written before the size of the array.
LengthFirst(n) ==
  [fsmFile EXCEPT !.FSH_length = Rel_fsh.FSH_length,
                  !.FSH_maxBlockNum = IF n = 3 THEN Rel_fsh.FSH_maxBlockNum ELSE @]

\* (mutant) the last block is not written.
MaxForgotten(n) ==
  [fsmFile EXCEPT !.FSH_HeapSize = Rel_fsh.FSH_HeapSize, !.FSH_heap = Rel_fsh.FSH_heap,
                  !.FSH_length = IF n >= 2 THEN Rel_fsh.FSH_length ELSE @]

\* The file after the n-th write. Each is on disk before the next one starts.
Written(n) ==
  LET size == Rel_fsh.FSH_HeapSize
      array == [i \in 1 .. size - 1 |-> IF i \in Slots(fsmFile) THEN fsmFile.FSH_heap[i]
                                                               ELSE Junk]
  IN  [fsmFile EXCEPT !.FSH_HeapSize = size, !.FSH_heap = array,
                      !.FSH_length = IF n >= 2 THEN Rel_fsh.FSH_length ELSE @,
                      !.FSH_maxBlockNum = IF n = 3 THEN Rel_fsh.FSH_maxBlockNum ELSE @]

\* The size of the array, the number of nodes and the last block are written one
\* after the other, then the array.
FSM_vFlushHeapToFile ==
  /\ AtEnd /\ writes < 3
  /\ writes' = writes + 1
  /\ fsmFile' = Written(writes + 1)
  /\ missed' = FALSE
  /\ UNCHANGED <<up, Rel_fsh, Rel_curMaxBlock, Rel_curBlock, updating, packed,
                 space, disk, hist>>

\* (mutant) the array is not written.
ArrayForgotten == fsmFile

FlushedHeap == [fsmFile EXCEPT !.FSH_heap = Rel_fsh.FSH_heap]

\* The array completes the heap; Rel_vDestoryRelation and the process end. The
\* buffers that hold something their blocks do not are not marked dirty, so are
\* not written.
Rel_vDestoryRelation ==
  /\ AtEnd /\ writes = 3
  /\ fsmFile' = FlushedHeap
  /\ Closed
  /\ space' = disk
  /\ whole' = Rel_fsh
  /\ missed' = FALSE
  /\ UNCHANGED <<disk, torn>>

\* The server runs, and is not on its way out.
Serving == up /\ packed = NoVacuum /\ writes = 0

\* The clock takes such a buffer.
Replace(b) ==
  /\ Serving /\ space[b] # disk[b]
  /\ space' = [space EXCEPT ![b] = disk[b]]
  /\ missed' = FALSE
  /\ UNCHANGED <<up, Rel_fsh, Rel_curMaxBlock, Rel_curBlock, updating, packed, writes,
                 disk, fsmFile, hist>>

\* BLK_vBlockInsert without room passes the file's type, which nothing has set,
\* to Rel_AppendNewBlock: that appends a block, or it returns garbage, of which
\* the process is taken to die.
NoRoom(rel, need) ==
  \/ /\ NextBlock(rel) \in BlockNums
     /\ Becomes(InsertedInNewBlock(rel, need))
     /\ UNCHANGED <<up, updating, packed, writes>>
  \/ /\ Crashes
     /\ Closed
     /\ disk' = rel.disk /\ space' = rel.disk

\* BLK_vBlockInsert on block bnum of rel.
BLK_vBlockInsert(rel, bnum, need) ==
  \/ /\ BLK_bCheckEnoughSpace(rel, bnum, need)
     /\ Becomes(InsertedInto(rel, bnum, need))
     /\ UNCHANGED <<up, updating, packed, writes>>
  \/ /\ ~BLK_bCheckEnoughSpace(rel, bnum, need)
     /\ NoRoom(rel, need)

\* The same if no block was found. BLK_LoadBlock does not refuse the number.
InsertNowhere(rel, need) ==
  LET there == WrapBlock \in DOMAIN rel.disk /\ need < rel.disk[WrapBlock]
  IN  \/ /\ there
         /\ Becomes(InsertedByWrap(rel, need))
         /\ UNCHANGED <<up, updating, packed, writes>>
      \/ ~there /\ NoRoom(rel, need)

Tup_vInsert(need) ==
  /\ Serving /\ ~updating
  /\ \E rel \in Rel_GetBlockToInsert(Relation, need) :
       /\ DOMAIN rel.space \subseteq BlockNums
       /\ missed' = ~IsValidBlockNumber(rel.cur)
       /\ \/ IsValidBlockNumber(rel.cur) /\ BLK_vBlockInsert(rel, rel.cur, need)
          \/ ~IsValidBlockNumber(rel.cur) /\ InsertNowhere(rel, need)
  /\ UNCHANGED <<fsmFile, hist>>

\* execUpdateTable appends a block for the new versions of the tuples, then
\* appends each to the relation's last block. The heap is not told.
UpdateBegin ==
  /\ Serving /\ ~updating /\ AppendNeeds # {}
  /\ NextBlock(Relation) \in BlockNums
  /\ Becomes(Rel_AppendNewBlock(Relation))
  /\ updating' = TRUE
  /\ missed' = FALSE
  /\ UNCHANGED <<up, packed, writes, fsmFile, hist>>

Tup_vAppend(need) ==
  /\ Serving /\ updating
  /\ BLK_vBlockInsert(Relation, Rel_curMaxBlock, need)
  /\ missed' = FALSE
  /\ UNCHANGED <<fsmFile, hist>>

UpdateEnd ==
  /\ Serving /\ updating
  /\ updating' = FALSE
  /\ missed' = FALSE
  /\ UNCHANGED <<up, Rel_fsh, Rel_curMaxBlock, Rel_curBlock, packed, writes,
                 space, disk, fsmFile, hist>>

-----------------------------------------------------------------------------
\* The vacuum program, while no other runs

\* It displays the heap, which sorts it, and clears it. The program does not
\* stop on a relation without blocks, so it is not run on one.
VacuumBegin ==
  /\ ~up /\ ~torn /\ IsValidBlockNumber(FSM_CreateHeapFromFile.FSH_maxBlockNum)
  /\ up' = TRUE /\ packed' = 0
  /\ Rel_fsh' = FSM_uHeapSort(FSM_CreateHeapFromFile)
  /\ Rel_curMaxBlock' = FSM_CreateHeapFromFile.FSH_maxBlockNum
  /\ missed' = FALSE
  /\ UNCHANGED <<Rel_curBlock, updating, writes, space, disk, fsmFile, hist>>

\* VAC_vArrangeRelationData packs one block after the other, but not the last,
\* writes each and enters it in the heap.
PackBlock(gain) ==
  LET left == disk[packed] + gain
  IN  /\ up /\ packed # NoVacuum /\ packed < Rel_curMaxBlock /\ writes = 0
      /\ left \in Spaces
      /\ disk' = [disk EXCEPT ![packed] = left]
      /\ space' = disk'
      /\ Rel_fsh' = FSM_vAddNodeToHeap(Rel_fsh, [freeSpaceSize |-> left, blockNum |-> packed])
      /\ packed' = packed + 1
      /\ missed' = FALSE
      /\ UNCHANGED <<up, Rel_curMaxBlock, Rel_curBlock, updating, writes, fsmFile, hist>>

Next ==
  \/ Rel_CreateRelation
  \/ \E need \in InsertNeeds : Tup_vInsert(need)
  \/ UpdateBegin
  \/ \E need \in AppendNeeds : Tup_vAppend(need)
  \/ UpdateEnd
  \/ \E b \in DOMAIN space : Replace(b)
  \/ VacuumBegin
  \/ \E gain \in Reclaims : PackBlock(gain)
  \/ FSM_vFlushHeapToFile
  \/ Rel_vDestoryRelation
  \/ Crash
  \/ StartsTorn

Spec == Init /\ [][Next]_fsVars

-----------------------------------------------------------------------------
\* Properties

Entries == [freeSpaceSize : Spaces, blockNum : BlockNums]

\* The heap stays inside its array, with one slot to spare: fsm.c reads the slot
\* past the last node (fsm.c:225) and writes a new node there (fsm.c:160). That
\* holds of the file as well, between any two of its writes, because the size of
\* the array is written first (fsm.c:55).
TypeOK ==
  /\ up \in BOOLEAN /\ updating \in BOOLEAN /\ torn \in BOOLEAN /\ missed \in BOOLEAN
  /\ packed \in BlockNums \cup {NoVacuum} /\ writes \in 0 .. 3
  /\ Rel_curMaxBlock \in BlockNums \cup {INValidBlockNumber}
  /\ Rel_curBlock \in BlockNums \cup {INValidBlockNumber}
  /\ DOMAIN space = DOMAIN disk /\ DOMAIN disk \subseteq BlockNums
  /\ \A b \in DOMAIN disk : space[b] \in Spaces /\ disk[b] \in Spaces
  /\ \A fsh \in {Rel_fsh, fsmFile} :
       /\ DOMAIN fsh.FSH_heap = Slots(fsh)
       /\ \A i \in Slots(fsh) : fsh.FSH_heap[i] \in Entries \cup {Junk}
       /\ fsh.FSH_length + 1 \in Slots(fsh)

\* The free space heap of a process is a heap, and lists no block twice: whatever
\* was allocated, dropped, saved, read back and rebuilt, and whenever the last
\* process crashed, unless it left the file a mixture of two heaps (fsm.c:54-58).
\* fsm.c:98, 120, 135.
HeapOrdered ==
  LET fsh == Rel_fsh
  IN  \A i, j \in Nodes(fsh) :
        /\ i = j \div 2 => Size(fsh, i) >= Size(fsh, j)
        /\ fsh.FSH_heap[i].blockNum = fsh.FSH_heap[j].blockNum => i = j

\* What the heap says of a block is what the block's header says, so an insert
\* never finds less room than it was promised (block.c:154).
EntriesExact ==
  \A item \in Listed(Rel_fsh) : item.freeSpaceSize = space[item.blockNum]

\* A process that opens the relation knows where it ends: the block it will
\* append is not one the data file has.
KnowsLastBlock == up => NextBlock(Relation) \notin DOMAIN disk

\* Every insert gets a block with enough space: the walk down the heap does not
\* miss it, at the latest after a block was appended. relation.c:132, 158-166.
BlockFound == ~missed

\* The one way an insert gets no block: some block listed has exactly the space
\* its tuple needs, which is not enough (fsm.c:215-225).
MissedOnlyOnTie ==
  [][\A need \in InsertNeeds :
       Tup_vInsert(need) /\ missed'
         => \E item \in Listed(Rel_fsh) : item.freeSpaceSize = need]_fsVars

\* The heap with its file is a saved map from blocks to their free space.
Map == INSTANCE FreeSpaceMap WITH
  Needs <- InsertNeeds,
  free <- FreeMap(Rel_fsh),
  saved <- FreeMap(whole),
  measuring <- packed # NoVacuum
MapSpec == Map!Spec
=============================================================================
