------------------------------ MODULE BufferPool ------------------------------
(***************************************************************************)
(* The buffer manager: storage/buffer.c, the block loading, reading and    *)
(* writing of storage/block.c, the block hash of utils/hash.c and the      *)
(* overflow lists of utils/LinkList.c, as its clients drive them:          *)
(*                                                                         *)
(*  - a caller (tuple.c, relation.c) loads a block, may change the buffer  *)
(*    it got, marks it dirty and flushes it;                               *)
(*  - BLK_vBlockInsert (block.c), called on a block that is full, appends  *)
(*    a block, loads it and changes that one's buffer, while its caller    *)
(*    goes on marking and flushing the buffer it had loaded itself;        *)
(*  - sequential scans (execScan.c) keep a buffer index from one call to   *)
(*    the next and pin the buffer meanwhile.                               *)
(*                                                                         *)
(* The program has one thread, so a call of BLK_LoadBlock is one step.     *)
(* The process may crash between two steps; only the files survive.        *)
(***************************************************************************)
EXTENDS Integers, Sequences, FiniteSets, SequencesExt

CONSTANTS
  BUFFER_MAX_COUNT,       \* number of buffers, also the number of hash buckets
  MaxFileNumforRelation,  \* file ids reserved for each relation
  INValidBlockNumber,     \* one more than the highest block number
  UintRange,              \* number of values of a uint (2^32 in the code)
  Rels,                   \* relation ids (Rel_rid) in use
  MaxBlk,                 \* bound: highest block number a relation grows to
  Scans,                  \* open sequential scans
  ScanRel,                \* the relation each scan reads
  Vals,                   \* what a block of a file may contain
  Fresh,                  \* the content File_vAddBlock gives a new block
  Zeroed                  \* a buffer of zeros; also: no such block in the file

Buffers == 0 .. BUFFER_MAX_COUNT - 1
Buckets == 0 .. BUFFER_MAX_COUNT - 1
INVALID_BUFFER == BUFFER_MAX_COUNT + 1
Blocks == [rid : Rels, bnum : 0 .. MaxBlk]

\* What a client remembers of a load: the buffer it got and the block it meant.
Handles == [buf : Buffers, blk : Blocks]
NoBlock == [rid |-> -1, bnum |-> -1]
NoHandle == [buf |-> INVALID_BUFFER, blk |-> NoBlock]

Contents == Vals \cup {Zeroed}
Flags == {"Access", "Dirty", "Pin"}
Items == [relOid : Rels, divider : Nat, RealBuffer : Buffers]

ASSUME SizesAssumption ==
  /\ BUFFER_MAX_COUNT \in Nat \ {0}
  /\ UintRange \in Nat /\ UintRange > BUFFER_MAX_COUNT
  /\ MaxFileNumforRelation \in Nat \ {0}
  /\ MaxBlk \in Nat /\ INValidBlockNumber \in Nat
  /\ MaxBlk < INValidBlockNumber /\ INValidBlockNumber <= UintRange
  /\ Rels \subseteq Nat
ASSUME ContentsAssumption == Fresh \in Vals /\ Zeroed \notin Vals

\* The pool has more buffers than the statement has scans, so the clock always
\* finds one to replace. Two scans may read the same relation (FROM t, t).
ASSUME ScansAssumption ==
  /\ ScanRel \in [Scans -> Rels]
  /\ IsFiniteSet(Scans) /\ Cardinality(Scans) < BUFFER_MAX_COUNT

VARIABLES
  up,               \* is there a buffer manager (BFM_manager)?
  buffer_block,     \* the block bound to each buffer, or NoBlock
  buffers,          \* the content of each buffer
  BufferFlag,       \* the flags of each buffer
  freeBufferCount,  \* buffers never handed out yet
  lastReplaceIndex, \* the clock's hand
  BufferHashNum,    \* per bucket: the count of blocks hashed to it
  BufferOverFlow,   \* per bucket: the list of items, newest first
  disk,             \* the files' blocks
  hand,             \* the buffer the caller got from its last BLK_LoadBlock
  fallback,         \* inside BLK_vBlockInsert on a full block: the block it
                    \* appended and, once loaded, its buffer
  cursor,           \* per scan: the buffer it stands on and pinned
  unmarked          \* (history) buffers changed with no dirty flag set for it

pool == <<buffer_block, buffers, BufferFlag, freeBufferCount,
          lastReplaceIndex, BufferHashNum, BufferOverFlow>>
vars == <<up, pool, disk, hand, fallback, cursor, unmarked>>

-----------------------------------------------------------------------------
\* Block identity and hashing

\* The data file of relation r has id r * MaxFileNumforRelation; the product
\* and the sum are uint arithmetic.
BLK_GetBlockOid(blk) ==
  (blk.bnum + (blk.rid * MaxFileNumforRelation) * INValidBlockNumber) % UintRange
Hash_GetHashValueforOid(oid) == oid % BUFFER_MAX_COUNT
Hash_GetHashDividerforOid(oid) == oid \div BUFFER_MAX_COUNT

\* The bucket a block is entered and looked up in, and its divider there.
Bucket(blk) == Hash_GetHashValueforOid(BLK_GetBlockOid(blk))
Divider(blk) == Hash_GetHashDividerforOid(BLK_GetBlockOid(blk))

BFM_checkBufferOverFlowItem(item, rid, divider) ==
  item.relOid = rid /\ item.divider = divider

BFM_SearchExistBuffer(blk) ==
  LET list == BufferOverFlow[Bucket(blk)]
      i == SelectInSeq(list, LAMBDA item :
             BFM_checkBufferOverFlowItem(item, blk.rid, Divider(blk)))
  IN  IF BufferHashNum[Bucket(blk)] = 0 \/ i = 0
      THEN INVALID_BUFFER
      ELSE list[i].RealBuffer

-----------------------------------------------------------------------------
\* Giving a buffer up

\* (mutant) the dirty flag is cleared without the write.
FlushNothing(bp) == disk

\* BFM_vFlushBuffer writes the buffer to its block if it is dirty.
FlushedDisk(bp) ==
  IF "Dirty" \in BufferFlag[bp] /\ buffer_block[bp] # NoBlock
  THEN [disk EXCEPT ![buffer_block[bp]] = buffers[bp]]
  ELSE disk

\* BFM_vFreeBuffer takes the block out of the bucket of its block number:
\* it hashes blk_bnumber where BFM_vAddBufferHash hashed the block's oid.
FreedHashNum(bp) ==
  LET h == Hash_GetHashValueforOid(buffer_block[bp].bnum)
  IN  IF buffer_block[bp] = NoBlock THEN BufferHashNum
      ELSE [BufferHashNum EXCEPT ![h] = (@ - 1) % UintRange]

\* (mutant) the item stays in the list when its buffer is freed.
FreedButListed(bp) == BufferOverFlow

FreedOverFlow(bp) ==
  LET blk == buffer_block[bp]
      h == Hash_GetHashValueforOid(blk.bnum)
      d == Hash_GetHashDividerforOid(blk.bnum)
  IN  IF blk = NoBlock THEN BufferOverFlow
      ELSE [BufferOverFlow EXCEPT ![h] =
              RemoveFirstMatch(@, LAMBDA item :
                BFM_checkBufferOverFlowItem(item, blk.rid, d))]

\* BufferReplace_Clock, from the buffer after the last one replaced. The first
\* round clears the access flag of every buffer it passes and stops at one
\* that was neither accessed nor pinned; the second finds the first unpinned.
ClockPos(i) == (lastReplaceIndex + 1 + i) % BUFFER_MAX_COUNT
\* (mutants) the clock overlooks pins, or accesses.
PinsOverlooked(flag, bp) == TRUE
AccessOverlooked(flag, bp) == "Pin" \notin flag[bp]

Unpinned(flag, bp) == "Pin" \notin flag[bp]
Untouched(flag, bp) == Unpinned(flag, bp) /\ "Access" \notin flag[bp]
FirstRound(flag) == {i \in Buffers : Untouched(flag, ClockPos(i))}
SecondRound(flag) == {i \in Buffers : Unpinned(flag, ClockPos(i))}

Victim(flag) ==
  ClockPos(Min(IF FirstRound(flag) # {} THEN FirstRound(flag)
                                        ELSE SecondRound(flag)))
Passed(flag) ==
  IF FirstRound(flag) # {} THEN {ClockPos(i) : i \in 0 .. Min(FirstRound(flag))}
                           ELSE Buffers
ClockFlags(flag) ==
  [bp \in Buffers |-> IF bp \in Passed(flag) THEN flag[bp] \ {"Access"}
                                             ELSE flag[bp]]

\* (mutant) the stack's top is one off.
FreeBufferTopOff == BUFFER_MAX_COUNT - freeBufferCount + 1

\* The stack of free buffers is filled once, last buffer at the bottom, and
\* nothing is ever pushed on it again.
FreeBufferTop == BUFFER_MAX_COUNT - freeBufferCount

-----------------------------------------------------------------------------
\* BLK_LoadBlock, on the flags `flag`, leaving the marks `mark` on the buffer

Exists(blk) == disk[blk] # Zeroed
Resident(blk) == \E bp \in Buffers : buffer_block[bp] = blk

\* The buffer BLK_LoadBlock returns.
LoadTarget(blk, flag) ==
  IF BFM_SearchExistBuffer(blk) # INVALID_BUFFER THEN BFM_SearchExistBuffer(blk)
  ELSE IF freeBufferCount > 0 THEN FreeBufferTop
  ELSE Victim(flag)

\* The block is found in its bucket.
LoadHit(blk, flag, mark) ==
  LET bp == BFM_SearchExistBuffer(blk)
  IN  /\ bp # INVALID_BUFFER
      /\ BufferFlag' = [flag EXCEPT ![bp] = @ \cup {"Access"} \cup mark]
      /\ UNCHANGED <<buffer_block, buffers, freeBufferCount, lastReplaceIndex,
                     BufferHashNum, BufferOverFlow, disk, unmarked>>

\* Bind the block to the empty buffer bp, enter it in its bucket (hash counts
\* num, lists over) and read it from the files' blocks d.
BindAndRead(blk, bp, num, over, d) ==
  LET h == Bucket(blk)
      item == [relOid |-> blk.rid, divider |-> Divider(blk), RealBuffer |-> bp]
  IN  /\ buffer_block' = [buffer_block EXCEPT ![bp] = blk]
      /\ buffers' = [buffers EXCEPT ![bp] = d[blk]]
      /\ BufferHashNum' = [num EXCEPT ![h] = (@ + 1) % UintRange]
      /\ BufferOverFlow' = [over EXCEPT ![h] = <<item>> \o @]

\* A buffer that was never handed out is taken from the stack.
LoadFree(blk, flag, mark) ==
  /\ BFM_SearchExistBuffer(blk) = INVALID_BUFFER
  /\ freeBufferCount > 0
  /\ freeBufferCount' = freeBufferCount - 1
  /\ BufferFlag' = [flag EXCEPT ![FreeBufferTop] = mark]
  /\ BindAndRead(blk, FreeBufferTop, BufferHashNum, BufferOverFlow, disk)
  /\ UNCHANGED <<lastReplaceIndex, disk, unmarked>>

\* The clock's victim is flushed if dirty, taken out of the hash and reused.
LoadReplace(blk, flag, mark) ==
  LET bp == Victim(flag)
  IN  /\ BFM_SearchExistBuffer(blk) = INVALID_BUFFER
      /\ freeBufferCount = 0
      /\ lastReplaceIndex' = bp
      /\ BufferFlag' = [ClockFlags(flag) EXCEPT ![bp] = mark]
      /\ disk' = FlushedDisk(bp)
      /\ BindAndRead(blk, bp, FreedHashNum(bp), FreedOverFlow(bp), FlushedDisk(bp))
      /\ unmarked' = unmarked \ {bp}
      /\ UNCHANGED freeBufferCount

Load(blk, flag, mark) ==
  /\ up /\ Exists(blk)
  /\ \/ LoadHit(blk, flag, mark)
     \/ LoadFree(blk, flag, mark)
     \/ LoadReplace(blk, flag, mark)
  /\ UNCHANGED up

-----------------------------------------------------------------------------
\* The caller

\* Nothing else happens while BLK_vBlockInsert is at its fallback.
Between == up /\ fallback = NoHandle

\* A caller loads a block. It is done with the buffer of an earlier load.
LoadBlock(blk) ==
  /\ Between
  /\ Load(blk, BufferFlag, {})
  /\ hand' = [buf |-> LoadTarget(blk, BufferFlag), blk |-> blk]
  /\ UNCHANGED <<cursor, fallback>>

\* BLK_vBlockInsert with room, or BLK_vDeleteTupleFromBlock, on the buffer in
\* hand, and BFM_SetBufferDirty. Neither gives a block its first content back.
ModifyBlock(v) ==
  /\ Between /\ hand # NoHandle
  /\ buffers' = [buffers EXCEPT ![hand.buf] = v]
  /\ BufferFlag' = [BufferFlag EXCEPT ![hand.buf] = @ \cup {"Dirty"}]
  /\ unmarked' = unmarked \ {hand.buf}
  /\ UNCHANGED <<up, buffer_block, freeBufferCount, lastReplaceIndex,
                 BufferHashNum, BufferOverFlow, disk, hand, fallback, cursor>>

\* BFM_vFlushBuffer on the buffer in hand; the caller then returns.
BFM_vFlushBuffer ==
  /\ Between /\ hand # NoHandle
  /\ disk' = FlushedDisk(hand.buf)
  /\ BufferFlag' = [BufferFlag EXCEPT ![hand.buf] = @ \ {"Dirty"}]
  /\ hand' = NoHandle
  /\ UNCHANGED <<up, buffer_block, buffers, freeBufferCount, lastReplaceIndex,
                 BufferHashNum, BufferOverFlow, fallback, cursor, unmarked>>

\* Rel_AppendNewBlock: the block after the relation's last one is written to
\* the file directly, past the buffer manager. Rel_GetBlockToInsert does this
\* before a load, BLK_vBlockInsert when the block in hand is full.
AppendNewBlock(blk) ==
  /\ Between /\ ~Exists(blk)
  /\ \A n \in 0 .. blk.bnum - 1 : Exists([rid |-> blk.rid, bnum |-> n])
  /\ disk' = [disk EXCEPT ![blk] = Fresh]
  /\ \/ UNCHANGED fallback
     \/ /\ hand # NoHandle /\ hand.blk.rid = blk.rid
        /\ fallback' = [buf |-> INVALID_BUFFER, blk |-> blk]
  /\ UNCHANGED <<up, pool, hand, cursor, unmarked>>

\* BLK_vBlockInsert loads the block it appended. The clock may take the very
\* buffer the caller has in hand, which then holds the new block.
LoadFallback ==
  LET new == [buf |-> LoadTarget(fallback.blk, BufferFlag), blk |-> fallback.blk]
  IN  /\ fallback # NoHandle /\ fallback.buf = INVALID_BUFFER
      /\ Load(fallback.blk, BufferFlag, {})
      /\ fallback' = new
      /\ hand' = IF new.buf = hand.buf THEN new ELSE hand
      /\ UNCHANGED cursor

\* It puts the tuple there and returns to its caller, which marks the buffer it
\* has in hand: the buffer that was changed is marked only if it is the same.
InsertElsewhere(v) ==
  /\ fallback # NoHandle /\ fallback.buf # INVALID_BUFFER
  /\ buffers' = [buffers EXCEPT ![fallback.buf] = v]
  /\ BufferFlag' = [BufferFlag EXCEPT ![hand.buf] = @ \cup {"Dirty"}]
  /\ unmarked' = (unmarked \cup {fallback.buf}) \ {hand.buf}
  /\ fallback' = NoHandle
  /\ UNCHANGED <<up, buffer_block, freeBufferCount, lastReplaceIndex,
                 BufferHashNum, BufferOverFlow, disk, hand, cursor>>

-----------------------------------------------------------------------------
\* The scans

\* SeqScan_getNext on its first call loads and pins block 0. Between calls of
\* getNext other loads may happen; a load for a scan ends the caller's.
ScanOpen(s) ==
  LET blk == [rid |-> ScanRel[s], bnum |-> 0]
  IN  /\ Between /\ cursor[s] = NoHandle
      /\ Load(blk, BufferFlag, {"Pin"})
      /\ cursor' = [cursor EXCEPT ![s] =
                      [buf |-> LoadTarget(blk, BufferFlag), blk |-> blk]]
      /\ hand' = NoHandle
      /\ UNCHANGED fallback

\* At the end of a block it unpins the buffer, then loads and pins the next.
ScanAdvance(s) ==
  LET blk == [rid |-> ScanRel[s], bnum |-> cursor[s].blk.bnum + 1]
      flag == [BufferFlag EXCEPT ![cursor[s].buf] = @ \ {"Pin"}]
  IN  /\ Between /\ cursor[s] # NoHandle /\ blk \in Blocks
      /\ Load(blk, flag, {"Pin"})
      /\ cursor' = [cursor EXCEPT ![s] =
                      [buf |-> LoadTarget(blk, flag), blk |-> blk]]
      /\ hand' = NoHandle
      /\ UNCHANGED fallback

-----------------------------------------------------------------------------
\* The process

\* iInitBufferManager. The first process starts on an empty directory.
Init ==
  /\ up = FALSE
  /\ buffer_block = [bp \in Buffers |-> NoBlock]
  /\ buffers = [bp \in Buffers |-> Zeroed]
  /\ BufferFlag = [bp \in Buffers |-> {}]
  /\ freeBufferCount = BUFFER_MAX_COUNT
  /\ lastReplaceIndex = 0
  /\ BufferHashNum = [h \in Buckets |-> 0]
  /\ BufferOverFlow = [h \in Buckets |-> <<>>]
  /\ disk = [blk \in Blocks |-> Zeroed]
  /\ hand = NoHandle /\ fallback = NoHandle
  /\ cursor = [s \in Scans |-> NoHandle]
  /\ unmarked = {}

\* A process ends and takes the buffer manager with it; the next one will
\* initialise another.
LosePool ==
  /\ up /\ up' = FALSE
  /\ buffer_block' = [bp \in Buffers |-> NoBlock]
  /\ buffers' = [bp \in Buffers |-> Zeroed]
  /\ BufferFlag' = [bp \in Buffers |-> {}]
  /\ freeBufferCount' = BUFFER_MAX_COUNT
  /\ lastReplaceIndex' = 0
  /\ BufferHashNum' = [h \in Buckets |-> 0]
  /\ BufferOverFlow' = [h \in Buckets |-> <<>>]
  /\ hand' = NoHandle /\ fallback' = NoHandle
  /\ cursor' = [s \in Scans |-> NoHandle]
  /\ unmarked' = {}

BFM_CreateBufferManager ==
  /\ ~up
  /\ up' = TRUE
  /\ UNCHANGED <<pool, disk, hand, fallback, cursor, unmarked>>

\* (mutant) the manager is destroyed without flushing.
DirtyBuffersForgotten(blk) == {}

\* Every bound buffer is freed, in the order of the buffers: of several copies
\* of a block the last dirty one is written last.
DirtyBuffersOf(blk) ==
  {bp \in Buffers : buffer_block[bp] = blk /\ "Dirty" \in BufferFlag[bp]}

BFM_vDestoryBufferManager ==
  /\ Between /\ LosePool
  /\ disk' = [blk \in Blocks |-> IF DirtyBuffersOf(blk) = {} THEN disk[blk]
                                 ELSE buffers[Max(DirtyBuffersOf(blk))]]

\* The process dies; what was only in memory is lost.
Crash ==
  /\ LosePool
  /\ UNCHANGED disk

Next ==
  \/ BFM_CreateBufferManager
  \/ \E blk \in Blocks : LoadBlock(blk)
  \/ \E v \in Vals \ {Fresh} : ModifyBlock(v)
  \/ BFM_vFlushBuffer
  \/ \E blk \in Blocks : AppendNewBlock(blk)
  \/ LoadFallback
  \/ \E v \in Vals \ {Fresh} : InsertElsewhere(v)
  \/ \E s \in Scans : ScanOpen(s)
  \/ \E s \in Scans : ScanAdvance(s)
  \/ BFM_vDestoryBufferManager
  \/ Crash

Spec == Init /\ [][Next]_vars

-----------------------------------------------------------------------------
\* Properties

\* Every variable stays in its type; in particular the index a load returns is
\* always that of a buffer.
TypeOK ==
  /\ up \in BOOLEAN
  /\ buffer_block \in [Buffers -> Blocks \cup {NoBlock}]
  /\ buffers \in [Buffers -> Contents]
  /\ BufferFlag \in [Buffers -> SUBSET Flags]
  /\ freeBufferCount \in 0 .. BUFFER_MAX_COUNT
  /\ lastReplaceIndex \in Buffers
  /\ BufferHashNum \in [Buckets -> 0 .. UintRange - 1]
  /\ BufferOverFlow \in [Buckets -> Seq(Items)]
  /\ disk \in [Blocks -> Contents]
  /\ hand \in Handles \cup {NoHandle}
  /\ fallback \in Handles \cup {NoHandle} \cup [buf : {INVALID_BUFFER}, blk : Blocks]
  /\ unmarked \in SUBSET Buffers
  /\ cursor \in [Scans -> Handles \cup {NoHandle}]

\* BFM_SearchExistBuffer finds a block exactly where it is: the buffer it
\* returns holds the block asked for, and a block some buffer holds is found
\* there (so it is never loaded a second time). buffer.c:245-250.
LookupExact ==
  \A blk \in Blocks :
    LET found == BFM_SearchExistBuffer(blk)
    IN  \A bp \in Buffers : found = bp <=> buffer_block[bp] = blk

\* A buffer that is not dirty equals its block in the file, so dropping it
\* without a write (BFM_vFreeBuffer, buffer.c:163) loses nothing, but for what
\* BLK_vBlockInsert wrote at its fallback into a buffer that nobody marked.
CleanBuffersOnDisk ==
  \A bp \in Buffers \ unmarked :
    buffer_block[bp] # NoBlock /\ "Dirty" \notin BufferFlag[bp]
      => buffers[bp] = disk[buffer_block[bp]]

\* No relation is read by two scans of the statement. Nothing in the code sees
\* to it: the pin is one flag (buffer.h:62), and the first of two scans to leave
\* a block takes it from the other.
OwnRelations == \A s, t \in Scans : s # t => ScanRel[s] # ScanRel[t]

\* Each scan finds in the buffer it pinned the block it loaded. buffer.h:25: a
\* pinned buffer "can not be replaced". Two scans of one relation break it: the
\* one that leaves the block clears the only flag.
CursorsStayBound ==
  \A s \in Scans :
    cursor[s] # NoHandle => buffer_block[cursor[s].buf] = cursor[s].blk

\* Whoever kept a buffer index still finds in the buffer the block it loaded:
\* the caller until its next load, BLK_vBlockInsert at its fallback and, if
\* each has its relation for itself, every scan from one getNext to the next.
HandlesStayBound ==
  /\ \A hdl \in {hand, fallback} :
       hdl.buf \in Buffers => buffer_block[hdl.buf] = hdl.blk
  /\ OwnRelations => CursorsStayBound

\* The clock gives every accessed buffer a second chance: a step that takes the
\* block from a buffer whose access flag is set happens only when every other
\* buffer is accessed or pinned as well. buffer.c:206-227.
SecondChance ==
  [][(up /\ up') =>
       \A bp \in Buffers :
         /\ buffer_block[bp] # NoBlock /\ buffer_block'[bp] # buffer_block[bp]
         /\ "Access" \in BufferFlag[bp]
         => \A other \in Buffers : BufferFlag[other] \cap {"Access", "Pin"} # {}]_vars

\* An orderly end saves what clients saw: the last content of every block is in
\* its file afterwards, whichever buffers were clean, dirty, pinned or in use;
\* what was never marked is the only exception. buffer.c:72-86.
ShutdownSaves ==
  [][BFM_vDestoryBufferManager =>
       \A blk \in Blocks : \A bp \in Buffers \ unmarked :
         buffer_block[bp] = blk => disk'[blk] = buffers[bp]]_vars

\* When the manager can be trusted: either the data files in use have id 0, so
\* that a block's oid is its number and BFM_vFreeBuffer (buffer.c:170-178) looks
\* in the bucket the block was entered in; or nothing is ever replaced.
HashSafe ==
  \/ Rels \subseteq {0}
  \/ IsFiniteSet(Blocks) /\ Cardinality(Blocks) <= BUFFER_MAX_COUNT

\* The blocks whose content nobody saves, and the scans that are sure of theirs.
Loose == {blk \in Blocks : \E bp \in unmarked : buffer_block[bp] = blk}
Watched == IF OwnRelations THEN Scans ELSE {}

\* What the pool promises its clients.
Store == INSTANCE BlockStore WITH
  Scans <- Watched,
  val <- [blk \in Blocks |->
            IF Resident(blk)
            THEN buffers[CHOOSE bp \in Buffers : buffer_block[bp] = blk]
            ELSE disk[blk]],
  durable <- disk,
  loose <- Loose,
  hand <- IF hand = NoHandle THEN {} ELSE {<<hand.blk, buffers[hand.buf]>>},
  scan <- [s \in Watched |-> IF cursor[s] = NoHandle THEN {}
                             ELSE {<<cursor[s].blk, buffers[cursor[s].buf]>>}]

\* The pool with its files behaves as one store of blocks: a client reads what
\* was written last, whatever was evicted and loaded again meanwhile; only what
\* an insert spilled into a block it appended may go before the process does,
\* and a crash loses no more than what was never flushed. (PROPERTY of the runs.)
StoreSpec == Store!Spec
=============================================================================
