# DBMS_PRO in TLA+

DBMS_PRO is a small relational database in C. One process runs one statement:
`test/test_lex.c`, which `README.md` names as the entrance, calls
`initSysTable`, parses a statement, builds its tree of executor states
(`parser/analyze.c`), runs `exec` on it and calls `destorySysTable`. The
vacuum program is a process of its own. There are no threads. What is hard is
what is shared between the calls of one statement (buffers, the free space
heap, scan cursors), and what survives from one process to the next (the
files), in particular when a process does not end in order.

This directory holds TLA+ modules for the parts with state, TLC configurations
that check them on small instances, and TLAPS proofs. `PROJECT.json` lists the
components, the runs, the map from definitions to source lines, the hazards,
the findings, the theorems, and for every property a mutated definition that
breaks it.

All paths below are relative to `src/src/`.

## Inventory

| component | state | operations | talks to |
|---|---|---|---|
| buffer manager (`storage/buffer.c`, `utils/LinkList.c`, `utils/hash.c`) | buffers, the block bound to each, flags (dirty, access, pin), a stack of free buffers, the clock's hand, per bucket a count and a list of items | get a free buffer, replace (clock), flush, free, look up, enter in the hash, pin, mark, create, destroy | blocks, files |
| blocks (`storage/block.c`) | header, offset table and tuples in 8192 bytes | load, read, write, insert, delete, get tuple | buffer manager, files, relations (an insert may append a block) |
| free space (`storage/fsm.c`) | a max-heap of (free space, block) in a growing array, the highest block number, and its file | add, allocate, delete, clear, flush, read back | relations, vacuum |
| relations (`storage/relation.c`) | the last block, the current block, the heap, two files | create, append a block, get a block to insert into, destroy | free space, files |
| tuples (`storage/tuple.c`) | a row in memory, its address, a deleted flag | insert, append, read, delete | relations, blocks, buffers |
| files (`storage/file.c`) | blocks on disk; every write is followed by `fsync` | add a block, read, write, seek | |
| sequential scan (`exectutor/execScan.c`) | block number, index in block, buffer (pinned) | getNext, reset | blocks, buffers |
| statements (`exectutor/execTable.c`, `exectutor/exectutor.c`) | the tree of states | insert, delete, update, select, create, drop | scans, tuples, catalogue |
| nested loop join (`exectutor/execJoin.c`) | array of inner rows, its position, first/last loop flags, the outer row | getNext | scans, temporary file |
| temporary file (`storage/tempFile.c`) | buffer, position, length, mode | write, read, reset | files |
| catalogue (`server/sysinit.c`) | three system relations, the next table id | start, end | relations, scans |
| vacuum (`vacuum/vacuum.c`) | | pack every block but the last, rebuild the heap | blocks, free space |
| expressions and comparison (`utils/expr.c`, `parser/parseTuple.c`) | none | calculate, compare | |
| analysis (`parser/analyze.c`) | a plan under construction: conditions, columns used, projections | push a condition down, renumber its columns, project | executor states |
| items and rows (`parser/parseTuple.c`, `parser/parseTable.c`, `dataType/*.c`, `utils/MemAndDisk.c`) | none | convert, copy, compare, calculate, write to bytes and read back | statements, catalogue |
| grammar, scanner, logging | none that outlives a call | | |

What makes each correct:

* **Buffer manager.** A look-up returns the buffer that holds the block; a
  block is in one buffer at most; a clean buffer equals its block on disk; a
  pinned buffer is never taken; what was written last is what is read; the
  clock gives a second chance.
* **Free space.** The heap is ordered and inside its array; what it says of a
  block is true; an insert gets a block with room; after a restart the
  relation knows its last block.
* **Blocks.** Tuples do not overlap each other or the table; packing keeps
  every live tuple.
* **Scans and statements.** A scan returns every live row once; an update
  does not meet the rows it wrote; what a statement reported is on disk when
  it ends; a row never has two versions.
* **Join.** Every pair once, none for an empty side; every outer row is in the
  temporary file when an array is done; a child that ended is not asked again.
* **Rows.** A row reads back as it was written, in its memory, alone or joined;
  values compare as what they are.
* **Temporary file.** What was written is what is read; a call returns.
* **Analysis.** A plan's conditions and projections, pushed down and
  renumbered, mean what the statement says.
* **Catalogue.** Table ids are unique over restarts; a table has all its
  attributes or does not exist.

The hazards, each at its line and with the properties that watch it, are in
`PROJECT.json`.

## The modules

### Buffer pool

* `BlockStore.tla`: what the buffer manager promises. A store of blocks with
  the value a client sees and the value that would survive a crash; a caller
  with the block it holds, and scans that each keep one. A write that went to
  another block than the one the client opened (`Spill`) makes that block `loose`:
  the store may forget it whenever it brings in a block. There are no buffers,
  no hash and no clock in it.
* `BufferPool.tla`: the code. Its variables are the fields of
  `BufferManagerData` (`buffer_block` for `bfm_blocks`, `BufferFlag`,
  `freeBufferCount`, `lastReplaceIndex`, `BufferHashNum`, `BufferOverFlow`),
  `disk` for the files, and the indexes that callers keep: `hand` for the
  buffer a caller works on after `BLK_LoadBlock`, `cursor` for the buffer a
  scan has pinned between two calls of `SeqScan_getNext`, `fallback` for the block
  that `BLK_vBlockInsert` appends where the one in hand is full. `unmarked` (history)
  has the buffers that were changed and have no dirty flag for it.
  - `LoadBlock`, `ScanOpen` and `ScanAdvance` are whole calls of
    `BLK_LoadBlock`: look up, else take a free buffer, else run the clock,
    flush and free the victim, bind, enter in the hash, read.
  - `ModifyBlock` changes the buffer in hand and marks it dirty, `BFM_vFlushBuffer`
    writes it; `AppendNewBlock` writes a new block past the pool.
  - An insert that finds its block full appends one, loads it (`LoadFallback`) and
    changes that one's buffer, and the caller marks the buffer it has in hand
    (`InsertElsewhere`): the changed buffer is then clean and differs from its file
    (`block.c:154-165`, `tuple.c:171-173`), and is lost when it is replaced or the
    process ends. `LoadFallback` may also replace the very buffer in hand.
  - Scans may read the same relation (`FROM t, t`). The pin is one flag, which the
    first of them to leave the block clears; `OwnRelations` says that this does not
    happen, and what is promised of cursors is promised only then.
  - `BFM_vDestoryBufferManager` and `Crash` end a process.
  - A block's oid is uint arithmetic modulo `UintRange`. `BLK_GetBlockOid` is
    what a block is entered and looked up by; `FreedHashNum` and
    `FreedOverFlow` use the block's number, as `BFM_vFreeBuffer` does.
* `BufferPoolProofs.tla`: facts on sequences, minima and remainders; types, the
  clock, the hash, clean buffers, handles, the refinement.

`HashSafe` says when the pool can be trusted: the only relation in use is
relation 0 (its oids are the block numbers), or nothing is ever replaced.
Outside of it, `pool_stale` shows a load that returns a buffer holding another
block.

### Free space

* `FreeSpaceMap.tla`: what the heap promises: a map from blocks to their free
  space, saved as a whole and read back, or lost (`Tear`) by a process that dies
  while it saves.
* `FSMHeap.tla`: the heap of `fsm.c` as operators on a record of the struct's
  fields. The array keeps its slots past `FSH_length`, because
  `FSM_uAllocateNodeHeap` compares one of them; `Junk` is a slot never
  written, and comparing it may go either way. The coin of the walk
  (`rand() % 2`, seeded with the time) is a free choice.
* `FreeSpace.tla`: a relation and its blocks, each reduced to its free space.
  `space` is what the buffer manager shows, `disk` what the data file holds;
  they differ where `BLK_vBlockInsert` filled a buffer that its caller does not
  mark dirty (`InsertedInNewBlock`). `Tup_vInsert`, `UpdateBegin`,
  `Tup_vAppend` and `UpdateEnd` are the statements' calls; `Replace` is the
  buffer manager dropping such a buffer. The vacuum program begins with
  `VacuumBegin`, which prints the heap and so sorts it (`FSM_uHeapSort`), and packs
  one block in each step (`PackBlock`).

  A process that ends in order saves the heap in four writes, each on disk before the
  next: three steps `FSM_vFlushHeapToFile` for the size, the length and the last block
  (`writes` counts them, `Written` is the file after each), and
  `Rel_vDestoryRelation` for the array and the end. It may `Crash` at any point, also
  between two of these writes or between two packed blocks. What the file then has may
  be neither the old heap nor the new one (`torn`); a process that reads such a
  mixture is not followed (`StartsTorn`). A user's table is never destroyed, since
  `DestoryState` has no caller, so that its processes end as a `Crash` does.
  `whole` (history) is the last heap that was saved to its end, and `missed` says
  whether the last insert got no block.

  `FSM_uAllocateNodeHeap` may return `INValidBlockNumber` twice. Nothing refuses
  that number, nor remembers it: `BLK_LoadBlock` reads a block at an offset that
  wraps round modulo 2^32 (`WrapBlock`), and the tuple is written there.
  `Rel_AppendNewBlock` called by `BLK_vBlockInsert` gets a file type that nothing
  has set: `NoRoom` lets it append or return an undefined number, of which the
  process is taken to die.
* `FreeSpaceProofs.tla`: the proofs, of the heap and of the relation on it.
* `InductionFacts.tla`: what the proofs about loops need: induction as a least
  counterexample in a set of numbers, functions that are iterated, and the list
  that `FlattenSeq` joins.

### Bytes of a block

* `RowLists.tla`: what blocks promise to the statements: lists of rows to which
  rows are added and in which rows are marked as deleted.
* `SlottedBlock.tla`: the bytes. A block has the header's three numbers and
  `BLOCKSIZE` bytes, each of which is the k-th byte of a row, of an item of the
  offset table, or filling, so that a byte written over another spoils the item
  or row it belonged to. `BLK_vBlockInsert` and `BLK_vDeleteTupleFromBlock` are
  whole calls; the vacuum program works on a copy of a block (`vac.page`), and
  each of its iterations is a step: `SkipDeleted`, `MoveByte`, `SetItemOffset`,
  `BLK_sWriteBlock`. It may `Crash` between any two.
* `SlottedBlockProofs.tla`: its proofs.

### Lists of rows

* `DataBlocks.tla`: the operations of `relation.c`, `block.c` and `tuple.c` on a
  relation whose rows have one length, as functions on a record: what the heap
  says of room, the last block, the blocks in the buffers and in the file.
  `TableOps` and `Catalog` extend it.
* `Table.tla`: what the statements promise: a map from rows to versions, of
  which each step inserts, deletes, takes out or puts back one, and the part
  of it that is in the file. `known` says whether the process knows all blocks:
  where it does not, the next block it appends takes the place of another.
* `TableOps.tla`: INSERT, SELECT, DELETE and UPDATE of one table with the
  sequential scan. A row is an identity and a version; a block is its list of
  items with their deleted flags; all items have one length and `Cap` of them
  fill a block, so that the tie of the free space heap is not met and the heap
  may give any block with room.
  - A process is one statement (`Begin` opens the relation from the saved heap
    and, for an UPDATE, appends the block for the new versions), or a program
    that loads rows and destroys the relation at its end. `Saves = {"load"}`:
    no statement saves the heap of the table it works on, since `DestoryState`
    has no caller.
  - `SeqScan_getNext` is one call of the scan and leaves its cursor in `scan`;
    `Tup_cDeleteTuple` and `Tup_vAppend` are the two halves of an UPDATE of one
    row. Between any two of these steps the process may `Crash`, or the pool may
    `Replace` a buffer that is neither dirty nor as in the file. That is so for
    relation 0 only (`ItemsFound`): of another relation, whose oid is `RelOid`, a
    replaced block's hash item survives and a later load may give another block
    (`pool_stale`), so that what the process reads is not known, and it is not
    followed.
  - `AddrRange` stands for the 65536 block numbers that fit in a `TupleAddr`.
  - An UPDATE of a relation without known blocks is left out: it reads past the
    end of the file.
* `TableOpsProofs.tla`: its proofs.

### Catalogue

* `Catalog.tla`: the two system relations as relations of `DataBlocks`, the saved
  next id (`sysFile`) and the one of the process (`tableId`). A process runs
  `initSysTable`, the analysis of its statement (`analyze_CreateTable`,
  `analyze_DropTable`, or `Refused`), one step for each row it inserts or deletes
  (`InsertTableRow`, `InsertAttrRow`, `Delete`), and the three steps of
  `destorySysTable`; it may `Crash` before each. A heap is saved in one step here:
  `FreeSpace` has its writes. `checkTableNameExist` and
  `getRelationAttrs` are operators on the files: the other statements only ask
  them. The tests of a definition are made on the constraints in the order in which
  the code reads them (`Read`), with what has been read so far (`IndexRead`), after each
  attribute (`AttributeRead`): `AutoAccepted` is the flag of `setauto` and the
  comparison of the two indexes. `tables` (history) is what the statements that ended in
  order have created, `spoiled` the names whose statement was cut short, and `lost`
  those of tables created in order of which a row was in a buffer that nobody
  marked; `Unsure` are both.
* `CatalogProofs.tla`: its proofs.

### Values and rows

* `Items.tla`: the values of columns: conversions, comparison
  (`cmpHeapTupleItem`, whose difference is cast to int) and arithmetic, with
  integers of `IntBits` and `LongBits` bits, and reals counted in halves that have
  `FloatBits` and `DoubleBits` significant bits (`Nearest` rounds to them, to the even
  one of two). A whole number that is compared as a FLOAT or a DOUBLE is rounded, and a
  text in a LONG column goes through an int (`char2Int`).
* `Rows.tla`: rows as bytes. `Insert` is the analysis and the execution of an
  INSERT (`analyze_InsertTable`), `UpdateStart`, `PassRow`, `UpdateRow`,
  `UpdateDies`, `UpdateLosesRow` and `UpdateEnd` the loop of `execUpdateTable`;
  `uMem2Disk` and `vDisk2Mem` write a row by its items' types and read it by those of
  the table. A row of `FILE_LINE_LEN - 1` bytes or more is neither written nor
  read: the process ends (`Writable`, `Readable`). `UpdateDies` is an end before the
  old row is deleted: a condition is no comparison (`checkTuple`), or an item cannot be
  copied or calculated. `UpdateLosesRow` is one after it was deleted: the new row cannot
  be written.
  - Texts of any length are inserted. A text with more memory than its column
    declares leaves its row not `roomy`: such a row may overrun its MemTuple, and an
    UPDATE that meets it is not followed, nor one that meets a row with a value of
    another type than its column's (`Sound` has neither).
  - The history field `meant` of a row is what its statements said, and is not taken
    from the code's conversions: the number a text stands for, if the type has it, the
    day it is the date of, and for an expression the number that the operation gives on
    what the columns meant. It is `Junk`, and nothing is promised, where a type or
    the conversion does not have the value: in particular for a LONG column that is given a
    text beyond an int, which the code cuts.
* `RowsProofs.tla`: its proofs.

### From a SELECT to a tree of states

* `QueryPlan.tla`: a statement is a list of relations, targets and a condition.
  `analyze_SelectTable` resolves names, counts the columns used and builds the
  chain of joins; `PushDown` is one call of `optimize_expr` on one state, and
  `Renumber` one of `rewrite_column_item`; `todo` lists what is still to be done,
  in the code's order. `execSelect` asks the tree for its rows. Every relation
  holds all rows over `Values`, so that two conditions that differ give
  different results. `Meant` is the reference: the rows of the product for which
  the condition holds.
  - The steps that end the process or read what was never filled are in the
    variable `status` ("dead", "undefined"); a join of a relation without
    rows is one of them (`EmptyInner`).
  - It has recursive operators and is only model-checked.

### Nested loop join

* `NestLoopJoin.tla`: one call of `NestLoopJoin_getNext` is a step. The children
  are the rows they still give, and the condition is any set of pairs. The rows of
  the outer child come as bytes, as those of a scan or a join do, or are those of a
  projection (`projected`), which have no bytes of their own when they are saved: what
  is saved is what the tuple held since the row before (`BytesOf`, `execJoin.c:126`).
  The temporary file is the list of the rows
  saved; it is written and never read, since `outerTuple` is overwritten with
  NULL after `NestLoop_GetOuter` has made the tuple to read it into
  (`ArrayEnds`, where the process dies). An empty inner array joins `Cleared`, an
  element that nothing has filled. `Wanted`, the reference, is the list of all
  pairs in the order of the loops, of which `Selected` keeps those for which the
  condition holds; it is a recursive function so that it can be reasoned about.
* `JoinProofs.tla`: its proofs, and those of the temporary file.

### Temporary file

* `ByteFile.tla`: what a temporary file promises: bytes written and read from a
  place that goes back to the start when the direction changes, and only then (`way`).
* `TempFile.tla`: the code. `TMF_CreateFile` is the initial state, over a file of up
  to `MaxLeft` bytes that an earlier process left, which is more than the buffer
  has. `TMF_Write` and `TMF_Read` begin a call; the iterations of their loops are
  `WritePiece` and `ReadPiece`, and `Return` ends it; `TMF_Reset` is one step.
  `curPos` and `bufferLen` wrap round at `UintRange`.
* `JoinProofs.tla`: its proofs, behind those of the join.

### How they fit together

The modules meet at four seams. `BlockStore` is what `BufferPool` gives to
everything above it; `TableOps`, `FreeSpace` and `Catalog` see of it only that a
buffer which is not dirty may be dropped (`seen` and `disk`). `RowLists` is what
`SlottedBlock` gives and what a block is in `DataBlocks`. `FreeSpaceMap` is what
the heap gives; `DataBlocks` takes it as a function from blocks to room. A
row's bytes are in `Rows` only; elsewhere a row is an opaque value.

## The runs

| run | instance | checks | shows |
|---|---|---|---|
| `pool` | 2 buffers, 4 blocks of relation 0, one scan | `TypeOK`, `HandlesStayBound`, `LookupExact`, `CleanBuffersOnDisk`, `SecondChance`, `ShutdownSaves`, `StoreSpec` | with eviction, flushes, a pinned buffer, shutdown and crashes the pool implements `BlockStore` |
| `pool_stale` | 3 buffers, 4 blocks of relation 1 | `HandlesStayBound`, violated | a replaced block's item survives and a later load returns the wrong buffer |
| `space_all` | blocks of 6 units, tuples of 2 and 3, 3 blocks, everything may happen | `TypeOK`, `MissedOnlyOnTie`, `MapSpec` | the heap stays in its array, in the file too, between any two writes; a block is missed only on a tie; the heap is a saved map until a process dies while saving |
| `space_clean` | blocks of 11 units, tuples of 2 and 8, 4 blocks, no updates, orderly ends | `HeapOrdered`, `EntriesExact`, `KnowsLastBlock`, `BlockFound` | where no tie can occur, inserts, restarts and vacuum keep heap, blocks and last block in step |
| `table_ops` | relation 0; 3 rows of up to 2 versions, blocks of 2 items, 5 blocks, loads and all statements, crashes anywhere | `TypeOK`, `ScanExact`, `OneVersion`, `TableSpec` | scans are exact, no row is ever doubled, each step touches one row |
| `join_pairs` | up to 4 inner and 2 outer rows, projected or not, arrays of 3, every condition | `PairsExact`, `EndOnce`, `OuterSaved`, `Terminates` | the pairs are exact and in order, no child is asked again, the join comes to an end |
| `plan` | 7 lists of one to three relations, the targets and conditions of `MCQueryPlan` | `ConjunctsKept`, `TestedEarly`, `SelectExact` | no conjunct is lost or doubled, each is tested at the first state that can, and the rows are those meant |
| `plan_columns` | one of these lists | `ColumnsMeant`, violated | a scan under a projection tests another column |
| `rows` | 7 tables of up to 3 columns of every type, 3 rows, 5-bit INTEGER, 9-bit LONG, 4 and 8 bits of FLOAT and DOUBLE, lines of 34 bytes | `RowReadBack`, `RowFits`, `JoinReads`, `ComparesExactly`, `TypedUpdatesFinish` | rows read back as what was said, fit their memory, and join; values compare as what they are |
| `catalog` | 2 names, the definitions of `MCCatalog`, blocks of 3 rows, 2 crashes | `LookupsExact`, `IdsOnce`, `AcceptedSound`, `OnlyItsName` | the catalogue says what the statements that ended in order did, but for rows in buffers that nobody marked |
| `block` | 2 blocks of 12 bytes (2 of header, items of 2), tuples of 3 lengths | `TypeOK`, `PacksAll`, `ListSpec` | tuples stay whole and apart while they are inserted, deleted and packed, wherever the vacuum dies |
| `tempfile` | a buffer of 2 bytes over files of up to 3, uints modulo 8 | `TypeOK`, `CallsReturn`, `FileSpec` | the buffered file is a file of bytes; calls return |

### Bounds

* `pool`: with 2 buffers, one pinned by the scan, a caller has one left; 4 blocks
  make loads replace again and again (81,184 states). Several relations at once,
  and two scans of one, are left to the proofs.
* `MaxBlk` bounds the growth of a relation. In `FreeSpace` three blocks give a
  heap with two children, four one of three levels. Sizes are a few units; the
  tuples are chosen so that blocks fill exactly, fill to less than
  `MIN_FreeSpace`, or not. `HEAP_INIT_SIZE` and `HEAPINCREMENT` are small so
  that the array grows (627,823 and 914,119 states).
* A block's content in `BufferPool` is one of two values: new or changed. The store
  only tells them apart.
* `table_ops`: three rows in blocks of two give a table that fills a block, an
  UPDATE that fills the one it appended, and one that reads on while it appends.
  Versions stop at 1 (`MaxVer`): the block of the first update is then scanned
  by the next (31,689 states).
* `join_pairs`: inner sides that are empty, shorter than the array, as long and
  longer; all conditions over them are tried (22,004 states).
* `plan`: two to three relations of one to three columns, with values 0 and 1;
  conditions are up to three comparisons of columns with a constant or with a
  column of another relation, two of them under AND or OR and the third under
  AND (349,973 states).
* `rows`: the widths are small enough for a product to leave INTEGER, and for whole
  numbers that a FLOAT and a DOUBLE have not; the texts are one for each way in which a
  text is read as a date or a number, and one longer than some columns and
  shorter than others; two rows may be too long together for `FILE_LINE_LEN`, and one
  alone; one INSERT leaves out a VARCHAR (45,896 states).
* `catalog`: the attributes of two tables do not fit in one block, so that rows
  come to lie in block 1, which the scans do not see (1,617,484 states). `MaxId` and
  `MaxCrashes` bound what would go on.
* `block`: three tuples of the shortest length, or one of the longest, fill a
  block (29,051 states).
* `tempfile`: a buffer of 2 is the smallest that a piece can fill in part;
  pieces that end before, at and behind its end are tried, and `UintRange` 8
  lets the counters wrap round; what is left in the file is longer than the buffer
  (396,763 states).
* `CHECK_DEADLOCK FALSE` for the join and for `plan` and `plan_columns`, which
  end, and for `rows` and `catalog`, whose bounds (`MaxRows`, `MaxId`) stop them.
  Everywhere else a process can always start or end.

### Fairness

Of the join: weak fairness of its step, because `execSelect` calls `getnext` in a
loop until it gets NULL and nothing else runs. Of `TempFile`: weak fairness of
`Loop`, because a call runs in one thread until it returns; the callers
(`Calls`) are not fair. The other modules state no liveness: what they describe
goes on as long as somebody calls.

## What is proved

For the buffer pool, with all values of the constants that satisfy the named assumptions
(`SizesAssumption`, `ContentsAssumption`, and `ScansAssumption`: fewer scans than buffers):

* `TypeCorrect`: `Spec => []TypeOK`. The inductive invariant adds that the pins are
  the scans' (`PinsHeld`), and that the unbound buffers are those on the stack
  (`FreeUnbound`): as there are fewer scans than buffers, the clock always finds an
  unpinned buffer, so that `Victim` is a buffer.
* `ChanceGiven`: `SecondChance`, from the same invariant.
* With `HashSafe`: `LookupCorrect` (`LookupExact`); `CleanCorrect`
  (`CleanBuffersOnDisk`) and `EndCorrect` (`ShutdownSaves`), which speak of the buffers
  that are not `unmarked`: a buffer comes to differ from its file without a dirty flag
  only by an insert's fallback; `HandlesCorrect` (`HandlesStayBound`), for a
  caller's buffer, the fallback's, and, where no relation is read by two scans
  (`OwnRelations`), the cursors; and `Refinement` (`Spec => StoreSpec`), in which
  `loose` are the blocks of the unmarked buffers and the scans are those that are
  sure of their pins. The invariant is that the lists hold
  exactly one item for each bound buffer, in its bucket, and none other, and
  that the counts are the lists' lengths; without the counts a bucket could
  read as empty, without uniqueness a removal could leave a second item
  behind. `HashSafe` is needed at one step only, the freeing of a replaced
  buffer, where it makes the bucket by number and the bucket by oid the same,
  or makes the step impossible.

The proofs are by one step per action and one lemma per disturbed conjunct.

For the join, with any numbers of rows and any size of the array:

* `ChildrenEndOnce` (`EndOnce`) and `OuterKept` (`OuterSaved`, where the rows come
  as bytes), from one invariant: the fields have their types; the file followed by
  what the outer child still gives is the given list, unless they are projected
  (`Keeps`); an inner child that has ended is marked by `isLastLoop`, and an open
  join has an outer child that can still be asked and, before its first row, an
  inner one (`CanAsk`). `EndOnce` alone is not inductive: it does not say that a
  child about to be asked has not ended. There is one lemma per operation on the
  join's record.
* `PairsAreExact` (`PairsExact`). The invariant `PairsInv` relates the place of the
  join to the list of pairs: an open join has fetched nothing, or stands at an
  outer row o and a position pos in the array (`StandsAt`: the array has the
  first rows of the inner child, the outer child still has the rows after o, and
  `isLastLoop` says whether all inner rows are in the array), and it has returned
  the selected ones of the first (o - 1) * width + pos pairs (`SoFar`). That the pair
  at that place is the one that is joined next (`SpotIs`), and that what is selected
  so far grows by it (`SoFarIs`), are facts about the list, by induction on its
  rows and on its length.

For free space, with any numbers of blocks, amounts of space and tuples, and any
sizes of the heap's array:

* `TypeCorrect` (`TypeOK`), `Ordering` (`HeapOrdered`) and `MissOnTie`
  (`MissedOnlyOnTie`), without further hypotheses. The invariant `SpaceInv` has of
  each heap, the one in memory and the one last saved to its end (`HeapOK`), that it lies in
  its array with a slot to spare, is ordered, lists no block twice and only
  blocks up to the highest one, with amounts from a set of numbers S that the
  blocks can come to have. Sifting down and up are iterated functions; what holds
  at each iteration is that the order fails at one place at most. The walk goes down as
  long as a child has room, so that it ends without a block only where the room is
  exactly what is asked for, or the slot past the end was compared; a block that was
  just appended has more room than any tuple needs. `MissOnTie` and `AlwaysFound` are
  about every insert, also one that follows a miss. Of the file between two writes,
  `TypeOK` says that the length that is there fits in the size that is there, because
  the size is written first; `HeapOrdered` says nothing of a file that a
  process left `torn`, and no process is followed that reads one.
* `AlwaysFound` (`BlockFound`) under `NoTies`: no amount that blocks can come to have
  is one that a tuple needs. The hypothesis is the code's own condition: with
  a tie the walk does miss a block, which is what `MissOnTie` says.
* `LastKnown` (`KnowsLastBlock`) if processes end in order, as the number of the last
  block is saved only then; and `HeapExact` (`EntriesExact`) if in addition there are
  no ties, for an insert without a block changes one behind the heap's back, and
  no updates, which append to the last block without telling the heap. The run
  `space_clean` has these conditions: `Crashes = FALSE`, `AppendNeeds = {}`, and
  amounts without a tie.
* `MapCorrect` (`Spec => MapSpec`): each step on the heap adds, gives out, takes out
  or saves as a step of `FreeSpaceMap` does, whichever order the array is in. The file
  stands for the last heap that was saved to its end (`whole`) while a process
  writes; one that dies when the file is neither that heap nor the new one is `Tear`,
  after which nothing is promised.

The parts of `SpaceInv` were checked by TLC on the instances of both runs first.

For the temporary file, with a buffer of any size, any `UintRange` and any calls:

* `FileTypeCorrect` (`TypeOK`: the positions, and where a call stands) and
  `FileRefinement` (`Spec => FileSpec`). The invariant adds to the types what a
  reader's buffer holds (`ReadWindow`): nothing before the first bytes are read, and
  as long as `bufferLen` is the file's position and `curPos` has not passed it, the
  first bytes of the file. Each iteration of a loop is then one step of `ByteFile`,
  or a stutter (a flush, a refill).

For the catalogue, with any names and definitions, blocks of any size and any
number of crashes:

* `IdsGivenOnce` (`IdsOnce`). That ids differ is not inductive: it needs that a
  process starts with the id that was saved (`StartId`), that it still has that
  one until its CREATE is done, when it has the next (`ProcessId`), and that
  the tables created in order have ids below the saved one. A table counts as
  created when its process has saved the next id; what a crash leaves behind is
  in `spoiled`.
* `KeepsToItsName` (`OnlyItsName`), from the invariant `KeptInv` about the two system
  relations (`RelOK`): of the blocks that the process knows from the file the
  buffers have what the file has, but for the row it is deleting or inserting;
  the blocks it appended behind them hold only rows of the statement's name; and
  the last blocks are saved except while it inserts. A crash, or a process that takes
  the place of a block it does not know, then drops rows of that name only.
* `AcceptedDefinitions` (`AcceptedSound`). Every constraint of a definition is read
  by the analysis, in the order of the list it is given reversed. That an accepted
  definition counts up its key only is derived from the tests: when the last
  attribute with constraints has been read, both indexes are those of all that was
  read, and no second key or counter was.
* `LookupsAnswer` (`LookupsExact`), from `LookInv` over the two others: the names that
  are not `Unsure` (cut short, or created in order with a row that was in an unmarked
  buffer), and are not the one of the statement at work, are found in the
  files as the history says; the rows a CREATE has written so far are those of its
  definition up to the one it is at, and those a DROP has still to delete lie
  ahead of its scan. The catalogue's scans read block 0 only; `InFirstBlock` is
  where the property says so.

`KeptInv` and `LookInv` were checked by TLC on the run's instance first.

For the statements on a table, with any numbers of rows, versions and blocks:

* `TypeCorrect` (`TypeOK`), `RowsOnce` (`OneVersion`), `ScansExact` (`ScanExact`)
  and `Refinement` (`Spec => TableSpec`), under `AddrsFit`: the block numbers in use
  fit in a tuple's address. It is used at one step only, the deletion. For relation
  0 they hold whatever buffers are replaced; for another, as long as none is
  (`ItemsFound`). The invariant `IInv` says that what the file has of a block is its
  beginning (`TableOK`), which makes what is durable a part of what is seen and is
  the reason why `OneVersion` in the buffers gives it in the file; that the blocks a
  statement scans are as in the file (`Scanned`), so that a deletion, which flushes
  its block, writes nothing else; that an UPDATE appends behind them; and that the
  tuple that was got is there until it is deleted, and then is nowhere until its new
  version is put (`Got`). `Evolves` describes what inserting does to rows, including
  the block that is appended in the place of one the process does not know. Each
  operation on a relation has a lemma for its shape and one for its rows, each
  action one for its step of `Table`. For `ScansExact` a second invariant,
  `Progress`, relates the history to the blocks: the rows that were there at the
  beginning are those returned and those still to come behind the cursor in the
  scanned blocks (`Coming`), none of them twice. A deletion takes only what the
  cursor is on, an UPDATE appends behind the last block to scan, and a buffer read
  again is not one of those scanned (`SameUpTo`), so that only returning a row
  changes what is to come.

For the bytes of blocks, with blocks, items and rows of any sizes:

* `TypeCorrect` (`TypeOK`) and `Refinement` (`Spec => ListSpec`), under
  `BlockAssumption` (the header lies in the block) and `FitAssumption`, which is used
  where a tuple goes to a new block. That the right rows are read is not
  inductive. The invariant has of each block that its table ends at or before
  its first tuple (`Shape`), that each item's tuple lies whole in the block and has
  all its bytes, and that tuples lie in the order of the table downwards
  (`Downwards`), so that no two share a byte. Of the copy that is packed it has
  (`Packing`): its items are those of the block but for their offsets
  (`SameItems`); the next place to write lies at or behind the end of the tuple to be
  moved (`Cursor`); what is not moved yet is where it was (`Unmoved`), as moving
  bytes upwards, last byte first, writes only behind what is still to be read; and
  what was moved is behind the next place to write, whole (`Moved`). A
  crash drops only the copy.
* `PackingIsTight` (`PacksAll`), from one more fact about the copy (`Tiled`): the bytes
  behind the next place to write are as many as the tuples before the item have, with
  those of the tuple that is being moved. That the copy's items have the flags and
  lengths of the block's (`SameItems`) makes the sum the same for both.

For the rows, with tables of any columns, any texts and any INSERTs and UPDATEs that
satisfy `ItemsAssumption` and `RowsAssumption`:

* `ReadsBack` (`RowReadBack`), `Fitting` (`RowFits`), `JoinsRead` (`JoinReads`),
  `Comparing` (`ComparesExactly`) and `Finishing` (`TypedUpdatesFinish`), all from
  the invariant `RowsInv` (`Inductive`). None of the five is inductive: a row's
  bytes do not say from what they were written. `RowsInv` says of each row that
  there are items from which it was written (`RowOf`): they hold what was meant,
  each in its type's range (`GoodItems`), and, if the row is `roomy`, no text has
  more memory than its column declares; and of a running UPDATE that its statement
  is one for this table and that the items of its newtuple, which it keeps from one
  row to the next, have the columns' types if the statement's do (`UpdateHeld`).
* That the writer and the reader have a column in the same place is proved by induction
  on the columns: the offset of the reader after n columns is the length of what the
  first n items wrote, as long as their widths are those declared. The bytes of
  an item, padded, then read as the value that was written; that only one text has
  these bytes follows from the length and the bytes themselves. The length of a row
  is bounded in the same way, column by column, by the declared lengths and 8
  for each. For two rows behind each other the reader starts the second where the first
  one ends, because rows are padded to `alignByte`. A row that was written is short
  enough to be read; two together need not be, which `JoinReads` has as a condition.
* `Comparing` needs that a difference that an int can hold is not changed by the
  cast, that the real type in which two numbers are compared has both and their
  difference (`Holds`: a whole number that is rounded is outside), and that a DATE's
  number is that of the day wherever its text is `Clear`.
* Powers of 2 and 10 have no theory in the provers: what is needed of them (they are
  whole, positive, and those of a LONG are larger) is in `ItemsAssumption`, which TLC
  evaluates in the run, with two facts about what the constants describe: a month with
  a name is one of twelve, and a text without bytes is the empty one.
* TLC cannot evaluate `RowsInv`, which says that there are items; it checked the
  five properties that follow from it, on the run's instance.

The attempts at these proofs changed what is said. That a text's length is at most
its column's is not enough for `RowFits`: a text column that is set twice in one
UPDATE keeps the memory of the longer text, and a CHAR is written with all its
memory, so that `Roomy` is about memory. `TypedUpdatesFinish` did not hold of a
statement whose condition is a column or a sum, on which `checkTuple` ends the
process, nor of a sum of texts; `WellTyped` now asks for a comparison and for
numbers. A day of MM/DD/YYYY is what was meant for a month of one digit only
(`Clear`). A row that is `Sound` has to be readable by itself, which is part of
`RowReadBack`.

Only model-checked:

* Termination of the join and of the temporary file's calls, as liveness is out of
  the prover's reach.
* The plans (`ConjunctsKept`, `TestedEarly`, `SelectExact`), whose operators on trees
  are `RECURSIVE`; the SMT prover cannot be used in a module that has one.

What recursive functions of a position compute is proved by induction as a fact about
sets of numbers (`InductionFacts`): the library's induction theorems cannot be
instantiated here.

## Findings

1. `pool_stale`: `BFM_vFreeBuffer` removes the hash item of another block than
   the one it frees (`buffer.c:170`).
2. `plan_columns`: `SELECT b FROM t WHERE c = 1` on `t(a, b, c)` tests `b`: the
   column of a condition is renumbered for the rows of the projection, but the
   scan below it asks it (`analyze.c:625`).

Behaviour of the code that the models contain, or that their properties exclude by
a named condition:

* Buffers: two scans of one relation (`FROM t, t`) share one pin flag
  (`buffer.h:62`), which the first to leave a block clears (`execScan.c:70`), so that the
  clock may take the buffer that the other still reads, which "can not be replaced"
  (`buffer.h:25`; `OwnRelations`).
* Free space: the heap is saved in four writes, and a process that dies in between
  leaves a mixture of two heaps (`fsm.c:54-58`, `torn`). The walk down the heap
  misses on equality (`fsm.c:215`, `MissedOnlyOnTie`). The last block's number is
  lost when a relation is not destroyed, and a later append overwrites its block
  (`relation.c:84`, `known` in `Table`).
* Inserts: one that has to append a block leaves its tuple in a buffer that nobody
  marks dirty or flushes: `tuple.c:172-173` does this ("flush to disk") to the
  buffer of the first block (`block.c:154-165`; `unmarked` in `BufferPool`, `loose` in
  `BlockStore`). An UPDATE that fills its block may so lose a row (`Stored` in
  `Table` lets `durable` be without it), and a CREATE a row of its table (`lost` in
  `Catalog`). A block
  number is cut to 16 bits in an address (`block.c:249`, `AddrRange`).
* Join: after the first full array it reads through a NULL outer tuple
  (`execJoin.c:57`); with an empty inner array it joins an element that was
  never filled (`execJoin.c:42`). The temporary file, which is "to save the outer
  tuple" (`analyze.h:156`), gets of a projected row what the tuple held before
  (`execJoin.c:126`, `projected`); nothing reads it, since the process dies first.
* Plans: the rows of `columnsUsed` have `relNum` entries (`analyze.c:425`), so that
  those of two relations meet when one that is not the last has more attributes
  (`Dense`); the array of a join is sized by dividing by the length of the inner
  row, which is 0 when no column of the first relation is used (`analyze.c:1134`,
  status "dead").
* Rows: the memory of a row is allocated "according to the max length of the
  tuple" (`tuple.c:138-142`), but nothing compares a text with its column: an INSERT or
  a SET with a longer one makes a row that is longer than its memory
  (`analyze.c:172, 191`, `charType.c:42-47`, `Roomy`), and so does a
  longer text that the same statement replaces by a shorter one in a CHAR. A row of
  `FILE_LINE_LEN` bytes ends the process, also where two rows are joined
  (`MemAndDisk.c:61-64, 139-143`), and an UPDATE that makes one has by then deleted
  the old row (`UpdateLosesRow`). A LONG is read from a text as an int, so that 5000000000
  is cut (`parseTuple.c:89`, `MeantByNumeral`). INTEGER 16777217 and FLOAT 16777216 are
  equal, since the first is rounded (`parseTuple.c:356-361`, `Nearest`). SET with
  another type writes another width (`execTable.c:175`); a number put
  into a CHAR ends the process at the next row, a string into a number or DATE
  does so unless it reads as 0 (`parseTuple.c:150-162`); an INSERT that
  leaves out a CHAR column ends the process (`analyze.c:171`); one with too many
  values writes before the first attribute (`analyze.c:190-198`); "Oct" is
  month 0; of MM/DD/YYYY with a month of two digits the last digit of the year
  is lost; a date that is refused is stored all the same (`dateType.c`). The
  comparison cast to int calls reals equal that differ by less than 1
  (`parseTuple.c:650`). An expression in parentheses has no operation
  (`expr.c:347`).
* Catalogue: a lookup reads block 0 only (`sysinit.c:23-39`, `InFirstBlock`);
  after a crash an id is given again, to a table that nobody can tell from the
  one cut short (`spoiled`); constraints are checked in the reverse order of the
  statement, so that a FOREIGN KEY before the PRIMARY KEY is refused and one
  behind it is not, and they are never stored (`analyze.c:947`).
* Temporary file: only the first buffer's length can be read back, since
  `TMF_BufRead` does not reset `curPos`; beyond it `curPos` passes `bufferLen` and
  the difference, a uint, wraps round. Reading an empty file does not return. The
  file is not truncated when it is created (`tempFile.c:17`).

## What has been done, and what is left

Modelled in this order: the buffer pool, free space, the statements on a
table, the join; then the plans of SELECT, values and rows, the catalogue, the
bytes of blocks and temporary files. Proved: what is listed above.

Left, in the order of what it would add:

1. The plans' properties as theorems, which needs `QueryPlan` written with recursive
   functions on trees of bounded depth in the place of `RECURSIVE` operators.
2. An UPDATE of a relation without blocks (`execScan.c:65`), which needs
   `BufferPool` to keep what a freed buffer holds.

## Not modelled

* The grammar, the scanner, and the constructors and printers of the syntax tree
  (`utils/grammer.c`): no state. The lists of a CREATE TABLE arrive reversed,
  which `Catalog` has (`Read`).
* The text of values for printing, and the digits of numbers: a text's number and
  its date are constants of `Items`.
* NULL, BETWEEN and truth values in conditions; expressions in parentheses, whose
  content is what their memory held.
* The in-memory heap of tuples (`storage/heap.c` and its map), which only test
  programs use; the index interface, which has no implementation.
* `Rel_vScanTable` and `Rel_vDeleteTuple` (debugging) and `FSM_vUpdateItem`: no
  statement calls them. Of `FSM_printHeap`, which the vacuum program calls, only the
  sorting is modelled.
* What happens after a process has read a torn heap, met a row that overruns its memory,
  or loaded another block than it asked for: from there on, its state is not known.
* Memory safety, file descriptors, failing calls of the operating system, the log.
* Concurrency of processes on the same files: the program takes no locks, and
  nothing in it or its documents says that two may run at once.
