------------------------------- MODULE TableOps -------------------------------
(***************************************************************************)
(* Statements on one table: exectutor/execTable.c with the sequential scan *)
(* of exectutor/execScan.c and the calls of storage/tuple.c they make.     *)
(*                                                                         *)
(* A row is an identity and a version; its bytes, the buffers and the      *)
(* shape of the free space heap are left to other modules: FreeSpace has   *)
(* the tie for which the heap gives no block, which is not met here. A     *)
(* block is the list of its items; all have the same length, and Cap fill  *)
(* a block. One process runs one statement, or loads rows. It may die      *)
(* between any two writes to the file. A process that replaces a buffer of *)
(* a relation other than 0 is not followed further: the hash goes on       *)
(* naming that buffer (buffer.c:170, and BufferPool), and what a later     *)
(* load gives may be another block.                                        *)
(***************************************************************************)
EXTENDS DataBlocks, FiniteSets

CONSTANTS
  RelOid,              \* the relation's oid
  Rows,                \* identities of rows
  MaxVer,              \* bound: how often a row is updated
  MaxBlk,              \* bound: highest block number
  AddrRange,           \* number of block numbers a TupleAddr can hold
  Kinds,               \* what processes may do
  Saves                \* which of them call Rel_vDestoryRelation at the end

ASSUME TableAssumption ==
  /\ RelOid \in Nat /\ MaxVer \in Nat /\ MaxBlk \in Nat
  /\ MaxBlk < INValidBlockNumber /\ AddrRange \in Nat \ {0}
  /\ Kinds \subseteq {"load", "insert", "select", "delete", "update"}
  /\ Saves \subseteq Kinds

Item(row, ver) == [row |-> row, ver |-> ver, deleted |-> FALSE]

VARIABLES
  kind,             \* what the process does, or "none"
  pc,               \* "run", "got" a tuple that matches, "append", "done"
  cond,             \* the rows the WHERE clause holds for
  Rel_fsh,          \* block -> rows it has room for, as the heap says
  Rel_curMaxBlock,
  fsmFile,          \* the heap and the last block as last saved
  scan,             \* blkNumber, tupleIndex and maxBlockNumbertoScan
  tuple,            \* what the scan returned last: the item and its address
  seen,             \* block -> items, as the buffer manager shows them
  disk,             \* the same in the data file
  before,           \* (history) the rows a scan should return
  returned          \* (history) those it returned

tableVars == <<kind, pc, cond, Rel_fsh, Rel_curMaxBlock, fsmFile, scan, tuple,
               seen, disk, before, returned>>

NoTuple == [bnum |-> INValidBlockNumber]

\* The rows of blocks, as pairs of a row and a version.
Live(blocks) ==
  {<<item.row, item.ver>> :
     item \in {i \in UNION {Range(blocks[b]) : b \in DOMAIN blocks} : ~i.deleted}}
Known(blocks, max) ==
  Restrict(blocks, {b \in DOMAIN blocks : IsValidBlockNumber(max) /\ b <= max})

-----------------------------------------------------------------------------
\* The blocks, as functions on them

Table == [fsh |-> Rel_fsh, max |-> Rel_curMaxBlock, seen |-> seen, disk |-> disk]
Becomes(tbl) ==
  /\ Rel_fsh' = tbl.fsh /\ Rel_curMaxBlock' = tbl.max
  /\ seen' = tbl.seen /\ disk' = tbl.disk

\* (mutant) the deleted flag is not written to the file.
DeletedUnflushed(tbl, bnum, i) == Flagged(tbl, bnum % AddrRange, i)
\* (mutant) the index is the one the scan goes on with.
DeletedNext(tbl, bnum, i) == LET b == bnum % AddrRange IN Flushed(Flagged(tbl, b, i + 1), b)

\* Tup_cDeleteTuple on the address the scan gave the tuple.
Deleted(tbl, bnum, i) == LET b == bnum % AddrRange IN Flushed(Flagged(tbl, b, i), b)

-----------------------------------------------------------------------------
\* Processes begin and end.

Init ==
  /\ kind = "none" /\ pc = "done" /\ cond = {}
  /\ Rel_fsh = [b \in {} |-> 0] /\ Rel_curMaxBlock = INValidBlockNumber
  /\ fsmFile = [fsh |-> Rel_fsh, max |-> INValidBlockNumber]
  /\ scan = [blkNumber |-> 0, tupleIndex |-> 0, max |-> INValidBlockNumber]
  /\ tuple = NoTuple
  /\ seen = [b \in {} |-> <<>>] /\ disk = seen
  /\ before = {} /\ returned = <<>>

\* (mutant) the scan may read what is appended.
ScanWithoutEnd == INValidBlockNumber - 1

\* ConstructScanState takes the last block before UPDATE appends one.
MaxBlockNumbertoScan == fsmFile.max

\* The relation is opened and, for an UPDATE, given a block for new versions.
\* An UPDATE by a process that knows no block is left out: it scans to
\* INValidBlockNumber, through blocks that no file has.
Begin(k, where) ==
  LET open == [fsh |-> fsmFile.fsh, max |-> fsmFile.max, seen |-> seen, disk |-> disk]
  IN  /\ kind = "none" /\ kind' = k /\ pc' = "run" /\ cond' = where
      /\ k = "update" =>
           /\ IsValidBlockNumber(fsmFile.max)
           /\ NextBlock(fsmFile.max) <= MaxBlk
      /\ Becomes(IF k = "update" THEN Rel_AppendNewBlock(open) ELSE open)
      /\ scan' = [blkNumber |-> 0, tupleIndex |-> 0, max |-> MaxBlockNumbertoScan]
      /\ tuple' = NoTuple
      /\ before' = Live(Known(seen, fsmFile.max))
      /\ returned' = <<>>
      /\ UNCHANGED fsmFile

\* The process is gone, with its buffers.
Gone ==
  /\ kind # "none" /\ kind' = "none" /\ pc' = "done" /\ cond' = {}
  /\ Rel_fsh' = [b \in {} |-> 0] /\ Rel_curMaxBlock' = INValidBlockNumber
  /\ scan' = [blkNumber |-> 0, tupleIndex |-> 0, max |-> INValidBlockNumber]
  /\ tuple' = NoTuple
  /\ seen' = disk /\ UNCHANGED disk
  /\ before' = {} /\ returned' = <<>>

\* The end of the statement, or of the load. The buffer manager writes dirty
\* buffers; the one BLK_vBlockInsert filled itself is not.
End ==
  /\ pc = "done" \/ kind = "load"
  /\ Gone
  /\ fsmFile' = IF kind \in Saves THEN [fsh |-> Rel_fsh, max |-> Rel_curMaxBlock]
                                  ELSE fsmFile

Crash == Gone /\ UNCHANGED fsmFile

\* BFM_vFreeBuffer looks an item up under the block's number, where it was
\* entered under the oid of relation and block: the same for relation 0.
ItemsFound == RelOid = 0

\* The clock takes a buffer that is not dirty and not what the file holds.
Replace(b) ==
  /\ ItemsFound
  /\ kind # "none" /\ seen[b] # disk[b]
  /\ seen' = [seen EXCEPT ![b] = disk[b]]
  /\ UNCHANGED <<kind, pc, cond, Rel_fsh, Rel_curMaxBlock, fsmFile, scan, tuple,
                 disk, before, returned>>

-----------------------------------------------------------------------------
\* The statements

\* Tup_vInsert, of execInsertTable or of a program that loads rows.
Tup_vInsert(row) ==
  /\ kind \in {"load", "insert"} /\ pc = "run"
  /\ row \notin {i.row : i \in UNION {Range(seen[b]) : b \in DOMAIN seen}}
  /\ \E got \in Rel_GetBlockToInsert(Table) :
       /\ Becomes(Inserted(got[2], got[1], Item(row, 0)))
       /\ DOMAIN seen' \subseteq 0 .. MaxBlk
  /\ pc' = IF kind = "load" THEN "run" ELSE "done"
  /\ UNCHANGED <<kind, cond, fsmFile, scan, tuple, before, returned>>

Before(a, b) == a[1] < b[1] \/ (a[1] = b[1] /\ a[2] < b[2])

\* The addresses that SeqScan_getNext has still to look at, in their order.
Ahead ==
  {a \in (DOMAIN seen) \X (1 .. Cap) :
     /\ a[1] <= scan.max /\ a[2] <= Len(seen[a[1]])
     /\ Before(<<scan.blkNumber, scan.tupleIndex>>, a)}

\* (mutant) deleted tuples are returned.
AnyItem(item) == TRUE
Visible(item) == ~item.deleted

\* SeqScan_getNext returns a tuple, which execScan passes on: a scan for DELETE
\* or UPDATE has no condition of its own.
SeqScan_getNext ==
  /\ kind \in {"select", "delete", "update"} /\ pc = "run"
  /\ IsValidBlockNumber(Rel_curMaxBlock)
  /\ \E a \in Ahead :
       LET item == seen[a[1]][a[2]]
       IN  /\ Visible(item)
           /\ \A b \in Ahead : Before(b, a) => ~Visible(seen[b[1]][b[2]])
           /\ scan' = [scan EXCEPT !.blkNumber = a[1], !.tupleIndex = a[2]]
           /\ tuple' = [bnum |-> a[1], index |-> a[2], item |-> item]
           /\ returned' = Append(returned, <<item.row, item.ver>>)
           /\ pc' = IF item.row \in cond /\ (kind = "update" => item.ver < MaxVer)
                    THEN "got" ELSE "run"
  /\ UNCHANGED <<kind, cond, Rel_fsh, Rel_curMaxBlock, fsmFile, seen, disk,
                 before>>

\* It returns NULL, and the statement is done.
ScanEnds ==
  /\ kind \in {"select", "delete", "update"} /\ pc = "run"
  /\ IsValidBlockNumber(Rel_curMaxBlock) =>
       \A a \in Ahead : ~Visible(seen[a[1]][a[2]])
  /\ pc' = "done"
  /\ UNCHANGED <<kind, cond, Rel_fsh, Rel_curMaxBlock, fsmFile, scan, tuple,
                 seen, disk, before, returned>>

\* execDeleteTable and execUpdateTable delete the tuple they got.
Tup_cDeleteTuple ==
  /\ pc = "got"
  /\ Becomes(Deleted(Table, tuple.bnum, tuple.index))
  /\ pc' = IF kind = "update" THEN "append" ELSE "run"
  /\ UNCHANGED <<kind, cond, fsmFile, scan, tuple, before, returned>>

\* execUpdateTable appends the new version to the last block.
Tup_vAppend ==
  /\ pc = "append" /\ pc' = "run"
  /\ Becomes(Inserted(Table, Rel_curMaxBlock, Item(tuple.item.row, tuple.item.ver + 1)))
  /\ DOMAIN seen' \subseteq 0 .. MaxBlk
  /\ UNCHANGED <<kind, cond, fsmFile, scan, tuple, before, returned>>

Next ==
  \/ \E k \in Kinds \cap {"load", "insert", "select"} : Begin(k, {})
  \/ \E k \in Kinds \cap {"delete", "update"}, where \in SUBSET Rows : Begin(k, where)
  \/ \E row \in Rows : Tup_vInsert(row)
  \/ SeqScan_getNext \/ ScanEnds \/ Tup_cDeleteTuple \/ Tup_vAppend
  \/ \E b \in DOMAIN seen : Replace(b)
  \/ End \/ Crash

Spec == Init /\ [][Next]_tableVars

-----------------------------------------------------------------------------
\* Properties

Items == [row : Rows, ver : 0 .. MaxVer, deleted : BOOLEAN]

\* Blocks are lists of at most Cap items, and the file has all blocks.
TypeOK ==
  /\ kind \in Kinds \cup {"none"} /\ pc \in {"run", "got", "append", "done"}
  /\ DOMAIN seen = DOMAIN disk /\ DOMAIN disk \subseteq 0 .. MaxBlk
  /\ \A b \in DOMAIN disk : \A block \in {seen[b], disk[b]} :
       Len(block) <= Cap /\ Range(block) \subseteq Items
  /\ \A b \in DOMAIN Rel_fsh : b \in DOMAIN disk /\ Rel_fsh[b] \in 1 .. Cap
  /\ Rel_curMaxBlock \in DOMAIN disk \cup {INValidBlockNumber}

\* A statement's scan returns each row that the blocks it knows held when it
\* began, once, in the version it had, and no other: neither what an UPDATE
\* appends meanwhile (analyze.h:116, "this is set to not scan the append while
\* updating"), nor what was deleted. Of relation 0 it does so whatever buffers
\* are replaced; of another relation, as long as none is.
ScanExact ==
  kind \in {"select", "delete", "update"} /\ pc = "done"
    => Range(returned) = before /\ Len(returned) = Cardinality(before)

\* A row never has two versions, in the buffers or in the file, so that a crash
\* in the middle of an UPDATE may lose a row but never doubles it
\* (execTable.c:180-181).
OneVersion ==
  \A blocks \in {seen, disk} :
    \A b, c \in DOMAIN blocks : \A i \in DOMAIN blocks[b], j \in DOMAIN blocks[c] :
      /\ ~blocks[b][i].deleted /\ ~blocks[c][j].deleted
      /\ blocks[b][i].row = blocks[c][j].row
      => b = c /\ i = j

\* The rows of the table: what it holds for the process, and in the file.
RowsOf(blocks) ==
  [r \in {x[1] : x \in Live(blocks)} |-> (CHOOSE x \in Live(blocks) : x[1] = r)[2]]
LastKnown == IF kind = "none" THEN fsmFile.max ELSE Rel_curMaxBlock

Abstract == INSTANCE Table WITH
  rows <- RowsOf(seen),
  durable <- RowsOf(disk),
  moving <- IF pc = "append" THEN {<<tuple.item.row, tuple.item.ver + 1>>} ELSE {},
  known <- NextBlock(LastKnown) \notin DOMAIN disk

\* The statements implement a table of rows: every step inserts, deletes, takes
\* out or puts back one row and leaves the others, in the buffers and in the
\* file; only blocks that the process does not know are lost with their rows.
TableSpec == Abstract!Spec
=============================================================================
