----------------------------- MODULE DataBlocks -----------------------------
(***************************************************************************)
(* The blocks of a relation as lists of rows of one length, and the calls  *)
(* of storage/relation.c, block.c and tuple.c that change them. A relation *)
(* is a record: fsh, what the free space heap says of room, as a function  *)
(* of blocks; max, Rel_curMaxBlock; seen, the blocks as the buffer manager *)
(* shows them; disk, the same in the data file.                            *)
(***************************************************************************)
EXTENDS Integers, Sequences, SequencesExt, Functions

CONSTANTS
  Cap,                 \* rows a block has room for
  INValidBlockNumber

ASSUME BlockAssumption == Cap \in Nat \ {0} /\ INValidBlockNumber \in Nat

IsValidBlockNumber(bnum) == bnum < INValidBlockNumber
NextBlock(max) == IF IsValidBlockNumber(max) THEN max + 1 ELSE 0
Set(f, b, x) == [c \in DOMAIN f \cup {b} |-> IF c = b THEN x ELSE f[c]]

Rel_AppendNewBlock(tbl) ==
  LET b == NextBlock(tbl.max)
  IN  [fsh |-> Set(tbl.fsh, b, Cap), max |-> b,
       seen |-> Set(tbl.seen, b, <<>>), disk |-> Set(tbl.disk, b, <<>>)]

\* The relation after the heap gave block b.
Taken(tbl, b) ==
  [tbl EXCEPT !.fsh = IF tbl.fsh[b] = 1 THEN Restrict(tbl.fsh, DOMAIN tbl.fsh \ {b})
                                        ELSE [tbl.fsh EXCEPT ![b] = @ - 1]]

\* Pairs of a block to insert into and the relation then.
Rel_GetBlockToInsert(tbl) ==
  LET grown == IF DOMAIN tbl.fsh = {} THEN Rel_AppendNewBlock(tbl) ELSE tbl
  IN  {<<b, Taken(grown, b)>> : b \in DOMAIN grown.fsh}

\* BFM_SetBufferDirty and BFM_vFlushBuffer on the buffer of block b.
Flushed(tbl, b) == [tbl EXCEPT !.disk[b] = tbl.seen[b]]

\* (mutant) the room is not checked again.
InsertedAnyway(tbl, b, item) == Flushed([tbl EXCEPT !.seen[b] = Append(@, item)], b)

\* BLK_vBlockInsert, which looks for room itself, and the caller's flush. Where
\* there is no room a new block gets the item, but not the flush; that the file's
\* type is not set may also end the process, see Crash.
Inserted(tbl, b, item) ==
  IF Len(tbl.seen[b]) < Cap
  THEN Flushed([tbl EXCEPT !.seen[b] = Append(@, item)], b)
  ELSE LET new == Rel_AppendNewBlock(tbl)
       IN  Flushed([new EXCEPT !.seen[new.max] = <<item>>], b)

\* BLK_vDeleteTupleFromBlock; a flag behind the last item means nothing.
Flagged(tbl, b, i) ==
  IF i \in DOMAIN tbl.seen[b] THEN [tbl EXCEPT !.seen[b][i].deleted = TRUE] ELSE tbl
=============================================================================
