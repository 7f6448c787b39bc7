----------------------------- MODULE SlottedBlock -----------------------------
(***************************************************************************)
(* The bytes of a relation's blocks: storage/block.c, and the packing of   *)
(* vacuum/vacuum.c. Behind the header a block has a table, an item for     *)
(* each tuple, which grows up, while the tuples are put before each other  *)
(* from the block's end. Both are bytes of the block: what is written over *)
(* a part of an item or of a tuple spoils it.                              *)
(*                                                                         *)
(* Who is asked for a block, and which buffers hold one, is in FreeSpace   *)
(* and BufferPool; here any block may be inserted into. The loops of the   *)
(* vacuum program are modelled by their iterations.                        *)
(***************************************************************************)
EXTENDS Integers, Sequences

CONSTANTS
  BLOCKSIZE,
  HeaderSize,     \* sizeof(BlockHeaderData)
  ItemSize,       \* sizeof(BlockOffsetTableItem)
  Rows,           \* contents of tuples
  LenOf,          \* their lengths
  Fill,           \* what File_vAddBlock fills a block with
  Deleted, Junk,  \* what is read of a tuple that is deleted, or spoilt
  MaxBlocks       \* bound: how many blocks the relation has

NewBlockSpace == BLOCKSIZE - HeaderSize

ASSUME BlockAssumption ==
  /\ BLOCKSIZE \in Nat /\ HeaderSize \in 0 .. BLOCKSIZE /\ ItemSize \in Nat \ {0}
  /\ MaxBlocks \in Nat
  /\ LenOf \in [Rows -> Nat \ {0}]
  /\ Fill \notin Rows /\ Junk \notin Rows /\ Deleted \notin Rows /\ Junk # Deleted

\* No tuple is longer than what an empty block has room for.
ASSUME FitAssumption == \A row \in Rows : LenOf[row] + ItemSize <= NewBlockSpace

VARIABLES
  blocks,   \* the blocks: lower and upper, the table's length, and the bytes
  vac       \* the vacuum: its block, its copy of it, and where its loops are

blockVars == <<blocks, vac>>

-----------------------------------------------------------------------------
\* Bytes. A byte is a part of something: of a row, of an item, or of nothing.

Places == 0 .. BLOCKSIZE - 1
ByteOf(x, k) == [of |-> x, k |-> k]

\* memcpy of the n bytes of x to the bytes from p on.
Put(mem, p, x, n) ==
  [q \in Places |-> IF q \in p .. p + n - 1 THEN ByteOf(x, q - p) ELSE mem[q]]

Holds(mem, p, x, n) == \A k \in 0 .. n - 1 : p + k \in Places /\ mem[p + k] = ByteOf(x, k)

Item(off, flag, len) == [bo_off |-> off, bo_flag |-> flag, bo_len |-> len]
ItemPlace(i) == HeaderSize + ItemSize * i

\* Item i of the table, if its bytes are whole.
ItemAt(page, i) == page.mem[ItemPlace(i)].of
ItemWhole(page, i) == Holds(page.mem, ItemPlace(i), ItemAt(page, i), ItemSize)

SetItem(page, i, item) ==
  [page EXCEPT !.mem = Put(page.mem, ItemPlace(i), item, ItemSize)]

BD_CheckItemInValid(item) == item.bo_flag = 1

\* The row that BLK_vGetTupleFromBlockwithIndex copies out.
BLK_vGetTupleFromBlockwithIndex(page, i) ==
  LET item == ItemAt(page, i)
      rows == {row \in Rows : /\ LenOf[row] = item.bo_len
                              /\ Holds(page.mem, item.bo_off, row, item.bo_len)}
  IN  IF ~ItemWhole(page, i) THEN Junk
      ELSE IF BD_CheckItemInValid(item) THEN Deleted
      ELSE IF rows = {} THEN Junk ELSE CHOOSE row \in rows : TRUE

-----------------------------------------------------------------------------
\* File_vAddBlock
NewPage ==
  [bhd_lower |-> HeaderSize, bhd_upper |-> BLOCKSIZE, bhd_offTableLen |-> 0,
   mem |-> [q \in Places |-> ByteOf(Fill, 0)]]

BLK_uBlockGetFreeSpaceSize(page) == page.bhd_upper - page.bhd_lower

\* (mutant) the item is not counted.
SpaceWithoutItem(page, len) == len < BLK_uBlockGetFreeSpaceSize(page)
BLK_bCheckEnoughSpace(page, len) == len + ItemSize < BLK_uBlockGetFreeSpaceSize(page)

\* BLK_vBlockInsert, once it has its block.
Inserted(page, row) ==
  LET off == page.bhd_upper - LenOf[row]
      content == [page EXCEPT !.mem = Put(page.mem, off, row, LenOf[row])]
      listed == SetItem(content, page.bhd_offTableLen, Item(off, 0, LenOf[row]))
  IN  [listed EXCEPT !.bhd_lower = @ + ItemSize, !.bhd_upper = off,
                     !.bhd_offTableLen = @ + 1]

Flagged(page, i) == SetItem(page, i, [ItemAt(page, i) EXCEPT !.bo_flag = 1])

Idle == [bnum |-> 0, page |-> NewPage, index |-> 0, j |-> 0, handleindex |-> 0]

Init == blocks = <<>> /\ vac = Idle

\* Rel_AppendNewBlock
AppendNewBlock ==
  /\ vac.bnum = 0 /\ Len(blocks) < MaxBlocks
  /\ blocks' = Append(blocks, NewPage)
  /\ UNCHANGED vac

\* A tuple for which a block has no room goes to a new one, unchecked.
BLK_vBlockInsert(b, row) ==
  /\ vac.bnum = 0
  /\ \/ /\ BLK_bCheckEnoughSpace(blocks[b], LenOf[row])
        /\ blocks' = [blocks EXCEPT ![b] = Inserted(@, row)]
     \/ /\ ~BLK_bCheckEnoughSpace(blocks[b], LenOf[row])
        /\ Len(blocks) < MaxBlocks
        /\ blocks' = Append(blocks, Inserted(NewPage, row))
  /\ UNCHANGED vac

\* The tuple's address has the index; deleting again changes nothing.
BLK_vDeleteTupleFromBlock(b, i) ==
  /\ vac.bnum = 0 /\ i < blocks[b].bhd_offTableLen
  /\ blocks' = [blocks EXCEPT ![b] = Flagged(@, i)]
  /\ UNCHANGED vac

-----------------------------------------------------------------------------
\* The vacuum reads each block but the last, packs its copy and writes it.

Reading(bnum) ==
  IF bnum < Len(blocks)
  THEN [bnum |-> bnum, page |-> blocks[bnum], index |-> 0, j |-> 0,
        handleindex |-> BLOCKSIZE - 1]
  ELSE Idle

VAC_vArrangeRelationData ==
  /\ vac.bnum = 0
  /\ vac' = Reading(1)
  /\ UNCHANGED blocks

VacItem == ItemAt(vac.page, vac.index)
InTable == vac.bnum # 0 /\ vac.index < vac.page.bhd_offTableLen

SkipDeleted ==
  /\ InTable /\ BD_CheckItemInValid(VacItem)
  /\ vac' = [vac EXCEPT !.page = SetItem(@, vac.index, [VacItem EXCEPT !.bo_off = 0]),
                        !.index = @ + 1]
  /\ UNCHANGED blocks

\* (mutant) a tuple is moved from its start on.
FromStart(item, j) == item.bo_off + j
MoveFrom(item, j) == item.bo_off + item.bo_len - 1 - j

MoveByte ==
  /\ InTable /\ ~BD_CheckItemInValid(VacItem) /\ vac.j < VacItem.bo_len
  /\ vac' = [vac EXCEPT
       !.page.mem[vac.handleindex] = vac.page.mem[MoveFrom(VacItem, vac.j)],
       !.handleindex = @ - 1, !.j = @ + 1]
  /\ UNCHANGED blocks

SetItemOffset ==
  /\ InTable /\ ~BD_CheckItemInValid(VacItem) /\ vac.j = VacItem.bo_len
  /\ vac' = [vac EXCEPT
       !.page = SetItem(@, vac.index, [VacItem EXCEPT !.bo_off = vac.handleindex + 1]),
       !.index = @ + 1, !.j = 0]
  /\ UNCHANGED blocks

\* (mutant) the space starts at the last byte that was moved.
UpperBelow(handleindex) == handleindex
UpperAt(handleindex) == handleindex + 1

BLK_sWriteBlock ==
  /\ vac.bnum # 0 /\ vac.index = vac.page.bhd_offTableLen
  /\ blocks' = [blocks EXCEPT ![vac.bnum] =
       [vac.page EXCEPT !.bhd_upper = UpperAt(vac.handleindex)]]
  /\ vac' = Reading(vac.bnum + 1)

\* The vacuum program dies, with its copy of a block.
Crash == vac.bnum # 0 /\ vac' = Idle /\ UNCHANGED blocks

Pack == SkipDeleted \/ MoveByte \/ SetItemOffset \/ BLK_sWriteBlock

Next ==
  \/ AppendNewBlock
  \/ \E b \in DOMAIN blocks, row \in Rows : BLK_vBlockInsert(b, row)
  \/ \E b \in DOMAIN blocks, i \in Places : BLK_vDeleteTupleFromBlock(b, i)
  \/ VAC_vArrangeRelationData \/ Pack \/ Crash

Spec == Init /\ [][Next]_blockVars

-----------------------------------------------------------------------------
\* Properties

Indexes(page) == 0 .. page.bhd_offTableLen - 1
Live(page) == {i \in Indexes(page) : ~BD_CheckItemInValid(ItemAt(page, i))}
Extent(page, i) ==
  LET item == ItemAt(page, i) IN item.bo_off .. item.bo_off + item.bo_len - 1

Items == [bo_off : 0 .. BLOCKSIZE, bo_flag : {0, 1}, bo_len : Nat]
Pages == [bhd_lower : Nat, bhd_upper : Nat, bhd_offTableLen : Nat,
          mem : [Places -> [of : Rows \cup {Fill} \cup Items, k : Nat]]]

\* The header says where table and tuples end, and the table is whole.
PageOK(page) ==
  /\ page \in Pages
  /\ page.bhd_lower = ItemPlace(page.bhd_offTableLen)
  /\ page.bhd_lower <= page.bhd_upper /\ page.bhd_upper <= BLOCKSIZE
  /\ \A i \in Indexes(page) : ItemWhole(page, i)

\* The tuples lie behind the free space and do not overlap.
Apart(page) ==
  /\ \A i \in Live(page) : Extent(page, i) \subseteq page.bhd_upper .. BLOCKSIZE - 1
  /\ \A i, j \in Live(page) : i # j => Extent(page, i) \cap Extent(page, j) = {}

\* Table and tuples grow towards each other and never meet, also where a tuple
\* fills a new block to the last byte (block.c:167-181) and while a block is
\* packed (vacuum.c:26-57).
TypeOK ==
  /\ Len(blocks) <= MaxBlocks /\ vac.bnum \in 0 .. Len(blocks)
  /\ \A b \in DOMAIN blocks : PageOK(blocks[b]) /\ Apart(blocks[b])
  /\ vac.bnum # 0 => PageOK(vac.page) /\ vac.handleindex \in Places \cup {HeaderSize - 1}

\* The bytes of the tuples among the first n that are not deleted.
UsedLen(page, i) ==
  IF BD_CheckItemInValid(ItemAt(page, i)) THEN 0 ELSE ItemAt(page, i).bo_len
UsedBy(page, n) ==
  LET used[k \in 0 .. page.bhd_offTableLen] ==
        IF k = 0 THEN 0 ELSE used[k - 1] + UsedLen(page, k - 1)
  IN  used[n]

\* Packing leaves no byte unused between the tuples (vacuum.c:37-49), so that the
\* heap, which vacuum fills from the header, knows of all the space there is.
PacksAll ==
  [][BLK_sWriteBlock =>
       LET page == blocks'[vac.bnum]
       IN  page.bhd_upper = BLOCKSIZE - UsedBy(page, page.bhd_offTableLen)]_blockVars

\* The rows in the blocks, as a reader gets them.
Read(page) ==
  [i \in 1 .. page.bhd_offTableLen |-> BLK_vGetTupleFromBlockwithIndex(page, i - 1)]
Abstract == INSTANCE RowLists WITH
  lists <- [b \in DOMAIN blocks |-> Read(blocks[b])]

\* The bytes implement lists of rows: what was inserted is read at its index until
\* it is deleted, whatever is inserted, deleted or packed, wherever the vacuum dies
\* (block.c:248-277, vacuum.c:26-57).
ListSpec == Abstract!Spec
=============================================================================
