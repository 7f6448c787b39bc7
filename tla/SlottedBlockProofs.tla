-------------------------- MODULE SlottedBlockProofs --------------------------
(***************************************************************************)
(* Proofs about the bytes of blocks: that table and tuples never meet,     *)
(* that the bytes implement lists of rows, also while a block is packed,   *)
(* and that packing leaves no gap, for blocks, items and rows of any       *)
(* sizes.                                                                  *)
(***************************************************************************)
EXTENDS SlottedBlock, InductionFacts, SequenceTheorems, TLAPS

-----------------------------------------------------------------------------
\* Places and bytes.

Things == Rows \cup {Fill} \cup Items
Mems == [Places -> [of : Things, k : Nat]]

LEMMA Sizes ==
  /\ BLOCKSIZE \in Nat /\ HeaderSize \in Nat /\ HeaderSize <= BLOCKSIZE
  /\ ItemSize \in Nat /\ ItemSize >= 1
  /\ MaxBlocks \in Nat
  /\ \A row \in Rows : /\ LenOf[row] \in Nat /\ LenOf[row] >= 1
                       /\ HeaderSize + ItemSize + LenOf[row] <= BLOCKSIZE
<1>1. /\ BLOCKSIZE \in Nat /\ HeaderSize \in 0 .. BLOCKSIZE /\ ItemSize \in Nat \ {0}
      /\ MaxBlocks \in Nat /\ LenOf \in [Rows -> Nat \ {0}]
  BY BlockAssumption
<1>2. ASSUME NEW row \in Rows
      PROVE  /\ LenOf[row] \in Nat /\ LenOf[row] >= 1
             /\ HeaderSize + ItemSize + LenOf[row] <= BLOCKSIZE
  <2>1. LenOf[row] \in Nat \ {0} BY <1>1
  <2>2. LenOf[row] + ItemSize <= BLOCKSIZE - HeaderSize BY FitAssumption DEF NewBlockSpace
  <2> QED BY <1>1, <2>1, <2>2
<1> QED BY <1>1, <1>2

LEMMA ItemPlaces ==
  ASSUME NEW i \in Nat
  PROVE  /\ ItemPlace(i) \in Nat /\ HeaderSize <= ItemPlace(i)
         /\ ItemPlace(i + 1) = ItemPlace(i) + ItemSize
         /\ ItemPlace(0) = HeaderSize
         /\ \A n \in Nat : i < n => ItemPlace(i) + ItemSize <= ItemPlace(n)
<1>1. ItemSize * i \in Nat BY Sizes
<1>2. ItemSize * (i + 1) = ItemSize * i + ItemSize BY Sizes
<1>3. ItemSize * 0 = 0 BY Sizes
<1>4. ASSUME NEW n \in Nat, i < n PROVE ItemSize * i + ItemSize <= ItemSize * n
  <2>1. PICK d \in Nat : n = i + 1 + d
    <3>1. n - i - 1 \in Nat BY <1>4
    <3> QED BY <3>1
  <2>2. ItemSize * d \in Nat BY Sizes
  <2>3. ItemSize * n = ItemSize * i + ItemSize + ItemSize * d BY <2>1, Sizes
  <2> QED BY <1>1, <2>2, <2>3, Sizes
<1> QED BY <1>1, <1>2, <1>3, <1>4, Sizes DEF ItemPlace

LEMMA PutMem ==
  ASSUME NEW mem \in Mems, NEW p \in Nat, NEW n \in Nat, NEW x \in Things
  PROVE  /\ Put(mem, p, x, n) \in Mems
         /\ \A q \in Places : q < p \/ p + n <= q => Put(mem, p, x, n)[q] = mem[q]
         /\ p + n <= BLOCKSIZE => Holds(Put(mem, p, x, n), p, x, n)
<1> DEFINE new == Put(mem, p, x, n)
<1>1. new = [q \in Places |-> IF q \in p .. p + n - 1 THEN ByteOf(x, q - p) ELSE mem[q]]
  BY DEF Put
<1>2. Places \subseteq Int BY Sizes DEF Places
<1>3. ASSUME NEW q \in Places PROVE new[q] \in [of : Things, k : Nat]
  <2>1. CASE q \in p .. p + n - 1 BY <1>1, <1>2, <2>1 DEF ByteOf
  <2>2. CASE q \notin p .. p + n - 1 BY <1>1, <2>2 DEF Mems
  <2> QED BY <2>1, <2>2
<1>4. new \in Mems BY <1>1, <1>3 DEF Mems
<1>5. ASSUME NEW q \in Places, q < p \/ p + n <= q PROVE new[q] = mem[q]
  BY <1>1, <1>2, <1>5
<1>6. ASSUME p + n <= BLOCKSIZE PROVE Holds(new, p, x, n)
  <2> SUFFICES ASSUME NEW k \in 0 .. n - 1 PROVE p + k \in Places /\ new[p + k] = ByteOf(x, k)
    BY DEF Holds
  <2>1. p + k \in Places BY <1>6, Sizes DEF Places
  <2>2. p + k \in p .. p + n - 1 /\ p + k - p = k OBVIOUS
  <2> QED BY <1>1, <2>1, <2>2
<1> QED BY <1>4, <1>5, <1>6

LEMMA HoldsSame ==
  ASSUME NEW old, NEW new, NEW p \in Nat, NEW n \in Nat, NEW x, Holds(old, p, x, n),
         \A q \in Places : p <= q /\ q < p + n => new[q] = old[q]
  PROVE  Holds(new, p, x, n)
BY DEF Holds

LEMMA HoldsOne ==
  ASSUME NEW mem, NEW p \in Nat, NEW n \in Nat, n >= 1, NEW x, NEW y,
         Holds(mem, p, x, n), Holds(mem, p, y, n)
  PROVE  x = y
<1>1. mem[p + 0] = ByteOf(x, 0) /\ mem[p + 0] = ByteOf(y, 0) BY DEF Holds
<1> QED BY <1>1 DEF ByteOf

-----------------------------------------------------------------------------
\* The table.

Off(page, i) == ItemAt(page, i).bo_off
Lng(page, i) == ItemAt(page, i).bo_len
After(page, i) == Off(page, i) + Lng(page, i)

TableWhole(page) ==
  \A i \in Indexes(page) : ItemWhole(page, i) /\ ItemAt(page, i) \in Items

Shape(page) ==
  /\ page \in Pages
  /\ page.bhd_lower = ItemPlace(page.bhd_offTableLen)
  /\ page.bhd_lower <= page.bhd_upper /\ page.bhd_upper <= BLOCKSIZE
  /\ TableWhole(page)

LEMMA ShapeFields ==
  ASSUME NEW page, Shape(page)
  PROVE  /\ PageOK(page)
         /\ page.mem \in Mems /\ page.bhd_offTableLen \in Nat
         /\ page.bhd_lower \in Nat /\ page.bhd_upper \in Nat
         /\ HeaderSize <= page.bhd_lower
         /\ \A i \in Indexes(page) :
              /\ i \in Nat /\ ItemPlace(i) \in Nat
              /\ ItemPlace(i) + ItemSize <= page.bhd_lower
              /\ ItemWhole(page, i) /\ ItemAt(page, i) \in Items
              /\ Off(page, i) \in Nat /\ Lng(page, i) \in Nat
              /\ After(page, i) \in Nat
              /\ ItemAt(page, i).bo_flag \in {0, 1}
<1>1. /\ page.mem \in Mems /\ page.bhd_offTableLen \in Nat
      /\ page.bhd_lower \in Nat /\ page.bhd_upper \in Nat
  BY DEF Shape, Pages, Mems, Things
<1>2. PageOK(page) BY DEF Shape, PageOK, TableWhole
<1>3. ASSUME NEW i \in Indexes(page)
      PROVE  /\ i \in Nat /\ ItemPlace(i) \in Nat
             /\ ItemPlace(i) + ItemSize <= page.bhd_lower
             /\ ItemWhole(page, i) /\ ItemAt(page, i) \in Items
             /\ Off(page, i) \in Nat /\ Lng(page, i) \in Nat
             /\ After(page, i) \in Nat
             /\ ItemAt(page, i).bo_flag \in {0, 1}
  <2>1. i \in Nat /\ i < page.bhd_offTableLen BY <1>1 DEF Indexes
  <2>2. ItemPlace(i) \in Nat /\ ItemPlace(i) + ItemSize <= page.bhd_lower
    BY <1>1, <2>1, ItemPlaces DEF Shape
  <2>3. ItemWhole(page, i) /\ ItemAt(page, i) \in Items BY DEF Shape, TableWhole
  <2>4. Off(page, i) \in Nat /\ Lng(page, i) \in Nat /\ ItemAt(page, i).bo_flag \in {0, 1}
    BY <2>3, Sizes DEF Items, Off, Lng
  <2> QED BY <2>1, <2>2, <2>3, <2>4 DEF After
<1>4. HeaderSize <= page.bhd_lower BY <1>1, ItemPlaces DEF Shape
<1> QED BY <1>1, <1>2, <1>3, <1>4

\* An item is what its bytes are.
LEMMA ItemSame ==
  ASSUME NEW old, NEW new, NEW i \in Nat, ItemWhole(old, i),
         \A q \in Places : /\ ItemPlace(i) <= q /\ q < ItemPlace(i) + ItemSize
                           => new.mem[q] = old.mem[q]
  PROVE  ItemWhole(new, i) /\ ItemAt(new, i) = ItemAt(old, i)
<1>1. ItemPlace(i) \in Nat BY ItemPlaces
<1>2. Holds(old.mem, ItemPlace(i), ItemAt(old, i), ItemSize) BY DEF ItemWhole
<1>3. Holds(new.mem, ItemPlace(i), ItemAt(old, i), ItemSize)
  BY <1>1, <1>2, HoldsSame, Sizes
<1>4. new.mem[ItemPlace(i) + 0] = ByteOf(ItemAt(old, i), 0) BY <1>3, Sizes DEF Holds
<1>5. ItemAt(new, i) = ItemAt(old, i) BY <1>1, <1>4 DEF ItemAt, ByteOf
<1> QED BY <1>3, <1>5 DEF ItemWhole

\* One item is written; the others, and what is behind the table, stay.
LEMMA SetItemOK ==
  ASSUME NEW page \in Pages, NEW i \in Nat, NEW item \in Items,
         ItemPlace(i) + ItemSize <= BLOCKSIZE
  PROVE  /\ SetItem(page, i, item) \in Pages
         /\ SetItem(page, i, item).bhd_lower = page.bhd_lower
         /\ SetItem(page, i, item).bhd_upper = page.bhd_upper
         /\ SetItem(page, i, item).bhd_offTableLen = page.bhd_offTableLen
         /\ ItemAt(SetItem(page, i, item), i) = item
         /\ ItemWhole(SetItem(page, i, item), i)
         /\ \A k \in Nat : k # i /\ ItemWhole(page, k) =>
              /\ ItemWhole(SetItem(page, i, item), k)
              /\ ItemAt(SetItem(page, i, item), k) = ItemAt(page, k)
         /\ \A q \in Places : ItemPlace(i) + ItemSize <= q =>
              SetItem(page, i, item).mem[q] = page.mem[q]
<1> DEFINE new == SetItem(page, i, item)
           mem == Put(page.mem, ItemPlace(i), item, ItemSize)
<1>1. /\ new = [page EXCEPT !.mem = mem] BY DEF SetItem
<1>2. page.mem \in Mems /\ item \in Things BY DEF Pages, Mems, Things
<1>3. ItemPlace(i) \in Nat BY ItemPlaces
<1>4. /\ mem \in Mems
      /\ \A q \in Places : q < ItemPlace(i) \/ ItemPlace(i) + ItemSize <= q => mem[q] = page.mem[q]
      /\ Holds(mem, ItemPlace(i), item, ItemSize)
  BY <1>2, <1>3, PutMem, Sizes
<1> HIDE DEF mem
<1>5. /\ new \in Pages /\ new.mem = mem
      /\ new.bhd_lower = page.bhd_lower /\ new.bhd_upper = page.bhd_upper
      /\ new.bhd_offTableLen = page.bhd_offTableLen
  BY <1>1, <1>4 DEF Pages, Mems, Things
<1> HIDE DEF new
<1>6. ItemAt(new, i) = item
  <2>1. mem[ItemPlace(i) + 0] = ByteOf(item, 0) BY <1>4, Sizes DEF Holds
  <2> QED BY <1>3, <1>5, <2>1 DEF ItemAt, ByteOf
<1>7. ItemWhole(new, i) BY <1>4, <1>5, <1>6 DEF ItemWhole
<1>8. ASSUME NEW k \in Nat, k # i, ItemWhole(page, k)
      PROVE  ItemWhole(new, k) /\ ItemAt(new, k) = ItemAt(page, k)
  <2>1. /\ ItemPlace(k) \in Nat
        /\ ItemPlace(k) + ItemSize <= ItemPlace(i) \/ ItemPlace(i) + ItemSize <= ItemPlace(k)
    <3>1. k < i \/ i < k BY <1>8
    <3> QED BY <3>1, ItemPlaces
  <2>2. ASSUME NEW q \in Places, ItemPlace(k) <= q, q < ItemPlace(k) + ItemSize
        PROVE  new.mem[q] = page.mem[q]
    <3>1. q \in Int BY Sizes DEF Places
    <3>2. q < ItemPlace(i) \/ ItemPlace(i) + ItemSize <= q
      BY <1>3, <2>1, <2>2, <3>1, Sizes
    <3> QED BY <1>4, <1>5, <3>2
  <2> QED BY <1>8, <2>2, ItemSame
<1>9. \A q \in Places : ItemPlace(i) + ItemSize <= q => new.mem[q] = page.mem[q]
  BY <1>4, <1>5
<1>10. /\ new \in Pages /\ new.bhd_lower = page.bhd_lower /\ new.bhd_upper = page.bhd_upper
       /\ new.bhd_offTableLen = page.bhd_offTableLen
       /\ ItemAt(new, i) = item /\ ItemWhole(new, i)
       /\ \A k \in Nat : k # i /\ ItemWhole(page, k) =>
            ItemWhole(new, k) /\ ItemAt(new, k) = ItemAt(page, k)
       /\ \A q \in Places : ItemPlace(i) + ItemSize <= q => new.mem[q] = page.mem[q]
  BY <1>5, <1>6, <1>7, <1>8, <1>9
<1> QED BY <1>10 DEF new

-----------------------------------------------------------------------------
\* What is read of a tuple.

HasRow(page, i, row) ==
  LenOf[row] = Lng(page, i) /\ Holds(page.mem, Off(page, i), row, Lng(page, i))

LEMMA ReadDeleted ==
  ASSUME NEW page, NEW i, ItemWhole(page, i), ItemAt(page, i).bo_flag = 1
  PROVE  BLK_vGetTupleFromBlockwithIndex(page, i) = Deleted
BY DEF BLK_vGetTupleFromBlockwithIndex, BD_CheckItemInValid

LEMMA ReadRow ==
  ASSUME NEW page, NEW i, ItemWhole(page, i), ItemAt(page, i) \in Items,
         ItemAt(page, i).bo_flag # 1, NEW row \in Rows, HasRow(page, i, row)
  PROVE  BLK_vGetTupleFromBlockwithIndex(page, i) = row
<1> DEFINE item == ItemAt(page, i)
           rows == {r \in Rows : /\ LenOf[r] = item.bo_len
                                 /\ Holds(page.mem, item.bo_off, r, item.bo_len)}
<1>1. row \in rows BY DEF HasRow, Off, Lng
<1>2. item.bo_off \in Nat /\ item.bo_len \in Nat BY Sizes DEF Items
<1>3. ASSUME NEW r \in rows PROVE r = row
  <2>1. /\ LenOf[row] = item.bo_len /\ Holds(page.mem, item.bo_off, row, item.bo_len)
        /\ Holds(page.mem, item.bo_off, r, item.bo_len)
    BY <1>1
  <2>2. item.bo_len >= 1 BY <2>1, Sizes
  <2> QED BY <1>2, <2>1, <2>2, HoldsOne
<1>4. rows = {row} BY <1>1, <1>3
<1>5. BLK_vGetTupleFromBlockwithIndex(page, i) = CHOOSE r \in rows : TRUE
  BY <1>1 DEF BLK_vGetTupleFromBlockwithIndex, BD_CheckItemInValid
<1> HIDE DEF rows
<1> QED BY <1>4, <1>5

LEMMA HasRowSame ==
  ASSUME NEW old, NEW new, NEW i, NEW row, ItemAt(new, i) = ItemAt(old, i),
         ItemAt(old, i) \in Items, HasRow(old, i, row),
         \A q \in Places : Off(old, i) <= q /\ q < After(old, i) => new.mem[q] = old.mem[q]
  PROVE  HasRow(new, i, row)
<1>1. Off(old, i) \in Nat /\ Lng(old, i) \in Nat BY Sizes DEF Items, Off, Lng
<1>2. Off(new, i) = Off(old, i) /\ Lng(new, i) = Lng(old, i) BY DEF Off, Lng
<1>3. Holds(new.mem, Off(old, i), row, Lng(old, i))
  BY <1>1, HoldsSame DEF HasRow, After
<1> QED BY <1>2, <1>3 DEF HasRow

-----------------------------------------------------------------------------
\* A block: the tuples lie behind the free space, each before the one that was
\* inserted earlier, and each has all its bytes.

Downwards(page, I) == \A i, k \in I : i < k => After(page, k) <= Off(page, i)

PageInv(page) ==
  /\ Shape(page)
  /\ \A i \in Live(page) :
       /\ page.bhd_upper <= Off(page, i) /\ After(page, i) <= BLOCKSIZE
       /\ \E row \in Rows : HasRow(page, i, row)
  /\ Downwards(page, Live(page))

LEMMA LiveFlag ==
  ASSUME NEW page
  PROVE  \A i : i \in Live(page) <=> i \in Indexes(page) /\ ItemAt(page, i).bo_flag # 1
BY DEF Live, BD_CheckItemInValid

LEMMA PageApart ==
  ASSUME NEW page, PageInv(page)
  PROVE  PageOK(page) /\ Apart(page)
<1>1. Shape(page) BY DEF PageInv
<1>2. \A i \in Live(page) :
        /\ i \in Indexes(page) /\ i \in Nat
        /\ Off(page, i) \in Nat /\ Lng(page, i) \in Nat /\ After(page, i) \in Nat
        /\ page.bhd_upper <= Off(page, i) /\ After(page, i) <= BLOCKSIZE
        /\ Extent(page, i) = Off(page, i) .. After(page, i) - 1
  BY <1>1, ShapeFields, LiveFlag DEF PageInv, Extent, Off, Lng, After
<1>3. page.bhd_upper \in Nat BY <1>1, ShapeFields
<1>4. ASSUME NEW i \in Live(page)
      PROVE  Extent(page, i) \subseteq page.bhd_upper .. BLOCKSIZE - 1
  BY <1>2, <1>3, Sizes
<1>5. ASSUME NEW i \in Live(page), NEW k \in Live(page), i # k
      PROVE  Extent(page, i) \cap Extent(page, k) = {}
  <2>1. After(page, k) <= Off(page, i) \/ After(page, i) <= Off(page, k)
    <3>1. i < k \/ k < i BY <1>2, <1>5
    <3> QED BY <3>1 DEF PageInv, Downwards
  <2> QED BY <1>2, <2>1
<1> QED BY <1>1, <1>4, <1>5, ShapeFields DEF Apart

Reads == Rows \cup {Deleted, Junk}

LEMMA ReadSeq ==
  ASSUME NEW page, page.bhd_offTableLen \in Nat
  PROVE  /\ Read(page) \in Seq(Reads) /\ Len(Read(page)) = page.bhd_offTableLen
         /\ \A i \in 1 .. page.bhd_offTableLen :
              Read(page)[i] = BLK_vGetTupleFromBlockwithIndex(page, i - 1)
<1>1. ASSUME NEW i PROVE BLK_vGetTupleFromBlockwithIndex(page, i) \in Reads
  BY DEF BLK_vGetTupleFromBlockwithIndex, Reads
<1>2. Read(page) \in [1 .. page.bhd_offTableLen -> Reads] BY <1>1 DEF Read
<1> DEFINE read == Read(page)
<1>3. \A i \in 1 .. page.bhd_offTableLen : read[i] = BLK_vGetTupleFromBlockwithIndex(page, i - 1)
  BY DEF Read
<1> HIDE DEF read
<1>4. read \in Seq(Reads) /\ Len(read) = page.bhd_offTableLen BY <1>2 DEF read
<1> QED BY <1>3, <1>4 DEF read

\* What a reader gets of a block is its lists of rows.
LEMMA ReadItem ==
  ASSUME NEW page, PageInv(page), NEW i \in Indexes(page)
  PROVE  /\ i \notin Live(page) => BLK_vGetTupleFromBlockwithIndex(page, i) = Deleted
         /\ i \in Live(page) =>
              \A row \in Rows : HasRow(page, i, row) =>
                BLK_vGetTupleFromBlockwithIndex(page, i) = row
<1>1. ItemWhole(page, i) /\ ItemAt(page, i) \in Items BY ShapeFields DEF PageInv
<1> QED BY <1>1, LiveFlag, ReadDeleted, ReadRow

\* Two blocks with the same flags and rows read the same.
LEMMA ReadSame ==
  ASSUME NEW old, NEW new, PageInv(old), PageInv(new),
         new.bhd_offTableLen = old.bhd_offTableLen,
         \A i \in Indexes(old) : i \in Live(new) <=> i \in Live(old),
         \A i \in Live(old), row \in Rows : HasRow(old, i, row) => HasRow(new, i, row)
  PROVE  Read(new) = Read(old)
<1>1. old.bhd_offTableLen \in Nat BY ShapeFields DEF PageInv
<1>2. Indexes(new) = Indexes(old) BY DEF Indexes
<1>3. ASSUME NEW i \in Indexes(old)
      PROVE  BLK_vGetTupleFromBlockwithIndex(new, i) = BLK_vGetTupleFromBlockwithIndex(old, i)
  <2>1. CASE i \notin Live(old) BY <1>2, <2>1, ReadItem
  <2>2. CASE i \in Live(old)
    <3>1. PICK row \in Rows : HasRow(old, i, row) BY <2>2 DEF PageInv
    <3> QED BY <1>2, <2>2, <3>1, ReadItem
  <2> QED BY <2>1, <2>2
<1>4. \A i \in 1 .. old.bhd_offTableLen : i - 1 \in Indexes(old) BY <1>1 DEF Indexes
<1> QED BY <1>3, <1>4 DEF Read

-----------------------------------------------------------------------------
\* The operations on a block.

LEMMA NewPageOK == PageInv(NewPage) /\ Read(NewPage) = <<>>
<1>1. /\ NewPage.bhd_lower = HeaderSize /\ NewPage.bhd_upper = BLOCKSIZE
      /\ NewPage.bhd_offTableLen = 0 /\ NewPage.mem = [q \in Places |-> ByteOf(Fill, 0)]
  BY DEF NewPage
<1>2. ByteOf(Fill, 0) \in [of : Rows \cup {Fill} \cup Items, k : Nat] BY DEF ByteOf
<1>3. NewPage \in Pages BY <1>2, Sizes DEF NewPage, Pages
<1>4. Indexes(NewPage) = {} BY <1>1 DEF Indexes
<1>5. ItemPlace(0) = HeaderSize BY ItemPlaces
<1>6. Shape(NewPage) BY <1>1, <1>3, <1>4, <1>5, Sizes DEF Shape, TableWhole
<1>7. Live(NewPage) = {} BY <1>4 DEF Live
<1>8. PageInv(NewPage) BY <1>6, <1>7 DEF PageInv, Downwards
<1>9. Read(NewPage) = <<>>
  <2>1. Len(Read(NewPage)) = 0 /\ Read(NewPage) \in Seq(Reads) BY <1>1, ReadSeq
  <2> QED BY <2>1
<1> QED BY <1>8, <1>9

LEMMA MemItem ==
  ASSUME NEW old, NEW new, new.mem = old.mem, NEW i
  PROVE  /\ ItemAt(new, i) = ItemAt(old, i) /\ (ItemWhole(new, i) <=> ItemWhole(old, i))
         /\ Off(new, i) = Off(old, i) /\ Lng(new, i) = Lng(old, i) /\ After(new, i) = After(old, i)
         /\ \A row : HasRow(new, i, row) <=> HasRow(old, i, row)
BY DEF ItemAt, ItemWhole, Off, Lng, After, HasRow

\* A tuple is put before the others, and its item behind the other items.
LEMMA InsertedOK ==
  ASSUME NEW page, PageInv(page), NEW row \in Rows,
         page.bhd_lower + ItemSize + LenOf[row] <= page.bhd_upper
  PROVE  PageInv(Inserted(page, row)) /\ Read(Inserted(page, row)) = Append(Read(page), row)
<1> DEFINE n == page.bhd_offTableLen
           len == LenOf[row]
           off == page.bhd_upper - len
           item == Item(off, 0, len)
           mem == Put(page.mem, off, row, len)
           content == [page EXCEPT !.mem = mem]
           listed == SetItem(content, n, item)
           new == [listed EXCEPT !.bhd_lower = @ + ItemSize, !.bhd_upper = off,
                                 !.bhd_offTableLen = @ + 1]
<1>1. Inserted(page, row) = new BY DEF Inserted
<1>2. /\ Shape(page) /\ page \in Pages /\ page.mem \in Mems /\ n \in Nat
      /\ page.bhd_lower \in Nat /\ page.bhd_upper \in Nat /\ page.bhd_upper <= BLOCKSIZE
      /\ page.bhd_lower = ItemPlace(n)
  BY ShapeFields DEF PageInv, Shape
<1>3. len \in Nat /\ len >= 1 BY Sizes
<1>4. /\ off \in Nat /\ page.bhd_lower + ItemSize <= off /\ off + len = page.bhd_upper
      /\ off <= BLOCKSIZE
  BY <1>2, <1>3, Sizes
<1> HIDE DEF off, len
<1>5. item \in Items /\ item.bo_off = off /\ item.bo_flag = 0 /\ item.bo_len = len
  BY <1>3, <1>4, Sizes DEF Item, Items
<1> HIDE DEF item
<1>6. /\ mem \in Mems /\ Holds(mem, off, row, len)
      /\ \A q \in Places : q < off \/ page.bhd_upper <= q => mem[q] = page.mem[q]
  <2>1. row \in Things BY DEF Things
  <2>2. /\ mem \in Mems
        /\ \A q \in Places : q < off \/ off + len <= q => mem[q] = page.mem[q]
        /\ off + len <= BLOCKSIZE => Holds(mem, off, row, len)
    BY <1>2, <1>3, <1>4, <2>1, PutMem
  <2> HIDE DEF mem
  <2> QED BY <1>2, <1>4, <2>2
<1> HIDE DEF mem
<1>7. /\ content \in Pages /\ content.mem = mem
      /\ content.bhd_lower = page.bhd_lower /\ content.bhd_upper = page.bhd_upper
      /\ content.bhd_offTableLen = n
  BY <1>2, <1>6 DEF Pages, Mems, Things
<1> HIDE DEF content
<1>8. ASSUME NEW i \in Indexes(page)
      PROVE  ItemWhole(content, i) /\ ItemAt(content, i) = ItemAt(page, i)
  <2>1. /\ i \in Nat /\ ItemPlace(i) \in Nat /\ ItemPlace(i) + ItemSize <= page.bhd_lower
        /\ ItemWhole(page, i)
    BY <1>2, ShapeFields
  <2>2. \A q \in Places : ItemPlace(i) <= q /\ q < ItemPlace(i) + ItemSize
          => content.mem[q] = page.mem[q]
    <3>1. Places \subseteq Int BY Sizes DEF Places
    <3>2. \A q \in Places : q < ItemPlace(i) + ItemSize => q < off
      BY <1>2, <1>4, <2>1, <3>1, Sizes
    <3> QED BY <1>6, <1>7, <3>2
  <2> QED BY <2>1, <2>2, ItemSame
<1>9. ItemPlace(n) + ItemSize = page.bhd_lower + ItemSize /\ ItemPlace(n + 1) = page.bhd_lower + ItemSize
      /\ ItemPlace(n) + ItemSize <= BLOCKSIZE
  <2>1. ItemPlace(n + 1) = ItemPlace(n) + ItemSize BY <1>2, ItemPlaces
  <2>2. page.bhd_lower + ItemSize <= BLOCKSIZE BY <1>2, <1>4, Sizes
  <2> QED BY <1>2, <2>1, <2>2
<1>10. /\ listed \in Pages
       /\ listed.bhd_lower = page.bhd_lower /\ listed.bhd_upper = page.bhd_upper
       /\ listed.bhd_offTableLen = n
       /\ ItemAt(listed, n) = item /\ ItemWhole(listed, n)
       /\ \A k \in Nat : k # n /\ ItemWhole(content, k) =>
            ItemWhole(listed, k) /\ ItemAt(listed, k) = ItemAt(content, k)
       /\ \A q \in Places : ItemPlace(n) + ItemSize <= q => listed.mem[q] = content.mem[q]
  BY <1>2, <1>5, <1>7, <1>9, SetItemOK
<1> HIDE DEF listed
<1>11. /\ new \in Pages /\ new.mem = listed.mem /\ new.bhd_offTableLen = n + 1
       /\ new.bhd_lower = page.bhd_lower + ItemSize /\ new.bhd_upper = off
  <2>1. new = [listed EXCEPT !.bhd_lower = page.bhd_lower + ItemSize, !.bhd_upper = off,
                             !.bhd_offTableLen = n + 1]
    BY <1>10
  <2>2. page.bhd_lower + ItemSize \in Nat /\ n + 1 \in Nat BY <1>2, Sizes
  <2> QED BY <1>4, <1>10, <2>1, <2>2 DEF Pages
<1> HIDE DEF new
<1>12. ASSUME NEW i \in Indexes(page)
       PROVE  ItemWhole(new, i) /\ ItemAt(new, i) = ItemAt(page, i)
  <2>1. i \in Nat /\ i # n BY <1>2 DEF Indexes
  <2>2. ItemWhole(listed, i) /\ ItemAt(listed, i) = ItemAt(page, i) BY <1>8, <1>10, <2>1
  <2> QED BY <1>11, <2>2, MemItem
<1>13. ItemWhole(new, n) /\ ItemAt(new, n) = item BY <1>10, <1>11, MemItem
<1>14. Indexes(new) = Indexes(page) \cup {n} /\ n \notin Indexes(page)
  BY <1>2, <1>11 DEF Indexes
<1>15. Shape(new)
  <2>1. TableWhole(new) BY <1>2, <1>5, <1>12, <1>13, <1>14 DEF TableWhole, Shape
  <2> QED BY <1>4, <1>9, <1>11, <2>1 DEF Shape
<1>16. \A i : i \in Live(new) <=> i \in Live(page) \/ i = n
  BY <1>5, <1>12, <1>13, <1>14, LiveFlag
<1>17. \A q \in Places : page.bhd_upper <= q => new.mem[q] = page.mem[q]
  <2>1. \A q \in Places : page.bhd_upper <= q => q \in Int /\ ItemPlace(n) + ItemSize <= q
    BY <1>2, <1>4, <1>9, Sizes DEF Places
  <2> QED BY <1>6, <1>7, <1>10, <1>11, <2>1
<1>18. Off(new, n) = off /\ Lng(new, n) = len /\ After(new, n) = page.bhd_upper
  BY <1>4, <1>5, <1>13 DEF Off, Lng, After
<1>19. HasRow(new, n, row)
  <2>1. \A q \in Places : off <= q /\ q < off + len => new.mem[q] = mem[q]
    <3>1. \A q \in Places : off <= q => q \in Int /\ ItemPlace(n) + ItemSize <= q
      BY <1>2, <1>4, <1>9, Sizes DEF Places
    <3> QED BY <1>7, <1>10, <1>11, <3>1
  <2>2. Holds(new.mem, off, row, len) BY <1>3, <1>4, <1>6, <2>1, HoldsSame
  <2> QED BY <1>18, <2>2 DEF HasRow, len
<1>20. ASSUME NEW i \in Live(page)
       PROVE  /\ Off(new, i) = Off(page, i) /\ After(new, i) = After(page, i)
              /\ page.bhd_upper <= Off(page, i) /\ After(page, i) <= BLOCKSIZE
              /\ Off(page, i) \in Nat
              /\ \A r \in Rows : HasRow(page, i, r) => HasRow(new, i, r)
  <2>1. i \in Indexes(page) /\ page.bhd_upper <= Off(page, i) /\ After(page, i) <= BLOCKSIZE
    BY LiveFlag DEF PageInv
  <2>2. ItemAt(new, i) = ItemAt(page, i) /\ ItemAt(page, i) \in Items /\ Off(page, i) \in Nat
    BY <1>2, <1>12, <2>1, ShapeFields
  <2>3. \A q \in Places : Off(page, i) <= q => new.mem[q] = page.mem[q]
    <3>1. \A q \in Places : Off(page, i) <= q => page.bhd_upper <= q
      BY <1>2, <2>1, <2>2, Sizes DEF Places
    <3> QED BY <1>17, <3>1
  <2>4. \A r \in Rows : HasRow(page, i, r) => HasRow(new, i, r)
    BY <2>2, <2>3, HasRowSame
  <2> QED BY <2>1, <2>2, <2>4 DEF Off, Lng, After
<1>21. PageInv(new)
  <2>1. ASSUME NEW i \in Live(new)
        PROVE  /\ new.bhd_upper <= Off(new, i) /\ After(new, i) <= BLOCKSIZE
               /\ \E r \in Rows : HasRow(new, i, r)
    <3>1. CASE i = n BY <1>2, <1>4, <1>11, <1>18, <1>19, <3>1
    <3>2. CASE i \in Live(page)
      <4>1. \E r \in Rows : HasRow(page, i, r) BY <3>2 DEF PageInv
      <4>2. off <= Off(page, i) BY <1>2, <1>3, <1>4, <1>20, <3>2
      <4> QED BY <1>11, <1>20, <3>2, <4>1, <4>2
    <3> QED BY <1>16, <3>1, <3>2
  <2>2. ASSUME NEW i \in Live(new), NEW k \in Live(new), i < k
        PROVE  After(new, k) <= Off(new, i)
    <3>1. \A m \in Live(page) : m \in Nat /\ m < n BY <1>2, LiveFlag DEF Indexes
    <3>2. i \in Live(page) BY <1>2, <1>16, <2>2, <3>1
    <3>3. CASE k = n BY <1>18, <1>20, <3>2, <3>3
    <3>4. CASE k \in Live(page)
      BY <1>20, <2>2, <3>2, <3>4 DEF PageInv, Downwards
    <3> QED BY <1>16, <3>3, <3>4
  <2> QED BY <1>15, <2>1, <2>2 DEF PageInv, Downwards
<1>22. Read(new) = Append(Read(page), row)
  <2>1. /\ Read(page) \in Seq(Reads) /\ Len(Read(page)) = n
        /\ Read(new) \in Seq(Reads) /\ Len(Read(new)) = n + 1 /\ row \in Reads
        /\ \A i \in 1 .. n : Read(page)[i] = BLK_vGetTupleFromBlockwithIndex(page, i - 1)
        /\ \A i \in 1 .. n + 1 : Read(new)[i] = BLK_vGetTupleFromBlockwithIndex(new, i - 1)
    BY <1>2, <1>11, ReadSeq DEF Reads
  <2>2. ASSUME NEW i \in Indexes(page)
        PROVE  BLK_vGetTupleFromBlockwithIndex(new, i) = BLK_vGetTupleFromBlockwithIndex(page, i)
    <3>1. CASE i \notin Live(page) BY <1>14, <1>16, <1>21, <3>1, ReadItem
    <3>2. CASE i \in Live(page)
      <4>1. PICK r \in Rows : HasRow(page, i, r) BY <3>2 DEF PageInv
      <4> QED BY <1>14, <1>16, <1>20, <1>21, <3>2, <4>1, ReadItem
    <3> QED BY <3>1, <3>2
  <2>3. BLK_vGetTupleFromBlockwithIndex(new, n) = row
    BY <1>14, <1>16, <1>19, <1>21, ReadItem
  <2>4. ASSUME NEW i \in 1 .. n + 1 PROVE Read(new)[i] = Append(Read(page), row)[i]
    <3>1. CASE i = n + 1
      <4>1. Read(new)[n + 1] = BLK_vGetTupleFromBlockwithIndex(new, n + 1 - 1) BY <2>1, <1>2
      <4>2. n + 1 - 1 = n BY <1>2
      <4> QED BY <2>1, <2>3, <3>1, <4>1, <4>2, AppendProperties
    <3>2. CASE i \in 1 .. n
      <4>1. i - 1 \in Indexes(page) BY <1>2, <3>2 DEF Indexes
      <4> QED BY <2>1, <2>2, <3>2, <4>1, AppendProperties
    <3>3. i = n + 1 \/ i \in 1 .. n BY <1>2
    <3> QED BY <3>1, <3>2, <3>3
  <2>5. Append(Read(page), row) \in Seq(Reads) /\ Len(Append(Read(page), row)) = n + 1
    BY <2>1, AppendProperties
  <2> HIDE DEF Reads
  <2> QED BY <2>1, <2>4, <2>5, SeqEqual
<1> QED BY <1>1, <1>21, <1>22

\* An item of the table is changed.
LEMMA SetItemShape ==
  ASSUME NEW page, Shape(page), NEW i \in Indexes(page), NEW item \in Items
  PROVE  /\ Shape(SetItem(page, i, item))
         /\ SetItem(page, i, item).bhd_lower = page.bhd_lower
         /\ SetItem(page, i, item).bhd_upper = page.bhd_upper
         /\ SetItem(page, i, item).bhd_offTableLen = page.bhd_offTableLen
         /\ Indexes(SetItem(page, i, item)) = Indexes(page)
         /\ ItemAt(SetItem(page, i, item), i) = item
         /\ \A k \in Indexes(page) : k # i => ItemAt(SetItem(page, i, item), k) = ItemAt(page, k)
         /\ \A q \in Places : page.bhd_lower <= q =>
              SetItem(page, i, item).mem[q] = page.mem[q]
<1> DEFINE new == SetItem(page, i, item)
<1>1. /\ page \in Pages /\ i \in Nat /\ ItemPlace(i) \in Nat
      /\ ItemPlace(i) + ItemSize <= page.bhd_lower
      /\ page.bhd_lower \in Nat /\ page.bhd_upper \in Nat
      /\ page.bhd_lower <= page.bhd_upper /\ page.bhd_upper <= BLOCKSIZE
  BY ShapeFields DEF Shape
<1>2. ItemPlace(i) + ItemSize <= BLOCKSIZE BY <1>1, Sizes
<1>3. /\ new \in Pages
      /\ new.bhd_lower = page.bhd_lower /\ new.bhd_upper = page.bhd_upper
      /\ new.bhd_offTableLen = page.bhd_offTableLen
      /\ ItemAt(new, i) = item /\ ItemWhole(new, i)
      /\ \A k \in Nat : k # i /\ ItemWhole(page, k) =>
           ItemWhole(new, k) /\ ItemAt(new, k) = ItemAt(page, k)
      /\ \A q \in Places : ItemPlace(i) + ItemSize <= q => new.mem[q] = page.mem[q]
  BY <1>1, <1>2, SetItemOK
<1> HIDE DEF new
<1>4. Indexes(new) = Indexes(page) BY <1>3 DEF Indexes
<1>5. \A k \in Indexes(page) :
        /\ ItemWhole(new, k) /\ ItemAt(new, k) \in Items
        /\ k # i => ItemAt(new, k) = ItemAt(page, k)
  <2>1. \A k \in Indexes(page) : k \in Nat /\ ItemWhole(page, k) /\ ItemAt(page, k) \in Items
    BY ShapeFields
  <2> QED BY <1>3, <2>1
<1>6. Shape(new) BY <1>3, <1>4, <1>5 DEF Shape, TableWhole
<1>7. \A q \in Places : page.bhd_lower <= q => new.mem[q] = page.mem[q]
  <2>1. \A q \in Places : page.bhd_lower <= q => ItemPlace(i) + ItemSize <= q
    BY <1>1, Sizes DEF Places
  <2> QED BY <1>3, <2>1
<1> QED BY <1>3, <1>4, <1>5, <1>6, <1>7 DEF new

\* A tuple is marked as deleted.
LEMMA FlaggedOK ==
  ASSUME NEW page, PageInv(page), NEW i \in Indexes(page)
  PROVE  /\ PageInv(Flagged(page, i))
         /\ Read(Flagged(page, i)) = [Read(page) EXCEPT ![i + 1] = Deleted]
<1> DEFINE item == [ItemAt(page, i) EXCEPT !.bo_flag = 1]
           new == SetItem(page, i, item)
<1>1. Shape(page) /\ i \in Nat /\ ItemAt(page, i) \in Items
      /\ page.bhd_offTableLen \in Nat
  BY ShapeFields DEF PageInv
<1>2. item \in Items /\ item.bo_flag = 1 BY <1>1 DEF Items
<1> HIDE DEF item
<1>3. /\ Shape(new) /\ new.bhd_offTableLen = page.bhd_offTableLen
      /\ new.bhd_upper = page.bhd_upper /\ Indexes(new) = Indexes(page)
      /\ ItemAt(new, i) = item
      /\ \A k \in Indexes(page) : k # i => ItemAt(new, k) = ItemAt(page, k)
      /\ \A q \in Places : page.bhd_lower <= q => new.mem[q] = page.mem[q]
  BY <1>1, <1>2, SetItemShape
<1> HIDE DEF new
<1>4. \A k : k \in Live(new) <=> k \in Live(page) /\ k # i
  BY <1>2, <1>3, LiveFlag
<1>5. ASSUME NEW k \in Live(new)
      PROVE  /\ k \in Live(page) /\ Off(new, k) = Off(page, k) /\ After(new, k) = After(page, k)
             /\ \A r \in Rows : HasRow(page, k, r) => HasRow(new, k, r)
  <2>1. k \in Live(page) /\ k \in Indexes(page) /\ k # i BY <1>4, LiveFlag
  <2>2. /\ ItemAt(new, k) = ItemAt(page, k) /\ ItemAt(page, k) \in Items
        /\ Off(page, k) \in Nat /\ page.bhd_lower \in Nat /\ page.bhd_upper \in Nat
        /\ page.bhd_lower <= page.bhd_upper /\ page.bhd_upper <= Off(page, k)
    BY <1>1, <1>3, <2>1, ShapeFields DEF PageInv, Shape
  <2>3. \A q \in Places : Off(page, k) <= q => new.mem[q] = page.mem[q]
    <3>1. \A q \in Places : Off(page, k) <= q => page.bhd_lower <= q
      BY <2>2, Sizes DEF Places
    <3> QED BY <1>3, <3>1
  <2>4. \A r \in Rows : HasRow(page, k, r) => HasRow(new, k, r)
    BY <2>2, <2>3, HasRowSame
  <2> QED BY <2>1, <2>2, <2>4 DEF Off, Lng, After
<1>6. PageInv(new)
  <2>1. ASSUME NEW k \in Live(new)
        PROVE  /\ new.bhd_upper <= Off(new, k) /\ After(new, k) <= BLOCKSIZE
               /\ \E r \in Rows : HasRow(new, k, r)
    <3>1. PICK r \in Rows : HasRow(page, k, r) BY <1>5 DEF PageInv
    <3> QED BY <1>3, <1>5, <3>1 DEF PageInv
  <2>2. Downwards(new, Live(new)) BY <1>5 DEF PageInv, Downwards
  <2> QED BY <1>3, <2>1, <2>2 DEF PageInv
<1>7. ASSUME NEW k \in Indexes(page)
      PROVE  BLK_vGetTupleFromBlockwithIndex(new, k) =
               IF k = i THEN Deleted ELSE BLK_vGetTupleFromBlockwithIndex(page, k)
  <2>1. CASE k \notin Live(new) BY <1>3, <1>4, <1>6, <2>1, ReadItem
  <2>2. CASE k \in Live(new)
    <3>1. PICK r \in Rows : HasRow(page, k, r) BY <1>5, <2>2 DEF PageInv
    <3> QED BY <1>3, <1>4, <1>5, <1>6, <2>2, <3>1, ReadItem
  <2> QED BY <2>1, <2>2
<1>8. Read(new) = [Read(page) EXCEPT ![i + 1] = Deleted]
  <2>1. \A m \in 1 .. page.bhd_offTableLen : m - 1 \in Indexes(page) /\ (m - 1 = i <=> m = i + 1)
    BY <1>1 DEF Indexes
  <2>2. /\ Read(page) = [m \in 1 .. page.bhd_offTableLen |->
                           BLK_vGetTupleFromBlockwithIndex(page, m - 1)]
        /\ Read(new) = [m \in 1 .. page.bhd_offTableLen |->
                          BLK_vGetTupleFromBlockwithIndex(new, m - 1)]
    BY <1>3 DEF Read
  <2> QED BY <1>7, <2>1, <2>2
<1> QED BY <1>6, <1>8 DEF Flagged, new, item

-----------------------------------------------------------------------------
\* Packing. v is the vacuum's state and old the block in the file.

Ends(v, old, i) == IF i = v.index THEN After(old, i) - v.j ELSE After(old, i)

\* The copy has the items of the block, but for their offsets.
SameItems(v, old) ==
  /\ Shape(v.page)
  /\ v.page.bhd_lower = old.bhd_lower /\ v.page.bhd_upper = old.bhd_upper
  /\ v.page.bhd_offTableLen = old.bhd_offTableLen
  /\ \A i \in Indexes(old) :
       /\ ItemAt(v.page, i).bo_flag = ItemAt(old, i).bo_flag
       /\ Lng(v.page, i) = Lng(old, i)

\* handleindex is behind the table, and j bytes of the tuple at index are moved.
Cursor(v, old) ==
  /\ v.index \in 0 .. old.bhd_offTableLen /\ v.j \in Nat
  /\ v.handleindex \in Int /\ old.bhd_lower <= v.handleindex + 1
  /\ v.handleindex + 1 + v.j <= BLOCKSIZE
  /\ v.j # 0 => v.index \in Live(old) /\ v.j <= Lng(old, v.index)

\* What is not moved yet lies below handleindex, where nothing was written.
Unmoved(v, old) ==
  /\ \A i \in Indexes(old) : v.index <= i => ItemAt(v.page, i) = ItemAt(old, i)
  /\ \A q \in Places : old.bhd_lower <= q /\ q <= v.handleindex => v.page.mem[q] = old.mem[q]
  /\ \A i \in Live(old) : v.index <= i => Ends(v, old, i) <= v.handleindex + 1

\* The tuples before index are packed, and behind handleindex are the bytes moved.
Moved(v, old) ==
  /\ \A i \in Live(old) : i < v.index =>
       /\ v.handleindex + 1 + v.j <= Off(v.page, i)
       /\ After(v.page, i) <= BLOCKSIZE
       /\ \A row \in Rows : HasRow(old, i, row) => HasRow(v.page, i, row)
  /\ Downwards(v.page, {i \in Live(old) : i < v.index})
  /\ \A m \in 1 .. v.j :
       v.page.mem[v.handleindex + m] = old.mem[After(old, v.index) - v.j + m - 1]

Packing(v, old) ==
  /\ v = [bnum |-> v.bnum, page |-> v.page, index |-> v.index, j |-> v.j,
          handleindex |-> v.handleindex]
  /\ SameItems(v, old) /\ Cursor(v, old) /\ Unmoved(v, old) /\ Moved(v, old)

\* What a proof about a step of the packing starts from.
LEMMA OldLive ==
  ASSUME NEW old, PageInv(old)
  PROVE  /\ old.bhd_offTableLen \in Nat /\ old.bhd_lower \in Nat /\ old.bhd_upper \in Nat
         /\ old.bhd_lower <= old.bhd_upper
         /\ \A i \in Live(old) :
              /\ i \in Indexes(old) /\ i \in Nat /\ i < old.bhd_offTableLen
              /\ Off(old, i) \in Nat /\ Lng(old, i) \in Nat
              /\ After(old, i) = Off(old, i) + Lng(old, i)
              /\ old.bhd_lower <= Off(old, i) /\ After(old, i) <= BLOCKSIZE
         /\ \A i, k \in Live(old) : i < k => After(old, k) <= Off(old, i)
<1>1. Shape(old) BY DEF PageInv
<1>2. /\ old.bhd_offTableLen \in Nat /\ old.bhd_lower \in Nat /\ old.bhd_upper \in Nat
      /\ old.bhd_lower <= old.bhd_upper
  BY <1>1, ShapeFields DEF Shape
<1>3. ASSUME NEW i \in Live(old)
      PROVE  /\ i \in Indexes(old) /\ i \in Nat /\ i < old.bhd_offTableLen
             /\ Off(old, i) \in Nat /\ Lng(old, i) \in Nat
             /\ After(old, i) = Off(old, i) + Lng(old, i)
             /\ old.bhd_lower <= Off(old, i) /\ After(old, i) <= BLOCKSIZE
  <2>1. i \in Indexes(old) BY LiveFlag
  <2>2. i \in Nat /\ i < old.bhd_offTableLen BY <1>2, <2>1 DEF Indexes
  <2>3. Off(old, i) \in Nat /\ Lng(old, i) \in Nat BY <1>1, <2>1, ShapeFields
  <2>4. old.bhd_upper <= Off(old, i) /\ After(old, i) <= BLOCKSIZE BY DEF PageInv
  <2> QED BY <1>2, <2>1, <2>2, <2>3, <2>4 DEF After
<1> QED BY <1>2, <1>3 DEF PageInv, Downwards

LEMMA PackBegins ==
  ASSUME NEW old, PageInv(old), NEW b
  PROVE  Packing([bnum |-> b, page |-> old, index |-> 0, j |-> 0,
                  handleindex |-> BLOCKSIZE - 1], old)
<1> DEFINE v == [bnum |-> b, page |-> old, index |-> 0, j |-> 0, handleindex |-> BLOCKSIZE - 1]
<1>1. /\ v = [bnum |-> v.bnum, page |-> v.page, index |-> v.index, j |-> v.j,
              handleindex |-> v.handleindex]
      /\ v.page = old /\ v.index = 0 /\ v.j = 0 /\ v.handleindex = BLOCKSIZE - 1
  OBVIOUS
<1> HIDE DEF v
<1>2. Shape(old) BY DEF PageInv
<1>3. SameItems(v, old) BY <1>1, <1>2 DEF SameItems
<1>4. Cursor(v, old)
  <2>1. old.bhd_lower <= BLOCKSIZE BY <1>2, OldLive, Sizes DEF Shape
  <2> QED BY <1>1, <2>1, OldLive, Sizes DEF Cursor
<1>5. Unmoved(v, old)
  <2>1. \A i \in Live(old) : Ends(v, old, i) <= v.handleindex + 1
    BY <1>1, OldLive, Sizes DEF Ends
  <2> QED BY <1>1, <2>1 DEF Unmoved
<1>6. Moved(v, old) BY <1>1, OldLive DEF Moved, Downwards
<1>7. Packing(v, old) BY <1>1, <1>3, <1>4, <1>5, <1>6 DEF Packing
<1> QED BY <1>7 DEF v

\* A tuple that is packed stays as it is when its bytes and its item do.
LEMMA PackedSame ==
  ASSUME NEW v, NEW w, NEW old, PageInv(old), Packing(v, old), NEW i \in Live(old),
         i < v.index, ItemAt(w.page, i) = ItemAt(v.page, i),
         \A q \in Places : v.handleindex + 1 + v.j <= q => w.page.mem[q] = v.page.mem[q]
  PROVE  /\ Off(w.page, i) = Off(v.page, i) /\ After(w.page, i) = After(v.page, i)
         /\ After(w.page, i) <= BLOCKSIZE
         /\ v.handleindex + 1 + v.j <= Off(w.page, i)
         /\ \A row \in Rows : HasRow(old, i, row) => HasRow(w.page, i, row)
<1>1. /\ v.handleindex + 1 + v.j <= Off(v.page, i) /\ After(v.page, i) <= BLOCKSIZE
      /\ \A row \in Rows : HasRow(old, i, row) => HasRow(v.page, i, row)
      /\ v.handleindex \in Int /\ v.j \in Nat
  BY DEF Packing, Moved, Cursor
<1>2. Indexes(v.page) = Indexes(old) /\ i \in Indexes(old) /\ Shape(v.page)
  BY OldLive DEF Packing, SameItems, Indexes
<1>3. ItemAt(v.page, i) \in Items /\ Off(v.page, i) \in Nat BY <1>2, ShapeFields
<1>4. Off(w.page, i) = Off(v.page, i) /\ After(w.page, i) = After(v.page, i)
  BY DEF Off, Lng, After
<1>5. \A q \in Places : Off(v.page, i) <= q => w.page.mem[q] = v.page.mem[q]
  <2>1. \A q \in Places : Off(v.page, i) <= q => v.handleindex + 1 + v.j <= q
    BY <1>1, <1>3, Sizes DEF Places
  <2> QED BY <2>1
<1>6. \A row \in Rows : HasRow(old, i, row) => HasRow(w.page, i, row)
  BY <1>1, <1>3, <1>5, HasRowSame
<1> QED BY <1>1, <1>4, <1>6

\* The place of the item that the loops are at.
LEMMA PackItem ==
  ASSUME NEW v, NEW old, PageInv(old), Packing(v, old), v.index < v.page.bhd_offTableLen
  PROVE  /\ v.index \in Indexes(old) /\ v.index \in Indexes(v.page) /\ v.index \in Nat
         /\ Indexes(v.page) = Indexes(old)
         /\ ItemAt(v.page, v.index) = ItemAt(old, v.index)
         /\ ItemAt(old, v.index) \in Items
         /\ v.index \in Live(old) <=> ItemAt(v.page, v.index).bo_flag # 1
<1>1. /\ v.page.bhd_offTableLen = old.bhd_offTableLen /\ v.index \in Nat
      /\ old.bhd_offTableLen \in Nat /\ Shape(old)
  BY OldLive DEF Packing, SameItems, Cursor, PageInv
<1>2. v.index \in Indexes(old) /\ Indexes(v.page) = Indexes(old) BY <1>1 DEF Indexes
<1>3. ItemAt(v.page, v.index) = ItemAt(old, v.index) BY <1>1, <1>2 DEF Packing, Unmoved
<1>4. ItemAt(old, v.index) \in Items BY <1>1, <1>2, ShapeFields
<1> QED BY <1>1, <1>2, <1>3, <1>4, LiveFlag

\* The item of a deleted tuple gets the offset 0.
LEMMA SkipOK ==
  ASSUME NEW v, NEW old, PageInv(old), Packing(v, old), v.index < v.page.bhd_offTableLen,
         ItemAt(v.page, v.index).bo_flag = 1,
         NEW w,
         w = [bnum |-> v.bnum,
              page |-> SetItem(v.page, v.index, [ItemAt(v.page, v.index) EXCEPT !.bo_off = 0]),
              index |-> v.index + 1, j |-> v.j, handleindex |-> v.handleindex]
  PROVE  Packing(w, old)
<1> DEFINE item == [ItemAt(v.page, v.index) EXCEPT !.bo_off = 0]
           page == SetItem(v.page, v.index, item)
<1>1. /\ w.bnum = v.bnum /\ w.page = page /\ w.index = v.index + 1 /\ w.j = v.j
      /\ w.handleindex = v.handleindex
      /\ w = [bnum |-> w.bnum, page |-> w.page, index |-> w.index, j |-> w.j,
              handleindex |-> w.handleindex]
  OBVIOUS
<1>2. /\ v.index \in Indexes(old) /\ v.index \in Indexes(v.page) /\ v.index \in Nat
      /\ Indexes(v.page) = Indexes(old) /\ ItemAt(old, v.index) \in Items
      /\ ItemAt(v.page, v.index) = ItemAt(old, v.index)
      /\ v.index \notin Live(old)
  BY PackItem
<1>3. item \in Items /\ item.bo_flag = 1 /\ item.bo_len = Lng(old, v.index)
  BY <1>2, Sizes DEF Items, Lng
<1> HIDE DEF item
<1>4. /\ SameItems(v, old) /\ Cursor(v, old) /\ Unmoved(v, old) /\ Moved(v, old)
      /\ Shape(v.page) /\ v.page.bhd_lower = old.bhd_lower
      /\ v.j = 0 /\ v.handleindex \in Int /\ old.bhd_lower <= v.handleindex + 1
  BY <1>2 DEF Packing, SameItems, Cursor
<1>5. /\ Shape(page) /\ page.bhd_lower = old.bhd_lower /\ page.bhd_upper = old.bhd_upper
      /\ page.bhd_offTableLen = old.bhd_offTableLen
      /\ ItemAt(page, v.index) = item
      /\ \A k \in Indexes(old) : k # v.index => ItemAt(page, k) = ItemAt(v.page, k)
      /\ \A q \in Places : old.bhd_lower <= q => page.mem[q] = v.page.mem[q]
  BY <1>2, <1>3, <1>4, SetItemShape DEF SameItems
<1> HIDE DEF page
<1>6. SameItems(w, old)
  <2>1. ASSUME NEW i \in Indexes(old)
        PROVE  /\ ItemAt(page, i).bo_flag = ItemAt(old, i).bo_flag
               /\ Lng(page, i) = Lng(old, i)
    <3>1. CASE i = v.index
      <4>1. ItemAt(old, v.index).bo_flag = 1 BY <1>2
      <4> QED BY <1>3, <1>5, <3>1, <4>1 DEF Lng
    <3>2. CASE i # v.index BY <1>4, <1>5, <3>2 DEF SameItems, Lng
    <3> QED BY <3>1, <3>2
  <2> QED BY <1>1, <1>5, <2>1 DEF SameItems
<1>7. Cursor(w, old)
  <2>1. v.index + 1 \in 0 .. old.bhd_offTableLen BY <1>2, OldLive DEF Indexes
  <2> QED BY <1>1, <1>4, <2>1 DEF Cursor
<1>8. Unmoved(w, old)
  <2>1. ASSUME NEW i \in Indexes(old), w.index <= i PROVE ItemAt(w.page, i) = ItemAt(old, i)
    <3>1. i \in Nat /\ v.index <= i /\ i # v.index
      BY <1>1, <1>2, <2>1, OldLive DEF Indexes
    <3> QED BY <1>1, <1>4, <1>5, <3>1 DEF Unmoved
  <2>2. \A q \in Places : old.bhd_lower <= q /\ q <= w.handleindex => w.page.mem[q] = old.mem[q]
    BY <1>1, <1>4, <1>5 DEF Unmoved
  <2>3. ASSUME NEW i \in Live(old), w.index <= i PROVE Ends(w, old, i) <= w.handleindex + 1
    <3>1. i \in Nat /\ v.index <= i /\ After(old, i) \in Int BY <1>1, <1>2, <2>3, OldLive
    <3>2. Ends(v, old, i) <= v.handleindex + 1 BY <1>4, <3>1 DEF Unmoved
    <3> QED BY <1>1, <1>4, <3>1, <3>2 DEF Ends
  <2> QED BY <2>1, <2>2, <2>3 DEF Unmoved
<1>9. ASSUME NEW i \in Live(old), i < w.index
      PROVE  /\ i < v.index
             /\ Off(w.page, i) = Off(v.page, i) /\ After(w.page, i) = After(v.page, i)
             /\ After(w.page, i) <= BLOCKSIZE
             /\ v.handleindex + 1 + v.j <= Off(w.page, i)
             /\ \A row \in Rows : HasRow(old, i, row) => HasRow(w.page, i, row)
  <2>1. i \in Nat /\ i \in Indexes(old) /\ i # v.index /\ i < v.index
    BY <1>1, <1>2, <1>9, OldLive
  <2>2. \A q \in Places : v.handleindex + 1 + v.j <= q => w.page.mem[q] = v.page.mem[q]
    <3>1. \A q \in Places : v.handleindex + 1 + v.j <= q => old.bhd_lower <= q
      BY <1>4, OldLive, Sizes DEF Places
    <3> QED BY <1>1, <1>5, <3>1
  <2> QED BY <1>1, <1>5, <2>1, <2>2, PackedSame
<1>10. Moved(w, old)
  <2>1. Downwards(w.page, {i \in Live(old) : i < w.index})
    BY <1>4, <1>9 DEF Moved, Downwards
  <2>2. \A m \in 1 .. w.j : FALSE BY <1>1, <1>4
  <2> QED BY <1>1, <1>4, <1>9, <2>1, <2>2 DEF Moved
<1> QED BY <1>1, <1>6, <1>7, <1>8, <1>10 DEF Packing

\* A byte of a tuple is moved: the one before those moved already, to the place
\* before them.
LEMMA MoveOK ==
  ASSUME NEW v, NEW old, PageInv(old), Packing(v, old), v.index < v.page.bhd_offTableLen,
         ItemAt(v.page, v.index).bo_flag # 1, v.j < Lng(v.page, v.index),
         NEW w,
         w = [bnum |-> v.bnum,
              page |-> [v.page EXCEPT !.mem = [v.page.mem EXCEPT ![v.handleindex] =
                          v.page.mem[MoveFrom(ItemAt(v.page, v.index), v.j)]]],
              index |-> v.index, j |-> v.j + 1, handleindex |-> v.handleindex - 1]
  PROVE  Packing(w, old)
<1> DEFINE k == v.index
           h == v.handleindex
           src == MoveFrom(ItemAt(v.page, k), v.j)
           mem == [v.page.mem EXCEPT ![h] = v.page.mem[src]]
           page == [v.page EXCEPT !.mem = mem]
<1>1. /\ w.bnum = v.bnum /\ w.page = page /\ w.index = k /\ w.j = v.j + 1
      /\ w.handleindex = h - 1
      /\ w = [bnum |-> w.bnum, page |-> w.page, index |-> w.index, j |-> w.j,
              handleindex |-> w.handleindex]
  OBVIOUS
<1>2. /\ k \in Indexes(old) /\ k \in Nat /\ Indexes(v.page) = Indexes(old)
      /\ ItemAt(v.page, k) = ItemAt(old, k) /\ k \in Live(old)
      /\ Lng(v.page, k) = Lng(old, k) /\ Off(v.page, k) = Off(old, k)
  BY PackItem DEF Lng, Off
<1>3. /\ SameItems(v, old) /\ Cursor(v, old) /\ Unmoved(v, old) /\ Moved(v, old)
      /\ Shape(v.page) /\ v.page.bhd_lower = old.bhd_lower /\ v.page \in Pages
      /\ v.page.mem \in Mems
      /\ v.j \in Nat /\ h \in Int /\ h + 1 + v.j <= BLOCKSIZE
      /\ v.j < Lng(old, k)
  BY <1>2, ShapeFields DEF Packing, SameItems, Cursor, Shape
<1>4. src = After(old, k) - v.j - 1
  <2>1. Off(old, k) \in Nat /\ Lng(old, k) \in Nat /\ After(old, k) = Off(old, k) + Lng(old, k)
    BY <1>2, OldLive
  <2>2. src = Off(old, k) + Lng(old, k) - 1 - v.j BY <1>2 DEF MoveFrom, Off, Lng
  <2> QED BY <1>3, <2>1, <2>2
<1> HIDE DEF src
<1>5. /\ src \in Int /\ old.bhd_lower <= src /\ src <= h
      /\ src \in Places /\ h \in Places /\ old.bhd_lower <= h
  <2>1. /\ Off(old, k) \in Nat /\ Lng(old, k) \in Nat /\ old.bhd_lower \in Nat
        /\ After(old, k) = Off(old, k) + Lng(old, k) /\ old.bhd_lower <= Off(old, k)
    BY <1>2, OldLive
  <2>2. Ends(v, old, k) <= h + 1 BY <1>2, <1>3 DEF Unmoved
  <2>3. After(old, k) - v.j <= h + 1 BY <2>2 DEF Ends
  <2>4. src \in Int /\ old.bhd_lower <= src /\ src <= h BY <1>3, <1>4, <2>1, <2>3
  <2>5. 0 <= src /\ h <= BLOCKSIZE - 1 BY <1>3, <2>1, <2>4, Sizes
  <2> QED BY <1>3, <2>1, <2>4, <2>5, Sizes DEF Places
<1>6. /\ mem \in Mems /\ mem[h] = v.page.mem[src]
      /\ \A q \in Places : q # h => mem[q] = v.page.mem[q]
  BY <1>3, <1>5 DEF Mems
<1> HIDE DEF mem
<1>7. /\ page \in Pages /\ page.mem = mem
      /\ page.bhd_lower = v.page.bhd_lower /\ page.bhd_upper = v.page.bhd_upper
      /\ page.bhd_offTableLen = v.page.bhd_offTableLen
  BY <1>3, <1>6 DEF Pages, Mems, Things
<1> HIDE DEF page
<1>8. ASSUME NEW i \in Indexes(old)
      PROVE  ItemWhole(page, i) /\ ItemAt(page, i) = ItemAt(v.page, i)
             /\ ItemAt(v.page, i) \in Items
  <2>1. /\ i \in Nat /\ ItemPlace(i) \in Nat /\ ItemPlace(i) + ItemSize <= v.page.bhd_lower
        /\ ItemWhole(v.page, i) /\ ItemAt(v.page, i) \in Items
    BY <1>2, <1>3, ShapeFields
  <2>2. \A q \in Places : ItemPlace(i) <= q /\ q < ItemPlace(i) + ItemSize
          => page.mem[q] = v.page.mem[q]
    <3>1. \A q \in Places : q < ItemPlace(i) + ItemSize => q # h
      BY <1>3, <1>5, <2>1, Sizes, OldLive DEF Places
    <3> QED BY <1>6, <1>7, <3>1
  <2> QED BY <2>1, <2>2, ItemSame
<1>9. Indexes(page) = Indexes(old) BY <1>2, <1>7 DEF Indexes
<1>10. SameItems(w, old)
  <2>1. Shape(page) BY <1>3, <1>7, <1>8, <1>9 DEF Shape, TableWhole
  <2> QED BY <1>1, <1>3, <1>7, <1>8, <2>1 DEF SameItems, Lng
<1>11. Cursor(w, old) BY <1>1, <1>2, <1>3, <1>5, OldLive, Sizes DEF Cursor
<1>12. Unmoved(w, old)
  <2>1. \A i \in Indexes(old) : w.index <= i => ItemAt(w.page, i) = ItemAt(old, i)
    BY <1>1, <1>3, <1>8 DEF Unmoved
  <2>2. ASSUME NEW q \in Places, old.bhd_lower <= q, q <= w.handleindex
        PROVE  w.page.mem[q] = old.mem[q]
    <3>1. q \in Int BY Sizes DEF Places
    <3>2. q <= h /\ q # h BY <1>1, <1>3, <2>2, <3>1
    <3> QED BY <1>1, <1>3, <1>6, <1>7, <2>2, <3>2 DEF Unmoved
  <2>3. ASSUME NEW i \in Live(old), w.index <= i PROVE Ends(w, old, i) <= w.handleindex + 1
    <3>1. /\ i \in Nat /\ After(old, i) \in Int /\ After(old, k) = Off(old, k) + Lng(old, k)
          /\ Off(old, k) \in Nat /\ Lng(old, k) \in Nat
      BY <1>2, OldLive
    <3>2. After(old, k) - v.j <= h + 1
      <4>1. Ends(v, old, k) <= h + 1 BY <1>2, <1>3 DEF Unmoved
      <4> QED BY <4>1 DEF Ends
    <3>3. CASE i = k BY <1>1, <1>3, <3>1, <3>2, <3>3 DEF Ends
    <3>4. CASE i # k
      <4>1. k < i BY <1>1, <1>2, <2>3, <3>1, <3>4
      <4>2. After(old, i) <= Off(old, k) BY <1>2, <4>1, OldLive
      <4>3. Ends(w, old, i) = After(old, i) BY <1>1, <3>4 DEF Ends
      <4> QED BY <1>1, <1>3, <3>1, <3>2, <4>2, <4>3
    <3> QED BY <3>3, <3>4
  <2> QED BY <2>1, <2>2, <2>3 DEF Unmoved
<1>13. ASSUME NEW i \in Live(old), i < w.index
       PROVE  /\ Off(w.page, i) = Off(v.page, i) /\ After(w.page, i) = After(v.page, i)
              /\ After(w.page, i) <= BLOCKSIZE
              /\ v.handleindex + 1 + v.j <= Off(w.page, i)
              /\ \A row \in Rows : HasRow(old, i, row) => HasRow(w.page, i, row)
  <2>1. i \in Indexes(old) /\ i < v.index BY <1>1, <1>13, OldLive
  <2>2. \A q \in Places : v.handleindex + 1 + v.j <= q => w.page.mem[q] = v.page.mem[q]
    <3>1. \A q \in Places : v.handleindex + 1 + v.j <= q => q # h
      BY <1>3, Sizes DEF Places
    <3> QED BY <1>1, <1>6, <1>7, <3>1
  <2> QED BY <1>1, <1>8, <2>1, <2>2, PackedSame
<1>14. Moved(w, old)
  <2>1. ASSUME NEW i \in Live(old), i < w.index PROVE w.handleindex + 1 + w.j <= Off(w.page, i)
    <3>1. h + 1 + v.j <= Off(w.page, i) BY <1>13, <2>1
    <3>2. w.handleindex + 1 + w.j = h + 1 + v.j BY <1>1, <1>3
    <3> QED BY <3>1, <3>2
  <2>2. Downwards(w.page, {i \in Live(old) : i < w.index})
    BY <1>1, <1>3, <1>13 DEF Moved, Downwards
  <2>3. ASSUME NEW m \in 1 .. w.j
        PROVE  w.page.mem[w.handleindex + m] = old.mem[After(old, w.index) - w.j + m - 1]
    <3>1. After(old, k) \in Int BY <1>2, OldLive
    <3>2. w.handleindex + m = h + (m - 1)
          /\ After(old, w.index) - w.j + m - 1 = After(old, k) - v.j + (m - 1) - 1
      BY <1>1, <1>3, <3>1
    <3>3. CASE m = 1
      <4>1. w.handleindex + m = h /\ After(old, w.index) - w.j + m - 1 = src
        BY <1>3, <1>4, <3>1, <3>2, <3>3
      <4>2. v.page.mem[src] = old.mem[src] BY <1>3, <1>5 DEF Unmoved
      <4> QED BY <1>1, <1>6, <1>7, <4>1, <4>2
    <3>4. CASE m # 1
      <4>1. m - 1 \in 1 .. v.j BY <1>1, <1>3, <3>4
      <4>2. v.page.mem[h + (m - 1)] = old.mem[After(old, k) - v.j + (m - 1) - 1]
        BY <1>3, <4>1 DEF Moved
      <4>3. h + (m - 1) \in Places /\ h + (m - 1) # h
        BY <1>3, <1>5, <4>1, Sizes DEF Places
      <4> QED BY <1>1, <1>6, <1>7, <3>2, <4>2, <4>3
    <3> QED BY <3>3, <3>4
  <2> QED BY <1>13, <2>1, <2>2, <2>3 DEF Moved
<1> QED BY <1>1, <1>10, <1>11, <1>12, <1>14 DEF Packing

\* All bytes of a tuple are moved, and its item gets its new offset.
LEMMA SetOffsetOK ==
  ASSUME NEW v, NEW old, PageInv(old), Packing(v, old), v.index < v.page.bhd_offTableLen,
         ItemAt(v.page, v.index).bo_flag # 1, v.j = Lng(v.page, v.index),
         NEW w,
         w = [bnum |-> v.bnum,
              page |-> SetItem(v.page, v.index,
                         [ItemAt(v.page, v.index) EXCEPT !.bo_off = v.handleindex + 1]),
              index |-> v.index + 1, j |-> 0, handleindex |-> v.handleindex]
  PROVE  Packing(w, old)
<1> DEFINE k == v.index
           h == v.handleindex
           item == [ItemAt(v.page, k) EXCEPT !.bo_off = h + 1]
           page == SetItem(v.page, k, item)
<1>1. /\ w.bnum = v.bnum /\ w.page = page /\ w.index = k + 1 /\ w.j = 0 /\ w.handleindex = h
      /\ w = [bnum |-> w.bnum, page |-> w.page, index |-> w.index, j |-> w.j,
              handleindex |-> w.handleindex]
  OBVIOUS
<1>2. /\ k \in Indexes(old) /\ k \in Indexes(v.page) /\ k \in Nat /\ Indexes(v.page) = Indexes(old)
      /\ ItemAt(v.page, k) = ItemAt(old, k) /\ ItemAt(old, k) \in Items /\ k \in Live(old)
      /\ Lng(v.page, k) = Lng(old, k)
  BY PackItem DEF Lng
<1>3. /\ SameItems(v, old) /\ Cursor(v, old) /\ Unmoved(v, old) /\ Moved(v, old)
      /\ Shape(v.page) /\ v.page.bhd_lower = old.bhd_lower
      /\ v.j \in Nat /\ h \in Int /\ h + 1 + v.j <= BLOCKSIZE
      /\ v.j = Lng(old, k) /\ old.bhd_lower <= h + 1 /\ old.bhd_lower \in Nat
  BY <1>2, OldLive DEF Packing, SameItems, Cursor
<1>4. /\ item \in Items /\ item.bo_off = h + 1 /\ item.bo_flag = ItemAt(old, k).bo_flag
      /\ item.bo_len = Lng(old, k)
  <2>1. h + 1 \in 0 .. BLOCKSIZE BY <1>3, Sizes
  <2> QED BY <1>2, <2>1 DEF Items, Lng
<1> HIDE DEF item
<1>5. /\ Shape(page) /\ page.bhd_lower = old.bhd_lower /\ page.bhd_upper = old.bhd_upper
      /\ page.bhd_offTableLen = old.bhd_offTableLen
      /\ ItemAt(page, k) = item
      /\ \A i \in Indexes(old) : i # k => ItemAt(page, i) = ItemAt(v.page, i)
      /\ \A q \in Places : old.bhd_lower <= q => page.mem[q] = v.page.mem[q]
  BY <1>2, <1>3, <1>4, SetItemShape DEF SameItems
<1> HIDE DEF page
<1>6. SameItems(w, old)
  <2>1. ASSUME NEW i \in Indexes(old)
        PROVE  /\ ItemAt(page, i).bo_flag = ItemAt(old, i).bo_flag
               /\ Lng(page, i) = Lng(old, i)
    <3>1. CASE i = k BY <1>4, <1>5, <3>1 DEF Lng
    <3>2. CASE i # k BY <1>3, <1>5, <3>2 DEF SameItems, Lng
    <3> QED BY <3>1, <3>2
  <2> QED BY <1>1, <1>5, <2>1 DEF SameItems
<1>7. Cursor(w, old)
  <2>1. k + 1 \in 0 .. old.bhd_offTableLen BY <1>2, OldLive DEF Indexes
  <2>2. h + 1 + 0 <= BLOCKSIZE BY <1>3, Sizes
  <2> QED BY <1>1, <1>3, <2>1, <2>2 DEF Cursor
<1>8. Unmoved(w, old)
  <2>1. ASSUME NEW i \in Indexes(old), w.index <= i PROVE ItemAt(w.page, i) = ItemAt(old, i)
    <3>1. i \in Nat /\ k <= i /\ i # k BY <1>1, <1>2, <2>1, OldLive DEF Indexes
    <3> QED BY <1>1, <1>3, <1>5, <3>1 DEF Unmoved
  <2>2. \A q \in Places : old.bhd_lower <= q /\ q <= w.handleindex => w.page.mem[q] = old.mem[q]
    BY <1>1, <1>3, <1>5 DEF Unmoved
  <2>3. ASSUME NEW i \in Live(old), w.index <= i PROVE Ends(w, old, i) <= w.handleindex + 1
    <3>1. /\ i \in Nat /\ After(old, i) \in Int /\ After(old, k) = Off(old, k) + Lng(old, k)
          /\ Off(old, k) \in Nat /\ Lng(old, k) \in Nat
      BY <1>2, OldLive
    <3>2. After(old, k) - v.j <= h + 1
      <4>1. Ends(v, old, k) <= h + 1 BY <1>2, <1>3 DEF Unmoved
      <4> QED BY <4>1 DEF Ends
    <3>3. k < i BY <1>1, <1>2, <2>3, <3>1
    <3>4. After(old, i) <= Off(old, k) BY <1>2, <3>3, OldLive
    <3>5. Ends(w, old, i) = After(old, i) BY <1>1, <3>1 DEF Ends
    <3> QED BY <1>1, <1>3, <3>1, <3>2, <3>4, <3>5
  <2> QED BY <2>1, <2>2, <2>3 DEF Unmoved
<1>9. ASSUME NEW i \in Live(old), i < k
      PROVE  /\ Off(w.page, i) = Off(v.page, i) /\ After(w.page, i) = After(v.page, i)
             /\ After(w.page, i) <= BLOCKSIZE
             /\ h + 1 + v.j <= Off(w.page, i) /\ Off(w.page, i) \in Int
             /\ \A row \in Rows : HasRow(old, i, row) => HasRow(w.page, i, row)
  <2>1. i \in Indexes(old) /\ i # k /\ i \in Nat BY <1>2, <1>9, OldLive
  <2>2. \A q \in Places : v.handleindex + 1 + v.j <= q => w.page.mem[q] = v.page.mem[q]
    <3>1. \A q \in Places : v.handleindex + 1 + v.j <= q => old.bhd_lower <= q
      BY <1>3, Sizes DEF Places
    <3> QED BY <1>1, <1>5, <3>1
  <2>3. ItemAt(w.page, i) = ItemAt(v.page, i) BY <1>1, <1>5, <2>1
  <2>4. Off(v.page, i) \in Nat BY <1>2, <1>3, <2>1, ShapeFields
  <2> QED BY <1>9, <2>2, <2>3, <2>4, PackedSame
<1>10. /\ Off(w.page, k) = h + 1 /\ Lng(w.page, k) = Lng(old, k)
       /\ After(w.page, k) = h + 1 + v.j
  BY <1>1, <1>3, <1>4, <1>5 DEF Off, Lng, After
<1>11. ASSUME NEW row \in Rows, HasRow(old, k, row) PROVE HasRow(w.page, k, row)
  <2>1. /\ Off(old, k) \in Nat /\ Lng(old, k) \in Nat
        /\ After(old, k) = Off(old, k) + Lng(old, k)
    BY <1>2, OldLive
  <2>2. LenOf[row] = Lng(old, k) /\ Holds(old.mem, Off(old, k), row, Lng(old, k))
    BY <1>11 DEF HasRow
  <2>3. ASSUME NEW m \in 0 .. Lng(old, k) - 1
        PROVE  h + 1 + m \in Places /\ w.page.mem[h + 1 + m] = ByteOf(row, m)
    <3>1. h + 1 + m \in Places /\ old.bhd_lower <= h + 1 + m
      BY <1>3, <2>1, Sizes DEF Places
    <3>2. w.page.mem[h + 1 + m] = v.page.mem[h + 1 + m] BY <1>1, <1>5, <3>1
    <3>3. m + 1 \in 1 .. v.j /\ h + (m + 1) = h + 1 + m
          /\ After(old, k) - v.j + (m + 1) - 1 = Off(old, k) + m
      BY <1>3, <2>1
    <3>4. v.page.mem[h + (m + 1)] = old.mem[After(old, k) - v.j + (m + 1) - 1]
      BY <1>3, <3>3 DEF Moved
    <3>5. old.mem[Off(old, k) + m] = ByteOf(row, m) BY <2>2 DEF Holds
    <3> QED BY <3>1, <3>2, <3>3, <3>4, <3>5
  <2> QED BY <1>10, <2>2, <2>3 DEF HasRow, Holds
<1>12. Moved(w, old)
  <2>1. ASSUME NEW i \in Live(old), i < w.index
        PROVE  /\ w.handleindex + 1 + w.j <= Off(w.page, i)
               /\ After(w.page, i) <= BLOCKSIZE
               /\ \A row \in Rows : HasRow(old, i, row) => HasRow(w.page, i, row)
    <3>1. i \in Nat /\ (i < k \/ i = k) BY <1>1, <1>2, <2>1, OldLive
    <3>2. CASE i < k BY <1>1, <1>3, <1>9, <3>2
    <3>3. CASE i = k BY <1>1, <1>3, <1>10, <1>11, <3>3
    <3> QED BY <3>1, <3>2, <3>3
  <2>2. ASSUME NEW i \in Live(old), NEW m \in Live(old), i < w.index, m < w.index, i < m
        PROVE  After(w.page, m) <= Off(w.page, i)
    <3>1. i \in Nat /\ m \in Nat /\ i < k /\ (m < k \/ m = k) BY <1>1, <1>2, <2>2, OldLive
    <3>2. CASE m < k BY <1>3, <1>9, <2>2, <3>1, <3>2 DEF Moved, Downwards
    <3>3. CASE m = k BY <1>9, <1>10, <3>1, <3>3
    <3> QED BY <3>1, <3>2, <3>3
  <2>3. Downwards(w.page, {i \in Live(old) : i < w.index}) BY <2>2 DEF Downwards
  <2>4. \A m \in 1 .. w.j : FALSE BY <1>1
  <2> QED BY <2>1, <2>3, <2>4 DEF Moved
<1> QED BY <1>1, <1>6, <1>7, <1>8, <1>12 DEF Packing

\* The copy that is written holds what the block held.
LEMMA WrittenOK ==
  ASSUME NEW v, NEW old, PageInv(old), Packing(v, old), v.index = v.page.bhd_offTableLen,
         NEW new, new = [v.page EXCEPT !.bhd_upper = v.handleindex + 1]
  PROVE  PageInv(new) /\ Read(new) = Read(old)
<1>1. /\ SameItems(v, old) /\ Cursor(v, old) /\ Unmoved(v, old) /\ Moved(v, old)
      /\ Shape(v.page) /\ v.page \in Pages /\ v.page.bhd_lower = old.bhd_lower
      /\ v.page.bhd_offTableLen = old.bhd_offTableLen
      /\ v.j \in Nat /\ v.handleindex \in Int /\ v.handleindex + 1 + v.j <= BLOCKSIZE
      /\ old.bhd_lower <= v.handleindex + 1 /\ old.bhd_lower \in Nat
  BY OldLive DEF Packing, SameItems, Cursor, Shape
<1>2. v.handleindex + 1 \in Nat /\ v.handleindex + 1 <= BLOCKSIZE BY <1>1, Sizes
<1>3. /\ new \in Pages /\ new.mem = v.page.mem /\ new.bhd_upper = v.handleindex + 1
      /\ new.bhd_lower = old.bhd_lower /\ new.bhd_offTableLen = old.bhd_offTableLen
  BY <1>1, <1>2 DEF Pages
<1>4. Indexes(new) = Indexes(old) /\ Indexes(v.page) = Indexes(old) BY <1>1, <1>3 DEF Indexes
<1>5. \A i : /\ ItemAt(new, i) = ItemAt(v.page, i) /\ (ItemWhole(new, i) <=> ItemWhole(v.page, i))
             /\ Off(new, i) = Off(v.page, i) /\ After(new, i) = After(v.page, i)
             /\ \A row : HasRow(new, i, row) <=> HasRow(v.page, i, row)
  BY <1>3, MemItem
<1>6. Shape(new)
  <2>1. TableWhole(new) BY <1>1, <1>4, <1>5 DEF Shape, TableWhole
  <2> QED BY <1>1, <1>2, <1>3, <2>1 DEF Shape
<1>7. \A i : i \in Live(new) <=> i \in Live(old)
  <2>1. \A i \in Indexes(old) : ItemAt(new, i).bo_flag = ItemAt(old, i).bo_flag
    BY <1>1, <1>5 DEF SameItems
  <2> QED BY <1>4, <2>1, LiveFlag
<1>8. \A i \in Live(old) : i < v.index BY <1>1, OldLive
<1>9. ASSUME NEW i \in Live(old)
      PROVE  /\ new.bhd_upper <= Off(new, i) /\ After(new, i) <= BLOCKSIZE
             /\ \A row \in Rows : HasRow(old, i, row) => HasRow(new, i, row)
  <2>1. /\ v.handleindex + 1 + v.j <= Off(v.page, i) /\ After(v.page, i) <= BLOCKSIZE
        /\ \A row \in Rows : HasRow(old, i, row) => HasRow(v.page, i, row)
    BY <1>1, <1>8 DEF Moved
  <2>2. i \in Indexes(old) /\ Off(v.page, i) \in Nat BY <1>1, <1>4, ShapeFields, OldLive
  <2> QED BY <1>1, <1>3, <1>5, <2>1, <2>2
<1>10. PageInv(new)
  <2>1. \A i \in Live(new) : \E row \in Rows : HasRow(new, i, row)
    BY <1>7, <1>9 DEF PageInv
  <2>2. Downwards(new, Live(new)) BY <1>1, <1>5, <1>7, <1>8 DEF Moved, Downwards
  <2> QED BY <1>6, <1>7, <1>9, <2>1, <2>2 DEF PageInv
<1>11. Read(new) = Read(old) BY <1>3, <1>7, <1>9, <1>10, ReadSame
<1> QED BY <1>10, <1>11

-----------------------------------------------------------------------------
\* The inductive invariant.

BlocksOK(bs) ==
  bs \in Seq(Pages) /\ Len(bs) <= MaxBlocks /\ \A b \in DOMAIN bs : PageInv(bs[b])

VacOK(v, bs) ==
  /\ v = [bnum |-> v.bnum, page |-> v.page, index |-> v.index, j |-> v.j,
          handleindex |-> v.handleindex]
  /\ v.bnum \in Nat
  /\ v.bnum # 0 => v.bnum \in DOMAIN bs /\ Packing(v, bs[v.bnum])

IInv == BlocksOK(blocks) /\ VacOK(vac, blocks)

\* The mapping of INSTANCE, by name.
ListsOf(bs) == [b \in DOMAIN bs |-> Read(bs[b])]

LEMMA SetBlock ==
  ASSUME NEW bs, BlocksOK(bs), NEW b \in DOMAIN bs, NEW page, PageInv(page)
  PROVE  /\ BlocksOK([bs EXCEPT ![b] = page])
         /\ ListsOf([bs EXCEPT ![b] = page]) = [ListsOf(bs) EXCEPT ![b] = Read(page)]
         /\ DOMAIN [bs EXCEPT ![b] = page] = DOMAIN bs
         /\ \A c \in DOMAIN bs : c # b => [bs EXCEPT ![b] = page][c] = bs[c]
<1> DEFINE new == [bs EXCEPT ![b] = page]
<1>1. page \in Pages BY DEF PageInv, Shape
<1>2. /\ new \in Seq(Pages) /\ Len(new) = Len(bs) /\ DOMAIN new = DOMAIN bs
      /\ new[b] = page /\ \A c \in DOMAIN bs : c # b => new[c] = bs[c]
  BY <1>1 DEF BlocksOK
<1> HIDE DEF new
<1>3. BlocksOK(new) BY <1>2 DEF BlocksOK
<1>4. ListsOf(new) = [ListsOf(bs) EXCEPT ![b] = Read(page)] BY <1>2 DEF ListsOf
<1> QED BY <1>2, <1>3, <1>4 DEF new

LEMMA AddPage ==
  ASSUME NEW bs, BlocksOK(bs), Len(bs) < MaxBlocks, NEW page, PageInv(page)
  PROVE  /\ BlocksOK(Append(bs, page))
         /\ ListsOf(Append(bs, page)) = Append(ListsOf(bs), Read(page))
<1> DEFINE new == Append(bs, page)
<1>1. page \in Pages /\ page.bhd_offTableLen \in Nat BY ShapeFields DEF PageInv, Shape
<1>2. /\ bs \in Seq(Pages) /\ Len(bs) \in Nat /\ DOMAIN bs = 1 .. Len(bs) BY DEF BlocksOK
<1>3. /\ new \in Seq(Pages) /\ Len(new) = Len(bs) + 1 /\ DOMAIN new = 1 .. Len(bs) + 1
      /\ new[Len(bs) + 1] = page /\ \A c \in 1 .. Len(bs) : new[c] = bs[c]
  BY <1>1, <1>2, AppendProperties
<1> HIDE DEF new
<1>4. \A c \in 1 .. Len(bs) + 1 : c = Len(bs) + 1 \/ c \in 1 .. Len(bs) BY <1>2
<1>5. BlocksOK(new) BY <1>2, <1>3, <1>4, Sizes DEF BlocksOK
<1>6. ListsOf(new) = Append(ListsOf(bs), Read(page))
  <2> DEFINE old == ListsOf(bs)
             all == ListsOf(new)
  <2>1. \A c \in DOMAIN bs : Read(bs[c]) \in Seq(Reads)
    <3>1. \A c \in DOMAIN bs : bs[c].bhd_offTableLen \in Nat
      BY ShapeFields DEF BlocksOK, PageInv
    <3> QED BY <3>1, ReadSeq
  <2>2. Read(page) \in Seq(Reads) BY <1>1, ReadSeq
  <2>3. old \in [1 .. Len(bs) -> Seq(Reads)] BY <1>2, <2>1 DEF ListsOf
  <2>4. all \in [1 .. Len(bs) + 1 -> Seq(Reads)]
    BY <1>3, <1>4, <2>1, <2>2, <1>2 DEF ListsOf
  <2>5. \A c \in 1 .. Len(bs) : all[c] = old[c] BY <1>2, <1>3, <1>4 DEF ListsOf
  <2>6. all[Len(bs) + 1] = Read(page) BY <1>2, <1>3 DEF ListsOf
  <2> HIDE DEF old, all, Reads
  <2>7. old \in Seq(Seq(Reads)) /\ Len(old) = Len(bs) BY <1>2, <2>3
  <2>8. all \in Seq(Seq(Reads)) /\ Len(all) = Len(bs) + 1 BY <1>2, <2>4
  <2>9. /\ Append(old, Read(page)) \in Seq(Seq(Reads))
        /\ Len(Append(old, Read(page))) = Len(bs) + 1
        /\ \A c \in 1 .. Len(bs) : Append(old, Read(page))[c] = old[c]
        /\ Append(old, Read(page))[Len(bs) + 1] = Read(page)
    BY <2>2, <2>7, AppendProperties
  <2>10. \A c \in 1 .. Len(all) : all[c] = Append(old, Read(page))[c]
    BY <1>4, <2>5, <2>6, <2>8, <2>9
  <2>11. all = Append(old, Read(page)) BY <2>8, <2>9, <2>10, SeqEqual
  <2> QED BY <2>11 DEF old, all
<1> QED BY <1>5, <1>6 DEF new

LEMMA IdleOK == ASSUME NEW bs PROVE VacOK(Idle, bs)
BY DEF VacOK, Idle

LEMMA InitStep == Init => IInv /\ ListsOf(blocks) = <<>>
<1> SUFFICES ASSUME Init PROVE IInv /\ ListsOf(blocks) = <<>> OBVIOUS
<1>1. blocks = <<>> /\ vac = Idle BY DEF Init
<1>2. BlocksOK(blocks) BY <1>1, Sizes DEF BlocksOK
<1>3. ListsOf(blocks) = <<>> BY <1>1 DEF ListsOf
<1> QED BY <1>1, <1>2, <1>3, IdleOK DEF IInv

\* Statements run while no vacuum does.
LEMMA VacNot ==
  ASSUME IInv, vac.bnum = 0, vac' = vac, BlocksOK(blocks')
  PROVE  IInv'
<1>1. VacOK(vac', blocks') BY DEF IInv, VacOK
<1> QED BY <1>1 DEF IInv

LEMMA AppendStep ==
  ASSUME IInv, AppendNewBlock
  PROVE  IInv' /\ ListsOf(blocks') = Append(ListsOf(blocks), <<>>)
<1>1. /\ vac.bnum = 0 /\ vac' = vac /\ Len(blocks) < MaxBlocks
      /\ blocks' = Append(blocks, NewPage) /\ BlocksOK(blocks)
  BY DEF AppendNewBlock, IInv
<1>2. BlocksOK(blocks') /\ ListsOf(blocks') = Append(ListsOf(blocks), <<>>)
  BY <1>1, NewPageOK, AddPage
<1> QED BY <1>1, <1>2, VacNot

LEMMA InsertStep ==
  ASSUME IInv, NEW b \in DOMAIN blocks, NEW row \in Rows, BLK_vBlockInsert(b, row)
  PROVE  /\ IInv'
         /\ \/ ListsOf(blocks') = [ListsOf(blocks) EXCEPT ![b] = Append(ListsOf(blocks)[b], row)]
            \/ ListsOf(blocks') = Append(ListsOf(blocks), <<row>>)
<1>1. /\ vac.bnum = 0 /\ vac' = vac /\ BlocksOK(blocks) /\ PageInv(blocks[b])
  BY DEF BLK_vBlockInsert, IInv, BlocksOK
<1>2. CASE /\ BLK_bCheckEnoughSpace(blocks[b], LenOf[row])
           /\ blocks' = [blocks EXCEPT ![b] = Inserted(blocks[b], row)]
  <2>1. /\ blocks[b].bhd_lower \in Nat /\ blocks[b].bhd_upper \in Nat BY <1>1, OldLive
  <2>2. blocks[b].bhd_lower + ItemSize + LenOf[row] <= blocks[b].bhd_upper
    BY <1>2, <2>1, Sizes DEF BLK_bCheckEnoughSpace, BLK_uBlockGetFreeSpaceSize
  <2>3. /\ PageInv(Inserted(blocks[b], row))
        /\ Read(Inserted(blocks[b], row)) = Append(Read(blocks[b]), row)
    BY <1>1, <2>2, InsertedOK
  <2>4. /\ BlocksOK(blocks')
        /\ ListsOf(blocks') = [ListsOf(blocks) EXCEPT ![b] = Append(Read(blocks[b]), row)]
    <3> DEFINE page == Inserted(blocks[b], row)
    <3>1. blocks' = [blocks EXCEPT ![b] = page] /\ PageInv(page) BY <1>2, <2>3
    <3>2. Read(page) = Append(Read(blocks[b]), row) BY <2>3
    <3> HIDE DEF page
    <3>3. /\ BlocksOK([blocks EXCEPT ![b] = page])
          /\ ListsOf([blocks EXCEPT ![b] = page]) = [ListsOf(blocks) EXCEPT ![b] = Read(page)]
      BY <1>1, <3>1, SetBlock
    <3> QED BY <3>1, <3>2, <3>3
  <2>5. ListsOf(blocks)[b] = Read(blocks[b]) BY DEF ListsOf
  <2> QED BY <1>1, <2>4, <2>5, VacNot
<1>3. CASE Len(blocks) < MaxBlocks /\ blocks' = Append(blocks, Inserted(NewPage, row))
  <2>1. NewPage.bhd_lower + ItemSize + LenOf[row] <= NewPage.bhd_upper
    BY Sizes DEF NewPage
  <2>2. PageInv(Inserted(NewPage, row)) /\ Read(Inserted(NewPage, row)) = Append(<<>>, row)
    BY <2>1, NewPageOK, InsertedOK
  <2>3. Append(<<>>, row) = <<row>> OBVIOUS
  <2>4. BlocksOK(blocks') /\ ListsOf(blocks') = Append(ListsOf(blocks), <<row>>)
    BY <1>1, <1>3, <2>2, <2>3, AddPage
  <2> QED BY <1>1, <2>4, VacNot
<1> QED BY <1>2, <1>3 DEF BLK_vBlockInsert

LEMMA DeleteStep ==
  ASSUME IInv, NEW b \in DOMAIN blocks, NEW i \in Places, BLK_vDeleteTupleFromBlock(b, i)
  PROVE  /\ IInv' /\ i + 1 \in DOMAIN ListsOf(blocks)[b]
         /\ ListsOf(blocks') =
              [ListsOf(blocks) EXCEPT ![b] = [ListsOf(blocks)[b] EXCEPT ![i + 1] = Deleted]]
<1>1. /\ vac.bnum = 0 /\ vac' = vac /\ BlocksOK(blocks) /\ PageInv(blocks[b])
      /\ i < blocks[b].bhd_offTableLen
      /\ blocks' = [blocks EXCEPT ![b] = Flagged(blocks[b], i)]
  BY DEF BLK_vDeleteTupleFromBlock, IInv, BlocksOK
<1>2. i \in Indexes(blocks[b]) /\ i + 1 \in 1 .. blocks[b].bhd_offTableLen
  BY <1>1, OldLive, Sizes DEF Indexes, Places
<1>3. /\ PageInv(Flagged(blocks[b], i))
      /\ Read(Flagged(blocks[b], i)) = [Read(blocks[b]) EXCEPT ![i + 1] = Deleted]
  BY <1>1, <1>2, FlaggedOK
<1>4. /\ BlocksOK(blocks')
      /\ ListsOf(blocks') =
           [ListsOf(blocks) EXCEPT ![b] = [Read(blocks[b]) EXCEPT ![i + 1] = Deleted]]
  <2> DEFINE page == Flagged(blocks[b], i)
  <2>1. blocks' = [blocks EXCEPT ![b] = page] /\ PageInv(page) BY <1>1, <1>3
  <2>2. Read(page) = [Read(blocks[b]) EXCEPT ![i + 1] = Deleted] BY <1>3
  <2> HIDE DEF page
  <2>3. /\ BlocksOK([blocks EXCEPT ![b] = page])
        /\ ListsOf([blocks EXCEPT ![b] = page]) = [ListsOf(blocks) EXCEPT ![b] = Read(page)]
    BY <1>1, <2>1, SetBlock
  <2> QED BY <2>1, <2>2, <2>3
<1>5. ListsOf(blocks)[b] = Read(blocks[b]) BY DEF ListsOf
<1>6. i + 1 \in DOMAIN Read(blocks[b]) BY <1>2 DEF Read
<1> QED BY <1>1, <1>4, <1>5, <1>6, VacNot

LEMMA ReadingOK ==
  ASSUME NEW bs, BlocksOK(bs), NEW c \in Nat, c # 0, NEW v,
         v = IF c < Len(blocks)
             THEN [bnum |-> c, page |-> blocks[c], index |-> 0, j |-> 0,
                   handleindex |-> BLOCKSIZE - 1]
             ELSE Idle,
         Len(bs) = Len(blocks), c < Len(blocks) => bs[c] = blocks[c]
  PROVE  VacOK(v, bs)
<1>1. CASE c < Len(blocks)
  <2>1. c \in DOMAIN bs BY <1>1 DEF BlocksOK
  <2>2. PageInv(bs[c]) BY <2>1 DEF BlocksOK
  <2>3. v = [bnum |-> c, page |-> bs[c], index |-> 0, j |-> 0, handleindex |-> BLOCKSIZE - 1]
    BY <1>1
  <2>4. Packing(v, bs[c]) BY <2>2, <2>3, PackBegins
  <2>5. v.bnum = c BY <2>3
  <2> QED BY <2>1, <2>4, <2>5 DEF VacOK, Packing
<1>2. CASE ~(c < Len(blocks)) BY <1>2, IdleOK
<1> QED BY <1>1, <1>2

\* The vacuum begins, moves one byte or one item of its copy, or dies.
LEMMA VacStep ==
  ASSUME IInv, VAC_vArrangeRelationData \/ SkipDeleted \/ MoveByte \/ SetItemOffset \/ Crash
  PROVE  IInv' /\ blocks' = blocks
<1>1. blocks' = blocks /\ BlocksOK(blocks) /\ VacOK(vac, blocks)
  BY DEF VAC_vArrangeRelationData, SkipDeleted, MoveByte, SetItemOffset, Crash, IInv
<1>2. VacOK(vac', blocks)
  <2>1. CASE VAC_vArrangeRelationData
    BY <1>1, <2>1, ReadingOK DEF VAC_vArrangeRelationData, Reading
  <2>2. CASE Crash BY <2>2, IdleOK DEF Crash
  <2>3. ASSUME InTable
        PROVE  /\ vac.bnum # 0 /\ vac.index < vac.page.bhd_offTableLen
               /\ vac.bnum \in DOMAIN blocks /\ vac.bnum \in Nat
               /\ PageInv(blocks[vac.bnum]) /\ Packing(vac, blocks[vac.bnum])
               /\ vac = [bnum |-> vac.bnum, page |-> vac.page, index |-> vac.index, j |-> vac.j,
                         handleindex |-> vac.handleindex]
    BY <1>1, <2>3 DEF InTable, VacOK, BlocksOK
  <2>4. ASSUME InTable, Packing(vac', blocks[vac.bnum]), vac'.bnum = vac.bnum
        PROVE  VacOK(vac', blocks)
    BY <2>3, <2>4 DEF VacOK, Packing
  <2>5. CASE SkipDeleted
    <3>1. /\ InTable /\ ItemAt(vac.page, vac.index).bo_flag = 1
          /\ vac' = [vac EXCEPT !.page = SetItem(vac.page, vac.index,
                                  [ItemAt(vac.page, vac.index) EXCEPT !.bo_off = 0]),
                                !.index = vac.index + 1]
      BY <2>5 DEF SkipDeleted, VacItem, BD_CheckItemInValid
    <3> DEFINE page == SetItem(vac.page, vac.index,
                               [ItemAt(vac.page, vac.index) EXCEPT !.bo_off = 0])
    <3>2. vac' = [vac EXCEPT !.page = page, !.index = vac.index + 1] BY <3>1
    <3> HIDE DEF page
    <3>3. vac' = [bnum |-> vac.bnum, page |-> page, index |-> vac.index + 1, j |-> vac.j,
                  handleindex |-> vac.handleindex]
      BY <2>3, <3>1, <3>2
    <3>4. Packing(vac', blocks[vac.bnum]) BY <2>3, <3>1, <3>3, SkipOK DEF page
    <3>5. vac'.bnum = vac.bnum BY <3>3
    <3> QED BY <2>4, <3>1, <3>4, <3>5
  <2>6. CASE MoveByte
    <3> DEFINE page == [vac.page EXCEPT !.mem = [vac.page.mem EXCEPT ![vac.handleindex] =
                          vac.page.mem[MoveFrom(ItemAt(vac.page, vac.index), vac.j)]]]
    <3>1. /\ InTable /\ ItemAt(vac.page, vac.index).bo_flag # 1
          /\ vac.j < Lng(vac.page, vac.index)
          /\ vac' = [vac EXCEPT !.page = page, !.handleindex = vac.handleindex - 1,
                                !.j = vac.j + 1]
      BY <2>6 DEF MoveByte, VacItem, BD_CheckItemInValid, Lng
    <3> HIDE DEF page
    <3>2. vac' = [bnum |-> vac.bnum, page |-> page, index |-> vac.index, j |-> vac.j + 1,
                  handleindex |-> vac.handleindex - 1]
      BY <2>3, <3>1
    <3>3. Packing(vac', blocks[vac.bnum]) BY <2>3, <3>1, <3>2, MoveOK DEF page
    <3>4. vac'.bnum = vac.bnum BY <3>2
    <3> QED BY <2>4, <3>1, <3>3, <3>4
  <2>7. CASE SetItemOffset
    <3> DEFINE page == SetItem(vac.page, vac.index,
                         [ItemAt(vac.page, vac.index) EXCEPT !.bo_off = vac.handleindex + 1])
    <3>1. /\ InTable /\ ItemAt(vac.page, vac.index).bo_flag # 1
          /\ vac.j = Lng(vac.page, vac.index)
          /\ vac' = [vac EXCEPT !.page = page, !.index = vac.index + 1, !.j = 0]
      BY <2>7 DEF SetItemOffset, VacItem, BD_CheckItemInValid, Lng
    <3> HIDE DEF page
    <3>2. vac' = [bnum |-> vac.bnum, page |-> page, index |-> vac.index + 1, j |-> 0,
                  handleindex |-> vac.handleindex]
      BY <2>3, <3>1
    <3>3. Packing(vac', blocks[vac.bnum]) BY <2>3, <3>1, <3>2, SetOffsetOK DEF page
    <3>4. vac'.bnum = vac.bnum BY <3>2
    <3> QED BY <2>4, <3>1, <3>3, <3>4
  <2> QED BY <2>1, <2>2, <2>5, <2>6, <2>7
<1> QED BY <1>1, <1>2 DEF IInv

\* It writes its copy: a reader finds what he found before.
LEMMA WriteStep ==
  ASSUME IInv, BLK_sWriteBlock
  PROVE  IInv' /\ ListsOf(blocks') = ListsOf(blocks)
<1> DEFINE b == vac.bnum
           page == [vac.page EXCEPT !.bhd_upper = vac.handleindex + 1]
<1>1. /\ b # 0 /\ vac.index = vac.page.bhd_offTableLen
      /\ blocks' = [blocks EXCEPT ![b] = page]
      /\ vac' = IF b + 1 < Len(blocks)
                THEN [bnum |-> b + 1, page |-> blocks[b + 1], index |-> 0, j |-> 0,
                      handleindex |-> BLOCKSIZE - 1]
                ELSE Idle
  BY DEF BLK_sWriteBlock, UpperAt, Reading
<1>2. /\ BlocksOK(blocks) /\ b \in Nat /\ b \in DOMAIN blocks
      /\ PageInv(blocks[b]) /\ Packing(vac, blocks[b])
  BY <1>1 DEF IInv, VacOK, BlocksOK
<1>3. PageInv(page) /\ Read(page) = Read(blocks[b]) BY <1>1, <1>2, WrittenOK
<1> HIDE DEF page
<1>4. /\ BlocksOK(blocks') /\ ListsOf(blocks') = [ListsOf(blocks) EXCEPT ![b] = Read(page)]
      /\ DOMAIN blocks' = DOMAIN blocks /\ \A c \in DOMAIN blocks : c # b => blocks'[c] = blocks[c]
  BY <1>1, <1>2, <1>3, SetBlock
<1>5. ListsOf(blocks') = ListsOf(blocks)
  <2>1. ListsOf(blocks)[b] = Read(page) /\ b \in DOMAIN ListsOf(blocks)
    BY <1>2, <1>3 DEF ListsOf
  <2>2. ListsOf(blocks) = [c \in DOMAIN blocks |-> ListsOf(blocks)[c]] BY DEF ListsOf
  <2> HIDE DEF b
  <2> QED BY <1>4, <2>1, <2>2
<1>6. /\ Len(blocks') = Len(blocks) /\ Len(blocks) \in Nat
      /\ b + 1 < Len(blocks) => blocks'[b + 1] = blocks[b + 1]
  BY <1>2, <1>4 DEF BlocksOK
<1>7. VacOK(vac', blocks')
  <2>1. b + 1 \in Nat /\ b + 1 # 0 BY <1>2
  <2> QED BY <1>1, <1>4, <1>6, <2>1, ReadingOK
<1> QED BY <1>4, <1>5, <1>7 DEF IInv

LEMMA NextStep ==
  ASSUME IInv, [Next]_blockVars
  PROVE  IInv' /\ [Abstract!Next]_(ListsOf(blocks))
<1>1. CASE AppendNewBlock
  <2>1. Abstract!AddBlock BY <1>1, AppendStep DEF Abstract!AddBlock, ListsOf
  <2> QED BY <1>1, <2>1, AppendStep DEF Abstract!Next
<1>2. ASSUME NEW b \in DOMAIN blocks, NEW row \in Rows, BLK_vBlockInsert(b, row)
      PROVE  IInv' /\ [Abstract!Next]_(ListsOf(blocks))
  <2>1. b \in DOMAIN ListsOf(blocks) BY DEF ListsOf
  <2>2. CASE ListsOf(blocks') = [ListsOf(blocks) EXCEPT ![b] = Append(ListsOf(blocks)[b], row)]
    <3>1. Abstract!Add BY <2>1, <2>2 DEF Abstract!Add, ListsOf
    <3> QED BY <1>2, <3>1, InsertStep DEF Abstract!Next
  <2>3. CASE ListsOf(blocks') = Append(ListsOf(blocks), <<row>>)
    <3>1. Abstract!AddInNewBlock BY <2>3 DEF Abstract!AddInNewBlock, ListsOf
    <3> QED BY <1>2, <3>1, InsertStep DEF Abstract!Next
  <2> QED BY <1>2, <2>2, <2>3, InsertStep
<1>3. ASSUME NEW b \in DOMAIN blocks, NEW i \in Places, BLK_vDeleteTupleFromBlock(b, i)
      PROVE  IInv' /\ [Abstract!Next]_(ListsOf(blocks))
  <2>1. b \in DOMAIN ListsOf(blocks) BY DEF ListsOf
  <2>2. /\ i + 1 \in DOMAIN ListsOf(blocks)[b]
        /\ ListsOf(blocks') =
             [ListsOf(blocks) EXCEPT ![b] = [ListsOf(blocks)[b] EXCEPT ![i + 1] = Deleted]]
    BY <1>3, DeleteStep
  <2>3. Abstract!Delete BY <2>1, <2>2 DEF Abstract!Delete, ListsOf
  <2> QED BY <1>3, <2>3, DeleteStep DEF Abstract!Next
<1>4. CASE VAC_vArrangeRelationData \/ SkipDeleted \/ MoveByte \/ SetItemOffset \/ Crash
  <2>1. IInv' /\ blocks' = blocks BY <1>4, VacStep
  <2>2. ListsOf(blocks)' = ListsOf(blocks) BY <2>1 DEF ListsOf
  <2> QED BY <2>1, <2>2
<1>5. CASE BLK_sWriteBlock
  <2>1. ListsOf(blocks)' = ListsOf(blocks') BY DEF ListsOf
  <2> QED BY <1>5, <2>1, WriteStep
<1>6. CASE UNCHANGED blockVars
  <2>1. blocks' = blocks /\ vac' = vac BY <1>6 DEF blockVars
  <2>2. ListsOf(blocks)' = ListsOf(blocks) BY <2>1 DEF ListsOf
  <2>3. IInv' BY <2>1 DEF IInv
  <2> QED BY <2>2, <2>3
<1> QED BY <1>1, <1>2, <1>3, <1>4, <1>5, <1>6 DEF Next, Pack

LEMMA Invariance == Spec => []IInv
<1>1. Init => IInv BY InitStep
<1>2. IInv /\ [Next]_blockVars => IInv' BY NextStep
<1> QED BY <1>1, <1>2, PTL DEF Spec

-----------------------------------------------------------------------------
\* What follows from the invariant.

\* Table and tuples never meet and tuples never overlap, in the blocks and in the
\* vacuum's copy, for blocks, items and rows of any sizes (block.c:167-181,
\* vacuum.c:26-57).
THEOREM TypeCorrect ==
  Spec => []TypeOK
<1>1. IInv => TypeOK
  <2> SUFFICES ASSUME IInv PROVE TypeOK OBVIOUS
  <2>1. BlocksOK(blocks) /\ VacOK(vac, blocks) BY DEF IInv
  <2>2. Len(blocks) <= MaxBlocks /\ \A b \in DOMAIN blocks : PageOK(blocks[b]) /\ Apart(blocks[b])
    BY <2>1, PageApart DEF BlocksOK
  <2>3. vac.bnum \in 0 .. Len(blocks) BY <2>1 DEF VacOK, BlocksOK
  <2>4. ASSUME vac.bnum # 0
        PROVE  PageOK(vac.page) /\ vac.handleindex \in Places \cup {HeaderSize - 1}
    <3> DEFINE old == blocks[vac.bnum]
               h == vac.handleindex
    <3>1. PageInv(old) /\ Packing(vac, old) BY <2>1, <2>4 DEF VacOK, BlocksOK
    <3>2. PageOK(vac.page) BY <3>1, ShapeFields DEF Packing, SameItems
    <3>3. HeaderSize <= old.bhd_lower /\ old.bhd_lower \in Nat BY <3>1, ShapeFields DEF PageInv
    <3>4. /\ h \in Int /\ old.bhd_lower <= h + 1 /\ h + 1 + vac.j <= BLOCKSIZE /\ vac.j \in Nat
      BY <3>1 DEF Packing, Cursor
    <3>5. HeaderSize - 1 <= h /\ h <= BLOCKSIZE - 1 BY <3>3, <3>4, Sizes
    <3>6. h \in Places \cup {HeaderSize - 1} BY <3>4, <3>5, Sizes DEF Places
    <3> QED BY <3>2, <3>6
  <2> QED BY <2>2, <2>3, <2>4 DEF TypeOK
<1> QED BY <1>1, Invariance, PTL

\* The bytes implement lists of rows: what was inserted is read at its index until it
\* is deleted, also when a block is packed in place byte after byte, and wherever the
\* vacuum dies (block.c:248-277, vacuum.c:26-57).
THEOREM Refinement ==
  Spec => ListSpec
<1>1. Init => Abstract!Init BY InitStep DEF Abstract!Init, ListsOf
<1>2. IInv /\ [Next]_blockVars =>
        [Abstract!Next]_([b \in DOMAIN blocks |-> Read(blocks[b])])
  BY NextStep DEF ListsOf
<1> QED BY <1>1, <1>2, Invariance, PTL DEF Spec, ListSpec, Abstract!Spec

-----------------------------------------------------------------------------
\* What the packing uses.

\* used[n] is what the first n tuples use.
Sums(used, page) ==
  /\ used[0] = 0
  /\ \A n \in 1 .. page.bhd_offTableLen :
       used[n] = used[n - 1] + UsedLen(page, n - 1)

LEMMA SumsIs ==
  ASSUME NEW page, page.bhd_offTableLen \in Nat,
         \A i \in Indexes(page) : UsedLen(page, i) \in Nat
  PROVE  \E used \in [0 .. page.bhd_offTableLen -> Nat] :
            Sums(used, page) /\ \A n : UsedBy(page, n) = used[n]
<1> DEFINE L == page.bhd_offTableLen
           Use(f) == f = [k \in 0 .. L |-> IF k = 0 THEN 0 ELSE f[k - 1] + UsedLen(page, k - 1)]
           s == [p \in Nat \X Nat |->
                   IF p[2] \in 1 .. L THEN p[1] + UsedLen(page, p[2] - 1) ELSE p[1]]
<1>1. \A n \in 1 .. L : UsedLen(page, n - 1) \in Nat BY DEF Indexes
<1>2. s \in [Nat \X Nat -> Nat] BY <1>1
<1>3. PICK g \in [0 .. L -> Nat] : Iterated(g, L, 0, s)
  <2> HIDE DEF s
  <2> QED BY <1>2, IteratedExists
<1>4. g[0] = 0
  <2> HIDE DEF s
  <2> QED BY <1>3 DEF Iterated
<1>5. ASSUME NEW n \in 1 .. L PROVE g[n] = g[n - 1] + UsedLen(page, n - 1)
  <2>1. n - 1 \in 0 .. L /\ n \in 0 .. L /\ n # 0 OBVIOUS
  <2>2. g[n] = s[<<g[n - 1], n>>]
    <3> HIDE DEF s
    <3> QED BY <1>3, <2>1 DEF Iterated
  <2>3. <<g[n - 1], n>> \in Nat \X Nat BY <2>1
  <2> QED BY <2>2, <2>3
<1>6. Use(g)
  <2>1. ASSUME NEW n \in 0 .. L
        PROVE  g[n] = IF n = 0 THEN 0 ELSE g[n - 1] + UsedLen(page, n - 1)
    BY <1>4, <1>5
  <2> HIDE DEF s
  <2> QED BY <2>1
<1> HIDE DEF s
<1>7. \E f : Use(f) BY <1>6
<1> DEFINE used == CHOOSE f : Use(f)
<1>8. Use(used) BY <1>7
<1> HIDE DEF Use
<1>9. \A n : UsedBy(page, n) = used[n] BY DEF UsedBy, Use
<1> HIDE DEF used
<1>10. Sums(used, page)
  <2>1. \A n \in 1 .. L : n \in 0 .. L /\ n # 0 OBVIOUS
  <2> QED BY <1>8, <2>1 DEF Sums, Use
<1>11. used \in [0 .. L -> Nat]
  <2> DEFINE T == {n \in Nat : n \in 0 .. L => used[n] \in Nat}
  <2>1. 0 \in T BY <1>10 DEF Sums
  <2>2. ASSUME NEW n \in 0 .. L - 1, n \in T PROVE n + 1 \in T
    <3> DEFINE m == n + 1
    <3>1. m \in 1 .. L /\ m - 1 = n /\ n \in 0 .. L OBVIOUS
    <3>2. used[n] \in Nat BY <2>2, <3>1
    <3> HIDE DEF m
    <3>3. used[m] = used[n] + UsedLen(page, n) BY <1>10, <3>1 DEF Sums
    <3>4. UsedLen(page, n) \in Nat BY <3>1, <1>1
    <3>5. m \in T BY <3>1, <3>2, <3>3, <3>4
    <3> QED BY <3>5 DEF m
  <2> HIDE DEF T
  <2>3. 0 .. L \subseteq T BY <2>1, <2>2, UpTo
  <2>4. \A n \in 0 .. L : used[n] \in Nat BY <2>3 DEF T
  <2>5. used = [n \in 0 .. L |-> used[n]] BY <1>8 DEF Use
  <2> QED BY <2>4, <2>5
<1> QED BY <1>9, <1>10, <1>11

LEMMA UsedIs ==
  ASSUME NEW page, Shape(page)
  PROVE  /\ UsedBy(page, 0) = 0
         /\ \A n \in 0 .. page.bhd_offTableLen : UsedBy(page, n) \in Nat
         /\ \A i \in Indexes(page) : UsedBy(page, i + 1) = UsedBy(page, i) + UsedLen(page, i)
<1> DEFINE L == page.bhd_offTableLen
<1>1. L \in Nat /\ \A i \in Indexes(page) : i \in 0 .. L - 1 /\ UsedLen(page, i) \in Nat
  BY ShapeFields DEF Indexes, UsedLen, Lng
<1>2. PICK used \in [0 .. L -> Nat] : Sums(used, page) /\ \A n : UsedBy(page, n) = used[n]
  BY <1>1, SumsIs
<1>3. \A i \in Indexes(page) : used[i + 1] = used[i] + UsedLen(page, i)
  <2> TAKE i \in Indexes(page)
  <2> DEFINE n == i + 1
  <2>1. n \in 1 .. L /\ n - 1 = i BY <1>1
  <2> HIDE DEF n, L
  <2>2. used[n] = used[i] + UsedLen(page, i) BY <1>2, <2>1 DEF Sums, L
  <2> QED BY <2>2 DEF n
<1> QED BY <1>1, <1>2, <1>3 DEF Sums

\* Pages whose items have the same flags and lengths use the same.
LEMMA UsedSame ==
  ASSUME NEW page, Shape(page), NEW old, Shape(old),
         page.bhd_offTableLen = old.bhd_offTableLen,
         \A i \in Indexes(old) : /\ ItemAt(page, i).bo_flag = ItemAt(old, i).bo_flag
                                 /\ Lng(page, i) = Lng(old, i)
  PROVE  UsedBy(page, old.bhd_offTableLen) = UsedBy(old, old.bhd_offTableLen)
<1> DEFINE L == old.bhd_offTableLen
           T == {n \in Nat : n \in 0 .. L => UsedBy(page, n) = UsedBy(old, n)}
<1>1. L \in Nat /\ Indexes(page) = Indexes(old) /\ Indexes(old) = 0 .. L - 1
  BY ShapeFields DEF Indexes
<1>2. \A i \in Indexes(old) : UsedLen(page, i) = UsedLen(old, i)
  BY DEF UsedLen, BD_CheckItemInValid, Lng
<1>3. 0 \in T BY UsedIs
<1>4. ASSUME NEW n \in 0 .. L - 1, n \in T PROVE n + 1 \in T
  <2>1. UsedBy(page, n) = UsedBy(old, n) BY <1>4, <1>1
  <2>2. n \in Indexes(old) /\ n \in Indexes(page) BY <1>1
  <2>3. UsedBy(page, n + 1) = UsedBy(page, n) + UsedLen(page, n) BY <2>2, UsedIs
  <2>4. UsedBy(old, n + 1) = UsedBy(old, n) + UsedLen(old, n) BY <2>2, UsedIs
  <2>5. UsedLen(page, n) = UsedLen(old, n) BY <1>2, <2>2
  <2>6. n + 1 \in Nat BY <1>1
  <2> QED BY <2>1, <2>3, <2>4, <2>5, <2>6
<1> HIDE DEF T
<1>5. 0 .. L \subseteq T BY <1>1, <1>3, <1>4, UpTo
<1>6. L \in 0 .. L BY <1>1
<1> QED BY <1>1, <1>5, <1>6 DEF T

\* The bytes behind handleindex are those of the tuples before index, and the j
\* bytes of the tuple at index that are moved.
Tiled(v, old) == v.handleindex + 1 + v.j = BLOCKSIZE - UsedBy(old, v.index)
TiledInv == vac.bnum # 0 => Tiled(vac, blocks[vac.bnum])

LEMMA ReadingTiled ==
  ASSUME IInv, NEW c \in Nat, c # 0, c < Len(blocks)
  PROVE  Tiled([bnum |-> c, page |-> blocks[c], index |-> 0, j |-> 0,
                handleindex |-> BLOCKSIZE - 1], blocks[c])
<1>1. c \in DOMAIN blocks BY DEF IInv, BlocksOK
<1>2. Shape(blocks[c]) BY <1>1 DEF IInv, BlocksOK, PageInv
<1>3. UsedBy(blocks[c], 0) = 0 BY <1>2, UsedIs
<1> QED BY <1>3, Sizes DEF Tiled

\* A step of the packing.
LEMMA TiledStep ==
  ASSUME IInv, TiledInv, SkipDeleted \/ MoveByte \/ SetItemOffset
  PROVE  TiledInv'
<1> DEFINE old == blocks[vac.bnum]
           i == vac.index
<1>1. InTable /\ blocks' = blocks BY DEF SkipDeleted, MoveByte, SetItemOffset
<1>2. /\ vac.bnum # 0 /\ i < vac.page.bhd_offTableLen
      /\ PageInv(old) /\ Packing(vac, old)
      /\ vac = [bnum |-> vac.bnum, page |-> vac.page, index |-> i, j |-> vac.j,
                handleindex |-> vac.handleindex]
  BY <1>1 DEF InTable, IInv, VacOK, BlocksOK
<1>3. /\ i \in Indexes(old) /\ i \in Nat /\ VacItem = ItemAt(old, i)
      /\ i \in Live(old) <=> VacItem.bo_flag # 1
  BY <1>2, PackItem DEF VacItem
<1>4. Shape(old) BY <1>2 DEF PageInv
<1>5. /\ UsedBy(old, i + 1) = UsedBy(old, i) + UsedLen(old, i)
      /\ UsedBy(old, i) \in Nat
  <2>1. i \in 0 .. old.bhd_offTableLen BY <1>3, <1>4, ShapeFields DEF Indexes
  <2> QED BY <1>3, <1>4, <2>1, UsedIs
<1>6. /\ vac.handleindex \in Int /\ vac.j \in Nat /\ Lng(old, i) \in Nat
      /\ vac.handleindex + 1 + vac.j = BLOCKSIZE - UsedBy(old, i)
      /\ i \notin Live(old) => vac.j = 0
  BY <1>2, <1>3, <1>4, ShapeFields DEF Packing, Cursor, TiledInv, Tiled
<1> HIDE DEF old
<1>7. CASE SkipDeleted
  <2>1. vac'.bnum = vac.bnum /\ vac'.index = i + 1 /\ vac'.j = vac.j
        /\ vac'.handleindex = vac.handleindex
    BY <1>2, <1>7 DEF SkipDeleted
  <2>2. UsedLen(old, i) = 0 /\ vac.j = 0
    BY <1>3, <1>6, <1>7 DEF SkipDeleted, BD_CheckItemInValid, UsedLen
  <2>3. Tiled(vac', old) BY <1>5, <1>6, <2>1, <2>2, Sizes DEF Tiled
  <2> QED BY <1>1, <2>1, <2>3 DEF TiledInv, old
<1>8. CASE MoveByte
  <2>1. vac'.bnum = vac.bnum /\ vac'.index = i /\ vac'.j = vac.j + 1
        /\ vac'.handleindex = vac.handleindex - 1
    BY <1>2, <1>8 DEF MoveByte
  <2>2. Tiled(vac', old) BY <1>5, <1>6, <2>1, Sizes DEF Tiled
  <2> QED BY <1>1, <2>1, <2>2 DEF TiledInv, old
<1>9. CASE SetItemOffset
  <2>1. vac'.bnum = vac.bnum /\ vac'.index = i + 1 /\ vac'.j = 0
        /\ vac'.handleindex = vac.handleindex
    BY <1>2, <1>9 DEF SetItemOffset
  <2>2. UsedLen(old, i) = Lng(old, i) /\ vac.j = Lng(old, i)
    BY <1>3, <1>9 DEF SetItemOffset, BD_CheckItemInValid, UsedLen, Lng
  <2>3. Tiled(vac', old) BY <1>5, <1>6, <2>1, <2>2, Sizes DEF Tiled
  <2> QED BY <1>1, <2>1, <2>3 DEF TiledInv, old
<1> QED BY <1>7, <1>8, <1>9

\* The block that is written has all its bytes accounted for.
LEMMA WriteTiled ==
  ASSUME IInv, TiledInv, BLK_sWriteBlock
  PROVE  /\ TiledInv'
         /\ blocks'[vac.bnum].bhd_upper =
              BLOCKSIZE - UsedBy(blocks'[vac.bnum], blocks'[vac.bnum].bhd_offTableLen)
<1> DEFINE b == vac.bnum
           old == blocks[b]
           page == [vac.page EXCEPT !.bhd_upper = vac.handleindex + 1]
<1>1. /\ b # 0 /\ vac.index = vac.page.bhd_offTableLen
      /\ blocks' = [blocks EXCEPT ![b] = page]
      /\ vac' = IF b + 1 < Len(blocks)
                THEN [bnum |-> b + 1, page |-> blocks[b + 1], index |-> 0, j |-> 0,
                      handleindex |-> BLOCKSIZE - 1]
                ELSE Idle
  BY DEF BLK_sWriteBlock, UpperAt, Reading
<1>2. /\ BlocksOK(blocks) /\ b \in Nat /\ b \in DOMAIN blocks
      /\ PageInv(old) /\ Packing(vac, old) /\ Shape(old)
  BY <1>1 DEF IInv, VacOK, BlocksOK, PageInv
<1>3. Shape(page) BY <1>1, <1>2, WrittenOK DEF PageInv
<1>4. /\ page.bhd_upper = vac.handleindex + 1 /\ page.mem = vac.page.mem
      /\ page.bhd_offTableLen = old.bhd_offTableLen
      /\ \A i \in Indexes(old) : /\ ItemAt(vac.page, i).bo_flag = ItemAt(old, i).bo_flag
                                 /\ Lng(vac.page, i) = Lng(old, i)
      /\ vac.page.bhd_offTableLen = old.bhd_offTableLen
  BY <1>2 DEF Packing, SameItems, Shape, Pages
<1>5. \A i : ItemAt(page, i) = ItemAt(vac.page, i) BY <1>4, MemItem
<1>6. UsedBy(page, old.bhd_offTableLen) = UsedBy(old, old.bhd_offTableLen)
  <2>1. \A i \in Indexes(old) : /\ ItemAt(page, i).bo_flag = ItemAt(old, i).bo_flag
                                /\ Lng(page, i) = Lng(old, i)
    BY <1>4, <1>5 DEF Lng
  <2> HIDE DEF page, old
  <2> QED BY <1>2, <1>3, <1>4, <2>1, UsedSame
<1>7. vac.j = 0 /\ vac.handleindex \in Int
  <2>1. vac.index \notin Live(old)
    <3>1. \A i \in Live(old) : i < old.bhd_offTableLen BY <1>2, OldLive
    <3>2. old.bhd_offTableLen \in Nat BY <1>2, OldLive
    <3> QED BY <1>1, <1>4, <3>1, <3>2
  <2> QED BY <1>2, <2>1 DEF Packing, Cursor
<1>8. page.bhd_upper = BLOCKSIZE - UsedBy(page, page.bhd_offTableLen)
  <2>1. vac.handleindex + 1 + vac.j = BLOCKSIZE - UsedBy(old, vac.index)
    BY <1>1 DEF TiledInv, Tiled
  <2> HIDE DEF page, old
  <2> QED BY <1>1, <1>4, <1>6, <1>7, <2>1
<1>9. blocks'[b] = page BY <1>1, <1>2 DEF BlocksOK
<1>10. TiledInv'
  <2>1. CASE b + 1 < Len(blocks)
    <3>1. /\ vac' = [bnum |-> b + 1, page |-> blocks[b + 1], index |-> 0, j |-> 0,
                     handleindex |-> BLOCKSIZE - 1]
          /\ vac'.bnum = b + 1
      BY <1>1, <2>1
    <3>2. b + 1 \in Nat /\ b + 1 # 0 /\ b + 1 # b BY <1>2
    <3>3. Tiled(vac', blocks[b + 1]) BY <2>1, <3>1, <3>2, ReadingTiled
    <3>4. b + 1 \in DOMAIN blocks BY <1>2, <2>1, <3>2 DEF BlocksOK
    <3>5. blocks'[b + 1] = blocks[b + 1] BY <1>1, <3>2, <3>4
    <3> QED BY <3>1, <3>3, <3>5 DEF TiledInv
  <2>2. CASE ~(b + 1 < Len(blocks)) BY <1>1, <2>2 DEF TiledInv, Idle
  <2> QED BY <2>1, <2>2
<1> QED BY <1>8, <1>9, <1>10

LEMMA TiledNext ==
  ASSUME IInv, TiledInv, [Next]_blockVars
  PROVE  TiledInv'
<1>1. CASE VAC_vArrangeRelationData
  <2>1. vac' = Reading(1) /\ blocks' = blocks BY <1>1 DEF VAC_vArrangeRelationData
  <2>2. CASE 1 < Len(blocks)
    <3>1. /\ vac' = [bnum |-> 1, page |-> blocks[1], index |-> 0, j |-> 0,
                     handleindex |-> BLOCKSIZE - 1]
          /\ vac'.bnum = 1
      BY <2>1, <2>2 DEF Reading
    <3>2. Tiled(vac', blocks[1]) BY <2>2, <3>1, ReadingTiled
    <3> QED BY <2>1, <3>1, <3>2 DEF TiledInv
  <2>3. CASE ~(1 < Len(blocks)) BY <2>1, <2>3 DEF Reading, Idle, TiledInv
  <2> QED BY <2>2, <2>3
<1>2. CASE SkipDeleted \/ MoveByte \/ SetItemOffset BY <1>2, TiledStep
<1>3. CASE BLK_sWriteBlock BY <1>3, WriteTiled
<1>4. CASE Crash BY <1>4 DEF Crash, Idle, TiledInv
<1>5. ASSUME vac.bnum = 0, vac' = vac PROVE TiledInv' BY <1>5 DEF TiledInv
<1>6. CASE AppendNewBlock BY <1>5, <1>6 DEF AppendNewBlock
<1>7. ASSUME NEW b \in DOMAIN blocks, NEW row \in Rows, BLK_vBlockInsert(b, row)
      PROVE  TiledInv'
  BY <1>5, <1>7 DEF BLK_vBlockInsert
<1>8. ASSUME NEW b \in DOMAIN blocks, NEW i \in Places, BLK_vDeleteTupleFromBlock(b, i)
      PROVE  TiledInv'
  BY <1>5, <1>8 DEF BLK_vDeleteTupleFromBlock
<1>9. CASE UNCHANGED blockVars BY <1>9 DEF blockVars, TiledInv
<1> QED BY <1>1, <1>2, <1>3, <1>4, <1>6, <1>7, <1>8, <1>9 DEF Next, Pack

\* A block that the vacuum writes has no byte that is neither free nor part of a
\* tuple that is not deleted, for blocks, items and rows of any sizes
\* (vacuum.c:37-49).
THEOREM PackingIsTight == Spec => PacksAll
<1>1. Init => TiledInv BY DEF Init, Idle, TiledInv
<1>2. IInv /\ TiledInv /\ [Next]_blockVars => TiledInv' BY TiledNext
<1>3. IInv /\ TiledInv /\ [Next]_blockVars =>
        [BLK_sWriteBlock =>
           LET page == blocks'[vac.bnum]
           IN  page.bhd_upper = BLOCKSIZE - UsedBy(page, page.bhd_offTableLen)]_blockVars
  BY WriteTiled
<1> QED BY <1>1, <1>2, <1>3, Invariance, PTL DEF Spec, PacksAll
=============================================================================
