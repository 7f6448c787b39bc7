--------------------------------- MODULE Rows ---------------------------------
(***************************************************************************)
(* A table's rows as bytes: storage/tuple.c and utils/MemAndDisk.c, with   *)
(* what analyze_InsertTable, analyze_UpdateTable and execUpdateTable do    *)
(* to the columns. A row is written by its items' types and read by the    *)
(* types the table declares; the two differ when an UPDATE assigns a value *)
(* of another type.                                                        *)
(*                                                                         *)
(* A row's bytes are those of the MemTuple that goes to a block. Where the *)
(* blocks put it, and which rows a scan sees, is in SlottedBlock and       *)
(* TableOps. Uninitialized bytes behind a text's end count as zero bytes:  *)
(* nothing reads them. Texts of any length are taken: one that is longer   *)
(* than its column may need more memory than its MemTuple has. The process *)
(* may end of that, or go on with the row; what becomes of such a row, and *)
(* what else its bytes overwrote, is not followed.                         *)
(***************************************************************************)
EXTENDS Items, SequencesExt

CONSTANTS
  Schemas,   \* tables: sequences of attributes [type, len]
  Inserts,   \* statements: [attrs |-> indexes or <<>>, values |-> texts]
  Updates,   \* statements: [sets |-> <<[col, expr]>>, where |-> expr]
  FILE_LINE_LEN,
  MaxRows    \* bound: how many rows are written

VARIABLES
  attrs,     \* the table's attributes
  rows,      \* its rows: their bytes, the delete flag, whether the columns had room for
             \* the texts, and what was meant
  upd        \* the UPDATE that runs, with its newtuple's items

rowVars == <<attrs, rows, upd>>

Columns == DOMAIN attrs

Arithmetic == {"OP_ADD", "OP_SUB", "OP_MUL", "OP_DIV", "OP_MOD"}
Comparisons ==
  {"OP_LESS", "OP_LESS_EQUAL", "OP_EQUAL", "OP_NOT_EQUAL", "OP_GREATER", "OP_GREATER_EQUAL"}

\* Expressions have one operation. The grammar gives no comparison to set.
Operands ==
  [op : {"COLUMN"}, column : Nat]
    \cup [op : {"CONSTANT"},
          item : [type : {"INTEGER"}, data : -Half(IntBits) .. Half(IntBits) - 1, cap : {0}]
                   \cup [type : {"DOUBLE"}, data : Int, cap : {0}]
                   \cup [type : {"CHAR"}, data : Texts, cap : Nat]]
Operations(ops) == [op : ops, args : Operands \X Operands]

ASSUME RowsAssumption ==
  /\ MaxRows \in Nat /\ FILE_LINE_LEN \in Nat
  /\ \A table \in Schemas : table \in Seq([type : DataTypes, len : Nat])
  /\ \A ins \in Inserts : ins \in [attrs : Seq(Nat), values : Seq(Texts)]
  /\ \A u \in Updates :
       u \in [where : [op : {"NULL"}] \cup Operands \cup Operations(Arithmetic \cup Comparisons),
             sets : Seq([col : Nat, expr : Operands \cup Operations(Arithmetic)])]

-----------------------------------------------------------------------------
\* Bytes. A byte is the k-th of some number or text, or zero.

alignByte == 4
INT_SIZE == 4
SizeOf(type) == IF type \in {"LONG", "DOUBLE"} THEN 8 ELSE 4
Aligned(n) == ((n + alignByte - 1) \div alignByte) * alignByte

ZeroByte == <<"ZERO">>
NumberBytes(type, n) == [k \in 1 .. SizeOf(type) |-> <<type, n, k>>]
TextBytes(text, n) ==
  [k \in 1 .. n |-> IF text # Null /\ k <= TextLen[text] THEN <<"TEXT", text, k>> ELSE ZeroByte]

\* A CHAR is as long as its memory; a VARCHAR that was never set is empty.
DataLen(item) ==
  IF item.type = "CHAR" THEN item.cap ELSE IF item.data = Null THEN 0 ELSE TextLen[item.data]

\* (mutant) the length is not rounded up.
ExactLen(item) == DataLen(item)
WriteLen(item) == Aligned(DataLen(item))

iTuple2Buffer(item) ==
  IF IsCharType(item.type)
  THEN NumberBytes("INTEGER", WriteLen(item)) \o TextBytes(item.data, WriteLen(item))
  ELSE NumberBytes(item.type, item.data)

\* The bytes of the first n items.
BytesUpTo(items) ==
  LET bytes[n \in 0 .. Len(items)] ==
        IF n = 0 THEN <<>> ELSE bytes[n - 1] \o iTuple2Buffer(items[n])
  IN  bytes

uMem2Disk(items) ==
  LET bytes == BytesUpTo(items)[Len(items)]
  IN  bytes \o [k \in 1 .. Aligned(Len(bytes)) - Len(bytes) |-> ZeroByte]

\* The process ends at a row that is too long, and at a CHAR that was never set: it is
\* read through a NULL pointer.
Writable(items) ==
  /\ \A c \in DOMAIN items : items[c].type = "CHAR" => items[c].data # Null
  /\ \A n \in DOMAIN items : Len(BytesUpTo(items)[n]) < FILE_LINE_LEN - 1

\* The lengths of the first n columns, with so much more for each.
LensUpTo(as, more) ==
  LET lens[n \in 0 .. Len(as)] == IF n = 0 THEN 0 ELSE lens[n - 1] + as[n].len + more
  IN  lens

\* (mutant) room for a text's length only.
TupleLenTight(as) == Aligned(LensUpTo(as, 4)[Len(as)])
uGetMaxTupleLen(as) == Aligned(LensUpTo(as, 8)[Len(as)])

\* iBuffer2List: the item behind the first off bytes, and its size; -1 where the
\* length of a text is itself misread.
Bytes(buffer, off, n) == IF off + n > Len(buffer) THEN <<>> ELSE SubSeq(buffer, off + 1, off + n)

ReadNumber(buffer, off, type) ==
  LET bytes == Bytes(buffer, off, SizeOf(type))
  IN  IF bytes # <<>> /\ bytes[1][1] = type /\ bytes = NumberBytes(type, bytes[1][2])
      THEN bytes[1][2] ELSE Junk

ReadText(buffer, off, n) ==
  LET bytes == Bytes(buffer, off, n)
      texts == {t \in Texts : TextLen[t] <= n /\ bytes = TextBytes(t, n)}
  IN  IF Len(bytes) # n \/ texts = {} THEN Junk ELSE CHOOSE t \in texts : TRUE

iBuffer2List(buffer, off, attr) ==
  LET len == ReadNumber(buffer, off, "INTEGER")
  IN  IF off < 0 THEN [item |-> Item(attr.type, Junk, 0), size |-> 0]
      ELSE IF ~IsCharType(attr.type)
      THEN [item |-> Item(attr.type, ReadNumber(buffer, off, attr.type), 0),
            size |-> SizeOf(attr.type)]
      ELSE IF len = Junk \/ len < 0
      THEN [item |-> Item(attr.type, Junk, 0), size |-> -1 - off]
      ELSE [item |-> Item(attr.type, ReadText(buffer, off + INT_SIZE, len), len),
            size |-> INT_SIZE + len]

\* Where the bytes of the first n columns end.
OffsUpTo(buffer, as) ==
  LET off[n \in 0 .. Len(as)] ==
        IF n = 0 THEN 0 ELSE off[n - 1] + iBuffer2List(buffer, off[n - 1], as[n]).size
  IN  off

vDisk2Mem(buffer, as) ==
  LET off == OffsUpTo(buffer, as)
  IN  [c \in DOMAIN as |-> iBuffer2List(buffer, off[c - 1], as[c]).item]

\* A row that is too long to be read ends the process.
Readable(buffer, as) == \A n \in DOMAIN as : OffsUpTo(buffer, as)[n] < FILE_LINE_LEN - 1

Heaptuple(row) == vDisk2Mem(row.bytes, attrs)

-----------------------------------------------------------------------------
\* Statements

NewTuple(as) == [c \in DOMAIN as |-> initHeapTupleItembyAttrData(as[c])]
NoUpdate == [running |-> FALSE]

\* No text was given more memory than its column has.
Roomy(items) ==
  \A c \in Columns :
    IsCharType(items[c].type) /\ IsCharType(attrs[c].type) => items[c].cap <= attrs[c].len
Row(items, meant) ==
  [bytes |-> uMem2Disk(items), deleted |-> FALSE, roomy |-> Roomy(items), meant |-> meant]

\* The parser's lists are in reversed order: the last attribute and the last value
\* come first. (mutant) the columns are counted from the first one.
SetFromFirst(items, values, k) == k
SetFromLast(items, values, k) == Len(items) + 1 - k

\* Tup_setAttrByStr for each value; pairs are in the order in which the code sets.
InsertPairs(ins) ==
  LET values == Reverse(ins.values)
      columns == IF ins.attrs = <<>>
                 THEN [k \in DOMAIN values |-> SetFromLast(attrs, values, k)]
                 ELSE Reverse(ins.attrs)
  IN  [k \in DOMAIN values |-> <<columns[k], values[k]>>]

ItemsSet(pairs) ==
  LET items[k \in 0 .. Len(pairs)] ==
        IF k = 0 THEN NewTuple(attrs)
        ELSE [items[k - 1] EXCEPT ![pairs[k][1]] =
                setHeapTupleItemByStr(@, attrs[pairs[k][1]].type, pairs[k][2])]
  IN  items
InsertItems(ins) == ItemsSet(InsertPairs(ins))[Len(ins.values)]

\* The number of values must be that of the attributes.
InsertMatches(ins) ==
  /\ Len(ins.values) = IF ins.attrs = <<>> THEN Len(attrs) ELSE Len(ins.attrs)
  /\ \A i \in DOMAIN ins.attrs : ins.attrs[i] \in Columns

\* The day that a text means, if the code can tell: not of a month whose name is
\* misread, nor with a slash behind more than a digit of month, nor a day that is none.
DayMeant(d) == d.year * 10000 + d.month * 100 + d.day
Clear(text) ==
  LET d == TextDate[text]
  IN  /\ DateAccepted(text)
      /\ d.kind \in {3, 4} => d.month # 10
      /\ d.kind = 1 => d.monthDigits = 1

\* What a text says in a column; Junk where nothing is promised: numbers that the type
\* does not have, and whole ones that an int does not have (char2Int), in a LONG too.
MeantByNumeral(halves, type) ==
  IF type \in RealTypes
  THEN IF Holds("DOUBLE", halves) /\ Holds(type, halves) THEN halves ELSE Junk
  ELSE IF halves % 2 = 0 /\ Holds("INTEGER", halves \div 2) THEN halves \div 2 ELSE Junk
MeantByText(text, attr) ==
  CASE IsCharType(attr.type) -> Item(attr.type, text, attr.len)
    [] IsDateType(attr.type) ->
         Item(attr.type, IF Clear(text) THEN DayMeant(TextDate[text]) ELSE Junk, 0)
    [] OTHER ->
         Item(attr.type,
              IF text \in Numerals THEN MeantByNumeral(TextNum[text], attr.type) ELSE Junk, 0)

\* What the statement says: the i-th value is for the i-th attribute it names, the
\* first one if it names it again, and what it leaves out is 0 or an empty text.
FirstOf(places) == CHOOSE i \in places : \A j \in places : i <= j
LeftOut(attr) == IF attr.type = "VARCHAR" THEN Item(attr.type, Empty, attr.len)
                 ELSE initHeapTupleItembyAttrData(attr)
MeantByInsert(ins) ==
  LET named == IF ins.attrs = <<>> THEN [c \in Columns |-> c] ELSE ins.attrs
      places(c) == {i \in DOMAIN named : named[i] = c}
  IN  [c \in Columns |->
         IF places(c) = {} THEN LeftOut(attrs[c])
         ELSE MeantByText(ins.values[FirstOf(places(c))], attrs[c])]

\* An INSERT that does not match, or whose row is not written, ends without a row.
Insert(ins) ==
  /\ ~upd.running /\ Len(rows) < MaxRows
  /\ InsertMatches(ins)
  /\ Writable(InsertItems(ins))
  /\ rows' = Append(rows, Row(InsertItems(ins), MeantByInsert(ins)))
  /\ UNCHANGED <<attrs, upd>>

\* Expr_Calculate: nothing, a column, a constant, or an operation on two of them.
Operand(e, items) == IF e.op = "COLUMN" THEN items[e.column] ELSE e.item
Expr_Calculate(e, items) ==
  IF e.op = "NULL" THEN TRUE
  ELSE IF e.op \in {"COLUMN", "CONSTANT"} THEN Operand(e, items)
  ELSE LET a == Operand(e.args[1], items)
           b == Operand(e.args[2], items)
       IN  IF e.op \in Arithmetic
           THEN calculateHeapTupleItem(a, b, e.op)
           ELSE Compares(e.op, a, b)

ColumnsOf(e) ==
  CASE e.op = "COLUMN" -> {e.column} [] e.op \in {"NULL", "CONSTANT"} -> {}
    [] OTHER -> UNION {IF e.args[i].op = "COLUMN" THEN {e.args[i].column} ELSE {} : i \in 1 .. 2}

\* A statement for this table: its columns exist.
Applicable(u) ==
  /\ ColumnsOf(u.where) \subseteq Columns
  /\ \A k \in DOMAIN u.sets :
       ({u.sets[k].col} \cup ColumnsOf(u.sets[k].expr)) \subseteq Columns

UpdateStart(u) ==
  /\ ~upd.running /\ Applicable(u)
  /\ upd' = [running |-> TRUE, stmt |-> u, next |-> 1, last |-> Len(rows),
             new |-> NewTuple(attrs)]
  /\ UNCHANGED <<attrs, rows>>

\* Tup_vClearTuple, the copy of the row, and the columns that are set: every
\* expression sees the row as it was. Dies where a step does.
\* (mutant) an expression sees the columns that are already set.
ExprRowSet(old, items) == items
ExprRow(old, items) == old
Copied(new, old) ==
  [c \in DOMAIN new |-> copyHeapTupleItem(vDestroyHeapTupleItem(new[c]), old[c])]
SetColumn(items, old, set) ==
  LET value == Expr_Calculate(set.expr, ExprRow(old, items))
  IN  IF Dies \in {items[c] : c \in DOMAIN items} \/ value = Dies
      THEN [items EXCEPT ![set.col] = Dies]
      ELSE [items EXCEPT ![set.col] = copyHeapTupleItem(@, value)]
ItemsChanged(u, new, old) ==
  LET items[k \in 0 .. Len(u.sets)] ==
        IF k = 0 THEN Copied(new, old)
        ELSE SetColumn(items[k - 1], old, u.sets[Len(u.sets) + 1 - k])
  IN  items
UpdatedItems(u, new, old) == ItemsChanged(u, new, old)[Len(u.sets)]

\* The row is read, and checkTuple: a condition that is no comparison is an error.
Current == Heaptuple(rows[upd.next])
Matches ==
  IF Readable(rows[upd.next].bytes, attrs) /\ upd.stmt.where.op \in {"NULL"} \cup Comparisons
  THEN Expr_Calculate(upd.stmt.where, Current) ELSE Dies
Updated == UpdatedItems(upd.stmt, upd.new, Current)
Broken(items) == \E c \in DOMAIN items : items[c] = Dies
Scanning == upd.running /\ upd.next <= upd.last

\* Whether all of a row's values have the types of their columns.
Class(type) == IF IsCharType(type) THEN "TEXT" ELSE type
Typed(row) == \A c \in Columns : Class(row.meant[c].type) = Class(attrs[c].type)

\* What it is followed for.
Sound(row) == row.roomy /\ Typed(row)

\* The types of numbers, from the narrowest to the widest.
Widths == <<"INTEGER", "LONG", "FLOAT", "DOUBLE">>
Rank(type) == CHOOSE k \in DOMAIN Widths : Widths[k] = type
Wider(a, b) == Widths[Greater(Rank(a), Rank(b))]

\* What an expression says of what the columns meant: the number that the operation
\* gives, if the wider type of its operands has it and them, and a type it fits.
InUnit(item, type) == IF type \in RealTypes THEN Halves(item) ELSE item.data
MeantByOperation(op, type, x, y) ==
  LET exact == Exact(op, type, x, y)
      parts == op = "OP_MUL" /\ type \in RealTypes /\ (x * y) % 2 # 0
  IN  IF ~parts /\ \A n \in {x, y, exact} : Holds(type, n) THEN exact ELSE Junk
Meaning(e, meant) ==
  LET a == Operand(e.args[1], meant)
      b == Operand(e.args[2], meant)
      type == Wider(a.type, b.type)
  IN  IF e.op \in {"COLUMN", "CONSTANT"} THEN Operand(e, meant)
      ELSE Item(type, IF Junk \in {a.data, b.data} THEN Junk
                      ELSE MeantByOperation(e.op, type, InUnit(a, type), InUnit(b, type)), 0)

\* What the statement says: the columns it does not set keep what they meant, and
\* what it sets twice is what it says first.
MeantByUpdate(u, old) ==
  LET set(c) == {k \in DOMAIN u.sets : u.sets[k].col = c}
  IN  [c \in Columns |->
         IF set(c) = {} THEN old.meant[c]
         ELSE Meaning(u.sets[FirstOf(set(c))].expr, old.meant)]

PassRow ==
  /\ Scanning
  /\ rows[upd.next].deleted \/ (Sound(rows[upd.next]) /\ Matches = FALSE)
  /\ upd' = [upd EXCEPT !.next = @ + 1]
  /\ UNCHANGED <<attrs, rows>>

\* Tup_cDeleteTuple and Tup_vAppend.
Changes == Scanning /\ ~rows[upd.next].deleted /\ Sound(rows[upd.next]) /\ Matches = TRUE
UpdateRow ==
  /\ Changes /\ Len(rows) < MaxRows
  /\ \E items \in {Updated} :
       /\ ~Broken(items) /\ Writable(items)
       /\ rows' = Append([rows EXCEPT ![upd.next].deleted = TRUE],
                         Row(items, MeantByUpdate(upd.stmt, rows[upd.next])))
       /\ upd' = [upd EXCEPT !.next = @ + 1, !.new = items]
  /\ UNCHANGED attrs

\* The process ends before the row is deleted. What it does with a row that is not
\* sound is not followed.
UpdateDies ==
  /\ Scanning /\ ~rows[upd.next].deleted
  /\ Sound(rows[upd.next]) => Matches = Dies \/ (Changes /\ Broken(Updated))
  /\ upd' = NoUpdate
  /\ UNCHANGED <<attrs, rows>>

\* It ends after the row was deleted: the new one is not written, or takes more memory
\* than it has.
UpdateLosesRow ==
  /\ Changes
  /\ \E items \in {Updated} : ~Broken(items) /\ (~Writable(items) \/ ~Roomy(items))
  /\ rows' = [rows EXCEPT ![upd.next].deleted = TRUE]
  /\ upd' = NoUpdate
  /\ UNCHANGED attrs

UpdateEnd ==
  /\ upd.running /\ upd.next > upd.last
  /\ upd' = NoUpdate
  /\ UNCHANGED <<attrs, rows>>

Init == attrs \in Schemas /\ rows = <<>> /\ upd = NoUpdate

Next ==
  \/ \E ins \in Inserts : Insert(ins)
  \/ \E u \in Updates : UpdateStart(u)
  \/ PassRow \/ UpdateRow \/ UpdateDies \/ UpdateLosesRow \/ UpdateEnd

Spec == Init /\ [][Next]_rowVars

-----------------------------------------------------------------------------
\* Properties

\* What decides where the next column is; 0 where a text's length does.
Width(type) == IF IsCharType(type) THEN 0 ELSE SizeOf(type)

\* A row whose columns have room for its texts reads back as what its statements said,
\* dates as the days that were written and numbers as the ones that were written or
\* calculated, if the types have them: not what a LONG column is given by a text and an
\* int cannot hold. A value of another type spoils no column before it, and those behind
\* it only where it takes other bytes; if it has none, the row is not too long to be read
\* (analyze.c:134-218, execTable.c:163-181, MemAndDisk.c:52-150).
RowReadBack ==
  \A r \in DOMAIN rows :
    LET items == Heaptuple(rows[r])
        meant == rows[r].meant
    IN  /\ Sound(rows[r]) => Readable(rows[r].bytes, attrs)
        /\ \A c \in Columns :
             /\ rows[r].roomy
             /\ Class(meant[c].type) = Class(attrs[c].type)
             /\ \A b \in 1 .. c - 1 : Width(meant[b].type) = Width(attrs[b].type)
             => meant[c].data \in {items[c].data, Junk}

\* The bytes that writing an item touches: the memset before it clears more.
Touched(item) ==
  CASE item.type = "CHAR" -> WriteLen(item) + INT_SIZE + 1
    [] item.type = "VARCHAR" -> WriteLen(item) + 2 * INT_SIZE + 1
    [] item.type = "DATE" -> 9
    [] OTHER -> SizeOf(item.type) + 1

Overruns(row) ==
  LET items == Heaptuple(row)
      before(c) == Len(BytesUpTo(items)[c - 1])
  IN  \/ Len(row.bytes) > uGetMaxTupleLen(attrs)
      \/ \E c \in Columns : before(c) + Touched(items[c]) > uGetMaxTupleLen(attrs) + 1

\* Where no text has more memory than its column declares, the whole row, with the
\* lengths and the padding that go with the texts, fits in the memory that is allocated
\* by the declared lengths, when it is written and when what was read is written again;
\* what is cleared is at most a byte more (parseTable.c:14-34, charType.c:62-81,
\* varcharType.c:54-73, tuple.c:143-151). Other rows overrun it: nothing compares a
\* text with its column, and the item grows with the text (analyze.c:172, 191).
RowFits == \A r \in DOMAIN rows : Sound(rows[r]) => ~Overruns(rows[r])

\* Rows put behind each other, as they are or written again by a projection, read as
\* the row of the joined relation, unless both are too long for FILE_LINE_LEN together:
\* the process ends there (execJoin.c:91-112, exectutor.c:52-80, MemAndDisk.c:139-143).
JoinReads ==
  \A r, s \in DOMAIN rows :
    Sound(rows[r]) /\ Sound(rows[s]) =>
      LET again == uMem2Disk(Copied(NewTuple(attrs), Heaptuple(rows[r])))
          data(items) == [c \in DOMAIN items |-> items[c].data]
          both == data(Heaptuple(rows[r])) \o data(Heaptuple(rows[s]))
      IN  \A bytes \in {rows[r].bytes, again} :
            Len(bytes) + Len(rows[s].bytes) < FILE_LINE_LEN - 1 =>
              /\ Readable(bytes \o rows[s].bytes, attrs \o attrs)
              /\ data(vDisk2Mem(bytes \o rows[s].bytes, attrs \o attrs)) = both

Sign(n) == IF n > 0 THEN 1 ELSE IF n < 0 THEN -1 ELSE 0

\* Numbers of any types compare as what they are, when they are equal or differ by at
\* least 1 and by what an int can hold, and the type they are compared in has them and
\* their difference: a whole number that a FLOAT or a DOUBLE rounds is outside. Dates
\* compare with texts as days (parseTuple.c:337-420, 567-596, 635-706, dateType.c:102-198).
ComparesExactly ==
  \A r, s \in DOMAIN rows : \A b, c \in Columns :
    LET x == Heaptuple(rows[r])[b]
        y == Heaptuple(rows[s])[c]
        cmp == cmpHeapTupleItem(x, y)
        difference == Halves(x) - Halves(y)
    IN  Sound(rows[r]) /\ Sound(rows[s]) =>
          /\ /\ IsNumericType(x.type) /\ IsNumericType(y.type)
             /\ difference = 0 \/ Abs(difference) \in 2 .. 2 * Half(IntBits) - 1
             /\ Wider(x.type, y.type) \in RealTypes =>
                  \A n \in {Halves(x), Halves(y), difference} : Holds(Wider(x.type, y.type), n)
             => Sign(cmp) = Sign(difference)
          /\ x.type = "DATE" /\ IsCharType(y.type) /\ Clear(y.data) =>
               Sign(cmp) = Sign(x.data - DayMeant(TextDate[y.data]))

TypeOf(e) ==
  LET type(o) == IF o.op = "COLUMN" THEN attrs[o.column] ELSE o.item
      a == type(e.args[1])
      b == type(e.args[2])
  IN  CASE e.op = "COLUMN" -> attrs[e.column].type
        [] e.op = "CONSTANT" -> e.item.type
        [] OTHER ->
             IF {a.type, b.type} \subseteq Range(Widths)
             THEN Wider(a.type, b.type)
             ELSE IF e.op \in Comparisons /\ Class(a.type) = Class(b.type) THEN Class(a.type)
             ELSE "NONE"

\* The types fit, and no value is divided.
WellTyped(u) ==
  /\ u.where.op # "NULL" => u.where.op \in Comparisons /\ TypeOf(u.where) # "NONE"
  /\ \A k \in DOMAIN u.sets :
       LET e == u.sets[k].expr
       IN  /\ Class(TypeOf(e)) = Class(attrs[u.sets[k].col].type)
           /\ e.op \notin {"OP_DIV", "OP_MOD"}

\* An UPDATE whose types fit ends before its last row only at a row that is not sound,
\* before it changes it, or behind the row whose new one would be too long, for its
\* columns or for FILE_LINE_LEN; that row is lost (execTable.c:144-185,
\* parseTuple.c:144-167, charType.c:39-54, MemAndDisk.c:61-64).
TypedUpdatesFinish ==
  [][/\ UpdateDies => ~Sound(rows[upd.next]) \/ ~WellTyped(upd.stmt)
     /\ UpdateLosesRow =>
          ~Roomy(Updated) \/ Len(uMem2Disk(Updated)) >= FILE_LINE_LEN - 1]_rowVars
=============================================================================
