-------------------------------- MODULE Items --------------------------------
(***************************************************************************)
(* The values of the columns: parser/parseTuple.c and dataType/*.c. An     *)
(* item has a type and its data; the data of the types are one union in    *)
(* the code, so that what one type put there another finds there.          *)
(*                                                                         *)
(* INTEGER and LONG are whole numbers of IntBits and LongBits bits, FLOAT  *)
(* and DOUBLE count halves and have FloatBits and DoubleBits significant   *)
(* bits, DATE is the number yyyymmdd. A text is an opaque value: its       *)
(* length, its place among the texts, the number it is read as and the     *)
(* date it is read as are constants.                                       *)
(***************************************************************************)
EXTENDS Integers, Sequences, FiniteSets

CONSTANTS
  IntBits, LongBits, FloatBits, DoubleBits,
  MaxExp,      \* bound: how many bits a real has behind its significant ones
  Texts,
  TextLen,     \* strlen
  TextRank,    \* strcmp orders texts by rank
  TextNum,     \* what atof makes of a text, in halves
  Numerals,    \* the texts that are numbers
  TextDate,    \* how a text is written as a date
  Empty,       \* the text of no bytes
  Null,        \* a NULL pointer in a text's place
  Junk,        \* bytes read as a type they were not written as
  Dies         \* the process ends: an error, a division by zero, a wild pointer

IntegerTypes == {"INTEGER", "LONG"}
RealTypes == {"FLOAT", "DOUBLE"}
DataTypes == IntegerTypes \cup RealTypes \cup {"DATE", "CHAR", "VARCHAR"}

\* Half the numbers that so many bits have.
Half(bits) == 2^(bits - 1)

\* A text's date has its kind, below, and the digits its month is written with. What is
\* said of powers is for the provers, which have no theory of them.
ASSUME ItemsAssumption ==
  /\ IntBits \in Nat \ {0} /\ LongBits \in Nat /\ IntBits < LongBits
  /\ Half(IntBits) \in Nat \ {0} /\ Half(LongBits) \in Nat /\ Half(IntBits) <= Half(LongBits)
  /\ {FloatBits, DoubleBits, MaxExp} \subseteq Nat /\ \A e \in 0 .. MaxExp : 2^e \in Nat \ {0}
  /\ Empty \in Texts /\ TextLen \in [Texts -> Nat]
  /\ \A text \in Texts : TextLen[text] = 0 <=> text = Empty
  /\ TextRank \in [Texts -> Int] /\ TextNum \in [Texts -> Int]
  /\ TextDate \in [Texts -> [kind : 0 .. 4, year : Nat, month : Nat, monthDigits : Nat \ {0},
                            day : Nat]]
  /\ \A text \in Texts :
       /\ 10^(TextDate[text].monthDigits - 1) \in Nat \ {0}
       /\ TextDate[text].kind \in {3, 4} => TextDate[text].month \in 1 .. 12
  /\ \A none \in {Null, Junk, Dies} : none \notin Int /\ none \notin Texts
  /\ Dies \notin BOOLEAN
  /\ Dies \notin [type : DataTypes, data : Int \cup Texts \cup {Null, Junk}, cap : Int]

\* (mutant) LONG was forgotten.
NumericButLong(type) == type \in {"INTEGER"} \cup RealTypes
IsNumericType(type) == type \in IntegerTypes \cup RealTypes
IsCharType(type) == type \in {"CHAR", "VARCHAR"}
IsDateType(type) == type = "DATE"

\* A number as a signed integer of so many bits.
Wrap(n, bits) == ((n + Half(bits)) % (2 * Half(bits))) - Half(bits)
BitsOf(type) == IF type = "INTEGER" THEN IntBits ELSE LongBits
\* C's conversion of halves to a whole number, and its division.
Truncated(halves) == IF halves >= 0 THEN halves \div 2 ELSE -((-halves) \div 2)
Abs(n) == IF n < 0 THEN -n ELSE n
Quotient(a, b) == IF (a < 0) = (b < 0) THEN Abs(a) \div Abs(b) ELSE -(Abs(a) \div Abs(b))

\* The next real to a number, the even one of two: reals as large as n are Step apart.
SignificantBits(type) == IF type = "FLOAT" THEN FloatBits ELSE DoubleBits
Step(type, n) ==
  2^Cardinality({e \in 0 .. MaxExp - 1 : 2^(SignificantBits(type) + e) <= Abs(n)})
Nearest(type, n) ==
  LET step == Step(type, n)
      below == n \div step
      rest == n % step
  IN  IF 2 * rest < step \/ (2 * rest = step /\ below % 2 = 0) THEN below * step
      ELSE (below + 1) * step

\* C's conversion of a real to an int; one that an int cannot hold becomes the least int.
ToInt(halves) ==
  LET n == Truncated(halves)
  IN  IF n \in -Half(IntBits) .. Half(IntBits) - 1 THEN n ELSE -Half(IntBits)

-----------------------------------------------------------------------------
\* Dates. A text is written as a date in one of the kinds
\* 0: 19990108, 1: 1/8/1999, 2: 1999-01-08, 3: 1999-Jan-08, 4: Jan-08-1999.

\* A month's name becomes two digits; the first is 1 from the eleventh month on.
MonthOfName(month) == (IF month - 1 >= 10 THEN 10 ELSE 0) + (month % 10)
MonthNumber(d) == IF d.kind \in {3, 4} THEN MonthOfName(d.month) ELSE d.month

\* The year behind the second slash: a byte is lost for each digit of the month
\* but one. (mutant) for each digit.
YearLost(d) == IF d.kind = 1 THEN d.year \div 10^d.monthDigits ELSE d.year
YearNumber(d) == IF d.kind = 1 THEN d.year \div 10^(d.monthDigits - 1) ELSE d.year

checkYMD(month, day) ==
  /\ month <= 12 /\ day <= 31
  /\ month = 2 => day <= 29
  /\ month \in {4, 6, 9, 11} => day <= 30

DateLenOK(text) ==
  LET kind == TextDate[text].kind
  IN  kind = 1 \/ TextLen[text] = CASE kind = 0 -> 8 [] kind = 2 -> 10 [] OTHER -> 11

processDateString(text) ==
  LET d == TextDate[text] IN YearNumber(d) * 10000 + MonthNumber(d) * 100 + d.day
DateAccepted(text) ==
  DateLenOK(text) /\ checkYMD(MonthNumber(TextDate[text]), TextDate[text].day)

-----------------------------------------------------------------------------
\* Items. cap is the length of a CHAR or VARCHAR item's memory.

Item(type, data, cap) == [type |-> type, data |-> data, cap |-> cap]

Greater(a, b) == IF a > b THEN a ELSE b

initHeapTupleItembyAttrData(attr) ==
  IF IsCharType(attr.type) THEN Item(attr.type, Null, attr.len) ELSE Item(attr.type, 0, 0)

\* setTypeCharData and setTypeVarcharData: longer texts get more memory. The old
\* memory is freed or written to: a number in its place is taken as its address.
SetText(item, type, text) ==
  IF item.data \notin {Null, 0} /\ ~IsCharType(item.type) THEN Dies
  ELSE Item(type, text, Greater(item.cap, TextLen[text]))

\* From a text: INSERT's values, and the constants of expressions. A date that is
\* refused is stored all the same, or not at all where its length is wrong.
setHeapTupleItemByStr(item, type, text) ==
  CASE type \in IntegerTypes -> Item(type, Wrap(Truncated(TextNum[text]), IntBits), 0)
    [] type \in RealTypes -> Item(type, Nearest(type, Nearest("DOUBLE", TextNum[text])), 0)
    [] IsDateType(type) ->
         Item(type, IF DateLenOK(text) THEN processDateString(text) ELSE item.data, 0)
    [] OTHER -> SetText(item, type, text)

\* A number is copied with the whole union.
copyHeapTupleItem(des, src) ==
  IF IsCharType(src.type) THEN SetText(des, src.type, src.data) ELSE src

\* Tup_vClearHeapTuple's part for an item: only texts have memory of their own.
vDestroyHeapTupleItem(item) ==
  IF IsCharType(item.type) THEN [item EXCEPT !.data = Null] ELSE item

-----------------------------------------------------------------------------
\* Arithmetic and comparison.

CommonNumber(types) ==
  IF "DOUBLE" \in types THEN "DOUBLE" ELSE IF "FLOAT" \in types THEN "FLOAT"
  ELSE IF "LONG" \in types THEN "LONG" ELSE "INTEGER"

judgeDataType(a, b) ==
  LET types == {a.type, b.type}
  IN  IF a.type = b.type THEN a.type
      ELSE IF \A type \in types : IsNumericType(type) THEN CommonNumber(types)
      ELSE IF \A type \in types : IsCharType(type) THEN "VARCHAR"
      ELSE IF \A type \in types : IsCharType(type) \/ IsDateType(type) THEN "DATE"
      ELSE "NONE"

\* A number in a type's unit: halves where it is a real.
Halves(item) == IF item.type \in IntegerTypes THEN 2 * item.data ELSE item.data
getHeapTupleItemData(item, type) ==
  CASE item.type \in IntegerTypes /\ type \in IntegerTypes -> Wrap(item.data, BitsOf(type))
    [] type \in RealTypes -> Nearest(type, Halves(item))
    [] OTHER -> Wrap(Truncated(item.data), BitsOf(type))

\* Whether a type has a number, in the type's unit.
Holds(type, n) ==
  IF type \in RealTypes THEN Nearest(type, n) = n
  ELSE n \in -Half(BitsOf(type)) .. Half(BitsOf(type)) - 1

\* What an operation is before it is put into a type. Division by zero ends the process,
\* the least number by -1 too, and so does what has no case in the code. Of a product
\* of reals, halves are kept; reals are not divided.
Divides(type, x, y) ==
  type \in IntegerTypes /\ y # 0 /\ ~(x = -Half(BitsOf(type)) /\ y = -1)
Exact(op, type, x, y) ==
  CASE op = "OP_ADD" -> x + y
    [] op = "OP_SUB" -> x - y
    [] op = "OP_MUL" -> IF type \in IntegerTypes THEN x * y ELSE (x * y) \div 2
    [] op = "OP_DIV" /\ Divides(type, x, y) -> Quotient(x, y)
    [] op = "OP_MOD" /\ Divides(type, x, y) -> x - y * Quotient(x, y)
    [] OTHER -> Dies

calculateHeapTupleItem(a, b, op) ==
  LET type == judgeDataType(a, b)
      exact == Exact(op, type, getHeapTupleItemData(a, type), getHeapTupleItemData(b, type))
  IN  IF ~IsNumericType(type) \/ exact = Dies THEN Dies
      ELSE IF type \in IntegerTypes THEN Item(type, Wrap(exact, BitsOf(type)), 0)
      ELSE Item(type, Nearest(type, exact), 0)

\* A text that is no date has no date to be compared.
DateOf(item) ==
  IF IsDateType(item.type) THEN item.data
  ELSE IF DateAccepted(item.data) THEN processDateString(item.data) ELSE Dies

\* The difference as an int: a part of less than one is cut off, and so are the bits
\* of a LONG that an int has not; a real's difference is itself a real.
cmpHeapTupleItem(a, b) ==
  LET type == judgeDataType(a, b)
      x == getHeapTupleItemData(a, type)
      y == getHeapTupleItemData(b, type)
  IN  CASE type \in RealTypes -> ToInt(Nearest(type, x - y))
        [] type \in IntegerTypes -> Wrap(x - y, IntBits)
        [] IsCharType(type) -> TextRank[a.data] - TextRank[b.data]
        [] IsDateType(type) ->
             IF Dies \in {DateOf(a), DateOf(b)} THEN Dies ELSE DateOf(a) - DateOf(b)
        [] OTHER -> Dies

\* Expr_Calculate for a comparison.
Compares(op, a, b) ==
  LET cmp == cmpHeapTupleItem(a, b)
  IN  IF cmp = Dies THEN Dies
      ELSE CASE op = "OP_LESS" -> cmp < 0     [] op = "OP_LESS_EQUAL" -> cmp <= 0
             [] op = "OP_EQUAL" -> cmp = 0    [] op = "OP_NOT_EQUAL" -> cmp # 0
             [] op = "OP_GREATER" -> cmp > 0  [] op = "OP_GREATER_EQUAL" -> cmp >= 0
=============================================================================
