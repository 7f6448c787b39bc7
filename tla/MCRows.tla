-------------------------------- MODULE MCRows --------------------------------
(***************************************************************************)
(* Instances of Rows for TLC: tables of two or three columns, and texts    *)
(* that are numbers, words and dates of several kinds.                     *)
(***************************************************************************)
EXTENDS Rows

CONSTANTS seven, half, ab, jan8, slash1, slash12, oct8, words

MCTexts == {Empty, seven, half, ab, jan8, slash1, slash12, oct8, words}
\* "7", "2.5", "ab", "1999-01-08", "1/9/1999", "12/25/1998", "1999-Oct-08",
\* and words of 17 letters
MCTextLen == [t \in MCTexts |->
  CASE t = Empty -> 0 [] t = seven -> 1 [] t = half -> 3 [] t = ab -> 2 [] t = slash1 -> 8
    [] t = oct8 -> 11 [] t = words -> 17 [] OTHER -> 10]
MCTextRank == [t \in MCTexts |->
  CASE t = Empty -> 0 [] t = slash1 -> 1 [] t = slash12 -> 2 [] t = jan8 -> 3 [] t = oct8 -> 4
    [] t = half -> 5 [] t = seven -> 6 [] t = ab -> 7 [] t = words -> 8]
MCTextNum == [t \in MCTexts |->
  CASE t = seven -> 14 [] t = half -> 5 [] t \in {Empty, ab, words} -> 0 [] t = slash1 -> 2 [] t = slash12 -> 24
    [] OTHER -> 3998]
MCNumerals == {seven, half}
Written(kind, year, month, digits, day) ==
  [kind |-> kind, year |-> year, month |-> month, monthDigits |-> digits, day |-> day]
MCTextDate == [t \in MCTexts |->
  CASE t = jan8 -> Written(2, 1999, 1, 2, 8) [] t = slash1 -> Written(1, 1999, 1, 1, 9)
    [] t = slash12 -> Written(1, 1998, 12, 2, 25) [] t = oct8 -> Written(3, 1999, 10, 3, 8)
    [] OTHER -> Written(0, 0, 0, 2, 0)]

Attr(type, len) == [type |-> type, len |-> len]
MCSchemas ==
  {<<Attr("INTEGER", 0), Attr("LONG", 0)>>, <<Attr("CHAR", 5), Attr("INTEGER", 0)>>,
   <<Attr("CHAR", 1), Attr("VARCHAR", 10)>>, <<Attr("DATE", 0), Attr("VARCHAR", 10)>>,
   <<Attr("VARCHAR", 20), Attr("VARCHAR", 20)>>, <<Attr("LONG", 0), Attr("FLOAT", 0)>>,
   <<Attr("LONG", 0), Attr("DOUBLE", 0), Attr("CHAR", 1)>>}

MCInserts ==
  {[attrs |-> <<>>, values |-> v] :
     v \in {<<seven, half>>, <<jan8, slash1>>, <<slash12, half>>, <<seven, words>>}}
  \cup {[attrs |-> <<2, 1>>, values |-> <<seven, ab>>], [attrs |-> <<1>>, values |-> <<jan8>>],
        [attrs |-> <<>>, values |-> <<half, half, seven>>],
        [attrs |-> <<3, 1>>, values |-> <<seven, half>>]}

Const(item) == [op |-> "CONSTANT", item |-> item]
Col(c) == [op |-> "COLUMN", column |-> c]
Op(op, a, b) == [op |-> op, args |-> <<a, b>>]
Number(n) == Const(Item("INTEGER", n, 0))
Real(n) == Const(Item("DOUBLE", n, 0))
Text(t) == Const(Item("CHAR", t, TextLen[t] + 1))
Set(c, e) == [col |-> c, expr |-> e]
All == [op |-> "NULL"]
Update(where, sets) == [where |-> where, sets |-> sets]
Swap == <<Set(1, Col(2)), Set(2, Col(1))>>
MCUpdates ==
  {Update(All, s) :
     s \in {Swap, <<Set(2, Op("OP_ADD", Col(1), Col(2)))>>, <<Set(1, Number(0))>>,
            <<Set(1, Text(seven))>>, <<Set(2, Real(5))>>}}
  \cup {Update(Op("OP_LESS", Col(1), Number(5)), <<Set(2, Op("OP_MUL", Col(2), Number(7)))>>),
        Update(Op("OP_EQUAL", Col(1), Text(slash1)), <<Set(2, Text(ab))>>),
        Update(Op("OP_GREATER_EQUAL", Col(2), Number(4)),
               <<Set(1, Op("OP_DIV", Number(1), Col(1)))>>)}
=============================================================================
