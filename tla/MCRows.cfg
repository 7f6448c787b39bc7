\* INTEGER of 5 bits and LONG of 9: products leave the INTEGER range. FLOAT of 4: it
\* rounds sums of LONG numbers.
CONSTANTS
  IntBits = 5
  LongBits = 9
  FloatBits = 4
  DoubleBits = 8
  MaxExp = 14
  seven = seven
  half = half
  ab = ab
  jan8 = jan8
  slash1 = slash1
  slash12 = slash12
  oct8 = oct8
  words = words
  Empty = Empty
  Null = Null
  Junk = Junk
  Dies = Dies
  Texts <- MCTexts
  TextLen <- MCTextLen
  TextRank <- MCTextRank
  TextNum <- MCTextNum
  Numerals <- MCNumerals
  TextDate <- MCTextDate
  Schemas <- MCSchemas
  Inserts <- MCInserts
  Updates <- MCUpdates
  FILE_LINE_LEN = 34
  MaxRows = 3
SPECIFICATION Spec
INVARIANTS RowReadBack RowFits JoinReads ComparesExactly
PROPERTIES TypedUpdatesFinish
CHECK_DEADLOCK FALSE
