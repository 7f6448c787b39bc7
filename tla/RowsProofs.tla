------------------------------ MODULE RowsProofs ------------------------------
(***************************************************************************)
(* Rows read back as what was meant, fit, can be put behind each other and *)
(* compare as they should, and an UPDATE whose types fit ends early only   *)
(* at rows that are too long, for all tables, statements and texts. What   *)
(* is written and what is read agree because the place of a column in the  *)
(* bytes is the same for both: by induction on the columns, as long as the *)
(* widths are those declared.                                              *)
(***************************************************************************)
EXTENDS Rows, InductionFacts, SequenceTheorems, FiniteSetTheorems, TLAPS

Attributes == [type : DataTypes, len : Nat]
RangeOf(bits) == -Half(bits) .. Half(bits) - 1

\* What an item holds: a whole number of its type's range, halves, a day, or a text
\* that fits in the item's memory.
ItemSet == [type : DataTypes, data : Int \cup Texts \cup {Null}, cap : Nat]
Held(item) ==
  /\ item.type \in IntegerTypes => item.data \in RangeOf(BitsOf(item.type))
  /\ ~IsCharType(item.type) => item.data \in Int /\ item.cap = 0
  /\ IsCharType(item.type) => item.data \in Texts \cup {Null}
  /\ IsCharType(item.type) /\ item.data # Null => TextLen[item.data] <= item.cap
GoodItems == {item \in ItemSet : Held(item)}

\* What an item is read as.
Stored(item) == IF item.data = Null THEN Empty ELSE item.data

ByteSet == (DataTypes \X Int \X Nat) \cup ({"TEXT"} \X Texts \X Nat) \cup {ZeroByte}

-----------------------------------------------------------------------------
\* Lengths.

LEMMA AlignedFacts ==
  ASSUME NEW n \in Nat
  PROVE  /\ Aligned(n) \in Nat /\ Aligned(n) % 4 = 0
         /\ n <= Aligned(n) /\ Aligned(n) <= n + 3
         /\ n % 4 = 0 => Aligned(n) = n
         /\ \A m \in Nat : m % 4 = 0 => Aligned(m + n) = m + Aligned(n)
         /\ \A m \in Nat : m <= n => Aligned(m) <= Aligned(n)
BY DEF Aligned, alignByte

LEMMA SizeFacts ==
  ASSUME NEW type \in DataTypes
  PROVE  SizeOf(type) \in {4, 8}
BY DEF SizeOf

LEMMA LenFacts ==
  ASSUME NEW item \in GoodItems, IsCharType(item.type)
  PROVE  /\ DataLen(item) \in Nat /\ WriteLen(item) \in Nat /\ WriteLen(item) % 4 = 0
         /\ Stored(item) \in Texts /\ TextLen[Stored(item)] <= WriteLen(item)
         /\ WriteLen(item) <= item.cap + 3
         /\ WriteLen(item) = Aligned(DataLen(item))
<1>1. /\ item \in ItemSet /\ Held(item) /\ item.cap \in Nat
      /\ item.data \in Texts \cup {Null}
      /\ item.data # Null => TextLen[item.data] <= item.cap
  BY DEF GoodItems, Held, ItemSet
<1>2. Empty \in Texts /\ TextLen[Empty] = 0 /\ \A t \in Texts : TextLen[t] \in Nat
  BY ItemsAssumption
<1>3. DataLen(item) \in Nat /\ DataLen(item) <= item.cap
      /\ TextLen[Stored(item)] <= DataLen(item) /\ Stored(item) \in Texts
  BY <1>1, <1>2 DEF DataLen, Stored
<1>4. /\ Aligned(DataLen(item)) \in Nat /\ Aligned(DataLen(item)) % 4 = 0
      /\ DataLen(item) <= Aligned(DataLen(item)) /\ Aligned(DataLen(item)) <= DataLen(item) + 3
  BY <1>3, AlignedFacts
<1> QED BY <1>1, <1>2, <1>3, <1>4 DEF WriteLen

-----------------------------------------------------------------------------
\* The bytes of an item.

LEMMA NumberBytesFacts ==
  ASSUME NEW type \in DataTypes, NEW n \in Int
  PROVE  /\ NumberBytes(type, n) \in Seq(ByteSet)
         /\ Len(NumberBytes(type, n)) = SizeOf(type)
         /\ \A k \in 1 .. SizeOf(type) : NumberBytes(type, n)[k] = <<type, n, k>>
<1>1. SizeOf(type) \in Nat BY SizeFacts
<1>2. \A k \in 1 .. SizeOf(type) : <<type, n, k>> \in ByteSet BY <1>1 DEF ByteSet
<1> QED BY <1>1, <1>2 DEF NumberBytes

LEMMA TextBytesFacts ==
  ASSUME NEW text \in Texts \cup {Null}, NEW n \in Nat
  PROVE  /\ TextBytes(text, n) \in Seq(ByteSet)
         /\ Len(TextBytes(text, n)) = n
         /\ \A k \in 1 .. n : TextBytes(text, n)[k] =
              IF text # Null /\ k <= TextLen[text] THEN <<"TEXT", text, k>> ELSE ZeroByte
<1>1. \A k \in 1 .. n : (IF text # Null /\ k <= TextLen[text] THEN <<"TEXT", text, k>> ELSE ZeroByte)
                          \in ByteSet
  BY DEF ByteSet
<1> QED BY <1>1 DEF TextBytes

SizeIn(item) == IF IsCharType(item.type) THEN INT_SIZE + WriteLen(item) ELSE SizeOf(item.type)

LEMMA ItemBytes ==
  ASSUME NEW item \in GoodItems
  PROVE  /\ iTuple2Buffer(item) \in Seq(ByteSet)
         /\ Len(iTuple2Buffer(item)) = SizeIn(item)
         /\ SizeIn(item) \in Nat /\ SizeIn(item) % 4 = 0
<1>1. item.type \in DataTypes /\ (~IsCharType(item.type) => item.data \in Int)
      /\ (IsCharType(item.type) => item.data \in Texts \cup {Null})
  BY DEF GoodItems, Held, ItemSet
<1>2. CASE IsCharType(item.type)
  <2>1. WriteLen(item) \in Nat /\ WriteLen(item) % 4 = 0 BY <1>2, LenFacts
  <2>2. NumberBytes("INTEGER", WriteLen(item)) \in Seq(ByteSet)
        /\ Len(NumberBytes("INTEGER", WriteLen(item))) = 4
    <3>1. "INTEGER" \in DataTypes BY DEF DataTypes, IntegerTypes
    <3>2. SizeOf("INTEGER") = 4 BY DEF SizeOf
    <3>3. WriteLen(item) \in Int BY <2>1
    <3> HIDE DEF IsCharType
    <3> QED BY <3>1, <3>2, <3>3, NumberBytesFacts, Zenon
  <2>3. TextBytes(item.data, WriteLen(item)) \in Seq(ByteSet)
        /\ Len(TextBytes(item.data, WriteLen(item))) = WriteLen(item)
    BY <1>1, <1>2, <2>1, TextBytesFacts
  <2>4. iTuple2Buffer(item)
          = NumberBytes("INTEGER", WriteLen(item)) \o TextBytes(item.data, WriteLen(item))
    BY <1>2 DEF iTuple2Buffer
  <2>5. SizeIn(item) = 4 + WriteLen(item) BY <1>2 DEF SizeIn, INT_SIZE
  <2> DEFINE b == NumberBytes("INTEGER", WriteLen(item))
             t == TextBytes(item.data, WriteLen(item))
  <2>6. b \in Seq(ByteSet) /\ Len(b) = 4 /\ t \in Seq(ByteSet) /\ Len(t) = WriteLen(item)
    BY <2>2, <2>3
  <2> HIDE DEF b, t
  <2>7. b \o t \in Seq(ByteSet) /\ Len(b \o t) = Len(b) + Len(t)
    BY <2>6, ConcatProperties
  <2>8. Len(b \o t) = 4 + WriteLen(item) BY <2>6, <2>7
  <2> QED BY <2>1, <2>4, <2>5, <2>7, <2>8 DEF b, t
<1>3. CASE ~IsCharType(item.type)
  BY <1>1, <1>3, NumberBytesFacts, SizeFacts DEF iTuple2Buffer, SizeIn
<1> QED BY <1>2, <1>3

-----------------------------------------------------------------------------
\* The bytes of a row.

\* f[n] stays in S from 0 up to L.
LEMMA StaysIn ==
  ASSUME NEW L \in Nat, NEW f, NEW S, f[0] \in S, \A n \in 1 .. L : f[n - 1] \in S => f[n] \in S
  PROVE  \A n \in 0 .. L : f[n] \in S
<1> DEFINE T == {n \in Nat : n \in 0 .. L => f[n] \in S}
<1>1. 0 \in T OBVIOUS
<1>2. ASSUME NEW n \in 0 .. L - 1, n \in T PROVE n + 1 \in T
  <2> DEFINE m == n + 1
  <2>1. m \in 1 .. L /\ m - 1 = n /\ n \in 0 .. L OBVIOUS
  <2>2. f[m - 1] \in S BY <1>2, <2>1
  <2> HIDE DEF m
  <2>3. m \in T BY <2>1, <2>2
  <2> QED BY <2>3 DEF m
<1>3. 0 .. L \subseteq T
  <2> HIDE DEF T
  <2> QED BY <1>1, <1>2, UpTo
<1> QED BY <1>3

LEMMA BytesUpToIs ==
  ASSUME NEW items \in Seq(GoodItems)
  PROVE  /\ BytesUpTo(items)[0] = <<>>
         /\ \A n \in 1 .. Len(items) :
              BytesUpTo(items)[n] = BytesUpTo(items)[n - 1] \o iTuple2Buffer(items[n])
         /\ \A n \in 0 .. Len(items) : BytesUpTo(items)[n] \in Seq(ByteSet)
<1> DEFINE L == Len(items)
           Joins(f) == f = [n \in 0 .. L |-> IF n = 0 THEN <<>> ELSE f[n - 1] \o iTuple2Buffer(items[n])]
           s == [p \in Seq(ByteSet) \X Nat |->
                   IF p[2] \in 1 .. L THEN p[1] \o iTuple2Buffer(items[p[2]]) ELSE p[1]]
<1>1. L \in Nat /\ \A n \in 1 .. L : items[n] \in GoodItems OBVIOUS
<1>2. \A n \in 1 .. L : iTuple2Buffer(items[n]) \in Seq(ByteSet) BY <1>1, ItemBytes
<1>3. s \in [Seq(ByteSet) \X Nat -> Seq(ByteSet)]
  <2>1. ASSUME NEW p \in Seq(ByteSet) \X Nat
        PROVE  (IF p[2] \in 1 .. L THEN p[1] \o iTuple2Buffer(items[p[2]]) ELSE p[1]) \in Seq(ByteSet)
    <3>1. p[1] \in Seq(ByteSet) OBVIOUS
    <3> QED BY <1>2, <3>1
  <2> QED BY <2>1
<1>4. <<>> \in Seq(ByteSet) OBVIOUS
<1>5. PICK g \in [0 .. L -> Seq(ByteSet)] : Iterated(g, L, <<>>, s)
  <2> HIDE DEF s, L
  <2> QED BY <1>1, <1>3, <1>4, IteratedExists
<1>6. g[0] = <<>>
  <2> HIDE DEF s
  <2> QED BY <1>1, <1>5 DEF Iterated
<1>7. ASSUME NEW n \in 1 .. L PROVE g[n] = g[n - 1] \o iTuple2Buffer(items[n])
  <2>1. n - 1 \in 0 .. L /\ n \in 0 .. L /\ n # 0 BY <1>1
  <2>2. g[n] = s[<<g[n - 1], n>>]
    <3> HIDE DEF s
    <3> QED BY <1>5, <2>1 DEF Iterated
  <2>3. <<g[n - 1], n>> \in Seq(ByteSet) \X Nat BY <2>1
  <2> QED BY <2>2, <2>3
<1> HIDE DEF s
<1>8. Joins(g)
  <2>1. ASSUME NEW n \in 0 .. L
        PROVE  g[n] = IF n = 0 THEN <<>> ELSE g[n - 1] \o iTuple2Buffer(items[n])
    <3>1. CASE n = 0 BY <1>6, <3>1
    <3>2. CASE n # 0
      <4>1. n \in 1 .. L BY <1>1, <3>2
      <4> QED BY <1>7, <3>2, <4>1
    <3> QED BY <3>1, <3>2
  <2> QED BY <2>1
<1>9. BytesUpTo(items) = CHOOSE f : Joins(f) BY DEF BytesUpTo
<1>10. Joins(BytesUpTo(items))
  <2> HIDE DEF Joins
  <2> QED BY <1>8, <1>9
<1> DEFINE b == BytesUpTo(items)
<1> HIDE DEF b
<1>11. b[0] = <<>> /\ \A n \in 1 .. L : b[n] = b[n - 1] \o iTuple2Buffer(items[n])
  <2>1. Joins(b) BY <1>10 DEF b
  <2>2. \A n \in 0 .. L : b[n] = IF n = 0 THEN <<>> ELSE b[n - 1] \o iTuple2Buffer(items[n])
    BY <2>1
  <2>3. 0 \in 0 .. L /\ \A n \in 1 .. L : n \in 0 .. L /\ n # 0 BY <1>1
  <2> HIDE DEF L, Joins
  <2> QED BY <2>2, <2>3
<1>12. \A n \in 0 .. L : b[n] \in Seq(ByteSet)
  <2>1. \A n \in 1 .. L : b[n - 1] \in Seq(ByteSet) => b[n] \in Seq(ByteSet)
    BY <1>2, <1>11, ConcatProperties
  <2> HIDE DEF L
  <2> QED BY <1>1, <1>4, <1>11, <2>1, StaysIn
<1> QED BY <1>11, <1>12 DEF b

\* Each item's bytes are a multiple of four, and so nothing is added at the end.
LEMMA BytesUpToLen ==
  ASSUME NEW items \in Seq(GoodItems)
  PROVE  /\ \A n \in 0 .. Len(items) :
              Len(BytesUpTo(items)[n]) \in Nat /\ Len(BytesUpTo(items)[n]) % 4 = 0
         /\ \A n \in 1 .. Len(items) :
              Len(BytesUpTo(items)[n]) = Len(BytesUpTo(items)[n - 1]) + SizeIn(items[n])
<1> DEFINE b == BytesUpTo(items)
           L == Len(items)
<1>1. /\ b[0] = <<>>
      /\ \A n \in 1 .. L : b[n] = b[n - 1] \o iTuple2Buffer(items[n])
      /\ \A n \in 0 .. L : b[n] \in Seq(ByteSet)
  BY BytesUpToIs
<1>2. L \in Nat /\ \A n \in 1 .. L : items[n] \in GoodItems OBVIOUS
<1> HIDE DEF b, L
<1>3. ASSUME NEW n \in 1 .. L PROVE Len(b[n]) = Len(b[n - 1]) + SizeIn(items[n])
  <2>1. n - 1 \in 0 .. L BY <1>2
  <2>2. /\ iTuple2Buffer(items[n]) \in Seq(ByteSet)
        /\ Len(iTuple2Buffer(items[n])) = SizeIn(items[n])
    BY <1>2, ItemBytes
  <2>3. b[n - 1] \in Seq(ByteSet) BY <1>1, <2>1
  <2>4. Len(b[n - 1] \o iTuple2Buffer(items[n])) = Len(b[n - 1]) + Len(iTuple2Buffer(items[n]))
    BY <2>2, <2>3, ConcatProperties
  <2> QED BY <1>1, <2>2, <2>4
<1> DEFINE Fours == {s \in Seq(ByteSet) : Len(s) % 4 = 0}
<1>4. \A n \in 0 .. L : b[n] \in Fours
  <2>1. b[0] \in Fours BY <1>1, EmptySeq
  <2>2. ASSUME NEW n \in 1 .. L, b[n - 1] \in Fours PROVE b[n] \in Fours
    <3>1. SizeIn(items[n]) \in Nat /\ SizeIn(items[n]) % 4 = 0 BY <1>2, ItemBytes
    <3>2. b[n - 1] \in Seq(ByteSet) /\ Len(b[n - 1]) % 4 = 0 BY <2>2
    <3>3. Len(b[n - 1]) \in Nat BY <3>2, LenProperties
    <3>4. b[n] \in Seq(ByteSet)
      <4>1. n \in 0 .. L BY <1>2
      <4> QED BY <1>1, <4>1
    <3>5. Len(b[n]) = Len(b[n - 1]) + SizeIn(items[n]) BY <1>3
    <3>6. \A x, y \in Nat : x % 4 = 0 /\ y % 4 = 0 => (x + y) % 4 = 0 OBVIOUS
    <3>7. Len(b[n]) % 4 = 0 BY <3>1, <3>2, <3>3, <3>5, <3>6, Zenon
    <3> QED BY <3>4, <3>7
  <2> HIDE DEF Fours
  <2> QED BY <1>2, <2>1, <2>2, StaysIn
<1>5. \A n \in 0 .. L : Len(b[n]) \in Nat /\ Len(b[n]) % 4 = 0
  BY <1>4, LenProperties
<1> HIDE DEF Fours
<1> QED BY <1>3, <1>5 DEF b, L

LEMMA BytesGrow ==
  ASSUME NEW items \in Seq(GoodItems), NEW m \in 0 .. Len(items)
  PROVE  Len(BytesUpTo(items)[m]) <= Len(BytesUpTo(items)[Len(items)])
<1> DEFINE L == Len(items)
           len(n) == Len(BytesUpTo(items)[n])
           T == {n \in Nat : n \in 0 .. L - m => len(m) <= len(m + n)}
<1>1. L \in Nat /\ m \in 0 .. L /\ \A n \in 1 .. L : items[n] \in GoodItems OBVIOUS
<1>2. /\ \A n \in 0 .. L : len(n) \in Nat
      /\ \A n \in 1 .. L : len(n) = len(n - 1) + SizeIn(items[n])
  BY BytesUpToLen
<1>3. \A n \in 1 .. L : SizeIn(items[n]) \in Nat BY <1>1, ItemBytes
<1> HIDE DEF L, len
<1>4. 0 \in T
  <2>1. len(m) \in Nat /\ m + 0 = m BY <1>1, <1>2
  <2> QED BY <2>1
<1>5. ASSUME NEW n \in 0 .. (L - m) - 1, n \in T PROVE n + 1 \in T
  <2> DEFINE k == m + n + 1
  <2>1. /\ k \in 1 .. L /\ k - 1 = m + n /\ k = m + (n + 1) /\ m + n \in 0 .. L
        /\ n \in 0 .. L - m /\ n + 1 \in Nat
    BY <1>1
  <2> HIDE DEF k
  <2>2. len(m) <= len(m + n) BY <1>5, <2>1
  <2>3. len(k) = len(m + n) + SizeIn(items[k]) /\ SizeIn(items[k]) \in Nat BY <1>2, <1>3, <2>1
  <2>4. len(m) \in Nat /\ len(m + n) \in Nat BY <1>1, <1>2, <2>1
  <2>5. len(m) <= len(k) BY <2>2, <2>3, <2>4
  <2> QED BY <2>1, <2>5
<1>6. 0 .. L - m \subseteq T
  <2>1. L - m \in Nat BY <1>1
  <2> HIDE DEF T
  <2> QED BY <1>4, <1>5, <2>1, UpTo
<1>7. L - m \in 0 .. L - m /\ m + (L - m) = L BY <1>1
<1>8. L - m \in T BY <1>6, <1>7
<1>9. len(m) <= len(L) BY <1>7, <1>8
<1> QED BY <1>9 DEF L, len

LEMMA RowBytes ==
  ASSUME NEW items \in Seq(GoodItems)
  PROVE  /\ uMem2Disk(items) = BytesUpTo(items)[Len(items)]
         /\ uMem2Disk(items) \in Seq(ByteSet)
<1> DEFINE b == BytesUpTo(items)[Len(items)]
<1>1. Len(items) \in 0 .. Len(items) OBVIOUS
<1>2. b \in Seq(ByteSet) BY <1>1, BytesUpToIs
<1>3. Len(b) \in Nat /\ Len(b) % 4 = 0 BY <1>1, BytesUpToLen
<1>4. uMem2Disk(items) = b \o [k \in 1 .. Aligned(Len(b)) - Len(b) |-> ZeroByte]
  BY DEF uMem2Disk
<1> HIDE DEF b
<1>5. Aligned(Len(b)) = Len(b) BY <1>3, AlignedFacts
<1>6. [k \in 1 .. Aligned(Len(b)) - Len(b) |-> ZeroByte] = <<>> BY <1>3, <1>5
<1>7. b \o <<>> = b BY <1>2, ConcatEmptySeq
<1> QED BY <1>2, <1>4, <1>6, <1>7 DEF b

-----------------------------------------------------------------------------
\* Reading what was written.

\* s is in buffer behind its first off bytes.
At(buffer, off, s) ==
  /\ off \in Nat /\ off + Len(s) <= Len(buffer)
  /\ \A j \in 1 .. Len(s) : buffer[off + j] = s[j]

LEMMA AtBytes ==
  ASSUME NEW buffer \in Seq(ByteSet), NEW s \in Seq(ByteSet), NEW off, At(buffer, off, s)
  PROVE  Bytes(buffer, off, Len(s)) = s
<1>1. Len(s) \in Nat /\ Len(buffer) \in Nat /\ off \in Nat /\ off + Len(s) <= Len(buffer)
      /\ \A j \in 1 .. Len(s) : buffer[off + j] = s[j]
  BY LenProperties DEF At
<1> DEFINE m == off + 1
           n == off + Len(s)
           t == SubSeq(buffer, m, n)
<1>2. Bytes(buffer, off, Len(s)) = t BY <1>1 DEF Bytes
<1>3. \A i \in m .. n : buffer[i] \in ByteSet
  <2>1. \A i \in m .. n : i \in 1 .. Len(buffer) BY <1>1
  <2> QED BY <2>1
<1>4. m \in Int /\ n \in Int /\ n - m + 1 = Len(s) /\ (m <= n <=> Len(s) # 0) BY <1>1
<1> HIDE DEF m, n
<1>5. /\ t \in Seq(ByteSet) /\ Len(t) = IF m <= n THEN n - m + 1 ELSE 0
      /\ \A i \in 1 .. n - m + 1 : t[i] = buffer[m + i - 1]
  BY <1>3, <1>4, SubSeqProperties
<1> HIDE DEF t
<1>6. Len(t) = Len(s) BY <1>1, <1>4, <1>5
<1>7. ASSUME NEW i \in 1 .. Len(t) PROVE t[i] = s[i]
  <2>1. i \in 1 .. Len(s) /\ i \in 1 .. n - m + 1 BY <1>4, <1>6
  <2>2. m + i - 1 = off + i BY <1>1, <2>1 DEF m
  <2> QED BY <1>1, <1>5, <2>1, <2>2
<1>8. t = s BY <1>5, <1>6, <1>7, SeqEqual
<1> QED BY <1>2, <1>8

\* The parts of what is there are there.
LEMMA AtParts ==
  ASSUME NEW buffer \in Seq(ByteSet), NEW s \in Seq(ByteSet), NEW t \in Seq(ByteSet), NEW off,
         At(buffer, off, s \o t)
  PROVE  At(buffer, off, s) /\ At(buffer, off + Len(s), t)
<1>1. /\ Len(s) \in Nat /\ Len(t) \in Nat /\ Len(s \o t) = Len(s) + Len(t)
      /\ \A i \in 1 .. Len(s) + Len(t) : (s \o t)[i] = IF i <= Len(s) THEN s[i] ELSE t[i - Len(s)]
  BY LenProperties, ConcatProperties
<1>2. /\ off \in Nat /\ off + (Len(s) + Len(t)) <= Len(buffer) /\ Len(buffer) \in Nat
      /\ \A j \in 1 .. Len(s) + Len(t) : buffer[off + j] = (s \o t)[j]
  BY <1>1, LenProperties DEF At
<1>3. ASSUME NEW j \in 1 .. Len(s) PROVE buffer[off + j] = s[j]
  <2>1. j \in 1 .. Len(s) + Len(t) /\ j <= Len(s) BY <1>1
  <2> QED BY <1>1, <1>2, <2>1
<1>4. ASSUME NEW j \in 1 .. Len(t) PROVE buffer[off + Len(s) + j] = t[j]
  <2> DEFINE k == Len(s) + j
  <2>1. k \in 1 .. Len(s) + Len(t) /\ ~(k <= Len(s)) /\ k - Len(s) = j /\ off + Len(s) + j = off + k
    BY <1>1, <1>2
  <2> HIDE DEF k
  <2> QED BY <1>1, <1>2, <2>1
<1> QED BY <1>1, <1>2, <1>3, <1>4 DEF At

LEMMA ReadNumberAt ==
  ASSUME NEW buffer \in Seq(ByteSet), NEW type \in DataTypes, NEW n \in Int, NEW off,
         At(buffer, off, NumberBytes(type, n))
  PROVE  ReadNumber(buffer, off, type) = n
<1> DEFINE s == NumberBytes(type, n)
<1>1. s \in Seq(ByteSet) /\ Len(s) = SizeOf(type) /\ SizeOf(type) \in {4, 8}
      /\ \A k \in 1 .. SizeOf(type) : s[k] = <<type, n, k>>
  BY NumberBytesFacts, SizeFacts
<1>2. s[1] = <<type, n, 1>> /\ s # <<>>
  <2> HIDE DEF s
  <2> QED BY <1>1
<1>3. Bytes(buffer, off, SizeOf(type)) = s
  <2> HIDE DEF s
  <2>1. At(buffer, off, s) BY DEF s
  <2> QED BY <1>1, <2>1, AtBytes
<1>4. s[1][1] = type /\ s[1][2] = n
  <2> HIDE DEF s
  <2> QED BY <1>2
<1>5. s = NumberBytes(type, s[1][2])
  <2>1. s = NumberBytes(type, n) OBVIOUS
  <2> HIDE DEF s
  <2> QED BY <1>4, <2>1
<1> HIDE DEF s
<1> QED BY <1>2, <1>3, <1>4, <1>5 DEF ReadNumber

\* No two texts have the same bytes.
LEMMA TextBytesOnce ==
  ASSUME NEW t \in Texts, NEW u \in Texts, NEW n \in Nat, TextLen[t] <= n, TextLen[u] <= n,
         TextBytes(t, n) = TextBytes(u, n)
  PROVE  t = u
<1>1. TextLen[t] \in Nat /\ TextLen[u] \in Nat /\ t # Null /\ u # Null BY ItemsAssumption
<1>2. CASE TextLen[t] = 0 /\ TextLen[u] = 0
  <2>1. \A text \in Texts : TextLen[text] = 0 => text = Empty BY ItemsAssumption
  <2> QED BY <1>2, <2>1
<1>3. CASE TextLen[t] # 0 \/ TextLen[u] # 0
  <2>1. 1 \in 1 .. n BY <1>1, <1>3
  <2>2. TextBytes(t, n)[1] = IF t # Null /\ 1 <= TextLen[t] THEN <<"TEXT", t, 1>> ELSE ZeroByte
    BY <2>1, TextBytesFacts
  <2>3. TextBytes(u, n)[1] = IF u # Null /\ 1 <= TextLen[u] THEN <<"TEXT", u, 1>> ELSE ZeroByte
    BY <2>1, TextBytesFacts
  <2>4. \A x : <<"TEXT", x, 1>> # ZeroByte BY DEF ZeroByte
  <2>5. (1 <= TextLen[t]) /\ (1 <= TextLen[u]) BY <1>1, <1>3, <2>2, <2>3, <2>4
  <2>6. <<"TEXT", t, 1>> = <<"TEXT", u, 1>> BY <1>1, <2>2, <2>3, <2>5
  <2> QED BY <2>6
<1> QED BY <1>2, <1>3

LEMMA ReadTextAt ==
  ASSUME NEW buffer \in Seq(ByteSet), NEW t \in Texts, NEW n \in Nat, TextLen[t] <= n, NEW off,
         At(buffer, off, TextBytes(t, n))
  PROVE  ReadText(buffer, off, n) = t
<1>1. TextBytes(t, n) \in Seq(ByteSet) /\ Len(TextBytes(t, n)) = n BY TextBytesFacts
<1>2. Bytes(buffer, off, n) = TextBytes(t, n) BY <1>1, AtBytes
<1> DEFINE texts == {u \in Texts : TextLen[u] <= n /\ Bytes(buffer, off, n) = TextBytes(u, n)}
<1>3. texts = {t}
  <2>1. t \in texts BY <1>2
  <2>2. ASSUME NEW u \in texts PROVE u = t BY <1>2, TextBytesOnce
  <2> QED BY <2>1, <2>2
<1>4. ReadText(buffer, off, n) = IF Len(Bytes(buffer, off, n)) # n \/ texts = {} THEN Junk
                                 ELSE CHOOSE u \in texts : TRUE
  BY DEF ReadText
<1> HIDE DEF texts
<1> QED BY <1>1, <1>2, <1>3, <1>4

\* What an item is read as, by the type of its column.
ReadAs(item, attr) ==
  Item(attr.type, Stored(item), IF IsCharType(attr.type) THEN WriteLen(item) ELSE 0)

LEMMA ReadSize ==
  ASSUME NEW buffer \in Seq(ByteSet), NEW item \in GoodItems, NEW attr \in Attributes, NEW off,
         At(buffer, off, iTuple2Buffer(item)), Width(item.type) = Width(attr.type)
  PROVE  /\ iBuffer2List(buffer, off, attr).size = SizeIn(item)
         /\ Class(item.type) = Class(attr.type) =>
              iBuffer2List(buffer, off, attr).item = ReadAs(item, attr)
<1>1. item.type \in DataTypes /\ attr.type \in DataTypes /\ ~(off < 0)
  BY DEF GoodItems, ItemSet, Attributes, At
<1>2. IsCharType(item.type) <=> IsCharType(attr.type)
  <2>1. SizeOf(item.type) # 0 /\ SizeOf(attr.type) # 0 BY <1>1, SizeFacts
  <2> HIDE DEF IsCharType
  <2> QED BY <2>1 DEF Width
<1>3. CASE ~IsCharType(attr.type)
  <2>1. SizeIn(item) = SizeOf(attr.type) BY <1>2, <1>3 DEF SizeIn, Width
  <2>2. iBuffer2List(buffer, off, attr)
          = [item |-> Item(attr.type, ReadNumber(buffer, off, attr.type), 0), size |-> SizeOf(attr.type)]
    BY <1>1, <1>3 DEF iBuffer2List
  <2>3. ASSUME Class(item.type) = Class(attr.type)
        PROVE  ReadNumber(buffer, off, attr.type) = Stored(item)
    <3>1. item.type = attr.type BY <1>2, <1>3, <2>3 DEF Class
    <3>2. item.data \in Int BY <1>2, <1>3 DEF GoodItems, Held
    <3>3. Stored(item) = item.data BY <3>2, ItemsAssumption DEF Stored
    <3>4. iTuple2Buffer(item) = NumberBytes(attr.type, item.data)
      BY <1>2, <1>3, <3>1 DEF iTuple2Buffer
    <3> QED BY <1>1, <3>2, <3>3, <3>4, ReadNumberAt
  <2> QED BY <1>3, <2>1, <2>2, <2>3 DEF ReadAs
<1>4. CASE IsCharType(attr.type)
  <2> DEFINE w == WriteLen(item)
             b == NumberBytes("INTEGER", w)
             t == TextBytes(Stored(item), w)
  <2>1. w \in Nat /\ Stored(item) \in Texts /\ TextLen[Stored(item)] <= w BY <1>2, <1>4, LenFacts
  <2>2. b \in Seq(ByteSet) /\ Len(b) = INT_SIZE
    <3>1. "INTEGER" \in DataTypes BY DEF DataTypes, IntegerTypes
    <3>2. SizeOf("INTEGER") = INT_SIZE BY DEF SizeOf, INT_SIZE
    <3>3. w \in Int BY <2>1
    <3> HIDE DEF w
    <3> QED BY <3>1, <3>2, <3>3, NumberBytesFacts, Zenon
  <2>3. t = TextBytes(item.data, w)
    <3>1. TextLen[Empty] = 0 BY ItemsAssumption
    <3>2. CASE item.data = Null
      <4>1. Stored(item) = Empty BY <3>2 DEF Stored
      <4>2. Empty # Null BY ItemsAssumption
      <4>3. \A k \in 1 .. w : ~(k <= TextLen[Empty]) BY <2>1, <3>1
      <4> HIDE DEF w
      <4> QED BY <3>2, <4>1, <4>3 DEF TextBytes
    <3>3. CASE item.data # Null BY <3>3 DEF Stored
    <3> QED BY <3>2, <3>3
  <2>4. t \in Seq(ByteSet) BY <2>1, TextBytesFacts
  <2>5. iTuple2Buffer(item) = b \o t BY <1>2, <1>4, <2>3 DEF iTuple2Buffer
  <2> HIDE DEF b, t
  <2>6. At(buffer, off, b) /\ At(buffer, off + INT_SIZE, t) BY <2>2, <2>4, <2>5, AtParts
  <2>7. ReadNumber(buffer, off, "INTEGER") = w
    <3>1. "INTEGER" \in DataTypes BY DEF DataTypes, IntegerTypes
    <3>2. w \in Int BY <2>1
    <3> HIDE DEF w
    <3> QED BY <2>6, <3>1, <3>2, ReadNumberAt DEF b
  <2>8. ReadText(buffer, off + INT_SIZE, w) = Stored(item)
    <3> HIDE DEF w
    <3> QED BY <2>1, <2>6, ReadTextAt DEF t
  <2>9. w # Junk /\ ~(w < 0)
    <3>1. Junk \notin Int BY ItemsAssumption
    <3> HIDE DEF w
    <3> QED BY <2>1, <3>1
  <2> HIDE DEF w
  <2>10. iBuffer2List(buffer, off, attr)
           = [item |-> Item(attr.type, Stored(item), w), size |-> INT_SIZE + w]
    BY <1>1, <1>4, <2>7, <2>8, <2>9 DEF iBuffer2List
  <2>11. SizeIn(item) = INT_SIZE + w BY <1>2, <1>4 DEF SizeIn, w
  <2> QED BY <1>4, <2>10, <2>11 DEF ReadAs, w
<1> QED BY <1>3, <1>4

LEMMA AtFront ==
  ASSUME NEW buffer \in Seq(ByteSet), NEW more \in Seq(ByteSet), NEW s \in Seq(ByteSet), NEW off,
         At(buffer, off, s)
  PROVE  At(buffer \o more, off, s)
<1>1. /\ Len(buffer) \in Nat /\ Len(more) \in Nat /\ Len(s) \in Nat
      /\ Len(buffer \o more) = Len(buffer) + Len(more)
      /\ \A i \in 1 .. Len(buffer) + Len(more) :
           (buffer \o more)[i] = IF i <= Len(buffer) THEN buffer[i] ELSE more[i - Len(buffer)]
  BY LenProperties, ConcatProperties
<1>2. off \in Nat /\ off + Len(s) <= Len(buffer) /\ \A j \in 1 .. Len(s) : buffer[off + j] = s[j]
  BY DEF At
<1>3. ASSUME NEW j \in 1 .. Len(s) PROVE (buffer \o more)[off + j] = s[j]
  <2>1. off + j \in 1 .. Len(buffer) + Len(more) /\ off + j <= Len(buffer) BY <1>1, <1>2
  <2> QED BY <1>1, <1>2, <2>1
<1> QED BY <1>1, <1>2, <1>3 DEF At

LEMMA AtBack ==
  ASSUME NEW buffer \in Seq(ByteSet), NEW s \in Seq(ByteSet)
  PROVE  At(buffer \o s, Len(buffer), s)
<1>1. /\ Len(buffer) \in Nat /\ Len(s) \in Nat
      /\ Len(buffer \o s) = Len(buffer) + Len(s)
      /\ \A i \in 1 .. Len(buffer) + Len(s) :
           (buffer \o s)[i] = IF i <= Len(buffer) THEN buffer[i] ELSE s[i - Len(buffer)]
  BY LenProperties, ConcatProperties
<1>2. ASSUME NEW j \in 1 .. Len(s) PROVE (buffer \o s)[Len(buffer) + j] = s[j]
  <2> DEFINE k == Len(buffer) + j
  <2>1. k \in 1 .. Len(buffer) + Len(s) /\ ~(k <= Len(buffer)) /\ k - Len(buffer) = j BY <1>1
  <2> HIDE DEF k
  <2>2. (buffer \o s)[k] = s[j] BY <1>1, <2>1
  <2> QED BY <2>2 DEF k
<1> QED BY <1>1, <1>2 DEF At

\* Every item's bytes are where those before it end.
LEMMA ItemsAt ==
  ASSUME NEW items \in Seq(GoodItems), NEW c \in 1 .. Len(items)
  PROVE  At(uMem2Disk(items), Len(BytesUpTo(items)[c - 1]), iTuple2Buffer(items[c]))
<1> DEFINE b == BytesUpTo(items)
           L == Len(items)
           t(n) == iTuple2Buffer(items[n])
           T == {m \in Nat : m \in 0 .. L => \A n \in 1 .. m : At(b[m], Len(b[n - 1]), t(n))}
<1>1. L \in Nat /\ \A n \in 1 .. L : items[n] \in GoodItems OBVIOUS
<1>2. \A n \in 1 .. L : t(n) \in Seq(ByteSet) BY <1>1, ItemBytes
<1>3. /\ \A n \in 1 .. L : b[n] = b[n - 1] \o t(n)
      /\ \A n \in 0 .. L : b[n] \in Seq(ByteSet)
  BY BytesUpToIs
<1>4. uMem2Disk(items) = b[L] BY RowBytes
<1> HIDE DEF b, L, t
<1>5. 0 \in T OBVIOUS
<1>6. ASSUME NEW m \in 0 .. L - 1, m \in T PROVE m + 1 \in T
  <2> DEFINE k == m + 1
  <2>1. k \in 1 .. L /\ k \in 0 .. L /\ k \in Nat /\ k - 1 = m /\ m \in 0 .. L BY <1>1
  <2>2. \A n \in 1 .. m : At(b[m], Len(b[n - 1]), t(n)) BY <1>6, <2>1
  <2>3. \A n \in 1 .. k : n = k \/ (n \in 1 .. m /\ n \in 1 .. L) BY <1>1
  <2> HIDE DEF k, T
  <2>4. b[k] = b[m] \o t(k) /\ b[m] \in Seq(ByteSet) /\ t(k) \in Seq(ByteSet)
    BY <1>2, <1>3, <2>1
  <2>5. ASSUME NEW n \in 1 .. k PROVE At(b[k], Len(b[n - 1]), t(n))
    <3>1. CASE n = k BY <2>1, <2>4, <3>1, AtBack
    <3>2. CASE n \in 1 .. m /\ n \in 1 .. L
      <4>1. t(n) \in Seq(ByteSet) /\ At(b[m], Len(b[n - 1]), t(n)) BY <1>2, <2>2, <3>2
      <4> QED BY <2>4, <4>1, AtFront
    <3> QED BY <2>3, <3>1, <3>2
  <2>6. k \in T BY <2>1, <2>5 DEF T
  <2> QED BY <2>6 DEF k
<1>7. 0 .. L \subseteq T
  <2> HIDE DEF T
  <2> QED BY <1>1, <1>5, <1>6, UpTo
<1>8. L \in T /\ L \in 0 .. L BY <1>1, <1>7
<1>9. \A n \in 1 .. L : At(b[L], Len(b[n - 1]), t(n)) BY <1>8
<1>10. c \in 1 .. L BY DEF L
<1> HIDE DEF T
<1>11. At(b[L], Len(b[c - 1]), t(c)) BY <1>9, <1>10
<1> QED BY <1>4, <1>11 DEF b, t

\* Whatever is read, the size is a number.
LEMMA BytesIn ==
  ASSUME NEW buffer \in Seq(ByteSet), NEW off \in Nat, NEW n \in Nat
  PROVE  Bytes(buffer, off, n) \in Seq(ByteSet)
<1>1. CASE off + n > Len(buffer) BY <1>1, EmptySeq DEF Bytes
<1>2. CASE ~(off + n > Len(buffer))
  <2> DEFINE first == off + 1
             last == off + n
  <2>1. first \in Int /\ last \in Int /\ \A i \in first .. last : i \in 1 .. Len(buffer)
    BY <1>2, LenProperties
  <2>2. \A i \in first .. last : buffer[i] \in ByteSet BY <2>1
  <2>3. Bytes(buffer, off, n) = SubSeq(buffer, first, last) BY <1>2 DEF Bytes
  <2> HIDE DEF first, last
  <2> QED BY <2>1, <2>2, <2>3, SubSeqProperties
<1> QED BY <1>1, <1>2

LEMMA ReadNumberIn ==
  ASSUME NEW buffer \in Seq(ByteSet), NEW off \in Nat, NEW type \in DataTypes
  PROVE  ReadNumber(buffer, off, type) \in Int \cup {Junk}
<1> DEFINE s == Bytes(buffer, off, SizeOf(type))
<1>1. SizeOf(type) \in Nat BY SizeFacts
<1>2. s \in Seq(ByteSet) BY <1>1, BytesIn
<1>3. ReadNumber(buffer, off, type)
        = IF s # <<>> /\ s[1][1] = type /\ s = NumberBytes(type, s[1][2]) THEN s[1][2] ELSE Junk
  BY DEF ReadNumber
<1> HIDE DEF s
<1>4. ASSUME s # <<>>, s[1][1] = type PROVE s[1][2] \in Int
  <2>1. s[1] \in ByteSet
    <3>1. 1 \in 1 .. Len(s) BY <1>2, <1>4, EmptySeq
    <3> QED BY <1>2, <3>1
  <2>2. s[1] \notin {"TEXT"} \X Texts \X Nat
    BY <1>4 DEF DataTypes, IntegerTypes, RealTypes
  <2>3. s[1] # ZeroByte BY <1>4 DEF DataTypes, IntegerTypes, RealTypes, ZeroByte
  <2>4. s[1] \in DataTypes \X Int \X Nat BY <2>1, <2>2, <2>3 DEF ByteSet
  <2> QED BY <2>4
<1> QED BY <1>3, <1>4

LEMMA SizeReadIn ==
  ASSUME NEW buffer \in Seq(ByteSet), NEW off \in Int, NEW attr \in Attributes
  PROVE  iBuffer2List(buffer, off, attr).size \in Int
<1> DEFINE len == ReadNumber(buffer, off, "INTEGER")
<1>1. attr.type \in DataTypes BY DEF Attributes
<1>2. CASE off < 0 BY <1>2 DEF iBuffer2List
<1>3. CASE ~(off < 0)
  <2>1. len \in Int \cup {Junk}
    <3>1. off \in Nat BY <1>3
    <3>2. "INTEGER" \in DataTypes BY DEF DataTypes, IntegerTypes
    <3> QED BY <3>1, <3>2, ReadNumberIn
  <2>2. SizeOf(attr.type) \in Int BY <1>1, SizeFacts
  <2>3. iBuffer2List(buffer, off, attr).size
          = IF ~IsCharType(attr.type) THEN SizeOf(attr.type)
            ELSE IF len = Junk \/ len < 0 THEN -1 - off ELSE INT_SIZE + len
    BY <1>3 DEF iBuffer2List
  <2> HIDE DEF len
  <2> QED BY <2>1, <2>2, <2>3 DEF INT_SIZE
<1> QED BY <1>2, <1>3

LEMMA OffsUpToIs ==
  ASSUME NEW buffer \in Seq(ByteSet), NEW table \in Seq(Attributes)
  PROVE  /\ OffsUpTo(buffer, table)[0] = 0
         /\ \A n \in 1 .. Len(table) :
              OffsUpTo(buffer, table)[n]
                = OffsUpTo(buffer, table)[n - 1]
                    + iBuffer2List(buffer, OffsUpTo(buffer, table)[n - 1], table[n]).size
<1> DEFINE L == Len(table)
           size(off, n) == iBuffer2List(buffer, off, table[n]).size
           Adds(f) == f = [n \in 0 .. L |-> IF n = 0 THEN 0 ELSE f[n - 1] + size(f[n - 1], n)]
           s == [p \in Int \X Nat |-> IF p[2] \in 1 .. L THEN p[1] + size(p[1], p[2]) ELSE p[1]]
<1>1. L \in Nat /\ \A n \in 1 .. L : table[n] \in Attributes BY LenProperties, ElementOfSeq
<1>2. \A n \in 1 .. L : \A off \in Int : size(off, n) \in Int BY <1>1, SizeReadIn
<1>9. OffsUpTo(buffer, table) = CHOOSE f : Adds(f) BY DEF OffsUpTo
<1> HIDE DEF size, L
<1>3. s \in [Int \X Nat -> Int]
  <2>1. ASSUME NEW p \in Int \X Nat
        PROVE  (IF p[2] \in 1 .. L THEN p[1] + size(p[1], p[2]) ELSE p[1]) \in Int
    <3>1. p[1] \in Int OBVIOUS
    <3> QED BY <1>2, <3>1
  <2> QED BY <2>1
<1>5. PICK g \in [0 .. L -> Int] : Iterated(g, L, 0, s)
  <2> DEFINE Z == Int
  <2>1. 0 \in Z /\ s \in [Z \X Nat -> Z] BY <1>3
  <2> HIDE DEF s, Z
  <2>2. \E g \in [0 .. L -> Z] : Iterated(g, L, 0, s) BY <1>1, <2>1, IteratedExists
  <2> QED BY <2>2 DEF Z
<1>6. g[0] = 0
  <2> HIDE DEF s
  <2> QED BY <1>1, <1>5 DEF Iterated
<1>7. ASSUME NEW n \in 1 .. L PROVE g[n] = g[n - 1] + size(g[n - 1], n)
  <2>1. n - 1 \in 0 .. L /\ n \in 0 .. L /\ n # 0 BY <1>1
  <2>2. g[n] = s[<<g[n - 1], n>>]
    <3> HIDE DEF s
    <3> QED BY <1>5, <2>1 DEF Iterated
  <2>3. <<g[n - 1], n>> \in Int \X Nat BY <2>1
  <2> QED BY <2>2, <2>3
<1> HIDE DEF s
<1>8. Adds(g)
  <2>1. ASSUME NEW n \in 0 .. L
        PROVE  g[n] = IF n = 0 THEN 0 ELSE g[n - 1] + size(g[n - 1], n)
    <3>1. CASE n = 0 BY <1>6, <3>1
    <3>2. CASE n # 0
      <4>1. n \in 1 .. L BY <1>1, <3>2
      <4> QED BY <1>7, <3>2, <4>1
    <3> QED BY <3>1, <3>2
  <2> QED BY <2>1
<1>10. Adds(OffsUpTo(buffer, table))
  <2> HIDE DEF Adds
  <2> QED BY <1>8, <1>9
<1> DEFINE o == OffsUpTo(buffer, table)
<1> HIDE DEF o
<1>11. o[0] = 0 /\ \A n \in 1 .. L : o[n] = o[n - 1] + size(o[n - 1], n)
  <2>1. Adds(o) BY <1>10 DEF o
  <2>2. \A n \in 0 .. L : o[n] = IF n = 0 THEN 0 ELSE o[n - 1] + size(o[n - 1], n)
    BY <2>1
  <2>3. 0 \in 0 .. L /\ \A n \in 1 .. L : n \in 0 .. L /\ n # 0 BY <1>1
  <2> HIDE DEF L, Adds
  <2> QED BY <2>2, <2>3
<1> QED BY <1>11 DEF o, size, L

\* Each column's bytes end where they were written, as long as all are as wide as they
\* were declared.
LEMMA RowPlaces ==
  ASSUME NEW items \in Seq(GoodItems), NEW table \in Seq(Attributes), Len(items) = Len(table),
         NEW m \in 0 .. Len(table),
         \A b \in 1 .. m : Width(items[b].type) = Width(table[b].type)
  PROVE  \A n \in 0 .. m : OffsUpTo(uMem2Disk(items), table)[n] = Len(BytesUpTo(items)[n])
<1> DEFINE B == uMem2Disk(items)
           b == BytesUpTo(items)
           off == OffsUpTo(B, table)
           L == Len(table)
<1>1. L \in Nat /\ \A n \in 1 .. L : items[n] \in GoodItems /\ table[n] \in Attributes
  BY LenProperties, ElementOfSeq
<1>2. B \in Seq(ByteSet) BY RowBytes
<1>3. \A n \in 1 .. L : At(B, Len(b[n - 1]), iTuple2Buffer(items[n])) BY ItemsAt
<1>4. b[0] = <<>> /\ \A n \in 1 .. L : Len(b[n]) = Len(b[n - 1]) + SizeIn(items[n])
  BY BytesUpToIs, BytesUpToLen
<1> HIDE DEF B, L
<1>5. off[0] = 0 /\ \A n \in 1 .. L : off[n] = off[n - 1] + iBuffer2List(B, off[n - 1], table[n]).size
  BY <1>2, OffsUpToIs DEF L
<1> HIDE DEF b, off
<1> DEFINE T == {n \in Nat : off[n] = Len(b[n])}
<1>6. m \in 0 .. L BY DEF L
<1>7. 0 \in T BY <1>4, <1>5
<1>8. ASSUME NEW n \in 0 .. m - 1, n \in T PROVE n + 1 \in T
  <2> DEFINE k == n + 1
  <2>1. k \in 1 .. L /\ k \in 1 .. m /\ k - 1 = n /\ k \in Nat BY <1>1, <1>6
  <2>2. off[n] = Len(b[n]) BY <1>8
  <2> HIDE DEF k, T
  <2>3. At(B, off[n], iTuple2Buffer(items[k])) BY <1>3, <2>1, <2>2
  <2>4. Width(items[k].type) = Width(table[k].type) BY <2>1
  <2>5. iBuffer2List(B, off[n], table[k]).size = SizeIn(items[k])
    <3> DEFINE item == items[k]
               attr == table[k]
    <3>1. item \in GoodItems /\ attr \in Attributes BY <1>1, <2>1
    <3>2. At(B, off[n], iTuple2Buffer(item)) /\ Width(item.type) = Width(attr.type)
      BY <2>3, <2>4
    <3> HIDE DEF item, attr
    <3>3. iBuffer2List(B, off[n], attr).size = SizeIn(item)
      BY <1>2, <3>1, <3>2, ReadSize
    <3> QED BY <3>3 DEF item, attr
  <2>6. off[k] = Len(b[k]) BY <1>4, <1>5, <2>1, <2>2, <2>5
  <2>7. k \in T BY <2>1, <2>6 DEF T
  <2> QED BY <2>7 DEF k
<1>9. 0 .. m \subseteq T
  <2>1. m \in Nat BY <1>1, <1>6
  <2> HIDE DEF T
  <2> QED BY <1>7, <1>8, <2>1, UpTo
<1>10. \A n \in 0 .. m : off[n] = Len(b[n]) BY <1>9
<1> QED BY <1>10 DEF off, b, B

\* A row that was not too long to be written is not too long to be read.
LEMMA RowReadable ==
  ASSUME NEW items \in Seq(GoodItems), NEW table \in Seq(Attributes), Len(items) = Len(table),
         \A c \in 1 .. Len(table) : Width(items[c].type) = Width(table[c].type),
         \A n \in 1 .. Len(table) : Len(BytesUpTo(items)[n]) < FILE_LINE_LEN - 1
  PROVE  Readable(uMem2Disk(items), table)
<1> DEFINE L == Len(table)
           off == OffsUpTo(uMem2Disk(items), table)
           b == BytesUpTo(items)
<1>1. L \in Nat /\ DOMAIN table = 1 .. L BY LenProperties
<1>2. \A n \in 0 .. L : off[n] = Len(b[n])
  <2>1. L \in 0 .. L BY <1>1
  <2> QED BY <2>1, RowPlaces
<1>3. \A n \in DOMAIN table : off[n] < FILE_LINE_LEN - 1
  <2>1. \A n \in 1 .. L : n \in 0 .. L /\ Len(b[n]) < FILE_LINE_LEN - 1 OBVIOUS
  <2> HIDE DEF L, off, b
  <2> QED BY <1>1, <1>2, <2>1
<1> QED BY <1>3 DEF Readable

\* A column is read where its item was written, as long as those before it are as wide
\* as they were declared, and is what was written if its class was declared.
LEMMA RowReads ==
  ASSUME NEW items \in Seq(GoodItems), NEW table \in Seq(Attributes), Len(items) = Len(table),
         NEW c \in 1 .. Len(table),
         \A b \in 1 .. c - 1 : Width(items[b].type) = Width(table[b].type),
         Class(items[c].type) = Class(table[c].type)
  PROVE  vDisk2Mem(uMem2Disk(items), table)[c] = ReadAs(items[c], table[c])
<1> DEFINE B == uMem2Disk(items)
           b == BytesUpTo(items)
           off == OffsUpTo(B, table)
           L == Len(table)
<1>1. L \in Nat /\ \A n \in 1 .. L : items[n] \in GoodItems /\ table[n] \in Attributes
  BY LenProperties, ElementOfSeq
<1>2. B \in Seq(ByteSet) BY RowBytes
<1>3. At(B, Len(b[c - 1]), iTuple2Buffer(items[c])) BY ItemsAt
<1>4. DOMAIN table = 1 .. L BY LenProperties
<1>5. vDisk2Mem(B, table)[c] = iBuffer2List(B, off[c - 1], table[c]).item
  <2>1. c \in DOMAIN table BY <1>4
  <2> HIDE DEF B
  <2> QED BY <2>1 DEF vDisk2Mem
<1>6. off[c - 1] = Len(b[c - 1])
  <2>1. c - 1 \in 0 .. Len(table) /\ c - 1 \in 0 .. c - 1 BY <1>1
  <2> QED BY <2>1, RowPlaces
<1> DEFINE item == items[c]
           attr == table[c]
<1>7. item \in GoodItems /\ attr \in Attributes BY <1>1
<1>8. Width(item.type) = Width(attr.type) /\ Class(item.type) = Class(attr.type)
  <2>1. item.type \in DataTypes /\ attr.type \in DataTypes
    BY <1>7 DEF GoodItems, ItemSet, Attributes
  <2> QED BY <2>1 DEF Width, Class, DataTypes, IntegerTypes, RealTypes
<1>9. At(B, off[c - 1], iTuple2Buffer(item)) BY <1>3, <1>6
<1> HIDE DEF item, attr, B, b, off
<1>10. iBuffer2List(B, off[c - 1], attr).item = ReadAs(item, attr)
  BY <1>2, <1>7, <1>8, <1>9, ReadSize
<1> QED BY <1>5, <1>10 DEF B, item, attr

-----------------------------------------------------------------------------
\* Items: what they are set to.

\* Items that hold something, of whatever memory: what expressions are made of.
Values ==
  {item \in [type : DataTypes, data : Int \cup Texts, cap : Nat] :
     /\ item.type \in IntegerTypes => item.data \in RangeOf(BitsOf(item.type))
     /\ ~IsCharType(item.type) => item.data \in Int /\ item.cap = 0
     /\ IsCharType(item.type) => item.data \in Texts}

LEMMA NotDies ==
  ASSUME NEW item \in Values \cup GoodItems
  PROVE  item # Dies
<1>1. item \in [type : DataTypes, data : Int \cup Texts \cup {Null, Junk}, cap : Int]
  BY DEF Values, GoodItems, ItemSet
<1> QED BY <1>1, ItemsAssumption

LEMMA GoodIsValue ==
  ASSUME NEW item \in GoodItems, item.data # Null
  PROVE  item \in Values /\ Stored(item) = item.data
BY DEF GoodItems, ItemSet, Held, Values, Stored

LEMMA HalfFacts ==
  /\ Half(IntBits) \in Nat \ {0} /\ Half(LongBits) \in Nat \ {0}
  /\ Half(IntBits) <= Half(LongBits)
BY ItemsAssumption

LEMMA WrapFacts ==
  ASSUME NEW bits \in {IntBits, LongBits}, NEW n \in Int
  PROVE  Wrap(n, bits) \in RangeOf(bits) /\ (n \in RangeOf(bits) => Wrap(n, bits) = n)
<1> DEFINE h == Half(bits)
<1>1. h \in Nat \ {0} BY HalfFacts
<1> HIDE DEF h
<1>2. ((n + h) % (2 * h)) \in 0 .. 2 * h - 1 BY <1>1
<1>3. n \in -h .. h - 1 => (n + h) % (2 * h) = n + h BY <1>1
<1> DEFINE w == (n + h) % (2 * h)
<1>4. Wrap(n, bits) = w - h BY DEF Wrap, h
<1>5. RangeOf(bits) = -h .. h - 1 BY DEF RangeOf, h
<1>6. w \in 0 .. 2 * h - 1 /\ (n \in -h .. h - 1 => w = n + h) BY <1>2, <1>3
<1> HIDE DEF w
<1> QED BY <1>1, <1>4, <1>5, <1>6

LEMMA BitsOfFacts ==
  ASSUME NEW type \in DataTypes
  PROVE  /\ BitsOf(type) \in {IntBits, LongBits}
         /\ \A n \in Int : n \in RangeOf(IntBits) => n \in RangeOf(BitsOf(type))
         /\ \A n \in Int : n \in RangeOf(BitsOf(type)) => n \in RangeOf(LongBits)
         /\ 0 \in RangeOf(BitsOf(type))
<1> DEFINE i == Half(IntBits)
           l == Half(LongBits)
<1>1. i \in Nat \ {0} /\ l \in Nat \ {0} /\ i <= l BY HalfFacts
<1>2. RangeOf(IntBits) = -i .. i - 1 /\ RangeOf(LongBits) = -l .. l - 1 BY DEF RangeOf
<1> HIDE DEF i, l
<1> QED BY <1>1, <1>2 DEF BitsOf

LEMMA TruncatedFacts ==
  ASSUME NEW n \in Int
  PROVE  Truncated(n) \in Int /\ (n % 2 = 0 => Truncated(n) = n \div 2)
BY DEF Truncated

LEMMA NearestFacts ==
  ASSUME NEW type, NEW n \in Int
  PROVE  Nearest(type, n) \in Int
<1> DEFINE E == {e \in 0 .. MaxExp - 1 : 2^(SignificantBits(type) + e) <= Abs(n)}
           step == Step(type, n)
<1>1. MaxExp \in Nat /\ \A e \in 0 .. MaxExp : 2^e \in Nat \ {0} BY ItemsAssumption
<1>2. Cardinality(E) \in 0 .. MaxExp
  <2>1. IsFiniteSet(0 .. MaxExp - 1) /\ Cardinality(0 .. MaxExp - 1) <= MaxExp
    <3> DEFINE last == MaxExp - 1
    <3>1. last \in Int /\ 0 \in Int /\ last + 1 = MaxExp /\ last - 0 + 1 = MaxExp BY <1>1
    <3> HIDE DEF last
    <3>2. IsFiniteSet(0 .. last) /\ Cardinality(0 .. last) = IF 0 > last THEN 0 ELSE last - 0 + 1
      BY <3>1, FS_Interval
    <3>3. Cardinality(0 .. last) <= MaxExp BY <1>1, <3>1, <3>2
    <3> QED BY <3>2, <3>3 DEF last
  <2>2. E \in SUBSET (0 .. MaxExp - 1) OBVIOUS
  <2> HIDE DEF E
  <2>3. IsFiniteSet(E) /\ Cardinality(E) <= Cardinality(0 .. MaxExp - 1) BY <2>1, <2>2, FS_Subset
  <2>4. Cardinality(E) \in Nat /\ Cardinality(0 .. MaxExp - 1) \in Nat
    BY <2>1, <2>3, FS_CardinalityType
  <2> QED BY <1>1, <2>1, <2>3, <2>4
<1>3. step = 2^Cardinality(E) BY DEF Step
<1> HIDE DEF E
<1>4. step \in Nat \ {0} BY <1>1, <1>2, <1>3
<1> DEFINE below == n \div step
           rest == n % step
<1>5. Nearest(type, n) = IF 2 * rest < step \/ (2 * rest = step /\ below % 2 = 0) THEN below * step
                         ELSE (below + 1) * step
  BY DEF Nearest
<1> HIDE DEF step
<1>6. below \in Int BY <1>4
<1> HIDE DEF below, rest
<1>7. below * step \in Int /\ (below + 1) * step \in Int BY <1>4, <1>6
<1> QED BY <1>5, <1>7

LEMMA ToIntFacts ==
  ASSUME NEW n \in Int
  PROVE  /\ ToInt(n) \in Int
         /\ Truncated(n) \in RangeOf(IntBits) => ToInt(n) = Truncated(n)
         /\ ToInt(n) = Truncated(n) \/ Truncated(n) \notin RangeOf(IntBits)
<1>1. Truncated(n) \in Int /\ Half(IntBits) \in Int BY TruncatedFacts, HalfFacts
<1> QED BY <1>1 DEF ToInt, RangeOf

LEMMA HoldsFacts ==
  ASSUME NEW type, NEW n
  PROVE  /\ type \in RealTypes => (Holds(type, n) <=> Nearest(type, n) = n)
         /\ type \in IntegerTypes => (Holds(type, n) <=> n \in RangeOf(BitsOf(type)))
<1>1. type \in IntegerTypes => type \notin RealTypes BY DEF IntegerTypes, RealTypes
<1> QED BY <1>1 DEF Holds, RangeOf

LEMMA DateFacts ==
  ASSUME NEW text \in Texts
  PROVE  /\ processDateString(text) \in Int /\ DayMeant(TextDate[text]) \in Int
         /\ Clear(text) =>
              DateLenOK(text) /\ processDateString(text) = DayMeant(TextDate[text])
<1> DEFINE d == TextDate[text]
           power == 10^(d.monthDigits - 1)
<1>1. /\ d.kind \in 0 .. 4 /\ d.year \in Nat /\ d.month \in Nat /\ d.monthDigits \in Nat \ {0}
      /\ d.day \in Nat
  BY ItemsAssumption
<1> DEFINE Named(t) == /\ 10^(TextDate[t].monthDigits - 1) \in Nat \ {0}
                       /\ TextDate[t].kind \in {3, 4} => TextDate[t].month \in 1 .. 12
<1>2. Named(text)
  <2>1. \A t \in Texts : Named(t) BY ItemsAssumption
  <2> HIDE DEF Named
  <2> QED BY <2>1
<1>3. power \in Nat \ {0} /\ (d.kind \in {3, 4} => d.month \in 1 .. 12) BY <1>2
<1>4. d.monthDigits = 1 => power = 1
  <2>1. ASSUME d.monthDigits = 1 PROVE power = 1
    <3>1. d.monthDigits - 1 = 0 BY <2>1
    <3>2. power = 10^0 BY <3>1
    <3>3. 10^0 = 1 OBVIOUS
    <3> QED BY <3>2, <3>3
  <2> QED BY <2>1
<1>5. YearNumber(d) = IF d.kind = 1 THEN d.year \div power ELSE d.year BY DEF YearNumber
<1>6. processDateString(text) = YearNumber(d) * 10000 + MonthNumber(d) * 100 + d.day
  BY DEF processDateString
<1>7. DayMeant(d) = d.year * 10000 + d.month * 100 + d.day BY DEF DayMeant
<1>8. Clear(text) => /\ DateAccepted(text)
                     /\ d.kind \in {3, 4} => d.month # 10
                     /\ d.kind = 1 => d.monthDigits = 1
  BY DEF Clear
<1> HIDE DEF power
<1> DEFINE kind == d.kind
           year == d.year
           month == d.month
<1>9. YearNumber(d) \in Int /\ (Clear(text) => YearNumber(d) = d.year)
  <2>1. kind = d.kind /\ year = d.year /\ year \in Nat BY <1>1
  <2> HIDE DEF d, kind, year
  <2> QED BY <1>3, <1>4, <1>5, <1>8, <2>1
<1>10. MonthNumber(d) \in Int /\ (Clear(text) => MonthNumber(d) = d.month)
  <2>1. MonthNumber(d) = IF kind \in {3, 4} THEN (IF month - 1 >= 10 THEN 10 ELSE 0) + (month % 10)
                         ELSE month
    BY DEF MonthNumber, MonthOfName
  <2>2. kind = d.kind /\ month = d.month /\ month \in Nat BY <1>1
  <2> HIDE DEF d, kind, month
  <2> QED BY <1>3, <1>8, <2>1, <2>2
<1>11. Clear(text) => DateLenOK(text) BY <1>8 DEF DateAccepted
<1> DEFINE y == YearNumber(d)
           m == MonthNumber(d)
<1>12. y \in Int /\ m \in Int BY <1>9, <1>10
<1> HIDE DEF d, y, m, kind, year, month
<1>13. processDateString(text) = y * 10000 + m * 100 + d.day BY <1>6 DEF y, m
<1>14. Clear(text) => y = d.year /\ m = d.month BY <1>9, <1>10 DEF y, m
<1> QED BY <1>1, <1>7, <1>11, <1>12, <1>13, <1>14 DEF d

\* What an item and what was meant by it have in common; Junk where nothing is promised.
MeantItems == [type : DataTypes, data : Int \cup Texts \cup {Null, Junk}, cap : Nat]
Says(item, meant) ==
  /\ meant \in MeantItems /\ Class(meant.type) = Class(item.type)
  /\ meant.data \in {Stored(item), Junk}

LEMMA NewItem ==
  ASSUME NEW attr \in Attributes
  PROVE  /\ initHeapTupleItembyAttrData(attr) \in GoodItems
         /\ initHeapTupleItembyAttrData(attr).type = attr.type
         /\ IsCharType(attr.type) =>
              initHeapTupleItembyAttrData(attr).data = Null
                /\ initHeapTupleItembyAttrData(attr).cap = attr.len
<1>1. attr.type \in DataTypes /\ attr.len \in Nat BY DEF Attributes
<1>2. 0 \in RangeOf(BitsOf(attr.type)) BY <1>1, BitsOfFacts
<1>3. IsCharType(attr.type) => ~(attr.type \in IntegerTypes) BY DEF IsCharType, IntegerTypes
<1> HIDE DEF IsCharType, RangeOf
<1> QED BY <1>1, <1>2, <1>3 DEF initHeapTupleItembyAttrData, Item, GoodItems, ItemSet, Held

\* An item is set to what a text is in its column.
LEMMA SetByText ==
  ASSUME NEW item \in GoodItems, NEW attr \in Attributes, item.type = attr.type, NEW text \in Texts
  PROVE  LET set == setHeapTupleItemByStr(item, attr.type, text)
         IN  /\ set \in GoodItems /\ set.type = attr.type /\ set.data # Null
             /\ IsCharType(attr.type) => set.cap = Greater(item.cap, TextLen[text])
             /\ Says(set, MeantByText(text, attr))
<1> DEFINE type == attr.type
           set == setHeapTupleItemByStr(item, type, text)
           meant == MeantByText(text, attr)
<1>1. type \in DataTypes /\ item.cap \in Nat /\ item.type = type /\ attr.len \in Nat
  BY DEF Attributes, GoodItems, ItemSet
<1>2. TextNum[text] \in Int /\ TextLen[text] \in Nat /\ Null \notin Int /\ Null \notin Texts
      /\ Junk \notin Int /\ Junk \notin Texts
  BY ItemsAssumption
<1>4. \/ type \in IntegerTypes \/ type \in RealTypes \/ IsDateType(type) \/ IsCharType(type)
  BY <1>1 DEF DataTypes, IsCharType, IsDateType
<1>5. CASE type \in IntegerTypes
  <2> DEFINE h == TextNum[text]
             n == Wrap(Truncated(h), IntBits)
             m == IF text \in Numerals THEN MeantByNumeral(h, type) ELSE Junk
  <2>1. n \in RangeOf(IntBits) BY <1>2, TruncatedFacts, WrapFacts
  <2>2. n \in Int BY <2>1, HalfFacts DEF RangeOf
  <2>3. n \in RangeOf(BitsOf(type)) BY <1>1, <2>1, <2>2, BitsOfFacts
  <2>4. /\ ~IsCharType(type) /\ ~IsDateType(type) /\ type \in IntegerTypes
        /\ type \notin RealTypes
    BY <1>5 DEF IntegerTypes, RealTypes, IsCharType, IsDateType
  <2>5. set = Item(type, n, 0)
    <3> HIDE DEF type
    <3> QED BY <2>4 DEF setHeapTupleItemByStr
  <2>6. meant = Item(type, m, 0) BY <2>4 DEF MeantByText
  <2>7. m \in {n, Junk}
    <3>1. ASSUME h % 2 = 0, Holds("INTEGER", h \div 2) PROVE n = h \div 2
      <4>1. "INTEGER" \in IntegerTypes /\ BitsOf("INTEGER") = IntBits BY DEF IntegerTypes, BitsOf
      <4>2. h \div 2 \in RangeOf(IntBits) BY <3>1, <4>1, HoldsFacts
      <4>3. Truncated(h) = h \div 2 BY <1>2, <3>1, TruncatedFacts
      <4>4. h \div 2 \in Int BY <1>2
      <4> QED BY <4>2, <4>3, <4>4, WrapFacts
    <3>2. MeantByNumeral(h, type)
            = IF h % 2 = 0 /\ Holds("INTEGER", h \div 2) THEN h \div 2 ELSE Junk
      BY <2>4 DEF MeantByNumeral
    <3> HIDE DEF h, n
    <3> QED BY <3>1, <3>2
  <2> HIDE DEF n, m, h, set, meant, type, IsCharType, RangeOf
  <2>8. set = [type |-> type, data |-> n, cap |-> 0] /\ meant = [type |-> type, data |-> m, cap |-> 0]
    BY <2>5, <2>6 DEF Item
  <2>9. set \in GoodItems BY <1>1, <2>2, <2>3, <2>4, <2>8 DEF GoodItems, ItemSet, Held
  <2>10. Says(set, meant) BY <1>1, <1>2, <2>2, <2>7, <2>8 DEF Says, Stored, MeantItems
  <2> QED BY <1>2, <2>2, <2>4, <2>8, <2>9, <2>10 DEF set, meant, type
<1>6. CASE type \in RealTypes
  <2> DEFINE h == TextNum[text]
             n == Nearest(type, Nearest("DOUBLE", h))
             m == IF text \in Numerals THEN MeantByNumeral(h, type) ELSE Junk
  <2>1. /\ ~IsCharType(type) /\ ~IsDateType(type) /\ type \notin IntegerTypes
        /\ type \in RealTypes
    BY <1>6 DEF IntegerTypes, RealTypes, IsCharType, IsDateType
  <2>2. n \in Int BY <1>2, NearestFacts
  <2>3. set = Item(type, n, 0) BY <2>1 DEF setHeapTupleItemByStr
  <2>4. meant = Item(type, m, 0) BY <2>1 DEF MeantByText
  <2>5. m \in {n, Junk}
    <3>1. "DOUBLE" \in RealTypes BY DEF RealTypes
    <3>2. Holds("DOUBLE", h) /\ Holds(type, h) => n = h BY <2>1, <3>1, HoldsFacts
    <3>3. MeantByNumeral(h, type) = IF Holds("DOUBLE", h) /\ Holds(type, h) THEN h ELSE Junk
      BY <2>1 DEF MeantByNumeral
    <3> HIDE DEF h, n
    <3> QED BY <3>2, <3>3
  <2> HIDE DEF n, m, h, set, meant, type, IsCharType
  <2>6. set = [type |-> type, data |-> n, cap |-> 0] /\ meant = [type |-> type, data |-> m, cap |-> 0]
    BY <2>3, <2>4 DEF Item
  <2>7. set \in GoodItems BY <1>1, <2>1, <2>2, <2>6 DEF GoodItems, ItemSet, Held
  <2>8. Says(set, meant) BY <1>1, <1>2, <2>2, <2>5, <2>6 DEF Says, Stored, MeantItems
  <2> QED BY <1>2, <2>1, <2>2, <2>6, <2>7, <2>8 DEF set, meant, type
<1>7. CASE IsDateType(type)
  <2> DEFINE n == IF DateLenOK(text) THEN processDateString(text) ELSE item.data
             m == IF Clear(text) THEN DayMeant(TextDate[text]) ELSE Junk
  <2>1. /\ ~IsCharType(type) /\ type \notin IntegerTypes /\ type \notin RealTypes /\ type = "DATE"
    BY <1>7 DEF IntegerTypes, RealTypes, IsCharType, IsDateType
  <2>2. item.data \in Int BY <1>1, <2>1 DEF GoodItems, Held
  <2>3. n \in Int /\ m \in {n, Junk} BY <2>2, DateFacts
  <2>4. set = Item(type, n, 0) BY <1>7, <2>1 DEF setHeapTupleItemByStr
  <2>5. meant = Item(type, m, 0) BY <1>7 DEF MeantByText
  <2> HIDE DEF n, m, set, meant, type, IsCharType
  <2>6. set = [type |-> type, data |-> n, cap |-> 0] /\ meant = [type |-> type, data |-> m, cap |-> 0]
    BY <2>4, <2>5 DEF Item
  <2>7. set \in GoodItems BY <1>1, <2>1, <2>3, <2>6 DEF GoodItems, ItemSet, Held
  <2>8. Says(set, meant) BY <1>1, <1>2, <2>1, <2>3, <2>6 DEF Says, Stored, MeantItems
  <2> QED BY <1>2, <2>1, <2>3, <2>6, <2>7, <2>8 DEF set, meant, type
<1>8. CASE IsCharType(type)
  <2> DEFINE cap == Greater(item.cap, TextLen[text])
             len == attr.len
  <2>1. /\ ~IsDateType(type) /\ type \notin IntegerTypes /\ type \notin RealTypes /\ type # "DATE"
    BY <1>8 DEF IntegerTypes, RealTypes, IsCharType, IsDateType
  <2>2. set = Item(type, text, cap)
    BY <1>1, <1>8, <2>1 DEF setHeapTupleItemByStr, SetText
  <2>3. meant = Item(type, text, len) BY <1>8, <2>1 DEF MeantByText
  <2>4. cap \in Nat /\ TextLen[text] <= cap /\ len \in Nat BY <1>1, <1>2 DEF Greater
  <2> HIDE DEF cap, len, set, meant, type
  <2>5. set = [type |-> type, data |-> text, cap |-> cap] /\ meant = [type |-> type, data |-> text, cap |-> len]
    BY <2>2, <2>3 DEF Item
  <2>6. set \in GoodItems BY <1>1, <1>8, <2>1, <2>4, <2>5 DEF GoodItems, ItemSet, Held
  <2>7. Says(set, meant) BY <1>1, <1>2, <2>4, <2>5 DEF Says, Stored, MeantItems
  <2> QED BY <1>2, <2>5, <2>6, <2>7 DEF set, meant, type, cap
<1> QED BY <1>4, <1>5, <1>6, <1>7, <1>8

LEMMA CopyIs ==
  ASSUME NEW des \in GoodItems, NEW src \in Values
  PROVE  LET copy == copyHeapTupleItem(des, src)
         IN  /\ \/ copy = Dies
                \/ /\ copy \in GoodItems /\ copy.type = src.type /\ copy.data = src.data
                   /\ copy.data # Null
                   /\ IsCharType(src.type) => copy.cap = Greater(des.cap, TextLen[src.data])
             /\ (IsCharType(src.type) => IsCharType(des.type)) => copy \in GoodItems
<1> DEFINE copy == copyHeapTupleItem(des, src)
           cap == Greater(des.cap, TextLen[src.data])
<1>1. /\ src.type \in DataTypes /\ des.cap \in Nat
      /\ src \in [type : DataTypes, data : Int \cup Texts, cap : Nat]
  BY DEF Values, GoodItems, ItemSet
<1>2. Null \notin Int /\ Null \notin Texts BY ItemsAssumption
<1>3. CASE IsCharType(src.type)
  <2>1. src.data \in Texts /\ src.type \notin IntegerTypes
    BY <1>3 DEF Values, IsCharType, IntegerTypes
  <2>2. TextLen[src.data] \in Nat BY <2>1, ItemsAssumption
  <2>3. cap \in Nat /\ TextLen[src.data] <= cap BY <1>1, <2>2 DEF Greater
  <2>4. copy = IF des.data \notin {Null, 0} /\ ~IsCharType(des.type) THEN Dies
               ELSE Item(src.type, src.data, cap)
    BY <1>3 DEF copyHeapTupleItem, SetText
  <2> HIDE DEF copy, cap
  <2>5. Item(src.type, src.data, cap) \in GoodItems
    BY <1>1, <1>3, <2>1, <2>3 DEF Item, GoodItems, ItemSet, Held
  <2>6. CASE copy = Dies
    <3>1. ~IsCharType(des.type) BY <2>4, <2>5, <2>6, NotDies
    <3> QED BY <1>3, <2>6, <3>1 DEF copy
  <2>7. CASE copy = Item(src.type, src.data, cap)
    BY <1>2, <2>1, <2>5, <2>7 DEF Item, copy, cap
  <2> QED BY <2>4, <2>6, <2>7
<1>4. CASE ~IsCharType(src.type)
  <2>1. copy = src BY <1>4 DEF copyHeapTupleItem
  <2>2. src.data \in Int /\ src.cap = 0
        /\ (src.type \in IntegerTypes => src.data \in RangeOf(BitsOf(src.type)))
    BY <1>4 DEF Values
  <2> HIDE DEF IsCharType
  <2>3. src \in GoodItems BY <1>1, <1>4, <2>2 DEF GoodItems, ItemSet, Held
  <2> HIDE DEF copy
  <2> QED BY <1>2, <1>4, <2>1, <2>2, <2>3 DEF copy
<1> QED BY <1>3, <1>4

LEMMA ClearedIs ==
  ASSUME NEW item \in GoodItems
  PROVE  LET cleared == vDestroyHeapTupleItem(item)
         IN  /\ cleared \in GoodItems /\ cleared.type = item.type /\ cleared.cap = item.cap
<1>1. item \in ItemSet /\ Held(item) BY DEF GoodItems
<1>2. CASE IsCharType(item.type)
  <2> DEFINE cleared == [type |-> item.type, data |-> Null, cap |-> item.cap]
  <2>1. vDestroyHeapTupleItem(item) = cleared BY <1>1, <1>2 DEF vDestroyHeapTupleItem, ItemSet
  <2>2. item.type \notin IntegerTypes BY <1>2 DEF IsCharType, IntegerTypes
  <2> HIDE DEF IsCharType
  <2>3. cleared \in GoodItems BY <1>1, <1>2, <2>2 DEF GoodItems, ItemSet, Held
  <2> QED BY <2>1, <2>3
<1>3. CASE ~IsCharType(item.type) BY <1>3 DEF vDestroyHeapTupleItem
<1> QED BY <1>2, <1>3

-----------------------------------------------------------------------------
\* Arithmetic.

LEMMA ClassFacts ==
  ASSUME NEW t \in DataTypes, NEW u \in DataTypes, Class(t) = Class(u)
  PROVE  /\ IsCharType(t) <=> IsCharType(u)
         /\ ~IsCharType(t) => t = u
         /\ Width(t) = Width(u)
<1>1. (IsCharType(t) <=> IsCharType(u)) /\ (~IsCharType(t) => t = u)
  BY DEF Class, DataTypes, IntegerTypes, RealTypes
<1> HIDE DEF IsCharType
<1> QED BY <1>1 DEF Width

LEMMA JudgeFacts ==
  ASSUME NEW a, NEW b, a.type \in DataTypes, b.type \in DataTypes
  PROVE  LET type == judgeDataType(a, b)
         IN  /\ type \in DataTypes \cup {"NONE"}
             /\ IsNumericType(type) <=> IsNumericType(a.type) /\ IsNumericType(b.type)
             /\ type \in IntegerTypes => /\ a.type \in IntegerTypes /\ b.type \in IntegerTypes
                                         /\ "LONG" \in {a.type, b.type} => type = "LONG"
             /\ IsCharType(a.type) /\ IsCharType(b.type) => IsCharType(type)
             /\ IsCharType(type) => IsCharType(a.type) /\ IsCharType(b.type)
             /\ a.type = "DATE" /\ (b.type = "DATE" \/ IsCharType(b.type)) => type = "DATE"
             /\ type = "DATE" => (a.type = "DATE" \/ IsCharType(a.type))
                                   /\ (b.type = "DATE" \/ IsCharType(b.type))
<1> DEFINE types == {a.type, b.type}
<1>1. judgeDataType(a, b) =
        IF a.type = b.type THEN a.type
        ELSE IF \A type \in types : IsNumericType(type) THEN CommonNumber(types)
        ELSE IF \A type \in types : IsCharType(type) THEN "VARCHAR"
        ELSE IF \A type \in types : IsCharType(type) \/ IsDateType(type) THEN "DATE"
        ELSE "NONE"
  BY DEF judgeDataType
<1>2. judgeDataType(a, b) =
        IF a.type = b.type THEN a.type
        ELSE IF IsNumericType(a.type) /\ IsNumericType(b.type) THEN CommonNumber(types)
        ELSE IF IsCharType(a.type) /\ IsCharType(b.type) THEN "VARCHAR"
        ELSE IF (IsCharType(a.type) \/ IsDateType(a.type)) /\ (IsCharType(b.type) \/ IsDateType(b.type)) THEN "DATE"
        ELSE "NONE"
  <2> HIDE DEF IsNumericType, IsCharType, IsDateType, CommonNumber
  <2> QED BY <1>1
<1>3. CommonNumber(types) =
        IF "DOUBLE" \in types THEN "DOUBLE" ELSE IF "FLOAT" \in types THEN "FLOAT"
        ELSE IF "LONG" \in types THEN "LONG" ELSE "INTEGER"
  BY DEF CommonNumber
<1> DEFINE type == judgeDataType(a, b)
<1>4. type =
        IF a.type = b.type THEN a.type
        ELSE IF IsNumericType(a.type) /\ IsNumericType(b.type)
             THEN IF "DOUBLE" \in types THEN "DOUBLE" ELSE IF "FLOAT" \in types THEN "FLOAT"
                  ELSE IF "LONG" \in types THEN "LONG" ELSE "INTEGER"
        ELSE IF IsCharType(a.type) /\ IsCharType(b.type) THEN "VARCHAR"
        ELSE IF (IsCharType(a.type) \/ IsDateType(a.type)) /\ (IsCharType(b.type) \/ IsDateType(b.type)) THEN "DATE"
        ELSE "NONE"
  BY <1>2, <1>3
<1> HIDE DEF type
<1> QED BY <1>4 DEF type, IsNumericType, IsCharType, IsDateType, DataTypes, IntegerTypes, RealTypes

LEMMA NumberIn ==
  ASSUME NEW item \in Values, NEW type \in DataTypes, IsNumericType(item.type), IsNumericType(type)
  PROVE  /\ getHeapTupleItemData(item, type) \in Int
         /\ type \in RealTypes => getHeapTupleItemData(item, type) = Nearest(type, Halves(item))
         /\ type \in IntegerTypes /\ item.type \in IntegerTypes =>
              getHeapTupleItemData(item, type) = Wrap(item.data, BitsOf(type))
<1>1. item.data \in Int BY DEF Values, IsNumericType, IsCharType, IntegerTypes, RealTypes
<1>2. BitsOf(type) \in {IntBits, LongBits} BY BitsOfFacts
<1>3. Wrap(item.data, BitsOf(type)) \in Int /\ Wrap(Truncated(item.data), BitsOf(type)) \in Int
  BY <1>1, <1>2, TruncatedFacts, WrapFacts, HalfFacts DEF RangeOf
<1>4. Nearest(type, Halves(item)) \in Int
  <2>1. Halves(item) \in Int BY <1>1 DEF Halves
  <2> QED BY <2>1, NearestFacts
<1>5. \/ item.type \in IntegerTypes /\ item.type \notin RealTypes
      \/ item.type \in RealTypes /\ item.type \notin IntegerTypes
  BY DEF IsNumericType, IntegerTypes, RealTypes
<1>6. \/ type \in IntegerTypes /\ type \notin RealTypes
      \/ type \in RealTypes /\ type \notin IntegerTypes
  BY DEF IsNumericType, IntegerTypes, RealTypes
<1> QED BY <1>1, <1>3, <1>4, <1>5, <1>6 DEF getHeapTupleItemData

\* A number that a type has is read in it as it is.
LEMMA NumberSame ==
  ASSUME NEW item \in Values, NEW type \in DataTypes, IsNumericType(item.type), IsNumericType(type),
         type \in IntegerTypes => item.type \in IntegerTypes, Holds(type, InUnit(item, type))
  PROVE  getHeapTupleItemData(item, type) = InUnit(item, type)
<1>1. CASE type \in RealTypes
  <2>1. InUnit(item, type) = Halves(item) BY <1>1 DEF InUnit
  <2> QED BY <1>1, <2>1, NumberIn, HoldsFacts
<1>2. CASE type \notin RealTypes
  <2>1. type \in IntegerTypes BY <1>2 DEF IsNumericType
  <2>2. InUnit(item, type) = item.data BY <1>2 DEF InUnit
  <2>3. item.data \in RangeOf(BitsOf(type)) BY <2>1, <2>2, HoldsFacts
  <2>4. item.data \in Int BY DEF Values, IsNumericType, IsCharType, IntegerTypes, RealTypes
  <2>5. Wrap(item.data, BitsOf(type)) = item.data BY <2>3, <2>4, BitsOfFacts, WrapFacts
  <2> QED BY <2>1, <2>2, <2>5, NumberIn
<1> QED BY <1>1, <1>2

LEMMA ExactIn ==
  ASSUME NEW op \in Arithmetic, NEW type, NEW x \in Int, NEW y \in Int
  PROVE  /\ Exact(op, type, x, y) \in Int \cup {Dies}
         /\ op \notin {"OP_DIV", "OP_MOD"} => Exact(op, type, x, y) \in Int
<1>1. y # 0 => Quotient(x, y) \in Int
  <2> DEFINE p == Abs(x)
             q == Abs(y)
  <2>1. p \in Nat /\ (y # 0 => q \in Nat \ {0}) BY DEF Abs
  <2> HIDE DEF p, q
  <2>2. y # 0 => p \div q \in Int BY <2>1
  <2>3. Quotient(x, y) = IF (x < 0) = (y < 0) THEN p \div q ELSE -(p \div q) BY DEF Quotient, p, q
  <2> QED BY <2>2, <2>3
<1>2. x * y \in Int /\ (y # 0 => y * Quotient(x, y) \in Int) BY <1>1
<1> DEFINE z == x * y
           w == y * Quotient(x, y)
<1>3. z \in Int /\ (y # 0 => w \in Int) BY <1>2
<1>4. op \in {"OP_ADD", "OP_SUB", "OP_MUL", "OP_DIV", "OP_MOD"} BY DEF Arithmetic
<1>10. Divides(type, x, y) => y # 0 BY DEF Divides
<1>5. CASE op = "OP_ADD" BY <1>5 DEF Exact
<1>6. CASE op = "OP_SUB" BY <1>6 DEF Exact
<1>7. CASE op = "OP_MUL"
  <2>1. Exact(op, type, x, y) = IF type \in IntegerTypes THEN z ELSE z \div 2 BY <1>7 DEF Exact
  <2> HIDE DEF z
  <2> QED BY <1>3, <2>1
<1>8. CASE op = "OP_DIV"
  <2>1. Exact(op, type, x, y) = IF Divides(type, x, y) THEN Quotient(x, y) ELSE Dies
    BY <1>8 DEF Exact
  <2> QED BY <1>1, <1>8, <1>10, <2>1
<1>9. CASE op = "OP_MOD"
  <2>1. Exact(op, type, x, y) = IF Divides(type, x, y) THEN x - w ELSE Dies
    BY <1>9 DEF Exact
  <2> HIDE DEF w
  <2> QED BY <1>3, <1>9, <1>10, <2>1
<1> QED BY <1>4, <1>5, <1>6, <1>7, <1>8, <1>9

LEMMA CalculateIs ==
  ASSUME NEW a \in Values, NEW b \in Values, NEW op \in Arithmetic
  PROVE  LET value == calculateHeapTupleItem(a, b, op)
             type == judgeDataType(a, b)
             exact == Exact(op, type, getHeapTupleItemData(a, type), getHeapTupleItemData(b, type))
         IN  /\ \/ value = Dies
                \/ /\ value \in Values /\ value.type = type
                   /\ IsNumericType(a.type) /\ IsNumericType(b.type)
                   /\ exact \in Int
                   /\ value.data = IF type \in IntegerTypes THEN Wrap(exact, BitsOf(type))
                                   ELSE Nearest(type, exact)
             /\ IsNumericType(a.type) /\ IsNumericType(b.type) /\ op \notin {"OP_DIV", "OP_MOD"}
                  => value \in Values
<1> DEFINE type == judgeDataType(a, b)
           exact == Exact(op, type, getHeapTupleItemData(a, type), getHeapTupleItemData(b, type))
           value == calculateHeapTupleItem(a, b, op)
<1>1. a.type \in DataTypes /\ b.type \in DataTypes BY DEF Values
<1>2. /\ type \in DataTypes \cup {"NONE"}
      /\ IsNumericType(type) <=> IsNumericType(a.type) /\ IsNumericType(b.type)
  BY <1>1, JudgeFacts
<1>3. value = IF ~IsNumericType(type) \/ exact = Dies THEN Dies
              ELSE IF type \in IntegerTypes THEN Item(type, Wrap(exact, BitsOf(type)), 0)
              ELSE Item(type, Nearest(type, exact), 0)
  BY DEF calculateHeapTupleItem
<1>4. CASE ~IsNumericType(type) BY <1>2, <1>3, <1>4
<1>5. CASE IsNumericType(type)
  <2>1. type \in DataTypes /\ ~IsCharType(type)
    BY <1>2, <1>5 DEF IsNumericType, IsCharType, IntegerTypes, RealTypes
  <2>2. getHeapTupleItemData(a, type) \in Int /\ getHeapTupleItemData(b, type) \in Int
    BY <1>2, <1>5, <2>1, NumberIn
  <2>3. /\ exact \in Int \cup {Dies}
        /\ op \notin {"OP_DIV", "OP_MOD"} => exact \in Int
    BY <2>2, ExactIn
  <2>4. Dies \notin Int BY ItemsAssumption
  <2>5. BitsOf(type) \in {IntBits, LongBits} BY <2>1, BitsOfFacts
  <2> HIDE DEF exact, value, type, IsNumericType, IsCharType
  <2>6. ASSUME exact \in Int
        PROVE  /\ value \in Values /\ value.type = type
               /\ value.data = IF type \in IntegerTypes THEN Wrap(exact, BitsOf(type))
                               ELSE Nearest(type, exact)
    <3>1. Wrap(exact, BitsOf(type)) \in RangeOf(BitsOf(type)) BY <2>5, <2>6, WrapFacts
    <3>2. Wrap(exact, BitsOf(type)) \in Int BY <3>1, <2>5, HalfFacts DEF RangeOf
    <3> DEFINE w == Wrap(exact, BitsOf(type))
               r == Nearest(type, exact)
    <3>3. value = IF type \in IntegerTypes THEN Item(type, w, 0) ELSE Item(type, r, 0)
      BY <1>3, <1>5, <2>4, <2>6
    <3>4. w \in Int /\ w \in RangeOf(BitsOf(type)) BY <3>1, <3>2
    <3>7. r \in Int BY <2>6, NearestFacts
    <3> HIDE DEF w, r
    <3>5. CASE type \in IntegerTypes
      <4>1. value = [type |-> type, data |-> w, cap |-> 0] BY <3>3, <3>5 DEF Item
      <4> QED BY <2>1, <3>4, <3>5, <4>1 DEF Values, w
    <3>6. CASE type \notin IntegerTypes
      <4>1. value = [type |-> type, data |-> r, cap |-> 0] BY <3>3, <3>6 DEF Item
      <4> QED BY <2>1, <3>6, <3>7, <4>1 DEF Values, r
    <3> QED BY <3>5, <3>6
  <2>7. exact = Dies => value = Dies BY <1>3
  <2> QED BY <1>2, <1>5, <2>3, <2>6, <2>7 DEF value, type, exact
<1> QED BY <1>4, <1>5

\* The widest type is the one the code calculates in.
LEMMA RankFacts ==
  /\ Rank("INTEGER") = 1 /\ Rank("LONG") = 2 /\ Rank("FLOAT") = 3 /\ Rank("DOUBLE") = 4
  /\ Range(Widths) = IntegerTypes \cup RealTypes
<1>1. DOMAIN Widths = 1 .. 4 /\ Widths[1] = "INTEGER" /\ Widths[2] = "LONG" /\ Widths[3] = "FLOAT"
      /\ Widths[4] = "DOUBLE"
  BY DEF Widths
<1>2. \A k \in 1 .. 4 : k = 1 \/ k = 2 \/ k = 3 \/ k = 4 OBVIOUS
<1> DEFINE R(type) == {k \in 1 .. 4 : Widths[k] = type}
<1>3. \A type : Rank(type) = CHOOSE k \in 1 .. 4 : Widths[k] = type BY <1>1 DEF Rank
<1>4. Rank("INTEGER") = 1
  <2>1. \A k \in 1 .. 4 : Widths[k] = "INTEGER" <=> k = 1 BY <1>1, <1>2
  <2> QED BY <1>3, <2>1
<1>5. Rank("LONG") = 2
  <2>1. \A k \in 1 .. 4 : Widths[k] = "LONG" <=> k = 2 BY <1>1, <1>2
  <2> QED BY <1>3, <2>1
<1>6. Rank("FLOAT") = 3
  <2>1. \A k \in 1 .. 4 : Widths[k] = "FLOAT" <=> k = 3 BY <1>1, <1>2
  <2> QED BY <1>3, <2>1
<1>7. Rank("DOUBLE") = 4
  <2>1. \A k \in 1 .. 4 : Widths[k] = "DOUBLE" <=> k = 4 BY <1>1, <1>2
  <2> QED BY <1>3, <2>1
<1>8. Range(Widths) = {Widths[k] : k \in 1 .. 4} BY <1>1 DEF Range
<1>9. {Widths[k] : k \in 1 .. 4} = IntegerTypes \cup RealTypes
  BY <1>1, <1>2 DEF IntegerTypes, RealTypes
<1> QED BY <1>4, <1>5, <1>6, <1>7, <1>8, <1>9

LEMMA WiderIsCommon ==
  ASSUME NEW a, NEW b, IsNumericType(a.type), IsNumericType(b.type)
  PROVE  Wider(a.type, b.type) = judgeDataType(a, b)
<1> DEFINE t == a.type
           u == b.type
<1>1. t \in {"INTEGER", "LONG", "FLOAT", "DOUBLE"} /\ u \in {"INTEGER", "LONG", "FLOAT", "DOUBLE"}
  BY DEF IsNumericType, IntegerTypes, RealTypes
<1>2. judgeDataType(a, b) =
        IF t = u THEN t ELSE IF "DOUBLE" \in {t, u} THEN "DOUBLE"
        ELSE IF "FLOAT" \in {t, u} THEN "FLOAT" ELSE "LONG"
  <2>1. \A type \in {t, u} : IsNumericType(type) OBVIOUS
  <2>2. judgeDataType(a, b) = IF t = u THEN t ELSE CommonNumber({t, u}) BY <2>1 DEF judgeDataType
  <2> HIDE DEF t, u
  <2> QED BY <1>1, <2>2 DEF CommonNumber
<1> HIDE DEF t, u
<1>3. Widths[1] = "INTEGER" /\ Widths[2] = "LONG" /\ Widths[3] = "FLOAT" /\ Widths[4] = "DOUBLE"
  BY DEF Widths
<1>4. \A k, l \in 1 .. 4 : Greater(k, l) = IF k > l THEN k ELSE l BY DEF Greater
<1>5. /\ Rank(t) \in 1 .. 4 /\ Rank(u) \in 1 .. 4 /\ Widths[Rank(t)] = t /\ Widths[Rank(u)] = u
      /\ t = "INTEGER" <=> Rank(t) = 1
      /\ t = "LONG" <=> Rank(t) = 2
      /\ t = "FLOAT" <=> Rank(t) = 3
      /\ t = "DOUBLE" <=> Rank(t) = 4
      /\ u = "INTEGER" <=> Rank(u) = 1
      /\ u = "LONG" <=> Rank(u) = 2
      /\ u = "FLOAT" <=> Rank(u) = 3
      /\ u = "DOUBLE" <=> Rank(u) = 4
  BY <1>1, <1>3, RankFacts
<1>6. Greater(Rank(t), Rank(u)) = IF Rank(t) > Rank(u) THEN Rank(t) ELSE Rank(u) BY <1>4, <1>5
<1>7. Widths[Greater(Rank(t), Rank(u))] = judgeDataType(a, b)
  BY <1>1, <1>2, <1>3, <1>5, <1>6
<1> QED BY <1>7 DEF t, u, Wider

-----------------------------------------------------------------------------
\* Expressions.

Settable == Operands \cup Operations(Arithmetic)

LEMMA OperandForms ==
  ASSUME NEW o \in Operands
  PROVE  \/ o.op = "COLUMN" /\ o.column \in Nat
         \/ o.op = "CONSTANT" /\ o.item \in Values
<1>1. CASE o \in [op : {"COLUMN"}, column : Nat] BY <1>1
<1>2. CASE o \notin [op : {"COLUMN"}, column : Nat]
  <2>1. o.op = "CONSTANT" BY <1>2 DEF Operands
  <2>2. \/ o.item \in [type : {"INTEGER"}, data : -Half(IntBits) .. Half(IntBits) - 1, cap : {0}]
        \/ o.item \in [type : {"DOUBLE"}, data : Int, cap : {0}]
        \/ o.item \in [type : {"CHAR"}, data : Texts, cap : Nat]
    BY <1>2 DEF Operands
  <2> DEFINE item == o.item
             h == Half(IntBits)
  <2>3. h \in Nat \ {0} BY HalfFacts
  <2>4. RangeOf(BitsOf("INTEGER")) = -h .. h - 1 BY DEF RangeOf, BitsOf
  <2>5. CASE item \in [type : {"INTEGER"}, data : -Half(IntBits) .. Half(IntBits) - 1, cap : {0}]
    <3>1. item \in [type : {"INTEGER"}, data : -h .. h - 1, cap : {0}] BY <2>5
    <3> HIDE DEF h, item
    <3>2. item.type = "INTEGER" /\ item.data \in -h .. h - 1 /\ item.data \in Int /\ item.cap = 0
          /\ item \in [type : DataTypes, data : Int \cup Texts, cap : Nat]
      BY <2>3, <3>1 DEF DataTypes, IntegerTypes
    <3>3. item.data \in RangeOf(BitsOf(item.type)) BY <2>4, <3>2
    <3>4. ~IsCharType(item.type) BY <3>2 DEF IsCharType
    <3>5. item \in Values BY <3>2, <3>3, <3>4 DEF Values
    <3> QED BY <2>1, <3>5 DEF item
  <2>6. CASE item \in [type : {"DOUBLE"}, data : Int, cap : {0}]
    <3>1. item \in Values BY <2>6 DEF Values, DataTypes, IntegerTypes, RealTypes, IsCharType
    <3> QED BY <2>1, <3>1
  <2>7. CASE item \in [type : {"CHAR"}, data : Texts, cap : Nat]
    <3>1. item \in Values BY <2>7 DEF Values, DataTypes, IntegerTypes, RealTypes, IsCharType
    <3> QED BY <2>1, <3>1
  <2> QED BY <2>2, <2>5, <2>6, <2>7
<1> QED BY <1>1, <1>2

LEMMA SettableForms ==
  ASSUME NEW e, e \in Operands \cup Operations(Arithmetic \cup Comparisons)
  PROVE  \/ e \in Operands /\ e.op \in {"COLUMN", "CONSTANT"}
         \/ /\ e.op \in Arithmetic \cup Comparisons
            /\ e.args[1] \in Operands /\ e.args[2] \in Operands
<1>1. CASE e \in Operands BY <1>1, OperandForms
<1>2. CASE e \in Operations(Arithmetic \cup Comparisons) BY <1>2 DEF Operations
<1> QED BY <1>1, <1>2

LEMMA OpsApart ==
  ASSUME NEW op \in Arithmetic \cup Comparisons
  PROVE  /\ op \notin {"NULL", "COLUMN", "CONSTANT"}
         /\ op \in Arithmetic => op \notin Comparisons
BY DEF Arithmetic, Comparisons

LEMMA ColumnsOfArgs ==
  ASSUME NEW e, e.op \in Arithmetic \cup Comparisons, NEW i \in 1 .. 2, e.args[i].op = "COLUMN"
  PROVE  e.args[i].column \in ColumnsOf(e)
<1> DEFINE of(k) == IF e.args[k].op = "COLUMN" THEN {e.args[k].column} ELSE {}
<1>1. e.op \notin {"NULL", "COLUMN", "CONSTANT"} BY OpsApart
<1>2. ColumnsOf(e) = UNION {of(k) : k \in 1 .. 2} BY <1>1 DEF ColumnsOf
<1>3. e.args[i].column \in of(i) OBVIOUS
<1> HIDE DEF of
<1> QED BY <1>2, <1>3

LEMMA OperandIs ==
  ASSUME NEW o \in Operands, NEW C, NEW xs \in [C -> Values], o.op = "COLUMN" => o.column \in C
  PROVE  Operand(o, xs) \in Values
BY OperandForms DEF Operand

LEMMA ExprIs ==
  ASSUME NEW e \in Settable, NEW C, NEW xs \in [C -> Values], ColumnsOf(e) \subseteq C
  PROVE  /\ Expr_Calculate(e, xs) \in Values \cup {Dies}
         /\ e.op \in {"COLUMN", "CONSTANT"} => Expr_Calculate(e, xs) \in Values
<1>1. CASE e \in Operands
  <2>1. e.op \in {"COLUMN", "CONSTANT"} /\ (e.op = "COLUMN" => e.column \in C)
    BY <1>1, OperandForms DEF ColumnsOf
  <2>2. Operand(e, xs) \in Values BY <1>1, <2>1, OperandIs
  <2> QED BY <2>1, <2>2 DEF Expr_Calculate
<1>2. CASE e \in Operations(Arithmetic)
  <2>1. e.op \in Arithmetic /\ e.args[1] \in Operands /\ e.args[2] \in Operands
    BY <1>2 DEF Operations
  <2>2. \A i \in 1 .. 2 : e.args[i].op = "COLUMN" => e.args[i].column \in C
    BY <2>1, ColumnsOfArgs
  <2> DEFINE a == Operand(e.args[1], xs)
             b == Operand(e.args[2], xs)
  <2>3. a \in Values /\ b \in Values
    <3>1. 1 \in 1 .. 2 /\ 2 \in 1 .. 2 OBVIOUS
    <3> QED BY <2>1, <2>2, <3>1, OperandIs
  <2>4. e.op \notin {"NULL", "COLUMN", "CONSTANT"} BY <2>1, OpsApart
  <2>5. Expr_Calculate(e, xs) = calculateHeapTupleItem(a, b, e.op)
    BY <2>1, <2>4 DEF Expr_Calculate
  <2> HIDE DEF a, b
  <2> QED BY <2>1, <2>3, <2>4, <2>5, CalculateIs
<1> QED BY <1>1, <1>2 DEF Settable

\* What is evaluated and what was meant: they have the same to say if it ends.
LEMMA OperandSays ==
  ASSUME NEW o \in Operands, NEW C, NEW xs \in [C -> Values], NEW ys,
         \A c \in C : Says(xs[c], ys[c]), o.op = "COLUMN" => o.column \in C
  PROVE  Says(Operand(o, xs), Operand(o, ys))
<1>1. CASE o.op = "COLUMN" BY <1>1 DEF Operand
<1>2. CASE o.op # "COLUMN"
  <2>1. o.op = "CONSTANT" /\ o.item \in Values BY <1>2, OperandForms
  <2>2. Operand(o, xs) = o.item /\ Operand(o, ys) = o.item BY <2>1 DEF Operand
  <2>3. /\ o.item.type \in DataTypes /\ o.item.data \in Int \cup Texts
        /\ o.item \in [type : DataTypes, data : Int \cup Texts, cap : Nat]
    BY <2>1 DEF Values
  <2>4. \A none \in {Null, Junk} : none \notin Int \cup Texts BY ItemsAssumption
  <2>5. Says(o.item, o.item) BY <2>3, <2>4 DEF Says, Stored, MeantItems
  <2> QED BY <2>2, <2>5
<1> QED BY <1>1, <1>2

LEMMA NumberSays ==
  ASSUME NEW x \in Values, NEW y, Says(x, y), IsNumericType(x.type) \/ IsNumericType(y.type)
  PROVE  x.type = y.type /\ (y.data # Junk => x.data = y.data) /\ x.data \in Int
<1>1. x.type \in DataTypes /\ y.type \in DataTypes /\ Class(x.type) = Class(y.type)
  BY DEF Values, Says, MeantItems
<1>2. ~IsCharType(x.type) /\ x.type # "DATE" /\ x.type = y.type
  <2>1. x.type = y.type \/ (IsCharType(x.type) /\ IsCharType(y.type)) BY <1>1, ClassFacts
  <2> QED BY <2>1 DEF IsCharType, IsNumericType, IntegerTypes, RealTypes
<1>3. x.data \in Int BY <1>2 DEF Values
<1>4. Null \notin Int BY ItemsAssumption
<1> QED BY <1>2, <1>3, <1>4 DEF Says, Stored, MeantItems

LEMMA ExprSays ==
  ASSUME NEW e \in Settable, NEW C, NEW xs \in [C -> Values], NEW ys,
         \A c \in C : Says(xs[c], ys[c]), ColumnsOf(e) \subseteq C, Expr_Calculate(e, xs) # Dies
  PROVE  Says(Expr_Calculate(e, xs), Meaning(e, ys))
<1>1. CASE e \in Operands
  <2>1. e.op \in {"COLUMN", "CONSTANT"} /\ (e.op = "COLUMN" => e.column \in C)
    BY <1>1, OperandForms DEF ColumnsOf
  <2>2. Says(Operand(e, xs), Operand(e, ys)) BY <1>1, <2>1, OperandSays
  <2>3. Meaning(e, ys) = Operand(e, ys) BY <2>1 DEF Meaning
  <2> QED BY <2>1, <2>2, <2>3 DEF Expr_Calculate
<1>2. CASE e \in Operations(Arithmetic)
  <2>1. e.op \in Arithmetic /\ e.args[1] \in Operands /\ e.args[2] \in Operands
    BY <1>2 DEF Operations
  <2>2. \A i \in 1 .. 2 : e.args[i].op = "COLUMN" => e.args[i].column \in C
    BY <2>1, ColumnsOfArgs
  <2> DEFINE op == e.op
             a == Operand(e.args[1], xs)
             b == Operand(e.args[2], xs)
             x == Operand(e.args[1], ys)
             y == Operand(e.args[2], ys)
             type == judgeDataType(a, b)
             value == calculateHeapTupleItem(a, b, op)
             exact == Exact(op, type, getHeapTupleItemData(a, type), getHeapTupleItemData(b, type))
             meaning(t) == IF Junk \in {x.data, y.data} THEN Junk
                           ELSE MeantByOperation(op, t, InUnit(x, t), InUnit(y, t))
             m == meaning(type)
  <2>3. a \in Values /\ b \in Values /\ Says(a, x) /\ Says(b, y)
    <3>1. 1 \in 1 .. 2 /\ 2 \in 1 .. 2 OBVIOUS
    <3> QED BY <2>1, <2>2, <3>1, OperandIs, OperandSays
  <2>4. e.op \notin {"NULL", "COLUMN", "CONSTANT"} BY <2>1, OpsApart
  <2>5. Expr_Calculate(e, xs) = value BY <2>1, <2>4 DEF Expr_Calculate
  <2>6. Meaning(e, ys) = Item(Wider(x.type, y.type), meaning(Wider(x.type, y.type)), 0)
    BY <2>4 DEF Meaning
  <2>7. op \in Arithmetic BY <2>1
  <2> HIDE DEF a, b, x, y, value, op
  <2>8. /\ value \in Values /\ value.type = type
        /\ IsNumericType(a.type) /\ IsNumericType(b.type) /\ exact \in Int
        /\ value.data = IF type \in IntegerTypes THEN Wrap(exact, BitsOf(type))
                        ELSE Nearest(type, exact)
    BY <2>3, <2>5, <2>7, CalculateIs DEF value
  <2>9. /\ a.type = x.type /\ (x.data # Junk => a.data = x.data)
        /\ b.type = y.type /\ (y.data # Junk => b.data = y.data)
    BY <2>3, <2>8, NumberSays
  <2>10. Wider(x.type, y.type) = type BY <2>8, <2>9, WiderIsCommon
  <2>11. /\ type \in DataTypes /\ IsNumericType(type)
         /\ type \in IntegerTypes => a.type \in IntegerTypes /\ b.type \in IntegerTypes
    <3>1. a.type \in DataTypes /\ b.type \in DataTypes BY <2>3 DEF Values
    <3>2. type \in DataTypes BY <2>8 DEF Values
    <3> QED BY <2>8, <3>1, <3>2, JudgeFacts
  <2>12. m \in {value.data, Junk}
    <3>1. CASE Junk \in {x.data, y.data} BY <3>1
    <3>2. CASE Junk \notin {x.data, y.data}
      <4> DEFINE p == InUnit(x, type)
                 q == InUnit(y, type)
                 k == Exact(op, type, p, q)
      <4>1. InUnit(a, type) = p /\ InUnit(b, type) = q
        <5> HIDE DEF type
        <5> QED BY <2>9, <3>2 DEF InUnit, Halves
      <4>2. m = MeantByOperation(op, type, p, q) BY <3>2
      <4>3. (m = k /\ Holds(type, p) /\ Holds(type, q) /\ Holds(type, k)) \/ m = Junk
        <5> HIDE DEF m, type
        <5> QED BY <4>2 DEF MeantByOperation
      <4>4. ASSUME Holds(type, p), Holds(type, q), Holds(type, k) PROVE k = value.data
        <5> HIDE DEF p, q
        <5>1. getHeapTupleItemData(a, type) = p /\ getHeapTupleItemData(b, type) = q
          BY <2>3, <2>8, <2>11, <4>1, <4>4, NumberSame
        <5>2. exact = k BY <5>1
        <5> HIDE DEF exact, k, type
        <5>3. CASE type \in IntegerTypes
          <6>1. k \in RangeOf(BitsOf(type)) BY <4>4, <5>3, HoldsFacts
          <6>2. BitsOf(type) \in {IntBits, LongBits} BY <2>11, BitsOfFacts
          <6>3. Wrap(k, BitsOf(type)) = k BY <2>8, <5>2, <6>1, <6>2, WrapFacts
          <6> QED BY <2>8, <5>2, <5>3, <6>3
        <5>4. CASE type \notin IntegerTypes
          <6>1. type \in RealTypes BY <2>11, <5>4 DEF IsNumericType
          <6>2. Nearest(type, k) = k BY <4>4, <6>1, HoldsFacts
          <6> QED BY <2>8, <5>2, <5>4, <6>2
        <5> QED BY <5>3, <5>4
      <4> HIDE DEF m, p, q, k
      <4> QED BY <4>3, <4>4
    <3> QED BY <3>1, <3>2
  <2>13. Meaning(e, ys) = Item(type, m, 0) BY <2>6, <2>10
  <2> HIDE DEF m, type, exact
  <2>14. value.type \in DataTypes /\ value.data \in Int \cup Texts BY <2>8 DEF Values
  <2>15. Item(type, m, 0) = [type |-> type, data |-> m, cap |-> 0] BY DEF Item
  <2>16. \A none \in {Null, Junk} : none \notin Int \cup Texts BY ItemsAssumption
  <2>17. Says(value, Item(type, m, 0))
    BY <2>8, <2>12, <2>14, <2>15, <2>16 DEF Says, Stored, MeantItems
  <2> QED BY <2>5, <2>13, <2>17
<1> QED BY <1>1, <1>2 DEF Settable

\* Types that fit give a value of the column's class.
\* The types of the columns are those of the values.
TypesOf(xs) == \A c \in Columns : xs[c].type = attrs[c].type

LEMMA TypedArgs ==
  ASSUME NEW e, e.op \in Arithmetic \cup Comparisons,
         e.args[1] \in Operands, e.args[2] \in Operands, ColumnsOf(e) \subseteq Columns,
         NEW xs \in [Columns -> Values], TypesOf(xs), TypeOf(e) # "NONE"
  PROVE  LET a == Operand(e.args[1], xs)
             b == Operand(e.args[2], xs)
         IN  /\ a \in Values /\ b \in Values
             /\ \/ /\ IsNumericType(a.type) /\ IsNumericType(b.type)
                   /\ TypeOf(e) = judgeDataType(a, b)
                \/ e.op \in Comparisons /\ Class(a.type) = Class(b.type)
<1> DEFINE type(o) == IF o.op = "COLUMN" THEN attrs[o.column] ELSE o.item
           a == Operand(e.args[1], xs)
           b == Operand(e.args[2], xs)
           t == type(e.args[1]).type
           u == type(e.args[2]).type
<1>1. \A i \in 1 .. 2 : e.args[i].op = "COLUMN" => e.args[i].column \in Columns
  BY ColumnsOfArgs
<1>2. (e.args[1].op = "COLUMN" => e.args[1].column \in Columns)
      /\ (e.args[2].op = "COLUMN" => e.args[2].column \in Columns)
  <2>1. 1 \in 1 .. 2 /\ 2 \in 1 .. 2 OBVIOUS
  <2> QED BY <1>1, <2>1
<1>3. a \in Values /\ b \in Values BY <1>2, OperandIs
<1>4. t = a.type /\ u = b.type BY <1>2, OperandForms DEF Operand, TypesOf
<1>5. e.op \notin {"NULL", "COLUMN", "CONSTANT"} BY OpsApart
<1>6. TypeOf(e) = IF {t, u} \subseteq Range(Widths) THEN Wider(t, u)
                  ELSE IF e.op \in Comparisons /\ Class(t) = Class(u) THEN Class(t) ELSE "NONE"
  BY <1>5 DEF TypeOf
<1> HIDE DEF t, u, a, b
<1>7. CASE {t, u} \subseteq Range(Widths)
  <2>1. IsNumericType(a.type) /\ IsNumericType(b.type) BY <1>4, <1>7, RankFacts DEF IsNumericType
  <2> QED BY <1>3, <1>4, <1>6, <1>7, <2>1, WiderIsCommon DEF a, b
<1>8. CASE ~({t, u} \subseteq Range(Widths)) BY <1>3, <1>4, <1>6, <1>8 DEF a, b
<1> QED BY <1>7, <1>8

LEMMA ExprFits ==
  ASSUME NEW e \in Settable, ColumnsOf(e) \subseteq Columns, e.op \notin {"OP_DIV", "OP_MOD"},
         NEW type \in DataTypes, Class(TypeOf(e)) = Class(type),
         NEW xs \in [Columns -> Values], TypesOf(xs)
  PROVE  Expr_Calculate(e, xs) \in Values /\ Class(Expr_Calculate(e, xs).type) = Class(type)
<1>1. CASE e \in Operands
  <2>1. CASE e.op = "COLUMN"
    <3>1. e.column \in Columns BY <2>1 DEF ColumnsOf
    <3>2. TypeOf(e) = attrs[e.column].type BY <2>1 DEF TypeOf
    <3>3. Expr_Calculate(e, xs) = xs[e.column] BY <2>1 DEF Expr_Calculate, Operand
    <3> QED BY <3>1, <3>2, <3>3 DEF TypesOf
  <2>2. CASE e.op # "COLUMN"
    <3>1. e.op = "CONSTANT" /\ e.item \in Values BY <1>1, <2>2, OperandForms
    <3>2. TypeOf(e) = e.item.type BY <3>1 DEF TypeOf
    <3>3. Expr_Calculate(e, xs) = e.item BY <3>1 DEF Expr_Calculate, Operand
    <3> QED BY <3>1, <3>2, <3>3
  <2> QED BY <2>1, <2>2
<1>2. CASE e \in Operations(Arithmetic)
  <2>1. e.op \in Arithmetic /\ e.args[1] \in Operands /\ e.args[2] \in Operands
    BY <1>2 DEF Operations
  <2> DEFINE a == Operand(e.args[1], xs)
             b == Operand(e.args[2], xs)
             value == calculateHeapTupleItem(a, b, e.op)
  <2>2. TypeOf(e) # "NONE"
    BY DEF Class, IsCharType, DataTypes, IntegerTypes, RealTypes
  <2>3. e.op \notin {"NULL", "COLUMN", "CONSTANT"} /\ e.op \notin Comparisons BY <2>1, OpsApart
  <2>4. /\ a \in Values /\ b \in Values /\ IsNumericType(a.type) /\ IsNumericType(b.type)
        /\ TypeOf(e) = judgeDataType(a, b)
    BY <2>1, <2>2, <2>3, TypedArgs
  <2>5. Expr_Calculate(e, xs) = value BY <2>1, <2>3 DEF Expr_Calculate
  <2> HIDE DEF a, b, value
  <2>6. value \in Values BY <2>1, <2>4, CalculateIs DEF value
  <2>7. value # Dies BY <2>6, NotDies
  <2>8. value.type = judgeDataType(a, b) BY <2>1, <2>4, <2>7, CalculateIs DEF value
  <2> QED BY <2>4, <2>5, <2>6, <2>8
<1> QED BY <1>1, <1>2 DEF Settable

-----------------------------------------------------------------------------
\* Comparisons.

LEMMA CmpNumbers ==
  ASSUME NEW a \in Values, NEW b \in Values, IsNumericType(a.type), IsNumericType(b.type)
  PROVE  /\ a.data \in Int /\ b.data \in Int /\ Halves(a) \in Int /\ Halves(b) \in Int
         /\ cmpHeapTupleItem(a, b) \in Int
         /\ \/ LET type == judgeDataType(a, b)
               IN  /\ type \in RealTypes
                   /\ cmpHeapTupleItem(a, b)
                        = ToInt(Nearest(type, Nearest(type, Halves(a)) - Nearest(type, Halves(b))))
            \/ /\ a.type \in IntegerTypes /\ b.type \in IntegerTypes
               /\ cmpHeapTupleItem(a, b) = Wrap(a.data - b.data, IntBits)
<1> DEFINE type == judgeDataType(a, b)
           x == getHeapTupleItemData(a, type)
           y == getHeapTupleItemData(b, type)
<1>1. a.type \in DataTypes /\ b.type \in DataTypes BY DEF Values
<1>2. type \in DataTypes /\ IsNumericType(type)
      /\ (type \in IntegerTypes => /\ a.type \in IntegerTypes /\ b.type \in IntegerTypes
                                   /\ "LONG" \in {a.type, b.type} => type = "LONG")
  <2>1. type \in DataTypes \cup {"NONE"} /\ IsNumericType(type) BY <1>1, JudgeFacts
  <2>2. type # "NONE" BY <2>1 DEF IsNumericType, IntegerTypes, RealTypes
  <2> QED BY <1>1, <2>1, <2>2, JudgeFacts
<1>3. x \in Int /\ y \in Int BY <1>2, NumberIn
<1>4. a.data \in Int /\ b.data \in Int
  BY DEF Values, IsNumericType, IsCharType, IntegerTypes, RealTypes
<1>5. Halves(a) \in Int /\ Halves(b) \in Int BY <1>4 DEF Halves
<1>6. cmpHeapTupleItem(a, b) = IF type \in RealTypes THEN ToInt(Nearest(type, x - y)) ELSE Wrap(x - y, IntBits)
  <2>1. \/ type \in RealTypes /\ type \notin IntegerTypes
        \/ type \in IntegerTypes /\ type \notin RealTypes
    BY <1>2 DEF IsNumericType, IntegerTypes, RealTypes
  <2>2. ~IsCharType(type) /\ ~IsDateType(type)
    BY <1>2 DEF IsNumericType, IntegerTypes, RealTypes, IsCharType, IsDateType
  <2> HIDE DEF x, y, type
  <2> QED BY <2>1, <2>2 DEF cmpHeapTupleItem, x, y, type
<1>7. CASE type \in RealTypes
  <2>1. x = Nearest(type, Halves(a)) /\ y = Nearest(type, Halves(b)) BY <1>2, <1>7, NumberIn
  <2>2. x - y \in Int BY <1>3
  <2>3. ToInt(Nearest(type, x - y)) \in Int
    <3> HIDE DEF x, y, type
    <3> QED BY <2>2, NearestFacts, ToIntFacts
  <2>4. cmpHeapTupleItem(a, b) = ToInt(Nearest(type, x - y)) BY <1>6, <1>7
  <2> HIDE DEF x, y
  <2> QED BY <1>4, <1>5, <1>7, <2>1, <2>3, <2>4
<1>8. CASE type \notin RealTypes
  <2>1. type \in IntegerTypes BY <1>2, <1>8 DEF IsNumericType
  <2>2. a.type \in IntegerTypes /\ b.type \in IntegerTypes BY <1>2, <2>1
  <2>3. x = Wrap(a.data, BitsOf(type)) /\ y = Wrap(b.data, BitsOf(type))
    <3> HIDE DEF type
    <3> QED BY <1>8, <2>1, <2>2 DEF getHeapTupleItemData, IntegerTypes, RealTypes
  <2>4. a.data \in RangeOf(BitsOf(a.type)) /\ b.data \in RangeOf(BitsOf(b.type))
    BY <2>2 DEF Values
  <2>5. a.data \in RangeOf(BitsOf(type)) /\ b.data \in RangeOf(BitsOf(type))
    <3>1. CASE "LONG" \in {a.type, b.type}
      <4>1. BitsOf(type) = LongBits BY <1>2, <2>1, <3>1 DEF BitsOf
      <4> QED BY <1>1, <1>4, <2>4, <4>1, BitsOfFacts
    <3>2. CASE "LONG" \notin {a.type, b.type}
      <4>1. BitsOf(a.type) = IntBits /\ BitsOf(b.type) = IntBits
        BY <2>2, <3>2 DEF BitsOf, IntegerTypes
      <4> QED BY <1>2, <1>4, <2>4, <4>1, BitsOfFacts
    <3> QED BY <3>1, <3>2
  <2>6. BitsOf(type) \in {IntBits, LongBits} BY <1>2, BitsOfFacts
  <2>7. x = a.data /\ y = b.data BY <1>4, <2>3, <2>5, <2>6, WrapFacts
  <2>8. Wrap(x - y, IntBits) \in Int
    <3>1. x - y \in Int BY <1>3
    <3> HIDE DEF x, y
    <3> QED BY <3>1, WrapFacts, HalfFacts DEF RangeOf
  <2> HIDE DEF x, y
  <2> QED BY <1>4, <1>5, <1>6, <1>8, <2>2, <2>7, <2>8
<1> QED BY <1>7, <1>8

LEMMA CmpOthers ==
  ASSUME NEW a \in Values, NEW b \in Values
  PROVE  /\ IsCharType(a.type) /\ IsCharType(b.type) =>
              cmpHeapTupleItem(a, b) = TextRank[a.data] - TextRank[b.data]
         /\ a.type = "DATE" /\ (b.type = "DATE" \/ IsCharType(b.type)) =>
              cmpHeapTupleItem(a, b)
                = IF Dies \in {DateOf(a), DateOf(b)} THEN Dies ELSE DateOf(a) - DateOf(b)
<1> DEFINE type == judgeDataType(a, b)
<1>1. a.type \in DataTypes /\ b.type \in DataTypes BY DEF Values
<1>2. ASSUME IsCharType(a.type), IsCharType(b.type)
      PROVE  cmpHeapTupleItem(a, b) = TextRank[a.data] - TextRank[b.data]
  <2>1. IsCharType(type) BY <1>1, <1>2, JudgeFacts
  <2>2. type \notin RealTypes /\ type \notin IntegerTypes /\ ~IsDateType(type)
    BY <2>1 DEF IntegerTypes, RealTypes, IsCharType, IsDateType
  <2> HIDE DEF type, IsCharType
  <2> QED BY <2>1, <2>2 DEF cmpHeapTupleItem, type
<1>3. ASSUME a.type = "DATE", b.type = "DATE" \/ IsCharType(b.type)
      PROVE  cmpHeapTupleItem(a, b)
               = IF Dies \in {DateOf(a), DateOf(b)} THEN Dies ELSE DateOf(a) - DateOf(b)
  <2>1. type = "DATE" BY <1>1, <1>3, JudgeFacts
  <2>2. type \notin RealTypes /\ type \notin IntegerTypes /\ IsDateType(type) /\ ~IsCharType(type)
    BY <2>1 DEF IntegerTypes, RealTypes, IsCharType, IsDateType
  <2> HIDE DEF type, IsCharType
  <2> QED BY <2>1, <2>2 DEF cmpHeapTupleItem, type
<1> QED BY <1>2, <1>3

LEMMA ComparesIs ==
  ASSUME NEW a \in Values, NEW b \in Values, NEW op \in Comparisons,
         (IsNumericType(a.type) /\ IsNumericType(b.type)) \/ Class(a.type) = Class(b.type)
  PROVE  Compares(op, a, b) \in BOOLEAN
<1> DEFINE cmp == cmpHeapTupleItem(a, b)
<1>1. a.type \in DataTypes /\ b.type \in DataTypes BY DEF Values
<1>2. cmp \in Int
  <2>1. CASE IsNumericType(a.type) /\ IsNumericType(b.type) BY <2>1, CmpNumbers
  <2>2. CASE Class(a.type) = Class(b.type)
    <3>1. (IsCharType(a.type) <=> IsCharType(b.type)) /\ (~IsCharType(a.type) => a.type = b.type)
      BY <1>1, <2>2, ClassFacts
    <3>2. \/ IsCharType(a.type) /\ IsCharType(b.type)
          \/ IsNumericType(a.type) /\ IsNumericType(b.type)
          \/ a.type = "DATE" /\ b.type = "DATE"
      BY <1>1, <3>1 DEF DataTypes, IsNumericType, IsCharType
    <3>3. CASE IsCharType(a.type) /\ IsCharType(b.type)
      <4>1. cmp = TextRank[a.data] - TextRank[b.data] BY <3>3, CmpOthers
      <4>2. a.data \in Texts /\ b.data \in Texts BY <3>3 DEF Values
      <4>3. TextRank[a.data] \in Int /\ TextRank[b.data] \in Int BY <4>2, ItemsAssumption
      <4> HIDE DEF cmp
      <4> QED BY <4>1, <4>3
    <3>4. CASE a.type = "DATE" /\ b.type = "DATE"
      <4>1. cmp = IF Dies \in {DateOf(a), DateOf(b)} THEN Dies ELSE DateOf(a) - DateOf(b)
        BY <3>4, CmpOthers
      <4>2. DateOf(a) = a.data /\ DateOf(b) = b.data BY <3>4 DEF DateOf, IsDateType
      <4>3. a.data \in Int /\ b.data \in Int BY <3>4 DEF Values, IsCharType
      <4>4. Dies \notin Int BY ItemsAssumption
      <4> HIDE DEF cmp
      <4> QED BY <4>1, <4>2, <4>3, <4>4
    <3> QED BY <2>1, <3>2, <3>3, <3>4
  <2> QED BY <2>1, <2>2
<1>3. cmp # Dies BY <1>2, ItemsAssumption
<1>4. Compares(op, a, b) =
        CASE op = "OP_LESS" -> cmp < 0     [] op = "OP_LESS_EQUAL" -> cmp <= 0
          [] op = "OP_EQUAL" -> cmp = 0    [] op = "OP_NOT_EQUAL" -> cmp # 0
          [] op = "OP_GREATER" -> cmp > 0  [] op = "OP_GREATER_EQUAL" -> cmp >= 0
  BY <1>3 DEF Compares
<1> HIDE DEF cmp
<1>5. CASE op = "OP_LESS"
  <2>1. Compares(op, a, b) = (cmp < 0) BY <1>4, <1>5
  <2> QED BY <2>1
<1>6. CASE op = "OP_LESS_EQUAL"
  <2>1. Compares(op, a, b) = (cmp <= 0) BY <1>4, <1>6
  <2> QED BY <2>1
<1>7. CASE op = "OP_EQUAL"
  <2>1. Compares(op, a, b) = (cmp = 0) BY <1>4, <1>7
  <2> QED BY <2>1
<1>8. CASE op = "OP_NOT_EQUAL"
  <2>1. Compares(op, a, b) = (cmp # 0) BY <1>4, <1>8
  <2> QED BY <2>1
<1>9. CASE op = "OP_GREATER"
  <2>1. Compares(op, a, b) = (cmp > 0) BY <1>4, <1>9
  <2> QED BY <2>1
<1>10. CASE op = "OP_GREATER_EQUAL"
  <2>1. Compares(op, a, b) = (cmp >= 0) BY <1>4, <1>10
  <2> QED BY <2>1
<1> QED BY <1>5, <1>6, <1>7, <1>8, <1>9, <1>10 DEF Comparisons

LEMMA SignTruncated ==
  ASSUME NEW d \in Int, d = 0 \/ Abs(d) >= 2
  PROVE  Sign(Truncated(d)) = Sign(d)
BY DEF Sign, Truncated, Abs

LEMMA TruncatedSmall ==
  ASSUME NEW d \in Int, NEW h \in Nat \ {0}, Abs(d) <= 2 * h - 1
  PROVE  Truncated(d) \in -h .. h - 1
BY DEF Truncated, Abs

\* Numbers compare as what they are, if the type they are compared in has them.
LEMMA CmpExact ==
  ASSUME NEW a \in Values, NEW b \in Values, IsNumericType(a.type), IsNumericType(b.type),
         \/ Halves(a) - Halves(b) = 0
         \/ Abs(Halves(a) - Halves(b)) \in 2 .. 2 * Half(IntBits) - 1,
         Wider(a.type, b.type) \in RealTypes =>
           \A n \in {Halves(a), Halves(b), Halves(a) - Halves(b)} : Holds(Wider(a.type, b.type), n)
  PROVE  Sign(cmpHeapTupleItem(a, b)) = Sign(Halves(a) - Halves(b))
<1> DEFINE d == Halves(a) - Halves(b)
           h == Half(IntBits)
<1>1. h \in Nat \ {0} BY HalfFacts
<1>2. d \in Int /\ a.data \in Int /\ b.data \in Int BY CmpNumbers
<1>3. d = 0 \/ Abs(d) \in 2 .. 2 * h - 1 OBVIOUS
<1> DEFINE type == judgeDataType(a, b)
<1>4. CASE /\ type \in RealTypes
           /\ cmpHeapTupleItem(a, b)
                = ToInt(Nearest(type, Nearest(type, Halves(a)) - Nearest(type, Halves(b))))
  <2>1. Wider(a.type, b.type) = type BY WiderIsCommon
  <2>2. Holds(type, Halves(a)) /\ Holds(type, Halves(b)) /\ Holds(type, d) BY <1>4, <2>1
  <2>3. Nearest(type, Halves(a)) = Halves(a) /\ Nearest(type, Halves(b)) = Halves(b)
        /\ Nearest(type, d) = d
    <3> HIDE DEF type, d
    <3> QED BY <1>4, <2>2, HoldsFacts
  <2>4. cmpHeapTupleItem(a, b) = ToInt(d) BY <1>4, <2>3
  <2>10. RangeOf(IntBits) = -h .. h - 1 BY DEF RangeOf
  <2> HIDE DEF d, h
  <2>5. (d = 0 \/ Abs(d) >= 2) /\ Abs(d) <= 2 * h - 1 BY <1>1, <1>2, <1>3 DEF Abs
  <2>6. Truncated(d) \in RangeOf(IntBits) BY <1>1, <1>2, <2>5, <2>10, TruncatedSmall
  <2>7. ToInt(d) = Truncated(d) BY <1>2, <2>6, ToIntFacts
  <2>8. Sign(Truncated(d)) = Sign(d) BY <1>2, <2>5, SignTruncated
  <2> QED BY <2>4, <2>7, <2>8 DEF d
<1>5. CASE /\ a.type \in IntegerTypes /\ b.type \in IntegerTypes
           /\ cmpHeapTupleItem(a, b) = Wrap(a.data - b.data, IntBits)
  <2> DEFINE n == a.data - b.data
  <2>1. d = 2 * n /\ n \in Int BY <1>2, <1>5 DEF Halves
  <2>5. RangeOf(IntBits) = -h .. h - 1 BY DEF RangeOf
  <2> HIDE DEF d, h, n
  <2>2. n \in -h .. h - 1 BY <1>1, <1>3, <2>1 DEF Abs
  <2>3. Wrap(n, IntBits) = n BY <2>1, <2>2, <2>5, WrapFacts
  <2>4. Sign(n) = Sign(d) BY <2>1 DEF Sign
  <2> QED BY <1>5, <2>3, <2>4 DEF d, n
<1> QED BY <1>4, <1>5, CmpNumbers

\* Dates compare with texts as days.
LEMMA CmpDays ==
  ASSUME NEW a \in Values, NEW b \in Values, a.type = "DATE", IsCharType(b.type), Clear(b.data)
  PROVE  cmpHeapTupleItem(a, b) = a.data - DayMeant(TextDate[b.data])
<1>1. a.data \in Int /\ b.data \in Texts BY DEF Values, IsCharType
<1>2. DateOf(a) = a.data BY DEF DateOf, IsDateType
<1>3. DateOf(b) = DayMeant(TextDate[b.data])
  <2>1. ~IsDateType(b.type) BY DEF IsDateType, IsCharType
  <2>2. DateAccepted(b.data) BY DEF Clear
  <2>3. processDateString(b.data) = DayMeant(TextDate[b.data]) BY <1>1, DateFacts
  <2> QED BY <2>1, <2>2, <2>3 DEF DateOf
<1>4. DateOf(b) \in Int BY <1>1, <1>3, DateFacts
<1>5. Dies \notin Int BY ItemsAssumption
<1>6. cmpHeapTupleItem(a, b) = IF Dies \in {DateOf(a), DateOf(b)} THEN Dies ELSE DateOf(a) - DateOf(b)
  BY CmpOthers
<1> QED BY <1>1, <1>2, <1>3, <1>4, <1>5, <1>6

-----------------------------------------------------------------------------
\* Columns that are set one after the other.

LEMMA FirstOfIs ==
  ASSUME NEW S \in SUBSET Int, NEW j \in S, \A i \in S : j <= i
  PROVE  FirstOf(S) = j
<1>1. \A i \in S : (\A k \in S : i <= k) => i = j OBVIOUS
<1> QED BY <1>1 DEF FirstOf

\* col[L] is set first and col[1] last: each column is what its first mention made of it,
\* or what it was.
SetInTurn(L, C, col, I, Start, Made) ==
  /\ \A c \in C : <<c, I[0][c]>> \in Start
  /\ \A j \in 1 .. L :
       /\ col[j] \in C
       /\ \A c \in C : c # col[j] => I[L + 1 - j][c] = I[L - j][c]
       /\ <<j, I[L + 1 - j][col[j]]>> \in Made
MadeBy(L, col, made, Made, c) ==
  \E j \in 1 .. L :
    /\ col[j] = c /\ <<j, made>> \in Made
    /\ \A i \in 1 .. j - 1 : col[i] # c

LEMMA FirstMention ==
  ASSUME NEW L \in Nat, NEW C, NEW col, NEW I, NEW Start, NEW Made,
         SetInTurn(L, C, col, I, Start, Made), NEW c \in C
  PROVE  \/ (\A j \in 1 .. L : col[j] # c) /\ <<c, I[L][c]>> \in Start
         \/ MadeBy(L, col, I[L][c], Made, c)
<1>0. /\ \A d \in C : <<d, I[0][d]>> \in Start
      /\ \A j \in 1 .. L :
           /\ col[j] \in C
           /\ \A d \in C : d # col[j] => I[L + 1 - j][d] = I[L - j][d]
           /\ <<j, I[L + 1 - j][col[j]]>> \in Made
  BY DEF SetInTurn
<1> DEFINE P(k) == \/ (\A j \in L + 1 - k .. L : col[j] # c) /\ <<c, I[k][c]>> \in Start
                   \/ \E j \in L + 1 - k .. L : /\ col[j] = c /\ \A i \in L + 1 - k .. j - 1 : col[i] # c
                                                /\ <<j, I[k][c]>> \in Made
           T == {k \in Nat : k \in 0 .. L => P(k)}
<1>1. 0 \in T BY <1>0
<1>2. ASSUME NEW k \in 0 .. L - 1, k \in T PROVE k + 1 \in T
  <2> DEFINE m == k + 1
             n == L - k
  <2>1. /\ m \in Nat /\ n \in 1 .. L /\ L + 1 - m = n /\ L + 1 - k = n + 1 /\ L + 1 - n = m /\ L - n = k
        /\ n \in n .. L
    OBVIOUS
  <2>2. P(k) BY <1>2
  <2> HIDE DEF m, n
  <2>3. \/ (\A j \in n + 1 .. L : col[j] # c) /\ <<c, I[k][c]>> \in Start
        \/ \E j \in n + 1 .. L : /\ col[j] = c /\ \A i \in n + 1 .. j - 1 : col[i] # c
                                 /\ <<j, I[k][c]>> \in Made
    BY <2>1, <2>2
  <2>4. /\ c # col[n] => I[m][c] = I[k][c]
        /\ <<n, I[m][col[n]]>> \in Made
    <3>1. n \in 1 .. L BY <2>1
    <3>2. /\ c # col[n] => I[L + 1 - n][c] = I[L - n][c]
          /\ <<n, I[L + 1 - n][col[n]]>> \in Made
      BY <1>0, <3>1
    <3> QED BY <2>1, <3>2
  <2>5. \/ (\A j \in n .. L : col[j] # c) /\ <<c, I[m][c]>> \in Start
        \/ \E j \in n .. L : /\ col[j] = c /\ \A i \in n .. j - 1 : col[i] # c
                             /\ <<j, I[m][c]>> \in Made
    <3>1. CASE col[n] = c
      <4>1. \A i \in n .. n - 1 : col[i] # c BY <2>1
      <4> QED BY <2>1, <2>4, <3>1, <4>1
    <3>2. CASE col[n] # c /\ (\A j \in n + 1 .. L : col[j] # c) /\ <<c, I[k][c]>> \in Start
      <4>1. \A j \in n .. L : j = n \/ j \in n + 1 .. L BY <2>1
      <4> QED BY <2>4, <3>2, <4>1
    <3>3. CASE col[n] # c /\ \E j \in n + 1 .. L : /\ col[j] = c /\ \A i \in n + 1 .. j - 1 : col[i] # c
                                                   /\ <<j, I[k][c]>> \in Made
      <4>1. PICK j \in n + 1 .. L : /\ col[j] = c /\ \A i \in n + 1 .. j - 1 : col[i] # c
                                    /\ <<j, I[k][c]>> \in Made
        BY <3>3
      <4>2. j \in n .. L /\ \A i \in n .. j - 1 : i = n \/ i \in n + 1 .. j - 1 BY <2>1
      <4>3. \A i \in n .. j - 1 : col[i] # c BY <3>3, <4>1, <4>2
      <4> QED BY <2>4, <3>3, <4>1, <4>2, <4>3
    <3> QED BY <2>3, <3>1, <3>2, <3>3
  <2>6. P(m) BY <2>1, <2>5
  <2> HIDE DEF P
  <2>7. m \in T BY <2>1, <2>6
  <2> QED BY <2>7 DEF m
<1>3. 0 .. L \subseteq T
  <2> HIDE DEF T
  <2> QED BY <1>1, <1>2, UpTo
<1>4. P(L)
  <2>1. L \in 0 .. L /\ L \in T BY <1>3
  <2> HIDE DEF P
  <2> QED BY <2>1
<1>5. L + 1 - L = 1 OBVIOUS
<1> QED BY <1>4, <1>5 DEF MadeBy

LEMMA TableIs ==
  ASSUME attrs \in Seq(Attributes)
  PROVE  /\ Columns = 1 .. Len(attrs) /\ Len(attrs) \in Nat
         /\ \A c \in Columns : attrs[c] \in Attributes
BY LenProperties, ElementOfSeq DEF Columns

LEMMA ItemsAreSeq ==
  ASSUME attrs \in Seq(Attributes), NEW S, NEW items \in [Columns -> S]
  PROVE  items \in Seq(S) /\ Len(items) = Len(attrs) /\ DOMAIN items = Columns
<1> DEFINE L == Len(attrs)
<1>1. L \in Nat /\ items \in [1 .. L -> S] BY TableIs
<1> HIDE DEF L
<1>2. items \in Seq(S) /\ Len(items) = L BY <1>1
<1>3. DOMAIN items = Columns OBVIOUS
<1> QED BY <1>2, <1>3 DEF L

LEMMA NewTupleIs ==
  ASSUME attrs \in Seq(Attributes)
  PROVE  /\ NewTuple(attrs) \in [Columns -> GoodItems]
         /\ \A c \in Columns : NewTuple(attrs)[c] = initHeapTupleItembyAttrData(attrs[c])
<1>1. \A c \in Columns : initHeapTupleItembyAttrData(attrs[c]) \in GoodItems BY TableIs, NewItem
<1>2. NewTuple(attrs) = [c \in Columns |-> initHeapTupleItembyAttrData(attrs[c])]
  BY DEF NewTuple, Columns
<1> QED BY <1>1, <1>2

-----------------------------------------------------------------------------
\* INSERT.

Room(item, attr) == IsCharType(item.type) /\ IsCharType(attr.type) => item.cap <= attr.len
TableItems ==
  {items \in [Columns -> GoodItems] :
     \A c \in Columns : items[c].type = attrs[c].type}

NamedBy(ins) == IF ins.attrs = <<>> THEN [c \in Columns |-> c] ELSE ins.attrs

LEMMA PairsAre ==
  ASSUME attrs \in Seq(Attributes), NEW ins \in Inserts, InsertMatches(ins)
  PROVE  /\ Len(ins.values) \in Nat /\ Len(InsertPairs(ins)) = Len(ins.values)
         /\ DOMAIN InsertPairs(ins) = 1 .. Len(ins.values) /\ DOMAIN ins.values = 1 .. Len(ins.values)
         /\ DOMAIN NamedBy(ins) = 1 .. Len(ins.values)
         /\ \A j \in 1 .. Len(ins.values) :
              /\ InsertPairs(ins)[Len(ins.values) + 1 - j] = <<NamedBy(ins)[j], ins.values[j]>>
              /\ NamedBy(ins)[j] \in Columns /\ ins.values[j] \in Texts
<1> DEFINE named == NamedBy(ins)
           L == Len(ins.values)
           as == ins.attrs
           vs == ins.values
           values == Reverse(vs)
           columns == IF as = <<>> THEN [k \in DOMAIN values |-> SetFromLast(attrs, values, k)]
                      ELSE Reverse(as)
           N == Len(attrs)
<1>1. as \in Seq(Nat) /\ vs \in Seq(Texts) BY RowsAssumption
<1>2. Columns = 1 .. N /\ N \in Nat BY TableIs
<1>3. L \in Nat /\ L = Len(vs) /\ DOMAIN vs = 1 .. L /\ \A j \in 1 .. L : vs[j] \in Texts
  BY <1>1, LenProperties, ElementOfSeq
<1>4. Len(as) \in Nat /\ DOMAIN as = 1 .. Len(as) BY <1>1, LenProperties
<1>5. /\ as = <<>> => L = N
      /\ as # <<>> => L = Len(as) /\ \A j \in 1 .. L : as[j] \in Columns
  BY <1>4 DEF InsertMatches
<1>6. InsertPairs(ins) = [k \in DOMAIN values |-> <<columns[k], values[k]>>] BY DEF InsertPairs
<1>7. named = IF as = <<>> THEN [c \in Columns |-> c] ELSE as BY DEF NamedBy
<1>8. values = [i \in 1 .. L |-> vs[(L - i) + 1]] BY <1>3 DEF Reverse
<1>9. as # <<>> => Reverse(as) = [i \in 1 .. L |-> as[(L - i) + 1]] BY <1>5 DEF Reverse
<1> HIDE DEF named, L, as, vs, N, values
<1>10. DOMAIN values = 1 .. L BY <1>8
<1>11. as = <<>> => columns = [k \in 1 .. L |-> L + 1 - k]
  BY <1>2, <1>5, <1>10 DEF SetFromLast, N
<1> DEFINE pairs == [k \in 1 .. L |-> <<columns[k], values[k]>>]
<1>12. InsertPairs(ins) = pairs BY <1>6, <1>10
<1>17. as # <<>> => columns = Reverse(as) OBVIOUS
<1> HIDE DEF columns
<1>13. DOMAIN pairs = 1 .. L /\ Len(pairs) = L BY <1>3
<1>14. DOMAIN named = 1 .. L BY <1>2, <1>4, <1>5, <1>7
<1>15. ASSUME NEW j \in 1 .. L
       PROVE  pairs[L + 1 - j] = <<named[j], vs[j]>> /\ named[j] \in Columns
  <2> DEFINE k == L + 1 - j
  <2>1. k \in 1 .. L /\ (L - k) + 1 = j /\ L + 1 - k = j BY <1>3
  <2> HIDE DEF k
  <2>2. values[k] = vs[j] BY <1>8, <2>1
  <2>3. CASE as = <<>>
    <3>1. named[j] = j /\ j \in Columns BY <1>2, <1>5, <1>7, <2>3
    <3>2. columns[k] = j BY <1>11, <2>1, <2>3
    <3> QED BY <2>1, <2>2, <3>1, <3>2 DEF k
  <2>4. CASE as # <<>>
    <3>1. named[j] = as[j] /\ as[j] \in Columns BY <1>5, <1>7, <2>4
    <3>2. columns[k] = as[j] BY <1>9, <1>17, <2>1, <2>4
    <3> QED BY <2>1, <2>2, <3>1, <3>2 DEF k
  <2> QED BY <2>3, <2>4
<1> HIDE DEF pairs
<1> QED BY <1>3, <1>12, <1>13, <1>14, <1>15 DEF L, vs, named

LEMMA ItemsSetIs ==
  ASSUME attrs \in Seq(Attributes), NEW pairs, Len(pairs) \in Nat,
         \A k \in 1 .. Len(pairs) : pairs[k][1] \in Columns /\ pairs[k][2] \in Texts
  PROVE  /\ ItemsSet(pairs)[0] = NewTuple(attrs)
         /\ \A k \in 1 .. Len(pairs) :
              ItemsSet(pairs)[k] =
                [ItemsSet(pairs)[k - 1] EXCEPT ![pairs[k][1]] =
                   setHeapTupleItemByStr(@, attrs[pairs[k][1]].type, pairs[k][2])]
         /\ \A k \in 0 .. Len(pairs) : ItemsSet(pairs)[k] \in TableItems
<1> DEFINE L == Len(pairs)
           set(items, k) ==
             [items EXCEPT ![pairs[k][1]] =
                setHeapTupleItemByStr(@, attrs[pairs[k][1]].type, pairs[k][2])]
           Sets(f) == f = [k \in 0 .. L |-> IF k = 0 THEN NewTuple(attrs) ELSE set(f[k - 1], k)]
           s == [p \in TableItems \X Nat |-> IF p[2] \in 1 .. L THEN set(p[1], p[2]) ELSE p[1]]
<1>1. L \in Nat OBVIOUS
<1>2. ASSUME NEW k \in 1 .. L, NEW items \in TableItems PROVE set(items, k) \in TableItems
  <2> DEFINE c == pairs[k][1]
             text == pairs[k][2]
             attr == attrs[c]
             old == items[c]
             new == setHeapTupleItemByStr(old, attr.type, text)
  <2>1. /\ c \in Columns /\ text \in Texts
        /\ items \in [Columns -> GoodItems]
        /\ \A b \in Columns : items[b].type = attrs[b].type
    BY DEF TableItems
  <2>2. attr \in Attributes /\ old \in GoodItems /\ old.type = attr.type
    BY <2>1, TableIs
  <2>3. set(items, k) = [items EXCEPT ![c] = new] OBVIOUS
  <2> HIDE DEF c, text, attr, old, set
  <2>4. new \in GoodItems /\ new.type = attr.type BY <2>1, <2>2, SetByText
  <2> HIDE DEF new
  <2>6. [items EXCEPT ![c] = new] \in [Columns -> GoodItems] BY <2>1, <2>4
  <2>7. \A b \in Columns : [items EXCEPT ![c] = new][b] = IF b = c THEN new ELSE items[b]
    BY <2>1
  <2>8. \A b \in Columns : [items EXCEPT ![c] = new][b].type = attrs[b].type
    BY <2>1, <2>4, <2>7 DEF attr
  <2> QED BY <2>3, <2>6, <2>8 DEF TableItems
<1>3. ItemsSet(pairs) = CHOOSE f : Sets(f) BY DEF ItemsSet
<1> HIDE DEF set
<1>4. s \in [TableItems \X Nat -> TableItems]
  <2>1. ASSUME NEW p \in TableItems \X Nat
        PROVE  (IF p[2] \in 1 .. L THEN set(p[1], p[2]) ELSE p[1]) \in TableItems
    <3>1. p[1] \in TableItems OBVIOUS
    <3> QED BY <1>2, <3>1
  <2> QED BY <2>1
<1>5. NewTuple(attrs) \in TableItems
  <2>1. \A c \in Columns : NewTuple(attrs)[c].type = attrs[c].type
    <3>1. TAKE c \in Columns
    <3>2. attrs[c] \in Attributes /\ NewTuple(attrs)[c] = initHeapTupleItembyAttrData(attrs[c])
      BY TableIs, NewTupleIs
    <3> QED BY <3>2, NewItem
  <2> QED BY <2>1, NewTupleIs DEF TableItems
<1>6. PICK g \in [0 .. L -> TableItems] : Iterated(g, L, NewTuple(attrs), s)
  <2> HIDE DEF s, L
  <2> QED BY <1>1, <1>4, <1>5, IteratedExists
<1>7. g[0] = NewTuple(attrs)
  <2> HIDE DEF s
  <2> QED BY <1>1, <1>6 DEF Iterated
<1>8. ASSUME NEW k \in 1 .. L PROVE g[k] = set(g[k - 1], k)
  <2>1. k - 1 \in 0 .. L /\ k \in 0 .. L /\ k # 0 BY <1>1
  <2>2. g[k] = s[<<g[k - 1], k>>]
    <3> HIDE DEF s
    <3> QED BY <1>6, <2>1 DEF Iterated
  <2>3. <<g[k - 1], k>> \in TableItems \X Nat BY <2>1
  <2> QED BY <2>2, <2>3
<1> HIDE DEF s
<1>9. Sets(g)
  <2>1. ASSUME NEW k \in 0 .. L
        PROVE  g[k] = IF k = 0 THEN NewTuple(attrs) ELSE set(g[k - 1], k)
    <3>1. CASE k = 0 BY <1>7, <3>1
    <3>2. CASE k # 0
      <4>1. k \in 1 .. L BY <1>1, <3>2
      <4> QED BY <1>8, <3>2, <4>1
    <3> QED BY <3>1, <3>2
  <2> QED BY <2>1
<1>10. Sets(ItemsSet(pairs))
  <2> HIDE DEF Sets
  <2> QED BY <1>3, <1>9
<1> DEFINE I == ItemsSet(pairs)
<1> HIDE DEF I
<1>11. I[0] = NewTuple(attrs) /\ \A k \in 1 .. L : I[k] = set(I[k - 1], k)
  <2>1. Sets(I) BY <1>10 DEF I
  <2>2. \A k \in 0 .. L : I[k] = IF k = 0 THEN NewTuple(attrs) ELSE set(I[k - 1], k) BY <2>1
  <2>3. 0 \in 0 .. L /\ \A k \in 1 .. L : k \in 0 .. L /\ k # 0 BY <1>1
  <2> HIDE DEF L, Sets
  <2> QED BY <2>2, <2>3
<1>12. \A k \in 0 .. L : I[k] \in TableItems
  <2>1. \A k \in 1 .. L : I[k - 1] \in TableItems => I[k] \in TableItems BY <1>2, <1>11
  <2> HIDE DEF L
  <2> QED BY <1>1, <1>5, <1>11, <2>1, StaysIn
<1> QED BY <1>11, <1>12 DEF I, set

LEMMA LeftOutSays ==
  ASSUME NEW attr \in Attributes, attr.type # "CHAR"
  PROVE  Says(initHeapTupleItembyAttrData(attr), LeftOut(attr))
<1>1. attr.type \in DataTypes /\ attr.len \in Nat BY DEF Attributes
<1>2. Empty \in Texts /\ Junk \notin Int /\ Junk \notin Texts /\ Null \notin Int BY ItemsAssumption
<1>3. CASE attr.type = "VARCHAR"
  <2>1. initHeapTupleItembyAttrData(attr) = [type |-> "VARCHAR", data |-> Null, cap |-> attr.len]
    BY <1>3 DEF initHeapTupleItembyAttrData, Item, IsCharType
  <2>2. LeftOut(attr) = [type |-> "VARCHAR", data |-> Empty, cap |-> attr.len]
    BY <1>3 DEF LeftOut, Item
  <2> QED BY <1>1, <1>2, <1>3, <2>1, <2>2 DEF Says, Stored, MeantItems
<1>4. CASE attr.type # "VARCHAR"
  <2>1. initHeapTupleItembyAttrData(attr) = [type |-> attr.type, data |-> 0, cap |-> 0]
    BY <1>4 DEF initHeapTupleItembyAttrData, Item, IsCharType
  <2>2. LeftOut(attr) = [type |-> attr.type, data |-> 0, cap |-> 0]
    BY <1>4, <2>1 DEF LeftOut
  <2> QED BY <1>1, <1>2, <2>1, <2>2 DEF Says, Stored, MeantItems
<1> QED BY <1>3, <1>4

\* An INSERT writes what it says.
LEMMA InsertSays ==
  ASSUME attrs \in Seq(Attributes), NEW ins \in Inserts, InsertMatches(ins),
         Writable(InsertItems(ins))
  PROVE  /\ InsertItems(ins) \in TableItems
         /\ \A c \in Columns : Says(InsertItems(ins)[c], MeantByInsert(ins)[c])
<1> DEFINE pairs == InsertPairs(ins)
           vs == ins.values
           L == Len(vs)
           named == NamedBy(ins)
           I == ItemsSet(pairs)
           init(c) == initHeapTupleItembyAttrData(attrs[c])
           meant(j) == MeantByText(vs[j], attrs[named[j]])
           Start == {p \in Columns \X GoodItems : p[2] = init(p[1])}
           Made == {p \in (1 .. L) \X GoodItems : Says(p[2], meant(p[1]))}
<1>1. /\ L \in Nat /\ Len(pairs) = L /\ DOMAIN pairs = 1 .. L /\ DOMAIN vs = 1 .. L
      /\ DOMAIN named = 1 .. L
      /\ \A j \in 1 .. L : /\ pairs[L + 1 - j] = <<named[j], vs[j]>>
                           /\ named[j] \in Columns /\ vs[j] \in Texts
  BY PairsAre
<1>2. InsertItems(ins) = I[L] BY DEF InsertItems
<1>20. MeantByInsert(ins) =
         [c \in Columns |->
            IF {i \in DOMAIN named : named[i] = c} = {} THEN LeftOut(attrs[c])
            ELSE MeantByText(vs[FirstOf({i \in DOMAIN named : named[i] = c})], attrs[c])]
  BY DEF MeantByInsert, NamedBy
<1>21. Writable(I[L]) BY <1>2
<1> HIDE DEF pairs, vs, L, named
<1>4. \A k \in 1 .. L : pairs[k][1] \in Columns /\ pairs[k][2] \in Texts
  <2>1. TAKE k \in 1 .. L
  <2> DEFINE j == L + 1 - k
  <2>2. j \in 1 .. L /\ L + 1 - j = k BY <1>1
  <2> HIDE DEF j
  <2>3. pairs[k] = <<named[j], vs[j]>> /\ named[j] \in Columns /\ vs[j] \in Texts BY <1>1, <2>2
  <2> QED BY <2>3
<1>5. /\ I[0] = NewTuple(attrs)
      /\ \A k \in 1 .. L :
           I[k] = [I[k - 1] EXCEPT ![pairs[k][1]] =
                     setHeapTupleItemByStr(@, attrs[pairs[k][1]].type, pairs[k][2])]
      /\ \A k \in 0 .. L : I[k] \in TableItems
  BY <1>1, <1>4, ItemsSetIs
<1> HIDE DEF I
<1>6. \A c \in Columns : <<c, I[0][c]>> \in Start
  BY <1>5, NewTupleIs
<1>7. ASSUME NEW j \in 1 .. L
      PROVE  /\ \A c \in Columns : c # named[j] => I[L + 1 - j][c] = I[L - j][c]
             /\ <<j, I[L + 1 - j][named[j]]>> \in Made
  <2> DEFINE k == L + 1 - j
             m == L - j
             n == named[j]
             attr == attrs[n]
             text == vs[j]
             old == I[m][n]
             new == setHeapTupleItemByStr(old, attr.type, text)
  <2>1. k \in 1 .. L /\ k - 1 = m /\ m \in 0 .. L BY <1>1
  <2>2. pairs[k] = <<n, text>> /\ n \in Columns /\ text \in Texts BY <1>1
  <2> HIDE DEF k, m, n, text
  <2>3. I[k] = [I[m] EXCEPT ![n] = new]
    <3>1. pairs[k][1] = n /\ pairs[k][2] = text BY <2>2
    <3> QED BY <1>5, <2>1, <3>1
  <2>4. I[m] \in [Columns -> GoodItems] /\ I[m][n].type = attrs[n].type
    BY <1>5, <2>1, <2>2 DEF TableItems
  <2>5. \A c \in Columns : I[k][c] = IF c = n THEN new ELSE I[m][c]
    <3> HIDE DEF new
    <3> QED BY <2>2, <2>3, <2>4
  <2>6. attr \in Attributes /\ old \in GoodItems /\ old.type = attr.type BY <2>2, <2>4, TableIs
  <2> HIDE DEF attr, old
  <2>7. new \in GoodItems /\ Says(new, MeantByText(text, attr)) BY <2>2, <2>6, SetByText
  <2> HIDE DEF new
  <2>8. <<j, new>> \in Made BY <2>7 DEF attr, text, n
  <2>9. I[k][n] = new BY <2>2, <2>5
  <2> QED BY <2>2, <2>5, <2>8, <2>9 DEF k, m, n
<1>8. ASSUME NEW c \in Columns
      PROVE  \/ (\A j \in 1 .. L : named[j] # c) /\ <<c, I[L][c]>> \in Start
             \/ MadeBy(L, named, I[L][c], Made, c)
  <2> HIDE DEF Start, Made
  <2>1. L \in Nat /\ \A j \in 1 .. L : named[j] \in Columns BY <1>1
  <2>2. \A j \in 1 .. L :
          /\ \A d \in Columns : d # named[j] => I[L + 1 - j][d] = I[L - j][d]
          /\ <<j, I[L + 1 - j][named[j]]>> \in Made
    BY <1>7
  <2>3. SetInTurn(L, Columns, named, I, Start, Made) BY <1>6, <2>1, <2>2, Zenon DEF SetInTurn
  <2> QED BY <2>1, <2>3, FirstMention
<1>9. L \in 0 .. L BY <1>1
<1>10. I[L] \in TableItems BY <1>5, <1>9
<1>11. ASSUME NEW c \in Columns PROVE Says(I[L][c], MeantByInsert(ins)[c])
  <2> DEFINE places == {i \in DOMAIN named : named[i] = c}
  <2>1. MeantByInsert(ins)[c] = IF places = {} THEN LeftOut(attrs[c])
                                ELSE MeantByText(vs[FirstOf(places)], attrs[c])
    BY <1>20
  <2>2. CASE (\A j \in 1 .. L : named[j] # c) /\ <<c, I[L][c]>> \in Start
    <3>1. places = {} BY <1>1, <2>2
    <3>2. I[L][c] = init(c) BY <2>2
    <3>3. attrs[c] \in Attributes BY TableIs
    <3>4. attrs[c].type # "CHAR"
      <4>1. c \in DOMAIN I[L] BY <1>10 DEF TableItems
      <4>2. I[L][c].type = "CHAR" => I[L][c].data # Null BY <1>21, <4>1 DEF Writable
      <4> QED BY <3>2, <3>3, <4>2, NewItem DEF IsCharType
    <3> HIDE DEF places, Start, Made
    <3> QED BY <2>1, <3>1, <3>2, <3>3, <3>4, LeftOutSays
  <2>3. CASE MadeBy(L, named, I[L][c], Made, c)
    <3>1. PICK j \in 1 .. L : /\ named[j] = c /\ \A i \in 1 .. j - 1 : named[i] # c
                              /\ <<j, I[L][c]>> \in Made
      BY <2>3 DEF MadeBy
    <3>2. j \in places /\ places \in SUBSET Int /\ \A i \in places : j <= i
      <4>1. j \in places /\ places \in SUBSET (1 .. L) BY <1>1, <3>1
      <4>2. ASSUME NEW i \in places PROVE j <= i
        <5>1. i \in 1 .. L /\ named[i] = c BY <1>1
        <5>2. i \notin 1 .. j - 1 BY <3>1, <5>1
        <5> QED BY <1>1, <5>1, <5>2
      <4> QED BY <1>1, <4>1, <4>2
    <3> HIDE DEF places
    <3>3. FirstOf(places) = j BY <3>2, FirstOfIs
    <3>4. Says(I[L][c], meant(j)) BY <3>1
    <3> QED BY <2>1, <3>1, <3>2, <3>3, <3>4
  <2> QED BY <1>8, <2>2, <2>3
<1> QED BY <1>2, <1>10, <1>11

-----------------------------------------------------------------------------
\* UPDATE.

Results == GoodItems \cup {Dies}

LEMMA SetsAre ==
  ASSUME NEW u \in Updates, Applicable(u)
  PROVE  /\ Len(u.sets) \in Nat /\ DOMAIN u.sets = 1 .. Len(u.sets)
         /\ \A j \in 1 .. Len(u.sets) :
              /\ u.sets[j].col \in Columns /\ u.sets[j].expr \in Settable
              /\ ColumnsOf(u.sets[j].expr) \subseteq Columns
         /\ ColumnsOf(u.where) \subseteq Columns
<1> DEFINE sets == u.sets
           S == [col : Nat, expr : Settable]
<1>1. sets \in Seq(S) BY RowsAssumption DEF Settable
<1> HIDE DEF S
<1>2. Len(sets) \in Nat /\ DOMAIN sets = 1 .. Len(sets) /\ \A j \in 1 .. Len(sets) : sets[j] \in S
  BY <1>1, LenProperties, ElementOfSeq
<1>3. \A j \in 1 .. Len(sets) : sets[j].expr \in Settable BY <1>2 DEF S
<1>4. /\ ColumnsOf(u.where) \subseteq Columns
      /\ \A j \in 1 .. Len(sets) : ({sets[j].col} \cup ColumnsOf(sets[j].expr)) \subseteq Columns
  BY <1>2 DEF Applicable
<1> QED BY <1>2, <1>3, <1>4

\* The row's items in the new row's memory.
LEMMA CopiedIs ==
  ASSUME NEW C, NEW new \in [C -> GoodItems], NEW old \in [C -> Values]
  PROVE  /\ Copied(new, old) \in [C -> Results]
         /\ \A c \in C :
              /\ Copied(new, old)[c] # Dies =>
                   /\ Copied(new, old)[c] \in GoodItems /\ Copied(new, old)[c].data # Null
                   /\ Copied(new, old)[c].type = old[c].type
                   /\ Copied(new, old)[c].data = old[c].data
              /\ Class(new[c].type) = Class(old[c].type) => Copied(new, old)[c] # Dies
<1> DEFINE item(c) == copyHeapTupleItem(vDestroyHeapTupleItem(new[c]), old[c])
<1>1. Copied(new, old) = [c \in C |-> item(c)] BY DEF Copied
<1>2. ASSUME NEW c \in C
      PROVE  /\ item(c) \in Results
             /\ item(c) # Dies => /\ item(c) \in GoodItems /\ item(c).data # Null
                                  /\ item(c).type = old[c].type /\ item(c).data = old[c].data
             /\ Class(new[c].type) = Class(old[c].type) => item(c) # Dies
  <2> DEFINE des == vDestroyHeapTupleItem(new[c])
             src == old[c]
             i == item(c)
  <2>1. src \in Values /\ new[c] \in GoodItems OBVIOUS
  <2>2. des \in GoodItems /\ des.type = new[c].type BY <2>1, ClearedIs
  <2>3. i = copyHeapTupleItem(des, src) OBVIOUS
  <2> HIDE DEF des, src, i
  <2>4. /\ \/ i = Dies
           \/ /\ i \in GoodItems /\ i.type = src.type /\ i.data = src.data /\ i.data # Null
        /\ (IsCharType(src.type) => IsCharType(des.type)) => i \in GoodItems
    BY <2>1, <2>2, <2>3, CopyIs
  <2>5. ASSUME Class(new[c].type) = Class(src.type) PROVE i # Dies
    <3>1. src.type \in DataTypes /\ new[c].type \in DataTypes
      BY <2>1 DEF Values, GoodItems, ItemSet
    <3>2. IsCharType(src.type) => IsCharType(des.type) BY <2>2, <2>5, <3>1, ClassFacts
    <3> QED BY <2>4, <3>2, NotDies
  <2> QED BY <2>4, <2>5 DEF Results, i, src
<1> HIDE DEF item
<1> QED BY <1>1, <1>2

LEMMA SetColumnIs ==
  ASSUME NEW C, NEW items \in [C -> Results], NEW old \in [C -> Values],
         NEW set, set.col \in C, set.expr \in Settable, ColumnsOf(set.expr) \subseteq C
  PROVE  LET value == Expr_Calculate(set.expr, old)
             after == SetColumn(items, old, set)
         IN  /\ after \in [C -> Results]
             /\ ~Broken(after) =>
                  /\ ~Broken(items) /\ value \in Values
                  /\ \A c \in C : c # set.col => after[c] = items[c]
                  /\ after[set.col] = copyHeapTupleItem(items[set.col], value)
                  /\ after[set.col].type = value.type /\ after[set.col].data = value.data
                  /\ after[set.col].data # Null
             /\ ~Broken(items) /\ value \in Values /\ Class(items[set.col].type) = Class(value.type) =>
                  /\ ~Broken(after)
<1> DEFINE value == Expr_Calculate(set.expr, old)
           after == SetColumn(items, old, set)
           col == set.col
           copy == copyHeapTupleItem(items[col], value)
           broken == [items EXCEPT ![col] = Dies]
           copied == [items EXCEPT ![col] = copy]
<1>1. value \in Values \cup {Dies} BY ExprIs
<1>2. after = IF Broken(items) \/ value = Dies THEN broken ELSE copied
  <2>1. Broken(items) <=> Dies \in {items[c] : c \in DOMAIN items} BY DEF Broken
  <2>2. after = IF Dies \in {items[c] : c \in DOMAIN items} \/ value = Dies THEN broken ELSE copied
    BY DEF SetColumn, ExprRow
  <2> HIDE DEF after, broken, copied, value
  <2> QED BY <2>1, <2>2
<1>3. col \in C OBVIOUS
<1> HIDE DEF value, after, col, copy
<1>4. broken \in [C -> Results] /\ broken[col] = Dies BY <1>3 DEF Results
<1>5. Broken(broken) BY <1>3, <1>4 DEF Broken
<1>6. ASSUME ~Broken(items) PROVE \A c \in C : items[c] \in GoodItems
  BY <1>6 DEF Broken, Results
<1>7. ASSUME ~Broken(items), value # Dies
      PROVE  /\ copy \in Results /\ copied \in [C -> Results] /\ copied[col] = copy
             /\ copy # Dies => copy.type = value.type /\ copy.data = value.data /\ copy.data # Null
             /\ Class(items[col].type) = Class(value.type) => copy # Dies
  <2>1. items[col] \in GoodItems /\ value \in Values BY <1>1, <1>3, <1>6, <1>7
  <2> DEFINE des == items[col]
  <2>2. copy = copyHeapTupleItem(des, value) BY DEF copy
  <2> HIDE DEF des
  <2>3. /\ \/ copy = Dies
           \/ /\ copy \in GoodItems /\ copy.type = value.type /\ copy.data = value.data
              /\ copy.data # Null
        /\ (IsCharType(value.type) => IsCharType(des.type)) => copy \in GoodItems
    BY <2>1, <2>2, CopyIs DEF des
  <2>4. ASSUME Class(des.type) = Class(value.type) PROVE copy # Dies
    <3>1. value.type \in DataTypes /\ des.type \in DataTypes
      BY <2>1 DEF Values, GoodItems, ItemSet, des
    <3>2. IsCharType(value.type) => IsCharType(des.type) BY <2>4, <3>1, ClassFacts
    <3> QED BY <2>3, <3>2, NotDies
  <2>5. copy \in Results BY <2>3 DEF Results
  <2>6. copied \in [C -> Results] /\ copied[col] = copy BY <1>3, <2>5
  <2> HIDE DEF copied
  <2> QED BY <2>3, <2>4, <2>5, <2>6 DEF des
<1>8. \A c \in C : c # col => copied[c] = items[c] OBVIOUS
<1>9. DOMAIN copied = C OBVIOUS
<1> HIDE DEF broken, copied
<1>10. after \in [C -> Results] BY <1>2, <1>4, <1>7
<1>11. ASSUME ~Broken(after)
       PROVE  /\ ~Broken(items) /\ value \in Values
              /\ \A c \in C : c # col => after[c] = items[c]
              /\ after[col] = copy /\ after[col].type = value.type /\ after[col].data = value.data
              /\ after[col].data # Null
  <2>1. after = copied /\ ~Broken(items) /\ value # Dies BY <1>2, <1>5, <1>11
  <2>2. copied[col] = copy /\ copy # Dies BY <1>3, <1>7, <1>9, <1>11, <2>1 DEF Broken
  <2> QED BY <1>1, <1>7, <1>8, <2>1, <2>2
<1>12. ASSUME ~Broken(items), value \in Values, Class(items[col].type) = Class(value.type)
       PROVE  ~Broken(after)
  <2>1. value # Dies BY <1>12, NotDies
  <2>2. after = copied BY <1>2, <1>12, <2>1
  <2>3. copy # Dies /\ copied[col] = copy BY <1>7, <1>12, <2>1
  <2>4. \A c \in C : copied[c] # Dies
    BY <1>8, <1>12, <2>3 DEF Broken
  <2> QED BY <1>9, <2>2, <2>4 DEF Broken
<1> QED BY <1>10, <1>11, <1>12 DEF value, after, col, copy

LEMMA ItemsChangedIs ==
  ASSUME NEW u \in Updates, Applicable(u),
         NEW new \in [Columns -> GoodItems], NEW old \in [Columns -> Values]
  PROVE  /\ ItemsChanged(u, new, old)[0] = Copied(new, old)
         /\ \A k \in 1 .. Len(u.sets) :
              ItemsChanged(u, new, old)[k]
                = SetColumn(ItemsChanged(u, new, old)[k - 1], old, u.sets[Len(u.sets) + 1 - k])
         /\ \A k \in 0 .. Len(u.sets) : ItemsChanged(u, new, old)[k] \in [Columns -> Results]
<1> DEFINE L == Len(u.sets)
           S == [Columns -> Results]
           set(items, k) == SetColumn(items, old, u.sets[L + 1 - k])
           Sets(f) == f = [k \in 0 .. L |-> IF k = 0 THEN Copied(new, old) ELSE set(f[k - 1], k)]
           s == [p \in S \X Nat |-> IF p[2] \in 1 .. L THEN set(p[1], p[2]) ELSE p[1]]
<1>1. L \in Nat BY SetsAre
<1>2. ASSUME NEW k \in 1 .. L, NEW items \in S PROVE set(items, k) \in S
  <2> DEFINE j == L + 1 - k
             one == u.sets[j]
  <2>1. j \in 1 .. L BY <1>1
  <2> HIDE DEF j
  <2>2. one.col \in Columns /\ one.expr \in Settable /\ ColumnsOf(one.expr) \subseteq Columns
    BY <2>1, SetsAre
  <2> HIDE DEF one
  <2>3. SetColumn(items, old, one) \in S BY <2>2, SetColumnIs
  <2> QED BY <2>3 DEF one, j
<1>3. ItemsChanged(u, new, old) = CHOOSE f : Sets(f) BY DEF ItemsChanged
<1> HIDE DEF set
<1>5. Copied(new, old) \in S BY CopiedIs
<1> HIDE DEF S
<1>4. s \in [S \X Nat -> S]
  <2>1. ASSUME NEW p \in S \X Nat
        PROVE  (IF p[2] \in 1 .. L THEN set(p[1], p[2]) ELSE p[1]) \in S
    <3>1. p[1] \in S OBVIOUS
    <3> QED BY <1>2, <3>1
  <2> QED BY <2>1
<1>6. PICK g \in [0 .. L -> S] : Iterated(g, L, Copied(new, old), s)
  <2> HIDE DEF s, L
  <2> QED BY <1>1, <1>4, <1>5, IteratedExists
<1>7. g[0] = Copied(new, old)
  <2> HIDE DEF s
  <2> QED BY <1>1, <1>6 DEF Iterated
<1>8. ASSUME NEW k \in 1 .. L PROVE g[k] = set(g[k - 1], k)
  <2>1. k - 1 \in 0 .. L /\ k \in 0 .. L /\ k # 0 BY <1>1
  <2>2. g[k] = s[<<g[k - 1], k>>]
    <3> HIDE DEF s
    <3> QED BY <1>6, <2>1 DEF Iterated
  <2>3. <<g[k - 1], k>> \in S \X Nat BY <2>1
  <2> QED BY <2>2, <2>3
<1> HIDE DEF s
<1>9. Sets(g)
  <2>1. ASSUME NEW k \in 0 .. L
        PROVE  g[k] = IF k = 0 THEN Copied(new, old) ELSE set(g[k - 1], k)
    <3>1. CASE k = 0 BY <1>7, <3>1
    <3>2. CASE k # 0
      <4>1. k \in 1 .. L BY <1>1, <3>2
      <4> QED BY <1>8, <3>2, <4>1
    <3> QED BY <3>1, <3>2
  <2> QED BY <2>1
<1>10. Sets(ItemsChanged(u, new, old))
  <2> HIDE DEF Sets
  <2> QED BY <1>3, <1>9
<1> DEFINE I == ItemsChanged(u, new, old)
<1> HIDE DEF I
<1>11. I[0] = Copied(new, old) /\ \A k \in 1 .. L : I[k] = set(I[k - 1], k)
  <2>1. Sets(I) BY <1>10 DEF I
  <2>2. \A k \in 0 .. L : I[k] = IF k = 0 THEN Copied(new, old) ELSE set(I[k - 1], k) BY <2>1
  <2>3. 0 \in 0 .. L /\ \A k \in 1 .. L : k \in 0 .. L /\ k # 0 BY <1>1
  <2> HIDE DEF L, Sets
  <2> QED BY <2>2, <2>3
<1>12. \A k \in 0 .. L : I[k] \in S
  <2>1. \A k \in 1 .. L : I[k - 1] \in S => I[k] \in S BY <1>2, <1>11
  <2> HIDE DEF L
  <2> QED BY <1>1, <1>5, <1>11, <2>1, StaysIn
<1> QED BY <1>11, <1>12 DEF I, set, S

LEMMA UpdatedIs ==
  ASSUME attrs \in Seq(Attributes), NEW u \in Updates, Applicable(u),
         NEW new \in [Columns -> GoodItems], NEW old \in [Columns -> Values],
         ~Broken(UpdatedItems(u, new, old))
  PROVE  LET updated == UpdatedItems(u, new, old)
             sets == u.sets
         IN  /\ updated \in [Columns -> GoodItems]
             /\ \A c \in Columns :
                  /\ updated[c].data # Null
                  /\ \/ /\ \A j \in 1 .. Len(sets) : sets[j].col # c
                        /\ updated[c].type = old[c].type /\ updated[c].data = old[c].data
                     \/ \E j \in 1 .. Len(sets) :
                          /\ sets[j].col = c /\ \A i \in 1 .. j - 1 : sets[i].col # c
                          /\ Expr_Calculate(sets[j].expr, old) \in Values
                          /\ updated[c].type = Expr_Calculate(sets[j].expr, old).type
                          /\ updated[c].data = Expr_Calculate(sets[j].expr, old).data
<1> DEFINE sets == u.sets
           L == Len(sets)
           I == ItemsChanged(u, new, old)
           v(j) == Expr_Calculate(sets[j].expr, old)
           col == [j \in 1 .. L |-> sets[j].col]
           Start == {p \in Columns \X GoodItems :
                       /\ p[2].data # Null
                       /\ p[2].type = old[p[1]].type /\ p[2].data = old[p[1]].data}
           Made == {p \in (1 .. L) \X GoodItems :
                      /\ p[2].data # Null /\ v(p[1]) \in Values
                      /\ p[2].type = v(p[1]).type /\ p[2].data = v(p[1]).data}
<1>1. /\ L \in Nat
      /\ \A j \in 1 .. L : /\ sets[j].col \in Columns /\ sets[j].expr \in Settable
                           /\ ColumnsOf(sets[j].expr) \subseteq Columns
  BY SetsAre
<1>2. /\ I[0] = Copied(new, old)
      /\ \A k \in 1 .. L : I[k] = SetColumn(I[k - 1], old, sets[L + 1 - k])
      /\ \A k \in 0 .. L : I[k] \in [Columns -> Results]
  BY ItemsChangedIs
<1>3. UpdatedItems(u, new, old) = I[L] BY DEF UpdatedItems
<1>4. ~Broken(I[L]) BY <1>3
<1> HIDE DEF I, sets, L
\* Each step, if the end is not broken.
<1>5. ASSUME NEW k \in 1 .. L, ~Broken(I[k])
      PROVE  LET j == L + 1 - k
             IN  /\ ~Broken(I[k - 1]) /\ v(j) \in Values
                 /\ \A c \in Columns : c # sets[j].col => I[k][c] = I[k - 1][c]
                 /\ I[k][sets[j].col].type = v(j).type /\ I[k][sets[j].col].data = v(j).data
                 /\ I[k][sets[j].col].data # Null
  <2> DEFINE j == L + 1 - k
             set == sets[j]
             before == I[k - 1]
  <2>1. j \in 1 .. L /\ k - 1 \in 0 .. L BY <1>1
  <2>2. I[k] = SetColumn(before, old, set) /\ before \in [Columns -> Results] BY <1>2, <2>1
  <2>3. set.col \in Columns /\ set.expr \in Settable /\ ColumnsOf(set.expr) \subseteq Columns
    BY <1>1, <2>1
  <2>4. ~Broken(SetColumn(before, old, set)) BY <1>5, <2>2
  <2> HIDE DEF j, set, before
  <2>5. LET value == Expr_Calculate(set.expr, old)
            after == SetColumn(before, old, set)
        IN  /\ ~Broken(before) /\ value \in Values
            /\ \A c \in Columns : c # set.col => after[c] = before[c]
            /\ after[set.col].type = value.type /\ after[set.col].data = value.data
            /\ after[set.col].data # Null
    BY <2>2, <2>3, <2>4, SetColumnIs
  <2> QED BY <2>2, <2>5 DEF before, set, j
<1>6. \A k \in 0 .. L : ~Broken(I[k])
  <2> DEFINE T == {m \in Nat : m \in 0 .. L => ~Broken(I[L - m])}
  <2>1. 0 \in T BY <1>1, <1>4
  <2>2. ASSUME NEW m \in 0 .. L - 1, m \in T PROVE m + 1 \in T
    <3> DEFINE k == L - m
               n == m + 1
    <3>1. k \in 1 .. L /\ k - 1 = L - n /\ n \in Nat /\ m \in 0 .. L BY <1>1
    <3>2. ~Broken(I[k]) BY <2>2, <3>1
    <3> HIDE DEF k, n, T
    <3>3. ~Broken(I[k - 1]) BY <1>5, <3>1, <3>2
    <3>4. n \in T BY <3>1, <3>3 DEF T
    <3> QED BY <3>4 DEF n
  <2>3. 0 .. L \subseteq T
    <3> HIDE DEF T
    <3> QED BY <1>1, <2>1, <2>2, UpTo
  <2>4. ASSUME NEW k \in 0 .. L PROVE ~Broken(I[k])
    <3>1. L - k \in 0 .. L /\ L - (L - k) = k BY <1>1
    <3>2. L - k \in T BY <2>3, <3>1
    <3> QED BY <3>1, <3>2
  <2> QED BY <2>4
<1>7. \A k \in 0 .. L : I[k] \in [Columns -> GoodItems]
  <2>1. ASSUME NEW k \in 0 .. L PROVE I[k] \in [Columns -> GoodItems]
    <3>1. I[k] \in [Columns -> Results] BY <1>2
    <3>2. ~Broken(I[k]) BY <1>6
    <3> QED BY <3>1, <3>2 DEF Broken, Results
  <2> QED BY <2>1
<1>8. \A c \in Columns : <<c, I[0][c]>> \in Start
  <2>1. ASSUME NEW c \in Columns PROVE <<c, I[0][c]>> \in Start
    <3>1. 0 \in 0 .. L BY <1>1
    <3>2. I[0] \in [Columns -> GoodItems] BY <1>7, <3>1
    <3> DEFINE item == Copied(new, old)[c]
    <3>3. item = I[0][c] /\ item \in GoodItems BY <1>2, <3>2
    <3>4. item # Dies BY <3>3, NotDies
    <3>5. item.data # Null /\ item.type = old[c].type /\ item.data = old[c].data
      BY <3>4, CopiedIs
    <3> HIDE DEF item
    <3> QED BY <3>3, <3>5
  <2> QED BY <2>1
<1>9. ASSUME NEW j \in 1 .. L
      PROVE  /\ col[j] \in Columns
             /\ \A c \in Columns : c # col[j] => I[L + 1 - j][c] = I[L - j][c]
             /\ <<j, I[L + 1 - j][col[j]]>> \in Made
  <2> DEFINE k == L + 1 - j
             n == sets[j].col
  <2>1. k \in 1 .. L /\ k \in 0 .. L /\ k - 1 = L - j /\ L + 1 - k = j /\ col[j] = n BY <1>1
  <2>2. n \in Columns BY <1>1
  <2> HIDE DEF k, n, col, v
  <2>3. /\ v(j) \in Values /\ \A c \in Columns : c # n => I[k][c] = I[k - 1][c]
        /\ I[k][n].type = v(j).type /\ I[k][n].data = v(j).data /\ I[k][n].data # Null
    <3>1. ~Broken(I[k]) BY <1>6, <2>1
    <3> DEFINE i == L + 1 - k
    <3>2. i = j BY <2>1
    <3>3. /\ v(i) \in Values
          /\ \A c \in Columns : c # sets[i].col => I[k][c] = I[k - 1][c]
          /\ I[k][sets[i].col].type = v(i).type /\ I[k][sets[i].col].data = v(i).data
          /\ I[k][sets[i].col].data # Null
      BY <1>5, <2>1, <3>1
    <3> HIDE DEF i
    <3> QED BY <3>2, <3>3 DEF n
  <2>4. I[k][n] \in GoodItems BY <1>7, <2>1, <2>2
  <2>5. <<j, I[k][n]>> \in Made BY <2>3, <2>4
  <2> HIDE DEF Made
  <2> QED BY <2>1, <2>2, <2>3, <2>5 DEF k
<1>10. SetInTurn(L, Columns, col, I, Start, Made)
  <2> HIDE DEF Start, Made, col
  <2>1. \A j \in 1 .. L :
          /\ col[j] \in Columns
          /\ \A c \in Columns : c # col[j] => I[L + 1 - j][c] = I[L - j][c]
          /\ <<j, I[L + 1 - j][col[j]]>> \in Made
    BY <1>9
  <2> QED BY <1>8, <2>1, Zenon DEF SetInTurn
<1>11. L \in 0 .. L BY <1>1
<1>12. I[L] \in [Columns -> GoodItems] BY <1>7, <1>11
<1>13. ASSUME NEW c \in Columns
       PROVE  /\ I[L][c].data # Null
              /\ \/ /\ \A j \in 1 .. L : sets[j].col # c
                    /\ I[L][c].type = old[c].type /\ I[L][c].data = old[c].data
                 \/ \E j \in 1 .. L :
                      /\ sets[j].col = c /\ \A i \in 1 .. j - 1 : sets[i].col # c
                      /\ v(j) \in Values
                      /\ I[L][c].type = v(j).type /\ I[L][c].data = v(j).data
  <2>1. \/ (\A j \in 1 .. L : col[j] # c) /\ <<c, I[L][c]>> \in Start
        \/ MadeBy(L, col, I[L][c], Made, c)
    <3> HIDE DEF Start, Made, col
    <3> QED BY <1>1, <1>10, FirstMention
  <2>2. \A j \in 1 .. L : col[j] = sets[j].col OBVIOUS
  <2>3. CASE (\A j \in 1 .. L : col[j] # c) /\ <<c, I[L][c]>> \in Start
    <3> HIDE DEF col, v
    <3> QED BY <2>2, <2>3
  <2>4. CASE MadeBy(L, col, I[L][c], Made, c)
    <3>1. PICK j \in 1 .. L : /\ col[j] = c /\ <<j, I[L][c]>> \in Made
                              /\ \A i \in 1 .. j - 1 : col[i] # c
      BY <2>4 DEF MadeBy
    <3>2. \A i \in 1 .. j - 1 : i \in 1 .. L BY <1>1
    <3>3. \A i \in 1 .. j - 1 : sets[i].col # c BY <2>2, <3>1, <3>2
    <3>4. sets[j].col = c BY <2>2, <3>1
    <3> HIDE DEF col, v
    <3>5. /\ I[L][c].data # Null /\ v(j) \in Values
          /\ I[L][c].type = v(j).type /\ I[L][c].data = v(j).data
      BY <3>1
    <3> QED BY <3>3, <3>4, <3>5
  <2> QED BY <2>1, <2>3, <2>4
<1> QED BY <1>3, <1>12, <1>13 DEF sets, L, v

LEMMA SaysSame ==
  ASSUME NEW x, NEW y, NEW meant, Says(x, meant), y.type = x.type, y.data = x.data
  PROVE  Says(y, meant)
BY DEF Says, Stored

\* The columns mean what the statement says if the row meant what it holds.
LEMMA UpdatedSays ==
  ASSUME attrs \in Seq(Attributes), NEW u \in Updates, Applicable(u),
         NEW new \in [Columns -> GoodItems], NEW old \in [Columns -> Values],
         ~Broken(UpdatedItems(u, new, old)),
         NEW row, \A c \in Columns : Says(old[c], row.meant[c]),
         NEW c \in Columns
  PROVE  Says(UpdatedItems(u, new, old)[c], MeantByUpdate(u, row)[c])
<1> DEFINE sets == u.sets
           L == Len(sets)
           F == UpdatedItems(u, new, old)
           v(j) == Expr_Calculate(sets[j].expr, old)
           places == {k \in DOMAIN sets : sets[k].col = c}
<1>1. /\ L \in Nat /\ DOMAIN sets = 1 .. L
      /\ \A j \in 1 .. L : /\ sets[j].col \in Columns /\ sets[j].expr \in Settable
                           /\ ColumnsOf(sets[j].expr) \subseteq Columns
  BY SetsAre
<1>2. \/ /\ \A j \in 1 .. L : sets[j].col # c
         /\ F[c].type = old[c].type /\ F[c].data = old[c].data
      \/ \E j \in 1 .. L :
           /\ sets[j].col = c /\ \A i \in 1 .. j - 1 : sets[i].col # c
           /\ v(j) \in Values /\ F[c].type = v(j).type /\ F[c].data = v(j).data
  BY UpdatedIs
<1>3. MeantByUpdate(u, row)[c] =
        IF places = {} THEN row.meant[c] ELSE Meaning(sets[FirstOf(places)].expr, row.meant)
  BY DEF MeantByUpdate
<1> DEFINE item == F[c]
<1> HIDE DEF L, sets, item
<1>4. CASE /\ \A j \in 1 .. L : sets[j].col # c
           /\ item.type = old[c].type /\ item.data = old[c].data
  <2>1. places = {} BY <1>1, <1>4
  <2> HIDE DEF places
  <2>2. Says(item, row.meant[c]) BY <1>4, SaysSame
  <2> QED BY <1>3, <2>1, <2>2 DEF item
<1>5. CASE \E j \in 1 .. L :
             /\ sets[j].col = c /\ \A i \in 1 .. j - 1 : sets[i].col # c
             /\ v(j) \in Values /\ item.type = v(j).type /\ item.data = v(j).data
  <2>1. PICK j \in 1 .. L :
          /\ sets[j].col = c /\ \A i \in 1 .. j - 1 : sets[i].col # c
          /\ v(j) \in Values /\ item.type = v(j).type /\ item.data = v(j).data
    BY <1>5
  <2>2. j \in places /\ places \in SUBSET Int /\ \A i \in places : j <= i
    <3>1. j \in places /\ places \in SUBSET (1 .. L) BY <1>1, <2>1
    <3>2. ASSUME NEW i \in places PROVE j <= i
      <4>1. i \in 1 .. L /\ sets[i].col = c BY <1>1
      <4>2. i \notin 1 .. j - 1 BY <2>1, <4>1
      <4> QED BY <1>1, <4>1, <4>2
    <3> QED BY <1>1, <3>1, <3>2
  <2>3. FirstOf(places) = j
    <3> HIDE DEF places
    <3> QED BY <2>2, FirstOfIs
  <2> DEFINE e == sets[j].expr
  <2>4. e \in Settable /\ ColumnsOf(e) \subseteq Columns BY <1>1
  <2>5. Expr_Calculate(e, old) # Dies BY <2>1, NotDies
  <2>6. places # {} BY <2>2
  <2> HIDE DEF e, places
  <2>7. Says(Expr_Calculate(e, old), Meaning(e, row.meant)) BY <2>4, <2>5, ExprSays
  <2>8. item.type = Expr_Calculate(e, old).type /\ item.data = Expr_Calculate(e, old).data
    BY <2>1 DEF e
  <2>9. Says(item, Meaning(e, row.meant)) BY <2>7, <2>8, SaysSame
  <2>10. MeantByUpdate(u, row)[c] = Meaning(e, row.meant) BY <1>3, <2>3, <2>6 DEF e
  <2> QED BY <2>9, <2>10 DEF item
<1>6. \/ /\ \A j \in 1 .. L : sets[j].col # c
         /\ item.type = old[c].type /\ item.data = old[c].data
      \/ \E j \in 1 .. L :
           /\ sets[j].col = c /\ \A i \in 1 .. j - 1 : sets[i].col # c
           /\ v(j) \in Values /\ item.type = v(j).type /\ item.data = v(j).data
  BY <1>2 DEF item
<1> QED BY <1>4, <1>5, <1>6

Classes(items) == \A c \in Columns : Class(items[c].type) = Class(attrs[c].type)

\* An UPDATE whose types fit does not end at a row whose types do.
LEMMA UpdatedFits ==
  ASSUME attrs \in Seq(Attributes), NEW u \in Updates, Applicable(u), WellTyped(u),
         NEW new \in [Columns -> GoodItems], Classes(new),
         NEW old \in [Columns -> Values], TypesOf(old)
  PROVE  ~Broken(UpdatedItems(u, new, old)) /\ Classes(UpdatedItems(u, new, old))
<1> DEFINE sets == u.sets
           L == Len(sets)
           I == ItemsChanged(u, new, old)
           Good == {items \in [Columns -> Results] : ~Broken(items) /\ Classes(items)}
<1>1. /\ L \in Nat /\ DOMAIN sets = 1 .. L
      /\ \A j \in 1 .. L : /\ sets[j].col \in Columns /\ sets[j].expr \in Settable
                           /\ ColumnsOf(sets[j].expr) \subseteq Columns
  BY SetsAre
<1>2. /\ I[0] = Copied(new, old)
      /\ \A k \in 1 .. L : I[k] = SetColumn(I[k - 1], old, sets[L + 1 - k])
      /\ \A k \in 0 .. L : I[k] \in [Columns -> Results]
  BY ItemsChangedIs
<1>3. UpdatedItems(u, new, old) = I[L] BY DEF UpdatedItems
<1>4. \A j \in 1 .. L : /\ Class(TypeOf(sets[j].expr)) = Class(attrs[sets[j].col].type)
                        /\ sets[j].expr.op \notin {"OP_DIV", "OP_MOD"}
  BY <1>1 DEF WellTyped
<1> HIDE DEF I, sets, L
<1>5. I[0] \in Good
  <2> DEFINE i == Copied(new, old)
  <2>1. \A c \in Columns : Class(new[c].type) = Class(old[c].type) BY DEF Classes, TypesOf
  <2>2. /\ i \in [Columns -> Results]
        /\ \A c \in Columns :
             /\ i[c] # Dies => i[c].type = old[c].type
             /\ Class(new[c].type) = Class(old[c].type) => i[c] # Dies
    BY CopiedIs
  <2> HIDE DEF i
  <2>3. ~Broken(i) BY <2>1, <2>2 DEF Broken
  <2>4. Classes(i) BY <2>1, <2>2 DEF Classes, TypesOf
  <2>5. i \in Good BY <2>2, <2>3, <2>4
  <2> QED BY <1>2, <2>5 DEF i
<1>6. ASSUME NEW k \in 1 .. L, I[k - 1] \in Good PROVE I[k] \in Good
  <2> DEFINE j == L + 1 - k
             set == sets[j]
             before == I[k - 1]
             value == Expr_Calculate(set.expr, old)
             after == SetColumn(before, old, set)
             type == attrs[set.col].type
  <2>1. j \in 1 .. L BY <1>1
  <2>2. before \in [Columns -> Results] /\ ~Broken(before) /\ Classes(before) BY <1>6
  <2> HIDE DEF j
  <2>3. /\ set.col \in Columns /\ set.expr \in Settable /\ ColumnsOf(set.expr) \subseteq Columns
        /\ Class(TypeOf(set.expr)) = Class(type) /\ set.expr.op \notin {"OP_DIV", "OP_MOD"}
    BY <1>1, <1>4, <2>1
  <2>4. type \in DataTypes
    <3>1. attrs[set.col] \in Attributes BY <2>3, TableIs
    <3> QED BY <3>1 DEF Attributes
  <2>5. after = I[k] BY <1>2, <2>1 DEF j
  <2> HIDE DEF set, before, type
  <2>6. value \in Values /\ Class(value.type) = Class(type) BY <2>3, <2>4, ExprFits
  <2>7. Class(before[set.col].type) = Class(value.type)
    BY <2>2, <2>3, <2>6 DEF Classes, type
  <2>8. /\ after \in [Columns -> Results]
        /\ ~Broken(after) =>
             /\ \A c \in Columns : c # set.col => after[c] = before[c]
             /\ after[set.col].type = value.type
        /\ ~Broken(before) /\ value \in Values /\ Class(before[set.col].type) = Class(value.type) =>
             /\ ~Broken(after)
    BY <2>2, <2>3, SetColumnIs
  <2> HIDE DEF value, after
  <2>9. ~Broken(after) BY <2>2, <2>6, <2>7, <2>8
  <2>10. Classes(after) BY <2>2, <2>6, <2>8, <2>9 DEF Classes, type
  <2> QED BY <2>5, <2>8, <2>9, <2>10
<1>7. \A k \in 0 .. L : I[k] \in Good
  <2> HIDE DEF Good
  <2> QED BY <1>1, <1>5, <1>6, StaysIn
<1>8. L \in 0 .. L BY <1>1
<1>9. I[L] \in Good BY <1>7, <1>8
<1> QED BY <1>3, <1>9

-----------------------------------------------------------------------------
\* A row, the items it was written from, and what it is read as.

RowOf(row, items) ==
  /\ items \in [Columns -> GoodItems] /\ row.bytes = uMem2Disk(items) /\ Writable(items)
  /\ \A c \in Columns : Says(items[c], row.meant[c])
  /\ row.roomy => \A c \in Columns : Room(items[c], attrs[c])
RowInv(row) == \E items : RowOf(row, items)
RowSet ==
  [bytes : Seq(ByteSet), deleted : BOOLEAN, roomy : BOOLEAN, meant : [Columns -> MeantItems]]

LEMMA ReadAsIs ==
  ASSUME NEW item \in GoodItems, NEW attr \in Attributes, Class(item.type) = Class(attr.type)
  PROVE  LET read == ReadAs(item, attr)
         IN  /\ read \in GoodItems /\ read \in Values /\ read.data # Null
             /\ read.type = attr.type /\ read.data = Stored(item) /\ Stored(read) = Stored(item)
             /\ IsCharType(attr.type) => read.cap = WriteLen(item)
<1> DEFINE read == ReadAs(item, attr)
           cap == IF IsCharType(attr.type) THEN WriteLen(item) ELSE 0
<1>1. item.type \in DataTypes /\ attr.type \in DataTypes
  BY DEF GoodItems, ItemSet, Attributes
<1>2. (IsCharType(item.type) <=> IsCharType(attr.type))
      /\ (~IsCharType(attr.type) => item.type = attr.type)
  BY <1>1, ClassFacts
<1>3. Null \notin Int /\ Null \notin Texts BY ItemsAssumption
<1>4. read = [type |-> attr.type, data |-> Stored(item), cap |-> cap] BY DEF ReadAs, Item
<1>5. CASE IsCharType(attr.type)
  <2>1. /\ Stored(item) \in Texts /\ cap = WriteLen(item) /\ cap \in Nat
        /\ TextLen[Stored(item)] <= cap
    BY <1>2, <1>5, LenFacts
  <2>2. attr.type \notin IntegerTypes BY <1>5 DEF IsCharType, IntegerTypes
  <2> HIDE DEF read, cap, IsCharType
  <2>3. read \in GoodItems BY <1>1, <1>4, <1>5, <2>1, <2>2 DEF GoodItems, ItemSet, Held
  <2>4. read.data # Null /\ Stored(read) = Stored(item) BY <1>3, <1>4, <2>1 DEF Stored
  <2>5. read \in Values BY <2>3, <2>4, GoodIsValue
  <2> QED BY <1>4, <2>1, <2>3, <2>4, <2>5 DEF read
<1>6. CASE ~IsCharType(attr.type)
  <2>1. item.data \in Int /\ Held(item) BY <1>2, <1>6 DEF GoodItems, Held
  <2>2. Stored(item) = item.data /\ cap = 0 BY <1>3, <1>6, <2>1 DEF Stored
  <2> HIDE DEF read, cap, IsCharType, RangeOf
  <2>3. read \in GoodItems BY <1>1, <1>2, <1>4, <1>6, <2>1, <2>2 DEF GoodItems, ItemSet, Held
  <2>4. read.data # Null /\ Stored(read) = Stored(item) BY <1>3, <1>4, <2>1, <2>2 DEF Stored
  <2>5. read \in Values BY <2>3, <2>4, GoodIsValue
  <2> QED BY <1>4, <1>6, <2>2, <2>3, <2>4, <2>5 DEF read
<1> QED BY <1>5, <1>6

LEMMA ColumnRead ==
  ASSUME attrs \in Seq(Attributes), NEW row, NEW items, RowOf(row, items), NEW c \in Columns,
         Class(row.meant[c].type) = Class(attrs[c].type),
         \A b \in 1 .. c - 1 : Width(row.meant[b].type) = Width(attrs[b].type)
  PROVE  /\ Heaptuple(row)[c] = ReadAs(items[c], attrs[c])
         /\ Class(items[c].type) = Class(attrs[c].type)
<1>1. /\ items \in [Columns -> GoodItems] /\ row.bytes = uMem2Disk(items)
      /\ \A b \in Columns : Says(items[b], row.meant[b])
  BY DEF RowOf
<1>2. items \in Seq(GoodItems) /\ Len(items) = Len(attrs) BY <1>1, ItemsAreSeq
<1>3. Columns = 1 .. Len(attrs) /\ Len(attrs) \in Nat BY TableIs
<1>4. \A b \in Columns : /\ Class(items[b].type) = Class(row.meant[b].type)
                         /\ Width(items[b].type) = Width(row.meant[b].type)
  <2>1. ASSUME NEW b \in Columns
        PROVE  /\ Class(items[b].type) = Class(row.meant[b].type)
               /\ Width(items[b].type) = Width(row.meant[b].type)
    <3>1. items[b] \in GoodItems /\ Says(items[b], row.meant[b]) BY <1>1
    <3>2. /\ items[b].type \in DataTypes /\ row.meant[b].type \in DataTypes
          /\ Class(items[b].type) = Class(row.meant[b].type)
      BY <3>1 DEF Says, MeantItems, GoodItems, ItemSet
    <3> QED BY <3>2, ClassFacts
  <2> QED BY <2>1
<1>5. Class(items[c].type) = Class(attrs[c].type) BY <1>4
<1>6. \A b \in 1 .. c - 1 : Width(items[b].type) = Width(attrs[b].type)
  <2>1. \A b \in 1 .. c - 1 : b \in Columns BY <1>3
  <2> QED BY <1>4, <2>1
<1>7. c \in 1 .. Len(attrs) BY <1>3
<1>8. vDisk2Mem(uMem2Disk(items), attrs)[c] = ReadAs(items[c], attrs[c])
  BY <1>2, <1>5, <1>6, <1>7, RowReads
<1> QED BY <1>1, <1>5, <1>8 DEF Heaptuple

LEMMA TypedRead ==
  ASSUME attrs \in Seq(Attributes), NEW row, NEW items, RowOf(row, items), Typed(row)
  PROVE  /\ Heaptuple(row) \in [Columns -> GoodItems] /\ Heaptuple(row) \in [Columns -> Values]
         /\ TypesOf(Heaptuple(row))
         /\ \A c \in Columns :
              /\ Heaptuple(row)[c] = ReadAs(items[c], attrs[c])
              /\ Class(items[c].type) = Class(attrs[c].type)
              /\ Says(Heaptuple(row)[c], row.meant[c])
<1> DEFINE xs == Heaptuple(row)
<1>1. /\ items \in [Columns -> GoodItems]
      /\ \A c \in Columns : Says(items[c], row.meant[c])
  BY DEF RowOf
<1>2. Columns = 1 .. Len(attrs) /\ Len(attrs) \in Nat /\ \A c \in Columns : attrs[c] \in Attributes
  BY TableIs
<1>3. xs = [c \in Columns |-> xs[c]] BY DEF Heaptuple, vDisk2Mem, Columns
<1> HIDE DEF xs
<1>4. \A c \in Columns : Width(row.meant[c].type) = Width(attrs[c].type)
  <2>1. ASSUME NEW c \in Columns PROVE Width(row.meant[c].type) = Width(attrs[c].type)
    <3>1. row.meant[c].type \in DataTypes BY <1>1 DEF Says, MeantItems
    <3>2. attrs[c].type \in DataTypes BY <1>2 DEF Attributes
    <3>3. Class(row.meant[c].type) = Class(attrs[c].type) BY DEF Typed
    <3> QED BY <3>1, <3>2, <3>3, ClassFacts
  <2> QED BY <2>1
<1>5. ASSUME NEW c \in Columns
      PROVE  /\ xs[c] = ReadAs(items[c], attrs[c]) /\ xs[c] \in GoodItems /\ xs[c] \in Values
             /\ xs[c].type = attrs[c].type
             /\ Class(items[c].type) = Class(attrs[c].type)
             /\ Says(xs[c], row.meant[c])
  <2>1. \A b \in 1 .. c - 1 : b \in Columns BY <1>2
  <2>2. \A b \in 1 .. c - 1 : Width(row.meant[b].type) = Width(attrs[b].type) BY <1>4, <2>1
  <2>3. Class(row.meant[c].type) = Class(attrs[c].type) BY DEF Typed
  <2>4. xs[c] = ReadAs(items[c], attrs[c]) /\ Class(items[c].type) = Class(attrs[c].type)
    BY <2>2, <2>3, ColumnRead DEF xs
  <2> DEFINE item == items[c]
             attr == attrs[c]
             read == ReadAs(item, attr)
  <2>5. item \in GoodItems /\ attr \in Attributes /\ Class(item.type) = Class(attr.type)
    BY <1>1, <1>2, <2>4
  <2>6. Says(item, row.meant[c]) BY <1>1
  <2>7. xs[c] = read BY <2>4
  <2> HIDE DEF item, attr
  <2>8. /\ read \in GoodItems /\ read \in Values
        /\ read.type = attr.type /\ Stored(read) = Stored(item)
    BY <2>5, ReadAsIs
  <2> HIDE DEF read
  <2>9. Says(read, row.meant[c]) BY <2>5, <2>6, <2>8 DEF Says
  <2> QED BY <2>4, <2>7, <2>8, <2>9 DEF attr
<1>6. \A c \in Columns : /\ xs[c] = ReadAs(items[c], attrs[c]) /\ xs[c] \in GoodItems /\ xs[c] \in Values
                         /\ xs[c].type = attrs[c].type
                         /\ Class(items[c].type) = Class(attrs[c].type)
                         /\ Says(xs[c], row.meant[c])
  BY <1>5
<1>7. TypesOf(xs) BY <1>6 DEF TypesOf
<1>8. xs \in [Columns -> GoodItems] /\ xs \in [Columns -> Values] BY <1>3, <1>6
<1> QED BY <1>6, <1>7, <1>8 DEF xs

LEMMA TypedReadable ==
  ASSUME attrs \in Seq(Attributes), NEW row, NEW items, RowOf(row, items), Typed(row)
  PROVE  Readable(row.bytes, attrs)
<1>1. items \in [Columns -> GoodItems] /\ row.bytes = uMem2Disk(items) /\ Writable(items)
  BY DEF RowOf
<1>2. items \in Seq(GoodItems) /\ Len(items) = Len(attrs) /\ DOMAIN items = Columns
  BY <1>1, ItemsAreSeq
<1>3. Columns = 1 .. Len(attrs) /\ \A c \in Columns : attrs[c] \in Attributes BY TableIs
<1>4. \A c \in 1 .. Len(attrs) : Width(items[c].type) = Width(attrs[c].type)
  <2>1. ASSUME NEW c \in Columns PROVE Width(items[c].type) = Width(attrs[c].type)
    <3>1. Class(items[c].type) = Class(attrs[c].type) BY TypedRead
    <3>2. items[c].type \in DataTypes /\ attrs[c].type \in DataTypes
      BY <1>1, <1>3 DEF GoodItems, ItemSet, Attributes
    <3> QED BY <3>1, <3>2, ClassFacts
  <2> QED BY <1>3, <2>1
<1>5. \A n \in 1 .. Len(attrs) : Len(BytesUpTo(items)[n]) < FILE_LINE_LEN - 1
  BY <1>1, <1>2, <1>3 DEF Writable
<1>6. Readable(uMem2Disk(items), attrs) BY <1>2, <1>4, <1>5, RowReadable
<1> QED BY <1>1, <1>6

-----------------------------------------------------------------------------
\* The inductive invariant: every row was written from items that say what was meant,
\* and whose texts have no more memory than their columns where it says so.

UpdateSet ==
  [running : {TRUE}, stmt : Updates, next : Nat \ {0}, last : Nat, new : [Columns -> GoodItems]]
RowsHeld == \A r \in DOMAIN rows : RowInv(rows[r])
UpdateHeld ==
  \E u \in UpdateSet :
    /\ upd = u /\ Applicable(u.stmt) /\ u.last <= Len(rows)
    /\ WellTyped(u.stmt) => Classes(u.new)
RowsInv ==
  /\ attrs \in Seq(Attributes) /\ rows \in Seq(RowSet) /\ RowsHeld
  /\ upd = NoUpdate \/ UpdateHeld

\* What is read says what was meant.
LEMMA InvReadBack ==
  ASSUME RowsInv
  PROVE  RowReadBack
<1>1. ASSUME NEW r \in DOMAIN rows, Sound(rows[r]) PROVE Readable(rows[r].bytes, attrs)
  <2> DEFINE row == rows[r]
  <2>1. attrs \in Seq(Attributes) /\ RowInv(row) /\ Typed(row)
    BY <1>1 DEF RowsInv, RowsHeld, Sound
  <2> HIDE DEF row
  <2>2. Readable(row.bytes, attrs) BY <2>1, TypedReadable DEF RowInv
  <2> QED BY <2>2 DEF row
<1>2. ASSUME NEW r \in DOMAIN rows, NEW c \in Columns,
             Class(rows[r].meant[c].type) = Class(attrs[c].type),
             \A b \in 1 .. c - 1 : Width(rows[r].meant[b].type) = Width(attrs[b].type)
      PROVE  rows[r].meant[c].data \in {Heaptuple(rows[r])[c].data, Junk}
  <2>1. attrs \in Seq(Attributes) /\ RowInv(rows[r]) BY DEF RowsInv, RowsHeld
  <2> DEFINE row == rows[r]
  <2>2. PICK items : RowOf(row, items) BY <2>1 DEF RowInv
  <2>3. /\ Class(row.meant[c].type) = Class(attrs[c].type)
        /\ \A b \in 1 .. c - 1 : Width(row.meant[b].type) = Width(attrs[b].type)
    BY <1>2
  <2> HIDE DEF row
  <2>4. Heaptuple(row)[c] = ReadAs(items[c], attrs[c]) BY <2>1, <2>2, <2>3, ColumnRead
  <2>5. Says(items[c], row.meant[c]) BY <2>2 DEF RowOf
  <2>6. ReadAs(items[c], attrs[c]).data = Stored(items[c]) BY DEF ReadAs, Item
  <2>7. row.meant[c].data \in {Heaptuple(row)[c].data, Junk} BY <2>4, <2>5, <2>6 DEF Says
  <2> QED BY <2>7 DEF row
<1> QED BY <1>1, <1>2 DEF RowReadBack

\* Numbers and days that are read compare as what they are.
LEMMA InvCompares ==
  ASSUME RowsInv
  PROVE  ComparesExactly
<1> SUFFICES ASSUME NEW r \in DOMAIN rows, NEW s \in DOMAIN rows, NEW b \in Columns, NEW c \in Columns,
                    Typed(rows[r]), Typed(rows[s])
             PROVE  LET x == Heaptuple(rows[r])[b]
                        y == Heaptuple(rows[s])[c]
                        cmp == cmpHeapTupleItem(x, y)
                        difference == Halves(x) - Halves(y)
                    IN  /\ /\ IsNumericType(x.type) /\ IsNumericType(y.type)
                           /\ difference = 0 \/ Abs(difference) \in 2 .. 2 * Half(IntBits) - 1
                           /\ Wider(x.type, y.type) \in RealTypes =>
                                \A n \in {Halves(x), Halves(y), difference} :
                                  Holds(Wider(x.type, y.type), n)
                           => Sign(cmp) = Sign(difference)
                        /\ x.type = "DATE" /\ IsCharType(y.type) /\ Clear(y.data) =>
                             Sign(cmp) = Sign(x.data - DayMeant(TextDate[y.data]))
  BY DEF ComparesExactly, Sound
<1> DEFINE x == Heaptuple(rows[r])[b]
           y == Heaptuple(rows[s])[c]
<1>1. attrs \in Seq(Attributes) /\ RowInv(rows[r]) /\ RowInv(rows[s]) BY DEF RowsInv, RowsHeld
<1>2. Heaptuple(rows[r]) \in [Columns -> Values]
  <2>1. PICK items : RowOf(rows[r], items) BY <1>1 DEF RowInv
  <2> QED BY <1>1, <2>1, TypedRead
<1>3. Heaptuple(rows[s]) \in [Columns -> Values]
  <2>1. PICK items : RowOf(rows[s], items) BY <1>1 DEF RowInv
  <2> QED BY <1>1, <2>1, TypedRead
<1>4. x \in Values /\ y \in Values BY <1>2, <1>3
<1> HIDE DEF x, y
<1>5. /\ IsNumericType(x.type) /\ IsNumericType(y.type)
      /\ \/ Halves(x) - Halves(y) = 0
         \/ Abs(Halves(x) - Halves(y)) \in 2 .. 2 * Half(IntBits) - 1
      /\ Wider(x.type, y.type) \in RealTypes =>
           \A n \in {Halves(x), Halves(y), Halves(x) - Halves(y)} : Holds(Wider(x.type, y.type), n)
      => Sign(cmpHeapTupleItem(x, y)) = Sign(Halves(x) - Halves(y))
  BY <1>4, CmpExact
<1>6. x.type = "DATE" /\ IsCharType(y.type) /\ Clear(y.data) =>
        cmpHeapTupleItem(x, y) = x.data - DayMeant(TextDate[y.data])
  BY <1>4, CmpDays
<1> QED BY <1>5, <1>6 DEF x, y

-----------------------------------------------------------------------------
\* The places of the columns in bytes that are long enough.

LEMMA LensUpToIs ==
  ASSUME NEW table \in Seq(Attributes), NEW more \in Nat
  PROVE  /\ LensUpTo(table, more)[0] = 0
         /\ \A n \in 1 .. Len(table) :
              LensUpTo(table, more)[n] = LensUpTo(table, more)[n - 1] + table[n].len + more
         /\ \A n \in 0 .. Len(table) : LensUpTo(table, more)[n] \in Nat
<1> DEFINE L == Len(table)
           Adds(f) == f = [n \in 0 .. L |-> IF n = 0 THEN 0 ELSE f[n - 1] + table[n].len + more]
           s == [p \in Nat \X Nat |-> IF p[2] \in 1 .. L THEN p[1] + table[p[2]].len + more ELSE p[1]]
<1>1. L \in Nat /\ \A n \in 1 .. L : table[n] \in Attributes BY LenProperties, ElementOfSeq
<1>2. \A n \in 1 .. L : table[n].len \in Nat BY <1>1 DEF Attributes
<1>9. LensUpTo(table, more) = CHOOSE f : Adds(f) BY DEF LensUpTo
<1> HIDE DEF L
<1>3. s \in [Nat \X Nat -> Nat]
  <2>1. ASSUME NEW p \in Nat \X Nat
        PROVE  (IF p[2] \in 1 .. L THEN p[1] + table[p[2]].len + more ELSE p[1]) \in Nat
    <3>1. p[1] \in Nat OBVIOUS
    <3> QED BY <1>2, <3>1
  <2> QED BY <2>1
<1>5. PICK g \in [0 .. L -> Nat] : Iterated(g, L, 0, s)
  <2> DEFINE Z == Nat
  <2>1. 0 \in Z /\ s \in [Z \X Nat -> Z] BY <1>3
  <2> HIDE DEF s, Z
  <2>2. \E g \in [0 .. L -> Z] : Iterated(g, L, 0, s) BY <1>1, <2>1, IteratedExists
  <2> QED BY <2>2 DEF Z
<1>6. g[0] = 0
  <2> HIDE DEF s
  <2> QED BY <1>1, <1>5 DEF Iterated
<1>7. ASSUME NEW n \in 1 .. L PROVE g[n] = g[n - 1] + table[n].len + more
  <2>1. n - 1 \in 0 .. L /\ n \in 0 .. L /\ n # 0 BY <1>1
  <2>2. g[n] = s[<<g[n - 1], n>>]
    <3> HIDE DEF s
    <3> QED BY <1>5, <2>1 DEF Iterated
  <2>3. <<g[n - 1], n>> \in Nat \X Nat BY <2>1
  <2> QED BY <2>2, <2>3
<1> HIDE DEF s
<1>8. Adds(g)
  <2>1. ASSUME NEW n \in 0 .. L
        PROVE  g[n] = IF n = 0 THEN 0 ELSE g[n - 1] + table[n].len + more
    <3>1. CASE n = 0 BY <1>6, <3>1
    <3>2. CASE n # 0
      <4>1. n \in 1 .. L BY <1>1, <3>2
      <4> QED BY <1>7, <3>2, <4>1
    <3> QED BY <3>1, <3>2
  <2> QED BY <2>1
<1>10. Adds(LensUpTo(table, more))
  <2> HIDE DEF Adds
  <2> QED BY <1>8, <1>9
<1> DEFINE o == LensUpTo(table, more)
<1> HIDE DEF o
<1>11. o[0] = 0 /\ \A n \in 1 .. L : o[n] = o[n - 1] + table[n].len + more
  <2>1. Adds(o) BY <1>10 DEF o
  <2>2. \A n \in 0 .. L : o[n] = IF n = 0 THEN 0 ELSE o[n - 1] + table[n].len + more
    BY <2>1
  <2>3. 0 \in 0 .. L /\ \A n \in 1 .. L : n \in 0 .. L /\ n # 0 BY <1>1
  <2> HIDE DEF L, Adds
  <2> QED BY <2>2, <2>3
<1> HIDE DEF Adds
<1>12. \A n \in 0 .. L : o[n] \in Nat
  <2> DEFINE Z == Nat
  <2>1. o[0] \in Z BY <1>11
  <2>2. \A n \in 1 .. L : o[n - 1] \in Z => o[n] \in Z BY <1>2, <1>11
  <2> HIDE DEF Z
  <2>3. \A n \in 0 .. L : o[n] \in Z BY <1>1, <2>1, <2>2, StaysIn
  <2> QED BY <2>3 DEF Z
<1> QED BY <1>11, <1>12 DEF o, L

\* What grows by at least so much for each column has grown by as much from any on.
LEMMA LensGrow ==
  ASSUME NEW table \in Seq(Attributes), NEW more \in Nat, NEW m \in 0 .. Len(table)
  PROVE  \A n \in m .. Len(table) : LensUpTo(table, more)[m] <= LensUpTo(table, more)[n]
<1> DEFINE L == Len(table)
           o == LensUpTo(table, more)
           T == {n \in Nat : n \in m .. L => o[m] <= o[n]}
<1>1. L \in Nat /\ m \in 0 .. L BY LenProperties
<1>2. \A n \in 1 .. L : table[n].len \in Nat
  <2>1. \A n \in 1 .. L : table[n] \in Attributes BY LenProperties, ElementOfSeq
  <2> HIDE DEF L
  <2> QED BY <2>1 DEF Attributes
<1>3. /\ \A n \in 1 .. L : o[n] = o[n - 1] + table[n].len + more
      /\ \A n \in 0 .. L : o[n] \in Nat
  BY LensUpToIs
<1> HIDE DEF L, o
<1>4. 0 \in T BY <1>1, <1>3
<1>5. ASSUME NEW n \in 0 .. L - 1, n \in T PROVE n + 1 \in T
  <2>1. n + 1 \in 1 .. L /\ (n + 1) - 1 = n /\ n \in 0 .. L BY <1>1
  <2> DEFINE k == n + 1
  <2>2. o[k] = o[n] + table[k].len + more /\ o[k] \in Nat /\ o[n] \in Nat /\ table[k].len \in Nat
    BY <1>1, <1>2, <1>3, <2>1
  <2>3. k \in Nat /\ (k \in m .. L => k = m \/ n \in m .. L) BY <1>1, <2>1
  <2> HIDE DEF k
  <2>4. ASSUME k \in m .. L PROVE o[m] <= o[k]
    <3>1. CASE k = m BY <2>2, <3>1
    <3>2. CASE n \in m .. L
      <4>1. o[m] <= o[n] /\ o[m] \in Nat BY <1>1, <1>3, <1>5, <3>2
      <4> QED BY <2>2, <4>1
    <3> QED BY <2>3, <2>4, <3>1, <3>2
  <2> QED BY <2>3, <2>4 DEF k
<1>6. 0 .. L \subseteq T
  <2> HIDE DEF T
  <2> QED BY <1>1, <1>4, <1>5, UpTo
<1>7. \A n \in m .. L : o[m] <= o[n] BY <1>1, <1>6
<1> QED BY <1>7 DEF L, o

\* Bytes that need no more for each column than its length and two integers.
LEMMA LensBound ==
  ASSUME NEW items \in Seq(GoodItems), NEW table \in Seq(Attributes), Len(items) = Len(table),
         \A c \in 1 .. Len(table) : SizeIn(items[c]) <= table[c].len + 8
  PROVE  \A n \in 0 .. Len(table) : Len(BytesUpTo(items)[n]) <= LensUpTo(table, 8)[n]
<1> DEFINE L == Len(table)
           o == LensUpTo(table, 8)
           b == BytesUpTo(items)
           T == {n \in Nat : n \in 0 .. L => Len(b[n]) <= o[n]}
<1>1. L \in Nat BY LenProperties
<1>2. \A n \in 1 .. L : table[n].len \in Nat
  <2>1. \A n \in 1 .. L : table[n] \in Attributes BY LenProperties, ElementOfSeq
  <2> HIDE DEF L
  <2> QED BY <2>1 DEF Attributes
<1>3. /\ o[0] = 0 /\ \A n \in 1 .. L : o[n] = o[n - 1] + table[n].len + 8
      /\ \A n \in 0 .. L : o[n] \in Nat
  BY LensUpToIs
<1>4. /\ b[0] = <<>> /\ \A n \in 0 .. L : Len(b[n]) \in Nat
      /\ \A n \in 1 .. L : Len(b[n]) = Len(b[n - 1]) + SizeIn(items[n])
  BY BytesUpToIs, BytesUpToLen
<1>5. \A n \in 1 .. L : SizeIn(items[n]) \in Nat /\ SizeIn(items[n]) <= table[n].len + 8
  <2>1. \A n \in 1 .. L : items[n] \in GoodItems BY LenProperties, ElementOfSeq
  <2> QED BY <2>1, ItemBytes
<1> HIDE DEF L, o, b
<1>6. 0 \in T BY <1>1, <1>3, <1>4
<1>7. ASSUME NEW n \in 0 .. L - 1, n \in T PROVE n + 1 \in T
  <2> DEFINE k == n + 1
  <2>1. k \in 1 .. L /\ k - 1 = n /\ n \in 0 .. L /\ k \in 0 .. L /\ k \in Nat BY <1>1
  <2> HIDE DEF k
  <2>2. /\ o[k] = o[n] + table[k].len + 8 /\ o[n] \in Nat /\ table[k].len \in Nat
        /\ Len(b[k]) = Len(b[n]) + SizeIn(items[k]) /\ Len(b[n]) \in Nat
        /\ SizeIn(items[k]) \in Nat /\ SizeIn(items[k]) <= table[k].len + 8
    BY <1>2, <1>3, <1>4, <1>5, <2>1
  <2>3. Len(b[n]) <= o[n] BY <1>7, <2>1
  <2>4. Len(b[k]) <= o[k] BY <2>2, <2>3
  <2> QED BY <2>1, <2>4 DEF k
<1>8. 0 .. L \subseteq T
  <2> HIDE DEF T
  <2> QED BY <1>1, <1>6, <1>7, UpTo
<1>9. \A n \in 0 .. L : Len(b[n]) <= o[n] BY <1>8
<1> QED BY <1>9 DEF L, o, b

\* An item, and what it is read as, need no more than their column's share.
LEMMA ColumnFits ==
  ASSUME NEW item \in GoodItems, NEW attr \in Attributes,
         Class(item.type) = Class(attr.type), Room(item, attr)
  PROVE  /\ SizeIn(item) <= attr.len + 8 /\ SizeIn(ReadAs(item, attr)) <= attr.len + 8
         /\ \A n \in Nat : n % 4 = 0 =>
              n + Touched(ReadAs(item, attr)) <= Aligned(n + attr.len + 8) + 1
<1> DEFINE read == ReadAs(item, attr)
<1>1. /\ item.type \in DataTypes /\ attr.type \in DataTypes /\ attr.len \in Nat
      /\ item.cap \in Nat
  BY DEF GoodItems, ItemSet, Attributes
<1>2. IsCharType(item.type) <=> IsCharType(attr.type) BY <1>1, ClassFacts
<1>3. /\ read \in GoodItems /\ read.type = attr.type /\ read.data = Stored(item)
      /\ Stored(read) = Stored(item) /\ read.data # Null
      /\ IsCharType(attr.type) => read.cap = WriteLen(item)
  BY ReadAsIs
<1> HIDE DEF read
<1>4. \A n \in Nat : n <= Aligned(n) /\ Aligned(n) \in Nat BY AlignedFacts
<1>5. CASE ~IsCharType(attr.type)
  <2>1. SizeOf(attr.type) \in {4, 8} /\ SizeOf(item.type) \in {4, 8} BY <1>1, SizeFacts
  <2>2. SizeIn(item) = SizeOf(item.type) /\ SizeIn(read) = SizeOf(attr.type)
    BY <1>2, <1>3, <1>5 DEF SizeIn
  <2>3. Touched(read) = 9 \/ Touched(read) = SizeOf(attr.type) + 1
    BY <1>3, <1>5 DEF Touched, IsCharType
  <2>4. Touched(read) \in Nat /\ Touched(read) <= 9 BY <2>1, <2>3
  <2>5. ASSUME NEW n \in Nat, n % 4 = 0
        PROVE  n + Touched(read) <= Aligned(n + attr.len + 8) + 1
    <3> DEFINE end == n + attr.len + 8
    <3>1. end \in Nat /\ n + Touched(read) <= end + 1 BY <1>1, <2>4
    <3> HIDE DEF end
    <3>2. end <= Aligned(end) /\ Aligned(end) \in Nat BY <1>4, <3>1
    <3>3. n + Touched(read) <= Aligned(end) + 1 BY <2>4, <3>1, <3>2
    <3> QED BY <3>3 DEF end
  <2>6. SizeIn(item) <= attr.len + 8 /\ SizeIn(read) <= attr.len + 8 BY <1>1, <2>1, <2>2
  <2> QED BY <2>5, <2>6 DEF read
<1>6. CASE IsCharType(attr.type)
  <2>1. /\ DataLen(item) \in Nat /\ WriteLen(item) \in Nat /\ WriteLen(item) % 4 = 0
        /\ Stored(item) \in Texts /\ TextLen[Stored(item)] <= WriteLen(item)
        /\ WriteLen(item) <= item.cap + 3
    BY <1>2, <1>6, LenFacts
  <2>2. item.cap <= attr.len BY <1>2, <1>6 DEF Room
  <2>3. /\ DataLen(read) \in Nat /\ WriteLen(read) \in Nat /\ WriteLen(read) = Aligned(DataLen(read))
    BY <1>3, <1>6, LenFacts
  <2>4. TextLen[Stored(item)] \in Nat /\ TextLen[Stored(item)] <= item.cap
    <3>1. TextLen[Stored(item)] \in Nat BY <2>1, ItemsAssumption
    <3>2. CASE item.data = Null
      <4>1. TextLen[Stored(item)] = 0 BY <3>2, ItemsAssumption DEF Stored
      <4> QED BY <1>1, <4>1
    <3>3. CASE item.data # Null
      <4>1. TextLen[item.data] <= item.cap BY <1>2, <1>6, <3>3 DEF GoodItems, Held
      <4> QED BY <3>1, <3>3, <4>1 DEF Stored
    <3> QED BY <3>1, <3>2, <3>3
  <2>5. SizeIn(item) = 4 + WriteLen(item) /\ SizeIn(read) = 4 + WriteLen(read)
    BY <1>2, <1>3, <1>6 DEF SizeIn, INT_SIZE
  <2>6. CASE attr.type = "CHAR"
    <3>1. DataLen(read) = WriteLen(item) BY <1>3, <1>6, <2>6 DEF DataLen
    <3>2. WriteLen(read) = WriteLen(item) BY <2>1, <2>3, <3>1, AlignedFacts
    <3>3. Touched(read) = WriteLen(item) + 5 BY <1>3, <2>6, <3>2, <2>1 DEF Touched, INT_SIZE
    <3>4. Touched(read) \in Nat /\ Touched(read) <= attr.len + 8 BY <1>1, <2>1, <2>2, <3>3
    <3>5. ASSUME NEW n \in Nat, n % 4 = 0
          PROVE  n + Touched(read) <= Aligned(n + attr.len + 8) + 1
      <4> DEFINE end == n + attr.len + 8
      <4>1. end \in Nat /\ n + Touched(read) <= end + 1 BY <1>1, <3>4
      <4> HIDE DEF end
      <4>2. end <= Aligned(end) /\ Aligned(end) \in Nat BY <1>4, <4>1
      <4>3. n + Touched(read) <= Aligned(end) + 1 BY <3>4, <4>1, <4>2
      <4> QED BY <4>3 DEF end
    <3>6. SizeIn(item) <= attr.len + 8 /\ SizeIn(read) <= attr.len + 8
      BY <1>1, <2>1, <2>2, <2>5, <3>2
    <3> QED BY <3>5, <3>6 DEF read
  <2>7. CASE attr.type = "VARCHAR"
    <3>1. DataLen(read) = TextLen[Stored(item)] BY <1>3, <2>7 DEF DataLen
    <3>2. DataLen(read) <= attr.len BY <1>1, <2>2, <2>4, <3>1
    <3>3. WriteLen(read) <= DataLen(read) + 3 BY <2>3, AlignedFacts
    <3>4. Touched(read) = WriteLen(read) + 9 BY <1>3, <2>3, <2>7 DEF Touched, INT_SIZE
    <3>5. ASSUME NEW n \in Nat, n % 4 = 0
          PROVE  n + Touched(read) <= Aligned(n + attr.len + 8) + 1
      <4> DEFINE k == n + 8
                 m == k + DataLen(read)
                 end == n + attr.len + 8
      <4>1. k \in Nat /\ k % 4 = 0 BY <3>5
      <4>2. Aligned(m) = k + Aligned(DataLen(read)) BY <2>3, <4>1, AlignedFacts
      <4>3. m \in Nat /\ end \in Nat /\ m <= end BY <1>1, <2>3, <3>2
      <4>4. Aligned(m) <= Aligned(end)
        <5> HIDE DEF m, end
        <5> QED BY <4>3, AlignedFacts
      <4>5. Aligned(end) \in Nat
        <5> HIDE DEF end
        <5> QED BY <4>3, AlignedFacts
      <4>6. n + Touched(read) = Aligned(m) + 1 BY <2>3, <3>4, <4>2
      <4> HIDE DEF m
      <4> QED BY <2>3, <3>4, <4>2, <4>4, <4>5, <4>6
    <3>6. SizeIn(item) <= attr.len + 8 /\ SizeIn(read) <= attr.len + 8
      BY <1>1, <2>1, <2>2, <2>3, <2>5, <3>2, <3>3
    <3> QED BY <3>5, <3>6 DEF read
  <2> QED BY <1>6, <2>6, <2>7 DEF IsCharType
<1> QED BY <1>5, <1>6

\* A row has the room that its table declares.
LEMMA InvFits ==
  ASSUME RowsInv
  PROVE  RowFits
<1> DEFINE max == uGetMaxTupleLen(attrs)
<1> SUFFICES ASSUME NEW r \in DOMAIN rows, Sound(rows[r])
             PROVE  /\ ~(Len(rows[r].bytes) > max)
                    /\ \A c \in Columns :
                         ~(Len(BytesUpTo(Heaptuple(rows[r]))[c - 1]) + Touched(Heaptuple(rows[r])[c])
                             > max + 1)
  BY DEF RowFits, Overruns
<1> DEFINE row == rows[r]
<1>1. attrs \in Seq(Attributes) /\ RowInv(row) /\ Typed(row) /\ row.roomy
  BY DEF RowsInv, RowsHeld, Sound
<1> HIDE DEF row
<1>2. PICK items : RowOf(row, items) BY <1>1 DEF RowInv
<1> DEFINE xs == Heaptuple(row)
           L == Len(attrs)
           lens == LensUpTo(attrs, 8)
<1>3. /\ xs \in [Columns -> GoodItems]
      /\ \A c \in Columns : xs[c] = ReadAs(items[c], attrs[c]) /\ Class(items[c].type) = Class(attrs[c].type)
  BY <1>1, <1>2, TypedRead
<1>4. /\ items \in [Columns -> GoodItems] /\ row.bytes = uMem2Disk(items)
      /\ \A c \in Columns : Room(items[c], attrs[c])
  BY <1>1, <1>2 DEF RowOf
<1>5. Columns = 1 .. L /\ L \in Nat /\ \A c \in Columns : attrs[c] \in Attributes
  BY <1>1, TableIs
<1>6. /\ items \in Seq(GoodItems) /\ Len(items) = L
      /\ xs \in Seq(GoodItems) /\ Len(xs) = L
  BY <1>1, <1>3, <1>4, ItemsAreSeq
<1>20. max = Aligned(lens[L]) BY DEF uGetMaxTupleLen
<1> HIDE DEF xs, max
<1>7. \A c \in 1 .. L :
        /\ SizeIn(items[c]) <= attrs[c].len + 8 /\ SizeIn(xs[c]) <= attrs[c].len + 8
        /\ \A n \in Nat : n % 4 = 0 => n + Touched(xs[c]) <= Aligned(n + attrs[c].len + 8) + 1
  <2>1. ASSUME NEW c \in 1 .. L
        PROVE  /\ SizeIn(items[c]) <= attrs[c].len + 8 /\ SizeIn(xs[c]) <= attrs[c].len + 8
               /\ \A n \in Nat : n % 4 = 0 => n + Touched(xs[c]) <= Aligned(n + attrs[c].len + 8) + 1
    <3> DEFINE item == items[c]
               attr == attrs[c]
    <3>1. /\ item \in GoodItems /\ attr \in Attributes /\ Class(item.type) = Class(attr.type)
          /\ Room(item, attr) /\ xs[c] = ReadAs(item, attr)
      BY <1>3, <1>4, <1>5
    <3> HIDE DEF item, attr
    <3>2. /\ SizeIn(item) <= attr.len + 8 /\ SizeIn(ReadAs(item, attr)) <= attr.len + 8
          /\ \A n \in Nat : n % 4 = 0 =>
               n + Touched(ReadAs(item, attr)) <= Aligned(n + attr.len + 8) + 1
      BY <3>1, ColumnFits
    <3> QED BY <3>1, <3>2 DEF item, attr
  <2> QED BY <2>1
<1>8. /\ \A n \in 0 .. L : Len(BytesUpTo(items)[n]) <= lens[n]
      /\ \A n \in 0 .. L : Len(BytesUpTo(xs)[n]) <= lens[n]
  <2>1. /\ \A c \in 1 .. L : SizeIn(items[c]) <= attrs[c].len + 8
        /\ \A c \in 1 .. L : SizeIn(xs[c]) <= attrs[c].len + 8
    BY <1>7
  <2>2. \A n \in 0 .. L : Len(BytesUpTo(items)[n]) <= lens[n] BY <1>1, <1>6, <2>1, LensBound
  <2>3. \A n \in 0 .. L : Len(BytesUpTo(xs)[n]) <= lens[n] BY <1>1, <1>6, <2>1, LensBound
  <2> QED BY <2>2, <2>3
<1>9. \A n \in 0 .. L : Len(BytesUpTo(items)[n]) \in Nat BY <1>6, BytesUpToLen
<1>10. \A n \in 0 .. L : Len(BytesUpTo(xs)[n]) \in Nat /\ Len(BytesUpTo(xs)[n]) % 4 = 0
  BY <1>6, BytesUpToLen
<1>11. /\ \A n \in 0 .. L : lens[n] \in Nat
       /\ \A n \in 1 .. L : lens[n] = lens[n - 1] + attrs[n].len + 8
  BY <1>1, LensUpToIs
<1>12. \A n \in 0 .. L : lens[n] <= lens[L]
  <2>1. ASSUME NEW n \in 0 .. L PROVE lens[n] <= lens[L]
    <3>1. L \in n .. L BY <1>5
    <3> QED BY <1>1, <3>1, LensGrow
  <2> QED BY <2>1
<1>13. L \in 0 .. L BY <1>5
<1> HIDE DEF L, lens
<1>14. lens[L] \in Nat /\ max \in Nat /\ lens[L] <= max BY <1>11, <1>13, <1>20, AlignedFacts
<1>15. ~(Len(row.bytes) > max)
  <2>1. row.bytes = BytesUpTo(items)[L] BY <1>4, <1>6, RowBytes
  <2>2. Len(BytesUpTo(items)[L]) \in Nat /\ Len(BytesUpTo(items)[L]) <= lens[L] BY <1>8, <1>9, <1>13
  <2> QED BY <1>14, <2>1, <2>2
<1>16. ASSUME NEW c \in Columns
       PROVE  ~(Len(BytesUpTo(xs)[c - 1]) + Touched(xs[c]) > max + 1)
  <2> DEFINE n == Len(BytesUpTo(xs)[c - 1])
             touched == Touched(xs[c])
             end == n + attrs[c].len + 8
  <2>1. c \in 1 .. L /\ c - 1 \in 0 .. L /\ c \in 0 .. L BY <1>5
  <2>2. n \in Nat /\ n % 4 = 0 /\ n <= lens[c - 1] BY <1>8, <1>10, <2>1
  <2>3. n + touched <= Aligned(end) + 1 BY <1>7, <2>1, <2>2
  <2>4. attrs[c].len \in Nat
    <3>1. attrs[c] \in Attributes BY <1>5
    <3> QED BY <3>1 DEF Attributes
  <2>5. /\ lens[c - 1] \in Nat /\ lens[c] \in Nat /\ lens[c] = lens[c - 1] + attrs[c].len + 8
        /\ lens[c] <= lens[L]
    BY <1>11, <1>12, <2>1
  <2>8. touched \in Nat
    <3>1. xs[c] \in GoodItems BY <1>3 DEF xs
    <3> DEFINE x == xs[c]
    <3>2. x.type \in DataTypes BY <3>1 DEF GoodItems, ItemSet
    <3>3. SizeOf(x.type) \in Nat BY <3>2, SizeFacts
    <3>4. IsCharType(x.type) => WriteLen(x) \in Nat BY <3>1, LenFacts
    <3>5. x = xs[c] OBVIOUS
    <3> HIDE DEF x
    <3>6. Touched(x) \in Nat BY <3>3, <3>4 DEF Touched, INT_SIZE, IsCharType
    <3> QED BY <3>5, <3>6
  <2> HIDE DEF n, touched
  <2>6. end \in Nat /\ end <= lens[L] BY <1>14, <2>2, <2>4, <2>5
  <2> HIDE DEF end
  <2>7. Aligned(end) \in Nat /\ Aligned(end) <= max BY <1>14, <1>20, <2>6, AlignedFacts
  <2> QED BY <1>14, <2>2, <2>3, <2>7, <2>8 DEF n, touched
<1> QED BY <1>15, <1>16 DEF xs, row

-----------------------------------------------------------------------------
\* Rows behind each other.

LEMMA BothItems ==
  ASSUME NEW S, NEW s \in Seq(S), NEW t \in Seq(S)
  PROVE  /\ s \o t \in Seq(S) /\ Len(s \o t) = Len(s) + Len(t)
         /\ Len(s) \in Nat /\ Len(t) \in Nat
         /\ \A i \in 1 .. Len(s) : (s \o t)[i] = s[i]
         /\ \A i \in 1 .. Len(t) : (s \o t)[Len(s) + i] = t[i]
<1>1. /\ s \o t \in Seq(S) /\ Len(s \o t) = Len(s) + Len(t)
      /\ Len(s) \in Nat /\ Len(t) \in Nat
      /\ \A i \in 1 .. Len(s) + Len(t) : (s \o t)[i] = IF i <= Len(s) THEN s[i] ELSE t[i - Len(s)]
  BY LenProperties, ConcatProperties
<1>2. ASSUME NEW i \in 1 .. Len(s) PROVE (s \o t)[i] = s[i]
  <2>1. i \in 1 .. Len(s) + Len(t) /\ i <= Len(s) BY <1>1
  <2> QED BY <1>1, <2>1
<1>3. ASSUME NEW i \in 1 .. Len(t) PROVE (s \o t)[Len(s) + i] = t[i]
  <2> DEFINE k == Len(s) + i
  <2>1. k \in 1 .. Len(s) + Len(t) /\ ~(k <= Len(s)) /\ k - Len(s) = i BY <1>1
  <2> HIDE DEF k
  <2>2. (s \o t)[k] = t[k - Len(s)] BY <1>1, <2>1
  <2> QED BY <2>1, <2>2 DEF k
<1> QED BY <1>1, <1>2, <1>3

\* The bytes of two rows are those of the row of both.
LEMMA BothBytes ==
  ASSUME NEW items \in Seq(GoodItems), NEW more \in Seq(GoodItems)
  PROVE  uMem2Disk(items \o more) = uMem2Disk(items) \o uMem2Disk(more)
<1> DEFINE all == items \o more
           L == Len(items)
           M == Len(more)
           a == BytesUpTo(items)
           b == BytesUpTo(more)
           c == BytesUpTo(all)
<1>1. /\ all \in Seq(GoodItems) /\ Len(all) = L + M /\ L \in Nat /\ M \in Nat
      /\ \A i \in 1 .. L : all[i] = items[i]
      /\ \A i \in 1 .. M : all[L + i] = more[i]
  BY BothItems
<1>2. /\ \A i \in 1 .. L : iTuple2Buffer(items[i]) \in Seq(ByteSet)
      /\ \A i \in 1 .. M : iTuple2Buffer(more[i]) \in Seq(ByteSet)
  <2>1. /\ \A i \in 1 .. L : items[i] \in GoodItems
        /\ \A i \in 1 .. M : more[i] \in GoodItems
    BY LenProperties, ElementOfSeq
  <2> QED BY <2>1, ItemBytes
<1>3. /\ a[0] = <<>> /\ \A n \in 1 .. L : a[n] = a[n - 1] \o iTuple2Buffer(items[n])
      /\ \A n \in 0 .. L : a[n] \in Seq(ByteSet)
  BY BytesUpToIs
<1>4. /\ b[0] = <<>> /\ \A n \in 1 .. M : b[n] = b[n - 1] \o iTuple2Buffer(more[n])
      /\ \A n \in 0 .. M : b[n] \in Seq(ByteSet)
  BY BytesUpToIs
<1>6. /\ uMem2Disk(items) = a[L] /\ uMem2Disk(more) = b[M]
      /\ uMem2Disk(all) = c[Len(all)]
  BY <1>1, RowBytes
<1> HIDE DEF all
<1>5. c[0] = <<>> /\ \A n \in 1 .. L + M : c[n] = c[n - 1] \o iTuple2Buffer(all[n])
  BY <1>1, BytesUpToIs
<1> HIDE DEF L, M, a, b, c
<1> DEFINE S == {n \in Nat : n \in 0 .. L => c[n] = a[n]}
           T == {n \in Nat : n \in 0 .. M => c[L + n] = a[L] \o b[n]}
<1>7. 0 \in S BY <1>3, <1>5
<1>8. ASSUME NEW n \in 0 .. L - 1, n \in S PROVE n + 1 \in S
  <2> DEFINE k == n + 1
  <2>1. k \in 1 .. L /\ k \in 1 .. L + M /\ k - 1 = n /\ n \in 0 .. L /\ k \in Nat BY <1>1
  <2> HIDE DEF k
  <2>2. c[n] = a[n] BY <1>8, <2>1
  <2>3. c[k] = c[n] \o iTuple2Buffer(all[k]) /\ a[k] = a[n] \o iTuple2Buffer(items[k])
        /\ all[k] = items[k]
    BY <1>1, <1>3, <1>5, <2>1
  <2>4. c[k] = a[k] BY <2>2, <2>3
  <2> QED BY <2>1, <2>4 DEF k
<1>9. 0 .. L \subseteq S
  <2> HIDE DEF S
  <2> QED BY <1>1, <1>7, <1>8, UpTo
<1>10. c[L] = a[L] /\ L \in 0 .. L BY <1>1, <1>9
<1>11. a[L] \in Seq(ByteSet) BY <1>3, <1>10
<1>12. 0 \in T
  <2>1. a[L] \o <<>> = a[L] BY <1>11, ConcatEmptySeq
  <2>2. L + 0 = L BY <1>1
  <2> QED BY <1>4, <1>10, <2>1, <2>2
<1>13. ASSUME NEW n \in 0 .. M - 1, n \in T PROVE n + 1 \in T
  <2> DEFINE k == n + 1
             j == L + k
  <2>1. k \in 1 .. M /\ k - 1 = n /\ n \in 0 .. M /\ k \in Nat
        /\ j \in 1 .. L + M /\ j - 1 = L + n
    BY <1>1
  <2>2. c[L + n] = a[L] \o b[n] BY <1>13, <2>1
  <2>3. all[j] = more[k] BY <1>1, <2>1
  <2> HIDE DEF k, j
  <2>4. c[j] = c[L + n] \o iTuple2Buffer(all[j]) BY <1>5, <2>1
  <2>5. b[k] = b[n] \o iTuple2Buffer(more[k]) /\ b[n] \in Seq(ByteSet) BY <1>4, <2>1
  <2>6. iTuple2Buffer(more[k]) \in Seq(ByteSet) BY <1>2, <2>1
  <2>7. (a[L] \o b[n]) \o iTuple2Buffer(more[k]) = a[L] \o (b[n] \o iTuple2Buffer(more[k]))
    <3> DEFINE p == a[L]
               q == b[n]
               r == iTuple2Buffer(more[k])
               S0 == ByteSet
    <3>1. p \in Seq(S0) /\ q \in Seq(S0) /\ r \in Seq(S0) BY <1>11, <2>5, <2>6
    <3> HIDE DEF p, q, r, S0
    <3>2. (p \o q) \o r = p \o (q \o r) BY <3>1, ConcatAssociative
    <3> QED BY <3>2 DEF p, q, r
  <2>8. c[j] = a[L] \o b[k] BY <2>2, <2>3, <2>4, <2>5, <2>7
  <2> QED BY <2>1, <2>8 DEF k, j
<1>14. 0 .. M \subseteq T
  <2> HIDE DEF T
  <2> QED BY <1>1, <1>12, <1>13, UpTo
<1>15. c[L + M] = a[L] \o b[M]
  <2>1. M \in 0 .. M BY <1>1
  <2>2. M \in T
    <3> HIDE DEF T
    <3> QED BY <1>14, <2>1
  <2> QED BY <2>1, <2>2
<1> QED BY <1>1, <1>6, <1>15 DEF all

LEMMA TwoRows ==
  ASSUME NEW left \in Seq(GoodItems), NEW right \in Seq(GoodItems)
  PROVE  /\ left \o right \in Seq(GoodItems) /\ Len(left \o right) = Len(left) + Len(right)
         /\ \A c \in 1 .. Len(left) : (left \o right)[c] = left[c]
         /\ \A c \in 1 .. Len(right) : (left \o right)[Len(left) + c] = right[c]
<1> DEFINE S == GoodItems
<1>1. left \in Seq(S) /\ right \in Seq(S) OBVIOUS
<1> HIDE DEF S
<1>2. /\ left \o right \in Seq(S) /\ Len(left \o right) = Len(left) + Len(right)
      /\ Len(left) \in Nat /\ Len(right) \in Nat
      /\ \A c \in 1 .. Len(left) : (left \o right)[c] = left[c]
      /\ \A c \in 1 .. Len(right) : (left \o right)[Len(left) + c] = right[c]
  BY <1>1, BothItems
<1> QED BY <1>2 DEF S

LEMMA BothColumns ==
  ASSUME attrs \in Seq(Attributes), NEW left \in Seq(GoodItems), NEW right \in Seq(GoodItems),
         Len(left) = Len(attrs), Len(right) = Len(attrs),
         \A c \in Columns : Class(left[c].type) = Class(attrs[c].type),
         \A c \in Columns : Class(right[c].type) = Class(attrs[c].type)
  PROVE  LET L == Len(attrs)
             table == attrs \o attrs
             items == left \o right
         IN  /\ table \in Seq(Attributes) /\ Len(table) = L + L
             /\ items \in Seq(GoodItems) /\ Len(items) = L + L
             /\ \A c \in 1 .. L : items[c] = left[c] /\ items[L + c] = right[c]
             /\ \A d \in 1 .. L + L : /\ Class(items[d].type) = Class(table[d].type)
                                      /\ Width(items[d].type) = Width(table[d].type)
<1> DEFINE L == Len(attrs)
           table == attrs \o attrs
           items == left \o right
<1>1. Columns = 1 .. L /\ L \in Nat /\ \A c \in Columns : attrs[c] \in Attributes BY TableIs
<1>2. /\ table \in Seq(Attributes) /\ Len(table) = L + L
      /\ \A c \in 1 .. L : table[c] = attrs[c] /\ table[L + c] = attrs[c]
  <2> DEFINE Z == Attributes
  <2>1. attrs \in Seq(Z) OBVIOUS
  <2> HIDE DEF Z
  <2> QED BY <2>1, BothItems DEF Z
<1>3. /\ items \in Seq(GoodItems) /\ Len(items) = L + L
      /\ \A c \in 1 .. L : items[c] = left[c] /\ items[L + c] = right[c]
  <2>1. /\ items \in Seq(GoodItems) /\ Len(items) = Len(left) + Len(right)
        /\ \A c \in 1 .. Len(left) : items[c] = left[c]
        /\ \A c \in 1 .. Len(right) : items[Len(left) + c] = right[c]
    BY TwoRows
  <2> QED BY <2>1
<1> HIDE DEF items, table, L
<1>6. ASSUME NEW d \in 1 .. L + L
      PROVE  /\ Class(items[d].type) = Class(table[d].type)
             /\ Width(items[d].type) = Width(table[d].type)
  <2>1. items[d] \in GoodItems /\ table[d] \in Attributes
    <3>1. d \in 1 .. Len(items) /\ d \in 1 .. Len(table) BY <1>2, <1>3
    <3> QED BY <1>2, <1>3, <3>1, LenProperties, ElementOfSeq
  <2>2. items[d].type \in DataTypes /\ table[d].type \in DataTypes
    BY <2>1 DEF GoodItems, ItemSet, Attributes
  <2>3. Class(items[d].type) = Class(table[d].type)
    <3>1. CASE d \in 1 .. L BY <1>1, <1>2, <1>3, <3>1
    <3>2. CASE d \notin 1 .. L
      <4> DEFINE c == d - L
      <4>1. c \in 1 .. L /\ d = L + c BY <1>1, <3>2
      <4> HIDE DEF c
      <4> QED BY <1>1, <1>2, <1>3, <4>1
    <3> QED BY <3>1, <3>2
  <2> QED BY <2>2, <2>3, ClassFacts
<1>7. \A d \in 1 .. L + L : /\ Class(items[d].type) = Class(table[d].type)
                           /\ Width(items[d].type) = Width(table[d].type)
  BY <1>6
<1> QED BY <1>2, <1>3, <1>7 DEF items, table, L

LEMMA BothTables ==
  ASSUME attrs \in Seq(Attributes), NEW left \in Seq(GoodItems), NEW right \in Seq(GoodItems),
         Len(left) = Len(attrs), Len(right) = Len(attrs),
         \A c \in Columns : Class(left[c].type) = Class(attrs[c].type),
         \A c \in Columns : Class(right[c].type) = Class(attrs[c].type)
  PROVE  LET read == vDisk2Mem(uMem2Disk(left) \o uMem2Disk(right), attrs \o attrs)
         IN  /\ DOMAIN read = 1 .. Len(attrs) + Len(attrs)
             /\ \A c \in Columns : /\ read[c].data = Stored(left[c])
                                   /\ read[Len(attrs) + c].data = Stored(right[c])
<1> DEFINE L == Len(attrs)
           table == attrs \o attrs
           items == left \o right
           read == vDisk2Mem(uMem2Disk(left) \o uMem2Disk(right), attrs \o attrs)
<1>1. Columns = 1 .. L /\ L \in Nat BY TableIs
<1>2. /\ table \in Seq(Attributes) /\ Len(table) = L + L
      /\ items \in Seq(GoodItems) /\ Len(items) = L + L
      /\ \A c \in 1 .. L : items[c] = left[c] /\ items[L + c] = right[c]
      /\ \A d \in 1 .. L + L : /\ Class(items[d].type) = Class(table[d].type)
                               /\ Width(items[d].type) = Width(table[d].type)
  BY BothColumns
<1>4. uMem2Disk(left) \o uMem2Disk(right) = uMem2Disk(items) BY BothBytes
<1>13. DOMAIN read = DOMAIN table BY DEF vDisk2Mem
<1>14. read = vDisk2Mem(uMem2Disk(items), table) BY <1>4
<1> HIDE DEF items, table, L, read
<1>5. DOMAIN read = 1 .. L + L BY <1>2, <1>13, LenProperties
<1>7. ASSUME NEW d \in 1 .. L + L PROVE read[d].data = Stored(items[d])
  <2>1. d \in 1 .. Len(table) /\ Len(items) = Len(table) BY <1>2
  <2>2. \A b \in 1 .. d - 1 : b \in 1 .. L + L BY <1>1
  <2>3. \A b \in 1 .. d - 1 : Width(items[b].type) = Width(table[b].type) BY <1>2, <2>2
  <2>4. Class(items[d].type) = Class(table[d].type) BY <1>2
  <2>5. vDisk2Mem(uMem2Disk(items), table)[d] = ReadAs(items[d], table[d])
    BY <1>2, <2>1, <2>3, <2>4, RowReads
  <2> QED BY <1>14, <2>5 DEF ReadAs, Item
<1>8. ASSUME NEW c \in Columns
      PROVE  read[c].data = Stored(left[c]) /\ read[L + c].data = Stored(right[c])
  <2> DEFINE d == L + c
  <2>1. c \in 1 .. L /\ c \in 1 .. L + L /\ d \in 1 .. L + L BY <1>1
  <2>2. items[c] = left[c] /\ items[d] = right[c] BY <1>2, <2>1
  <2> HIDE DEF d
  <2>3. read[c].data = Stored(items[c]) /\ read[d].data = Stored(items[d]) BY <1>7, <2>1
  <2> QED BY <2>2, <2>3 DEF d
<1> QED BY <1>5, <1>8 DEF read, L

Datas(items) == [c \in DOMAIN items |-> items[c].data]

\* xs is what is read of items.
ReadsAs(items, xs) ==
  /\ items \in [Columns -> GoodItems] /\ xs \in [Columns -> GoodItems]
  /\ \A c \in Columns : /\ Class(items[c].type) = Class(attrs[c].type)
                        /\ xs[c].data = Stored(items[c])

\* Both can be read where they are not too long together.
LEMMA BothReadable ==
  ASSUME attrs \in Seq(Attributes),
         NEW left, NEW xs, ReadsAs(left, xs), NEW right, NEW ys, ReadsAs(right, ys),
         Len(uMem2Disk(left)) + Len(uMem2Disk(right)) < FILE_LINE_LEN - 1
  PROVE  Readable(uMem2Disk(left) \o uMem2Disk(right), attrs \o attrs)
<1> DEFINE L == Len(attrs)
           table == attrs \o attrs
           items == left \o right
           one == uMem2Disk(left)
           two == uMem2Disk(right)
<1>1. /\ left \in Seq(GoodItems) /\ right \in Seq(GoodItems)
      /\ Len(left) = Len(attrs) /\ Len(right) = Len(attrs)
      /\ \A c \in Columns : Class(left[c].type) = Class(attrs[c].type)
      /\ \A c \in Columns : Class(right[c].type) = Class(attrs[c].type)
  BY ItemsAreSeq DEF ReadsAs
<1>2. /\ table \in Seq(Attributes) /\ Len(table) = L + L
      /\ items \in Seq(GoodItems) /\ Len(items) = L + L
      /\ \A d \in 1 .. L + L : Width(items[d].type) = Width(table[d].type)
  BY <1>1, BothColumns
<1>3. uMem2Disk(items) = one \o two BY <1>1, BothBytes
<1>4. one \in Seq(ByteSet) /\ two \in Seq(ByteSet) BY <1>1, RowBytes
<1>5. L \in Nat BY LenProperties
<1>6. FILE_LINE_LEN \in Nat /\ Len(one) + Len(two) < FILE_LINE_LEN - 1 BY RowsAssumption
<1>12. uMem2Disk(items) = BytesUpTo(items)[Len(items)] BY <1>2, RowBytes
<1> HIDE DEF items, table, L, one, two
<1>7. Len(one \o two) = Len(one) + Len(two) /\ Len(one) \in Nat /\ Len(two) \in Nat
  <2> DEFINE S == ByteSet
  <2>1. one \in Seq(S) /\ two \in Seq(S) BY <1>4
  <2> HIDE DEF S
  <2> QED BY <2>1, LenProperties, ConcatProperties
<1>8. Len(BytesUpTo(items)[Len(items)]) = Len(one) + Len(two) BY <1>3, <1>7, <1>12
<1>9. ASSUME NEW n \in 1 .. Len(table) PROVE Len(BytesUpTo(items)[n]) < FILE_LINE_LEN - 1
  <2>1. n \in 0 .. Len(items) BY <1>2, <1>5
  <2>2. Len(BytesUpTo(items)[n]) <= Len(BytesUpTo(items)[Len(items)]) BY <1>2, <2>1, BytesGrow
  <2>3. Len(BytesUpTo(items)[n]) \in Nat BY <1>2, <2>1, BytesUpToLen
  <2> QED BY <1>6, <1>7, <1>8, <2>2, <2>3
<1>10. Readable(uMem2Disk(items), table)
  <2>1. \A c \in 1 .. Len(table) : Width(items[c].type) = Width(table[c].type) BY <1>2
  <2> QED BY <1>2, <1>9, <2>1, RowReadable
<1> QED BY <1>3, <1>10 DEF one, two, table

\* What is read of both is what is read of each.
LEMMA BothRead ==
  ASSUME attrs \in Seq(Attributes),
         NEW left, NEW xs, ReadsAs(left, xs), NEW right, NEW ys, ReadsAs(right, ys)
  PROVE  Datas(vDisk2Mem(uMem2Disk(left) \o uMem2Disk(right), attrs \o attrs))
           = Datas(xs) \o Datas(ys)
<1> DEFINE L == Len(attrs)
           D == Int \cup Texts \cup {Null}
           read == vDisk2Mem(uMem2Disk(left) \o uMem2Disk(right), attrs \o attrs)
           a == [c \in DOMAIN xs |-> xs[c].data]
           b == [c \in DOMAIN ys |-> ys[c].data]
           both == a \o b
           r == [d \in DOMAIN read |-> read[d].data]
<1>13. /\ left \in [Columns -> GoodItems] /\ right \in [Columns -> GoodItems]
       /\ xs \in [Columns -> GoodItems] /\ ys \in [Columns -> GoodItems]
       /\ \A c \in Columns : /\ Class(left[c].type) = Class(attrs[c].type)
                             /\ xs[c].data = Stored(left[c])
       /\ \A c \in Columns : /\ Class(right[c].type) = Class(attrs[c].type)
                             /\ ys[c].data = Stored(right[c])
  BY DEF ReadsAs
<1>1. Columns = 1 .. L /\ L \in Nat BY TableIs
<1>2. /\ left \in Seq(GoodItems) /\ Len(left) = L /\ right \in Seq(GoodItems) /\ Len(right) = L
  BY <1>13, ItemsAreSeq
<1>3. /\ DOMAIN read = 1 .. L + L
      /\ \A c \in Columns : read[c].data = Stored(left[c]) /\ read[L + c].data = Stored(right[c])
  BY <1>2, <1>13, BothTables
<1>4. a \in [1 .. L -> D] /\ b \in [1 .. L -> D]
  <2>1. \A item \in GoodItems : item.data \in D BY DEF GoodItems, ItemSet
  <2> HIDE DEF D, L
  <2>2. \A c \in 1 .. L : xs[c].data \in D /\ ys[c].data \in D BY <1>1, <1>13, <2>1
  <2>3. DOMAIN xs = 1 .. L /\ DOMAIN ys = 1 .. L BY <1>1, <1>13
  <2> QED BY <2>2, <2>3
<1>5. /\ \A c \in Columns : a[c] = Stored(left[c])
      /\ \A c \in Columns : b[c] = Stored(right[c])
  BY <1>13
<1>12. r = [d \in DOMAIN read |-> read[d].data] OBVIOUS
<1> HIDE DEF L, D, a, b, read, r
<1>6. a \in Seq(D) /\ b \in Seq(D) /\ Len(a) = L /\ Len(b) = L BY <1>1, <1>4
<1>7. /\ both \in Seq(D) /\ Len(both) = L + L
      /\ \A i \in 1 .. L : both[i] = a[i] /\ both[L + i] = b[i]
  <2>1. /\ both \in Seq(D) /\ Len(both) = Len(a) + Len(b)
        /\ \A i \in 1 .. Len(a) : both[i] = a[i]
        /\ \A i \in 1 .. Len(b) : both[Len(a) + i] = b[i]
    <3> HIDE DEF both
    <3>1. /\ a \o b \in Seq(D) /\ Len(a \o b) = Len(a) + Len(b)
          /\ Len(a) \in Nat /\ Len(b) \in Nat
          /\ \A i \in 1 .. Len(a) : (a \o b)[i] = a[i]
          /\ \A i \in 1 .. Len(b) : (a \o b)[Len(a) + i] = b[i]
      <4>1. a \in Seq(D) /\ b \in Seq(D) BY <1>6
      <4> QED BY <4>1, BothItems
    <3> QED BY <3>1 DEF both
  <2> QED BY <1>6, <2>1
<1> HIDE DEF both
<1>8. both = [d \in 1 .. L + L |-> both[d]]
  <2>1. both \in [1 .. Len(both) -> D] BY <1>7, LenProperties
  <2>2. both \in [1 .. L + L -> D] BY <1>7, <2>1
  <2> QED BY <2>2
<1>9. ASSUME NEW d \in 1 .. L + L PROVE both[d] = read[d].data
  <2>1. CASE d \in 1 .. L
    BY <1>1, <1>3, <1>5, <1>7, <2>1
  <2>2. CASE d \notin 1 .. L
    <3> DEFINE c == d - L
    <3>1. c \in 1 .. L /\ d = L + c BY <1>1, <2>2
    <3> HIDE DEF c
    <3> QED BY <1>1, <1>3, <1>5, <1>7, <3>1
  <2> QED BY <2>1, <2>2
<1>10. r = both BY <1>3, <1>8, <1>9, <1>12
<1> QED BY <1>10 DEF r, read, both, a, b, Datas

\* A row that is written again, by a projection, reads as it did.
LEMMA AgainIs ==
  ASSUME attrs \in Seq(Attributes), NEW xs \in [Columns -> GoodItems], xs \in [Columns -> Values],
         TypesOf(xs)
  PROVE  LET again == Copied(NewTuple(attrs), xs)
         IN  /\ again \in [Columns -> GoodItems]
             /\ \A c \in Columns : /\ Class(again[c].type) = Class(attrs[c].type)
                                   /\ Stored(again[c]) = xs[c].data
<1> DEFINE new == NewTuple(attrs)
           again == Copied(new, xs)
<1>1. /\ new \in [Columns -> GoodItems]
      /\ \A c \in Columns : new[c].type = attrs[c].type
  <2>1. /\ new \in [Columns -> GoodItems]
        /\ \A c \in Columns : new[c] = initHeapTupleItembyAttrData(attrs[c])
    BY NewTupleIs
  <2>2. \A c \in Columns : attrs[c] \in Attributes BY TableIs
  <2> HIDE DEF new
  <2>3. \A c \in Columns : initHeapTupleItembyAttrData(attrs[c]).type = attrs[c].type
    BY <2>2, NewItem
  <2> QED BY <2>1, <2>3
<1> HIDE DEF new
<1>2. /\ again \in [Columns -> Results]
      /\ \A c \in Columns :
           /\ again[c] # Dies =>
                /\ again[c] \in GoodItems /\ again[c].data # Null
                /\ again[c].type = xs[c].type /\ again[c].data = xs[c].data
           /\ Class(new[c].type) = Class(xs[c].type) => again[c] # Dies
  BY <1>1, CopiedIs
<1> HIDE DEF again
<1>3. ASSUME NEW c \in Columns
      PROVE  /\ again[c] \in GoodItems /\ Class(again[c].type) = Class(attrs[c].type)
             /\ Stored(again[c]) = xs[c].data
  <2>1. xs[c].type = attrs[c].type BY DEF TypesOf
  <2>2. again[c] # Dies BY <1>1, <1>2, <2>1
  <2> QED BY <1>2, <2>1, <2>2 DEF Stored
<1>4. again \in [Columns -> GoodItems] BY <1>2, <1>3
<1> QED BY <1>3, <1>4 DEF again, new

\* Rows that are put behind each other read as they did.
LEMMA InvJoins ==
  ASSUME RowsInv
  PROVE  JoinReads
<1> SUFFICES ASSUME NEW q \in DOMAIN rows, NEW s \in DOMAIN rows, Typed(rows[q]), Typed(rows[s]),
                    NEW bytes \in {rows[q].bytes,
                                   uMem2Disk(Copied(NewTuple(attrs), Heaptuple(rows[q])))},
                    Len(bytes) + Len(rows[s].bytes) < FILE_LINE_LEN - 1
             PROVE  /\ Readable(bytes \o rows[s].bytes, attrs \o attrs)
                    /\ Datas(vDisk2Mem(bytes \o rows[s].bytes, attrs \o attrs))
                         = Datas(Heaptuple(rows[q])) \o Datas(Heaptuple(rows[s]))
  BY DEF JoinReads, Datas, Sound
<1> DEFINE one == rows[q]
           two == rows[s]
<1>1. attrs \in Seq(Attributes) /\ RowInv(one) /\ RowInv(two) /\ Typed(one) /\ Typed(two)
  BY DEF RowsInv, RowsHeld
<1>2. bytes = one.bytes \/ bytes = uMem2Disk(Copied(NewTuple(attrs), Heaptuple(one))) OBVIOUS
<1>21. Len(bytes) + Len(two.bytes) < FILE_LINE_LEN - 1 OBVIOUS
<1> HIDE DEF one, two
<1>3. PICK left : RowOf(one, left) BY <1>1 DEF RowInv
<1>4. PICK right : RowOf(two, right) BY <1>1 DEF RowInv
<1> DEFINE xs == Heaptuple(one)
           ys == Heaptuple(two)
<1>5. /\ xs \in [Columns -> GoodItems] /\ xs \in [Columns -> Values] /\ TypesOf(xs)
      /\ \A c \in Columns : /\ xs[c] = ReadAs(left[c], attrs[c])
                            /\ Class(left[c].type) = Class(attrs[c].type)
  BY <1>1, <1>3, TypedRead
<1>6. /\ ys \in [Columns -> GoodItems]
      /\ \A c \in Columns : /\ ys[c] = ReadAs(right[c], attrs[c])
                            /\ Class(right[c].type) = Class(attrs[c].type)
  BY <1>1, <1>4, TypedRead
<1>7. /\ left \in [Columns -> GoodItems] /\ one.bytes = uMem2Disk(left)
      /\ right \in [Columns -> GoodItems] /\ two.bytes = uMem2Disk(right)
  BY <1>3, <1>4 DEF RowOf
<1>20. bytes = one.bytes \/ bytes = uMem2Disk(Copied(NewTuple(attrs), xs)) BY <1>2
<1> HIDE DEF xs, ys
<1>8. /\ \A c \in Columns : xs[c].data = Stored(left[c])
      /\ \A c \in Columns : ys[c].data = Stored(right[c])
  BY <1>5, <1>6 DEF ReadAs, Item
<1>11. ReadsAs(left, xs) /\ ReadsAs(right, ys) BY <1>5, <1>6, <1>7, <1>8 DEF ReadsAs
<1>9. CASE bytes = one.bytes
  <2>1. Datas(vDisk2Mem(uMem2Disk(left) \o uMem2Disk(right), attrs \o attrs)) = Datas(xs) \o Datas(ys)
    BY <1>1, <1>11, BothRead
  <2>2. Len(uMem2Disk(left)) + Len(uMem2Disk(right)) < FILE_LINE_LEN - 1 BY <1>7, <1>9, <1>21
  <2>3. Readable(uMem2Disk(left) \o uMem2Disk(right), attrs \o attrs)
    BY <1>1, <1>11, <2>2, BothReadable
  <2> QED BY <1>7, <1>9, <2>1, <2>3 DEF xs, ys, one, two
<1>10. CASE bytes = uMem2Disk(Copied(NewTuple(attrs), xs))
  <2> DEFINE again == Copied(NewTuple(attrs), xs)
  <2>1. /\ again \in [Columns -> GoodItems]
        /\ \A c \in Columns : /\ Class(again[c].type) = Class(attrs[c].type)
                              /\ Stored(again[c]) = xs[c].data
    BY <1>1, <1>5, AgainIs
  <2>2. bytes = uMem2Disk(again) BY <1>10
  <2> HIDE DEF again
  <2>3. ReadsAs(again, xs) BY <1>5, <2>1 DEF ReadsAs
  <2>4. Datas(vDisk2Mem(uMem2Disk(again) \o uMem2Disk(right), attrs \o attrs)) = Datas(xs) \o Datas(ys)
    BY <1>1, <1>11, <2>3, BothRead
  <2>5. Len(uMem2Disk(again)) + Len(uMem2Disk(right)) < FILE_LINE_LEN - 1 BY <1>7, <1>21, <2>2
  <2>6. Readable(uMem2Disk(again) \o uMem2Disk(right), attrs \o attrs)
    BY <1>1, <1>11, <2>3, <2>5, BothReadable
  <2> QED BY <1>7, <2>2, <2>4, <2>6 DEF xs, ys, one, two
<1> QED BY <1>9, <1>10, <1>20

-----------------------------------------------------------------------------
\* An UPDATE at a row.

LEMMA AtRow ==
  ASSUME RowsInv, Scanning
  PROVE  /\ attrs \in Seq(Attributes) /\ UpdateHeld /\ upd.next \in DOMAIN rows
         /\ RowInv(rows[upd.next]) /\ upd.stmt \in Updates /\ Applicable(upd.stmt)
         /\ upd.new \in [Columns -> GoodItems]
<1>1. upd.running /\ upd.next <= upd.last BY DEF Scanning
<1>2. upd # NoUpdate BY <1>1 DEF NoUpdate
<1>3. UpdateHeld /\ attrs \in Seq(Attributes) /\ rows \in Seq(RowSet) /\ RowsHeld
  BY <1>2 DEF RowsInv
<1>4. /\ upd.next \in Nat \ {0} /\ upd.last \in Nat /\ upd.last <= Len(rows)
      /\ upd.stmt \in Updates /\ Applicable(upd.stmt) /\ upd.new \in [Columns -> GoodItems]
  BY <1>3 DEF UpdateHeld, UpdateSet
<1>5. upd.next \in DOMAIN rows BY <1>1, <1>3, <1>4, LenProperties
<1> QED BY <1>3, <1>4, <1>5 DEF RowsHeld

LEMMA CurrentIs ==
  ASSUME RowsInv, Scanning, Sound(rows[upd.next])
  PROVE  /\ Readable(rows[upd.next].bytes, attrs)
         /\ Current \in [Columns -> Values] /\ TypesOf(Current)
         /\ \A c \in Columns : Says(Current[c], rows[upd.next].meant[c])
<1> DEFINE row == rows[upd.next]
<1>1. attrs \in Seq(Attributes) /\ RowInv(row) /\ Typed(row) BY AtRow DEF Sound
<1>2. Current = Heaptuple(row) BY DEF Current
<1> HIDE DEF row
<1>3. PICK items : RowOf(row, items) BY <1>1 DEF RowInv
<1>4. /\ Heaptuple(row) \in [Columns -> Values] /\ TypesOf(Heaptuple(row))
      /\ \A c \in Columns : Says(Heaptuple(row)[c], row.meant[c])
  BY <1>1, <1>3, TypedRead
<1>5. Readable(row.bytes, attrs) BY <1>1, <1>3, TypedReadable
<1> QED BY <1>2, <1>4, <1>5 DEF row

LEMMA WhereIs ==
  ASSUME NEW u \in Updates, Applicable(u), WellTyped(u),
         NEW old \in [Columns -> Values], TypesOf(old)
  PROVE  /\ u.where.op \in {"NULL"} \cup Comparisons
         /\ Expr_Calculate(u.where, old) \in BOOLEAN
<1> DEFINE e == u.where
<1>1. /\ e \in [op : {"NULL"}] \cup Operands \cup Operations(Arithmetic \cup Comparisons)
      /\ e.op # "NULL" => e.op \in Comparisons /\ TypeOf(e) # "NONE"
      /\ ColumnsOf(e) \subseteq Columns
  BY RowsAssumption DEF WellTyped, Applicable
<1> HIDE DEF e
<1>2. CASE e.op = "NULL"
  <2>1. Expr_Calculate(e, old) = TRUE BY <1>2 DEF Expr_Calculate
  <2> QED BY <1>2, <2>1 DEF e
<1>3. CASE e.op # "NULL"
  <2>1. e.op \in Comparisons /\ TypeOf(e) # "NONE" BY <1>1, <1>3
  <2>2. /\ e.op \notin {"NULL", "COLUMN", "CONSTANT"} /\ e.op \notin Arithmetic
        /\ e.op \in Arithmetic \cup Comparisons
    BY <2>1, OpsApart
  <2>3. e \in Operands \cup Operations(Arithmetic \cup Comparisons) BY <1>1, <1>3
  <2>4. e.args[1] \in Operands /\ e.args[2] \in Operands BY <2>2, <2>3, SettableForms
  <2> DEFINE a == Operand(e.args[1], old)
             b == Operand(e.args[2], old)
  <2>5. /\ a \in Values /\ b \in Values
        /\ \/ IsNumericType(a.type) /\ IsNumericType(b.type)
           \/ Class(a.type) = Class(b.type)
    BY <1>1, <2>1, <2>2, <2>4, TypedArgs
  <2>6. Expr_Calculate(e, old) = Compares(e.op, a, b) BY <2>2 DEF Expr_Calculate
  <2> HIDE DEF a, b
  <2>7. Compares(e.op, a, b) \in BOOLEAN BY <2>1, <2>5, ComparesIs
  <2> QED BY <2>1, <2>6, <2>7 DEF e
<1> QED BY <1>2, <1>3

\* Where the types fit, nothing ends an UPDATE before a row that is sound is deleted.
LEMMA InvFinish ==
  ASSUME RowsInv, UpdateDies, Sound(rows[upd.next]), WellTyped(upd.stmt)
  PROVE  FALSE
<1>1. Scanning /\ (Matches = Dies \/ (Matches = TRUE /\ Broken(Updated)))
  BY DEF UpdateDies, Changes
<1>2. /\ attrs \in Seq(Attributes) /\ UpdateHeld /\ upd.stmt \in Updates /\ Applicable(upd.stmt)
      /\ upd.new \in [Columns -> GoodItems]
  BY <1>1, AtRow
<1>3. /\ Current \in [Columns -> Values] /\ TypesOf(Current)
      /\ Readable(rows[upd.next].bytes, attrs)
  BY <1>1, CurrentIs
<1> DEFINE u == upd.stmt
           new == upd.new
           old == Current
<1>4. u \in Updates /\ Applicable(u) /\ WellTyped(u) /\ new \in [Columns -> GoodItems]
      /\ old \in [Columns -> Values] /\ TypesOf(old)
  BY <1>2, <1>3
<1>5. Classes(new) BY <1>2 DEF UpdateHeld
<1>6. Updated = UpdatedItems(u, new, old) BY DEF Updated
<1>7. Matches = IF u.where.op \in {"NULL"} \cup Comparisons
                THEN Expr_Calculate(u.where, old) ELSE Dies
  BY <1>3 DEF Matches
<1> HIDE DEF u, new, old
<1>8. u.where.op \in {"NULL"} \cup Comparisons /\ Expr_Calculate(u.where, old) \in BOOLEAN
  BY <1>4, WhereIs
<1>9. Matches \in BOOLEAN BY <1>7, <1>8
<1>10. Dies \notin BOOLEAN BY ItemsAssumption
<1>11. ~Broken(UpdatedItems(u, new, old)) BY <1>2, <1>4, <1>5, UpdatedFits
<1>12. ~Broken(Updated) BY <1>6, <1>11
<1> QED BY <1>1, <1>9, <1>10, <1>12

\* A row that is lost makes way for one that is too long.
LEMMA InvLost ==
  ASSUME RowsInv, UpdateLosesRow
  PROVE  ~Roomy(Updated) \/ Len(uMem2Disk(Updated)) >= FILE_LINE_LEN - 1
<1>1. /\ Scanning /\ Sound(rows[upd.next]) /\ ~Broken(Updated)
      /\ ~Writable(Updated) \/ ~Roomy(Updated)
  BY DEF UpdateLosesRow, Changes
<1>2. /\ attrs \in Seq(Attributes) /\ upd.stmt \in Updates /\ Applicable(upd.stmt)
      /\ upd.new \in [Columns -> GoodItems]
  BY <1>1, AtRow
<1>3. Current \in [Columns -> Values] BY <1>1, CurrentIs
<1> DEFINE u == upd.stmt
           new == upd.new
           old == Current
           items == Updated
<1>4. items = UpdatedItems(u, new, old) BY DEF Updated
<1>5. items \in [Columns -> GoodItems] /\ \A c \in Columns : items[c].data # Null
  <2>1. /\ u \in Updates /\ Applicable(u) /\ new \in [Columns -> GoodItems]
        /\ old \in [Columns -> Values] /\ ~Broken(items)
    BY <1>1, <1>2, <1>3
  <2> HIDE DEF u, new, old, items
  <2> QED BY <1>2, <1>4, <2>1, UpdatedIs
<1>6. ~Writable(items) \/ ~Roomy(items) BY <1>1
<1>7. FILE_LINE_LEN \in Nat BY RowsAssumption
<1> HIDE DEF items
<1>8. items \in Seq(GoodItems) /\ DOMAIN items = Columns BY <1>2, <1>5, ItemsAreSeq
<1>9. uMem2Disk(items) = BytesUpTo(items)[Len(items)] BY <1>8, RowBytes
<1>10. ASSUME ~Writable(items) PROVE Len(uMem2Disk(items)) >= FILE_LINE_LEN - 1
  <2>1. PICK n \in DOMAIN items : ~(Len(BytesUpTo(items)[n]) < FILE_LINE_LEN - 1)
    BY <1>5, <1>8, <1>10 DEF Writable
  <2>2. n \in 0 .. Len(items) /\ Len(items) \in 0 .. Len(items) BY <1>8, LenProperties
  <2>3. Len(BytesUpTo(items)[n]) \in Nat /\ Len(BytesUpTo(items)[Len(items)]) \in Nat
    BY <1>8, <2>2, BytesUpToLen
  <2>4. Len(BytesUpTo(items)[n]) <= Len(BytesUpTo(items)[Len(items)]) BY <1>8, <2>2, BytesGrow
  <2> QED BY <1>7, <1>9, <2>1, <2>3, <2>4
<1> QED BY <1>6, <1>10 DEF items

-----------------------------------------------------------------------------
\* The invariant holds and is kept.

LEMMA Kept ==
  ASSUME attrs' = attrs
  PROVE  /\ Columns' = Columns /\ RowSet' = RowSet /\ UpdateSet' = UpdateSet
         /\ \A row : RowInv(row)' <=> RowInv(row)
         /\ \A u : Applicable(u)' <=> Applicable(u)
         /\ \A e : TypeOf(e)' = TypeOf(e)
         /\ \A u : WellTyped(u)' <=> WellTyped(u)
         /\ \A items : Classes(items)' <=> Classes(items)
<1>1. Columns' = Columns BY DEF Columns
<1>2. RowSet' = RowSet /\ UpdateSet' = UpdateSet BY <1>1 DEF RowSet, UpdateSet
<1>3. \A row : RowInv(row)' <=> RowInv(row) BY <1>1 DEF RowInv, RowOf
<1>4. \A u : Applicable(u)' <=> Applicable(u) BY <1>1 DEF Applicable
<1>5. \A e : TypeOf(e)' = TypeOf(e) BY DEF TypeOf
<1>6. \A u : WellTyped(u)' <=> WellTyped(u) BY <1>5 DEF WellTyped
<1>7. \A items : Classes(items)' <=> Classes(items) BY <1>1 DEF Classes
<1> QED BY <1>1, <1>2, <1>3, <1>4, <1>5, <1>6, <1>7

\* One row is marked as deleted.
SameRow(r, s) == r.bytes = s.bytes /\ r.roomy = s.roomy /\ r.meant = s.meant

LEMMA RowMarked ==
  ASSUME rows \in Seq(RowSet), NEW i \in DOMAIN rows
  PROVE  LET more == [rows EXCEPT ![i].deleted = TRUE]
         IN  /\ more \in Seq(RowSet) /\ Len(more) = Len(rows)
             /\ \A r \in DOMAIN rows : SameRow(more[r], rows[r])
<1> DEFINE S == RowSet
           L == Len(rows)
           more == [rows EXCEPT ![i].deleted = TRUE]
<1>1. L \in Nat /\ DOMAIN rows = 1 .. L /\ rows \in [1 .. L -> S] BY LenProperties
<1>2. \A r \in S : [r EXCEPT !.deleted = TRUE] \in S /\ SameRow([r EXCEPT !.deleted = TRUE], r)
  BY DEF RowSet, SameRow
<1>3. \A r \in S : SameRow(r, r) BY DEF SameRow
<1> HIDE DEF S, L
<1>4. more = [rows EXCEPT ![i] = [rows[i] EXCEPT !.deleted = TRUE]] OBVIOUS
<1>5. i \in 1 .. L BY <1>1
<1>6. more \in [1 .. L -> S] BY <1>1, <1>2, <1>4, <1>5
<1>7. more \in Seq(S) /\ Len(more) = L BY <1>1, <1>6
<1>8. \A r \in DOMAIN rows : SameRow(more[r], rows[r]) BY <1>1, <1>2, <1>3, <1>4, <1>5
<1> QED BY <1>7, <1>8 DEF S, L

LEMMA RowAdded ==
  ASSUME attrs' = attrs, rows \in Seq(RowSet), RowsHeld,
         NEW more \in Seq(RowSet), Len(more) = Len(rows),
         \A r \in DOMAIN rows : SameRow(more[r], rows[r]),
         NEW row \in RowSet, RowInv(row), rows' = Append(more, row)
  PROVE  /\ (rows \in Seq(RowSet))' /\ RowsHeld' /\ Len(rows)' = Len(rows) + 1
<1> DEFINE L == Len(rows)
           S == RowSet
<1>1. Columns' = Columns /\ RowSet' = S /\ \A x : RowInv(x)' <=> RowInv(x) BY Kept
<1>2. more \in Seq(S) /\ row \in S /\ rows \in Seq(S) OBVIOUS
<1> HIDE DEF S
<1>3. /\ Append(more, row) \in Seq(S) /\ Len(Append(more, row)) = L + 1 /\ L \in Nat
      /\ \A r \in 1 .. L : Append(more, row)[r] = more[r]
      /\ Append(more, row)[L + 1] = row
      /\ DOMAIN rows = 1 .. L
  BY <1>2, LenProperties, AppendProperties
<1>4. ASSUME NEW r \in 1 .. L + 1 PROVE RowInv(rows'[r])
  <2>1. CASE r \in 1 .. L
    <3>1. SameRow(rows'[r], rows[r]) BY <1>3, <2>1
    <3>2. RowInv(rows[r]) BY <1>3, <2>1 DEF RowsHeld
    <3> QED BY <3>1, <3>2 DEF RowInv, RowOf, SameRow
  <2>2. CASE r = L + 1 BY <1>3, <2>2
  <2> QED BY <1>3, <2>1, <2>2
<1>5. DOMAIN rows' = 1 .. L + 1 BY <1>2, <1>3, LenProperties
<1>6. \A r \in DOMAIN rows' : RowInv(rows'[r]) BY <1>4, <1>5
<1>7. RowsHeld' BY <1>1, <1>6 DEF RowsHeld, RowInv, RowOf
<1> QED BY <1>1, <1>3, <1>7 DEF S

LEMMA UpdateKept ==
  ASSUME attrs' = attrs, NEW u, upd' = u, u \in UpdateSet, Applicable(u.stmt), u.last <= Len(rows'),
         WellTyped(u.stmt) => Classes(u.new)
  PROVE  UpdateHeld'
<1>1. /\ UpdateSet' = UpdateSet
      /\ \A x : Applicable(x)' <=> Applicable(x)
      /\ \A x : WellTyped(x)' <=> WellTyped(x)
      /\ \A x : Classes(x)' <=> Classes(x)
  BY Kept
<1>2. /\ u \in UpdateSet' /\ upd' = u /\ Applicable(u.stmt)' /\ u.last <= Len(rows')
      /\ WellTyped(u.stmt)' => Classes(u.new)'
  BY <1>1
<1> QED BY <1>2 DEF UpdateHeld

LEMMA RowMade ==
  ASSUME attrs \in Seq(Attributes), NEW items \in [Columns -> GoodItems], Writable(items),
         NEW meant, meant = [c \in Columns |-> meant[c]],
         \A c \in Columns : Says(items[c], meant[c])
  PROVE  Row(items, meant) \in RowSet /\ RowInv(Row(items, meant))
<1> DEFINE row == Row(items, meant)
<1>1. /\ row.bytes = uMem2Disk(items) /\ row.meant = meant
      /\ row.roomy = Roomy(items)
      /\ row = [bytes |-> uMem2Disk(items), deleted |-> FALSE, roomy |-> Roomy(items),
                meant |-> meant]
  BY DEF Row
<1>2. items \in Seq(GoodItems) BY ItemsAreSeq
<1>3. uMem2Disk(items) \in Seq(ByteSet) BY <1>2, RowBytes
<1>4. \A c \in Columns : meant[c] \in MeantItems BY DEF Says
<1>5. meant \in [Columns -> MeantItems] BY <1>4
<1>6. row \in RowSet
  <2> DEFINE bytes == uMem2Disk(items)
             room == Roomy(items)
             S == Seq(ByteSet)
             T == [Columns -> MeantItems]
  <2>1. bytes \in S /\ meant \in T /\ room \in BOOLEAN BY <1>3, <1>5 DEF Roomy
  <2>2. row = [bytes |-> bytes, deleted |-> FALSE, roomy |-> room, meant |-> meant] BY <1>1
  <2>3. RowSet = [bytes : S, deleted : BOOLEAN, roomy : BOOLEAN, meant : T] BY DEF RowSet
  <2> HIDE DEF bytes, room, S, T, row
  <2> QED BY <2>1, <2>2, <2>3
<1> HIDE DEF row
<1>7. RowOf(row, items) BY <1>1 DEF RowOf, Roomy, Room
<1> QED BY <1>6, <1>7 DEF RowInv, row

LEMMA InsertKeeps ==
  ASSUME RowsInv, NEW ins \in Inserts, Insert(ins)
  PROVE  RowsInv'
<1> DEFINE items == InsertItems(ins)
           meant == MeantByInsert(ins)
           row == Row(items, meant)
<1>1. /\ attrs \in Seq(Attributes) /\ rows \in Seq(RowSet) /\ RowsHeld
      /\ upd = NoUpdate \/ UpdateHeld
  BY DEF RowsInv
<1>2. /\ ~upd.running /\ InsertMatches(ins) /\ Writable(items)
      /\ rows' = Append(rows, row) /\ attrs' = attrs /\ upd' = upd
  BY DEF Insert
<1>3. /\ items \in TableItems
      /\ \A c \in Columns : Says(items[c], meant[c])
  BY <1>1, <1>2, InsertSays
<1>4. meant = [c \in Columns |-> meant[c]] BY DEF MeantByInsert
<1> HIDE DEF items, meant
<1>5. items \in [Columns -> GoodItems] BY <1>3 DEF TableItems
<1>6. row \in RowSet /\ RowInv(row) BY <1>1, <1>2, <1>3, <1>4, <1>5, RowMade
<1>10. \A r \in DOMAIN rows : SameRow(rows[r], rows[r]) BY DEF SameRow
<1> HIDE DEF row
<1>7. (rows \in Seq(RowSet))' /\ RowsHeld' BY <1>1, <1>2, <1>6, <1>10, RowAdded
<1>8. upd' = NoUpdate BY <1>1, <1>2 DEF UpdateHeld, UpdateSet
<1>9. (attrs \in Seq(Attributes))' BY <1>1, <1>2
<1> QED BY <1>7, <1>8, <1>9 DEF RowsInv, NoUpdate

\* A step that leaves the rows alone.
LEMMA RowsKept ==
  ASSUME RowsInv, attrs' = attrs, rows' = rows
  PROVE  (attrs \in Seq(Attributes) /\ rows \in Seq(RowSet) /\ RowsHeld)'
<1>1. attrs \in Seq(Attributes) /\ rows \in Seq(RowSet) /\ RowsHeld BY DEF RowsInv
<1>2. RowSet' = RowSet /\ Columns' = Columns BY Kept
<1>3. RowsHeld' BY <1>1, <1>2 DEF RowsHeld, RowInv, RowOf
<1> QED BY <1>1, <1>2, <1>3

LEMMA StartKeeps ==
  ASSUME RowsInv, NEW u \in Updates, UpdateStart(u)
  PROVE  RowsInv'
<1> DEFINE start == [running |-> TRUE, stmt |-> u, next |-> 1, last |-> Len(rows),
                     new |-> NewTuple(attrs)]
<1>1. attrs \in Seq(Attributes) /\ rows \in Seq(RowSet) BY DEF RowsInv
<1>2. Applicable(u) /\ upd' = start /\ attrs' = attrs /\ rows' = rows BY DEF UpdateStart
<1>3. /\ NewTuple(attrs) \in [Columns -> GoodItems]
      /\ \A c \in Columns : NewTuple(attrs)[c] = initHeapTupleItembyAttrData(attrs[c])
  BY <1>1, NewTupleIs
<1>4. Classes(NewTuple(attrs))
  <2>1. \A c \in Columns : attrs[c] \in Attributes BY <1>1, TableIs
  <2>2. \A c \in Columns : initHeapTupleItembyAttrData(attrs[c]).type = attrs[c].type
    BY <2>1, NewItem
  <2> QED BY <1>3, <2>2 DEF Classes
<1>5. Len(rows) \in Nat BY <1>1, LenProperties
<1>6. start \in UpdateSet BY <1>3, <1>5 DEF UpdateSet
<1>7. start.stmt = u /\ start.last = Len(rows) /\ start.new = NewTuple(attrs) OBVIOUS
<1> HIDE DEF start
<1>8. UpdateHeld' BY <1>2, <1>4, <1>5, <1>6, <1>7, UpdateKept
<1>9. (attrs \in Seq(Attributes) /\ rows \in Seq(RowSet) /\ RowsHeld)' BY <1>2, RowsKept
<1> QED BY <1>8, <1>9 DEF RowsInv

LEMMA PassKeeps ==
  ASSUME RowsInv, PassRow
  PROVE  RowsInv'
<1> DEFINE on == [upd EXCEPT !.next = @ + 1]
<1>1. Scanning /\ upd' = on /\ attrs' = attrs /\ rows' = rows BY DEF PassRow
<1>2. UpdateHeld BY <1>1, AtRow
<1>3. /\ upd \in UpdateSet /\ Applicable(upd.stmt) /\ upd.last <= Len(rows)
      /\ WellTyped(upd.stmt) => Classes(upd.new)
  BY <1>2 DEF UpdateHeld
<1>4. /\ on \in UpdateSet /\ on.stmt = upd.stmt /\ on.last = upd.last /\ on.new = upd.new
  <2> DEFINE S == [Columns -> GoodItems]
             T == [running : {TRUE}, stmt : Updates, next : Nat \ {0}, last : Nat, new : S]
             x == upd
             n == x.next + 1
  <2>1. UpdateSet = T BY DEF UpdateSet
  <2>2. x \in T BY <1>3, <2>1
  <2>3. on = [x EXCEPT !.next = n] OBVIOUS
  <2> HIDE DEF S, x, on
  <2>4. n \in Nat \ {0} BY <2>2
  <2> HIDE DEF n
  <2>5. on \in T /\ on.stmt = x.stmt /\ on.last = x.last /\ on.new = x.new BY <2>2, <2>3, <2>4
  <2> QED BY <2>1, <2>5 DEF x
<1> HIDE DEF on
<1>5. UpdateHeld' BY <1>1, <1>3, <1>4, UpdateKept
<1>6. (attrs \in Seq(Attributes) /\ rows \in Seq(RowSet) /\ RowsHeld)' BY <1>1, RowsKept
<1> QED BY <1>5, <1>6 DEF RowsInv

LEMMA UpdateRowKeeps ==
  ASSUME RowsInv, UpdateRow
  PROVE  RowsInv'
<1> DEFINE i == upd.next
           old == rows[i]
           u == upd.stmt
           new == upd.new
           cur == Current
           meant == MeantByUpdate(u, old)
           row == Row(Updated, meant)
           more == [rows EXCEPT ![i].deleted = TRUE]
           on == [upd EXCEPT !.next = @ + 1, !.new = Updated]
<1>1. /\ Scanning /\ Sound(rows[upd.next]) /\ ~Broken(Updated) /\ Writable(Updated)
      /\ rows' = Append(more, row) /\ upd' = on /\ attrs' = attrs
  BY DEF UpdateRow, Changes
<1>2. /\ attrs \in Seq(Attributes) /\ UpdateHeld /\ i \in DOMAIN rows
      /\ u \in Updates /\ Applicable(u) /\ new \in [Columns -> GoodItems]
  BY <1>1, AtRow
<1>3. /\ cur \in [Columns -> Values] /\ TypesOf(cur)
      /\ \A c \in Columns : Says(cur[c], old.meant[c])
  BY <1>1, CurrentIs
<1>4. /\ rows \in Seq(RowSet) /\ RowsHeld BY DEF RowsInv
<1>5. Updated = UpdatedItems(u, new, cur) BY DEF Updated
<1>6. meant = [c \in Columns |-> meant[c]] BY DEF MeantByUpdate
<1>7. /\ upd \in UpdateSet /\ upd.last <= Len(rows)
      /\ WellTyped(u) => Classes(new)
  BY <1>2 DEF UpdateHeld
<1>8. Updated \in [Columns -> GoodItems]
  <2> HIDE DEF u, new, cur
  <2> QED BY <1>1, <1>2, <1>3, <1>5, UpdatedIs
<1>9. \A c \in Columns : Says(Updated[c], meant[c])
  <2> HIDE DEF u, new, cur, old
  <2> QED BY <1>1, <1>2, <1>3, <1>5, UpdatedSays
<1>10. WellTyped(u) => Classes(Updated)
  <2> HIDE DEF u, new, cur
  <2> QED BY <1>2, <1>3, <1>5, <1>7, UpdatedFits
<1>11. row \in RowSet /\ RowInv(row)
  <2> HIDE DEF meant
  <2> QED BY <1>1, <1>2, <1>6, <1>8, <1>9, RowMade
<1>12. /\ more \in Seq(RowSet) /\ Len(more) = Len(rows)
       /\ \A r \in DOMAIN rows : SameRow(more[r], rows[r])
  BY <1>2, <1>4, RowMarked
<1>13. on \in UpdateSet /\ on.stmt = u /\ on.last = upd.last /\ on.new = Updated
  <2> DEFINE S == [Columns -> GoodItems]
             x == upd
             n == x.next + 1
             xs == Updated
  <2>1. /\ x \in [running : {TRUE}, stmt : Updates, next : Nat \ {0}, last : Nat, new : S]
        /\ xs \in S
    BY <1>7, <1>8 DEF UpdateSet
  <2>2. on = [x EXCEPT !.next = n, !.new = xs] OBVIOUS
  <2>3. UpdateSet = [running : {TRUE}, stmt : Updates, next : Nat \ {0}, last : Nat, new : S]
    BY DEF UpdateSet
  <2>4. x.stmt = u /\ x.last = upd.last OBVIOUS
  <2> HIDE DEF S, x, xs, u, on
  <2>6. n \in Nat \ {0} BY <2>1
  <2> HIDE DEF n
  <2>5. /\ on \in [running : {TRUE}, stmt : Updates, next : Nat \ {0}, last : Nat, new : S]
        /\ on.stmt = x.stmt /\ on.last = x.last /\ on.new = xs
    BY <2>1, <2>2, <2>6
  <2> QED BY <2>3, <2>4, <2>5 DEF xs
<1> HIDE DEF row, more, on, u, new
<1>14. (rows \in Seq(RowSet))' /\ RowsHeld' /\ Len(rows)' = Len(rows) + 1
  BY <1>1, <1>4, <1>11, <1>12, RowAdded
<1>15. on.last <= Len(rows')
  <2>1. upd.last \in Nat BY <1>7 DEF UpdateSet
  <2>2. Len(rows) \in Nat BY <1>4, LenProperties
  <2> QED BY <1>7, <1>13, <1>14, <2>1, <2>2
<1>16. UpdateHeld' BY <1>1, <1>2, <1>10, <1>13, <1>15, UpdateKept
<1>17. (attrs \in Seq(Attributes))' BY <1>1, <1>2
<1> QED BY <1>14, <1>16, <1>17 DEF RowsInv

LEMMA LoseRowKeeps ==
  ASSUME RowsInv, UpdateLosesRow
  PROVE  RowsInv'
<1> DEFINE i == upd.next
           more == [rows EXCEPT ![i].deleted = TRUE]
<1>1. Scanning /\ rows' = more /\ upd' = NoUpdate /\ attrs' = attrs
  BY DEF UpdateLosesRow, Changes
<1>2. attrs \in Seq(Attributes) /\ i \in DOMAIN rows BY <1>1, AtRow
<1>3. rows \in Seq(RowSet) /\ RowsHeld BY DEF RowsInv
<1>4. /\ more \in Seq(RowSet) /\ Len(more) = Len(rows)
      /\ \A r \in DOMAIN rows : SameRow(more[r], rows[r])
  BY <1>2, <1>3, RowMarked
<1>5. Columns' = Columns /\ RowSet' = RowSet BY <1>1, Kept
<1> HIDE DEF more
<1>6. DOMAIN more = DOMAIN rows BY <1>3, <1>4, LenProperties
<1>7. ASSUME NEW r \in DOMAIN more PROVE RowInv(more[r])
  <2>1. SameRow(more[r], rows[r]) /\ RowInv(rows[r]) BY <1>3, <1>4, <1>6 DEF RowsHeld
  <2> QED BY <2>1 DEF RowInv, RowOf, SameRow
<1>8. RowsHeld' BY <1>1, <1>5, <1>7 DEF RowsHeld, RowInv, RowOf
<1>9. (attrs \in Seq(Attributes) /\ rows \in Seq(RowSet))' BY <1>1, <1>2, <1>4, <1>5
<1> QED BY <1>1, <1>8, <1>9 DEF RowsInv, NoUpdate

LEMMA InitHolds == Init => RowsInv
<1> SUFFICES ASSUME Init PROVE RowsInv OBVIOUS
<1>1. attrs \in Seq(Attributes) BY RowsAssumption DEF Init, Attributes
<1>2. rows = <<>> /\ upd = NoUpdate BY DEF Init
<1>3. rows \in Seq(RowSet) BY <1>2, EmptySeq
<1>4. RowsHeld BY <1>2 DEF RowsHeld
<1> QED BY <1>1, <1>2, <1>3, <1>4 DEF RowsInv

LEMMA NextKeeps == RowsInv /\ [Next]_rowVars => RowsInv'
<1> SUFFICES ASSUME RowsInv, [Next]_rowVars PROVE RowsInv' OBVIOUS
<1>1. ASSUME NEW ins \in Inserts, Insert(ins) PROVE RowsInv' BY <1>1, InsertKeeps
<1>2. ASSUME NEW u \in Updates, UpdateStart(u) PROVE RowsInv' BY <1>2, StartKeeps
<1>3. CASE PassRow BY <1>3, PassKeeps
<1>4. CASE UpdateRow BY <1>4, UpdateRowKeeps
<1>5. CASE UpdateDies \/ UpdateEnd
  <2>1. attrs' = attrs /\ rows' = rows /\ upd' = NoUpdate BY <1>5 DEF UpdateDies, UpdateEnd
  <2>2. (attrs \in Seq(Attributes) /\ rows \in Seq(RowSet) /\ RowsHeld)' BY <2>1, RowsKept
  <2> QED BY <2>1, <2>2 DEF RowsInv, NoUpdate
<1>6. CASE UNCHANGED rowVars
  <2>1. attrs' = attrs /\ rows' = rows /\ upd' = upd BY <1>6 DEF rowVars
  <2>2. (attrs \in Seq(Attributes) /\ rows \in Seq(RowSet) /\ RowsHeld)' BY <2>1, RowsKept
  <2>3. CASE upd = NoUpdate BY <2>1, <2>2, <2>3 DEF RowsInv, NoUpdate
  <2>4. CASE UpdateHeld
    <3>1. /\ upd \in UpdateSet /\ Applicable(upd.stmt) /\ upd.last <= Len(rows')
          /\ WellTyped(upd.stmt) => Classes(upd.new)
      BY <2>1, <2>4 DEF UpdateHeld
    <3>2. UpdateHeld' BY <2>1, <3>1, UpdateKept
    <3> QED BY <2>2, <3>2 DEF RowsInv
  <2> QED BY <2>3, <2>4 DEF RowsInv
<1>7. CASE UpdateLosesRow BY <1>7, LoseRowKeeps
<1> QED BY <1>1, <1>2, <1>3, <1>4, <1>5, <1>6, <1>7 DEF Next

-----------------------------------------------------------------------------
\* The theorems.

THEOREM Inductive == Spec => []RowsInv
BY InitHolds, NextKeeps, PTL DEF Spec

\* A row that analyze_InsertTable or execUpdateTable wrote reads back, through
\* vDisk2Mem, as what its statements said, if no text had more memory than its column:
\* up to the first column whose value has another width, and but for numbers that the
\* types have not, and LONG columns that are given by a text what an int cannot hold.
THEOREM ReadsBack == Spec => []RowReadBack
<1>1. RowsInv => RowReadBack BY InvReadBack
<1> QED BY <1>1, Inductive, PTL

\* A row of values of its columns' types, none of whose texts has more memory than its
\* column, is no longer than the tuple that uGetMaxTupleLen allocates for its table, and
\* writing it clears at most a byte behind that.
THEOREM Fitting == Spec => []RowFits
<1>1. RowsInv => RowFits BY InvFits
<1> QED BY <1>1, Inductive, PTL

\* The bytes of two such rows behind each other, copied by a join or written again by a
\* projection, read as the columns of both, if both are short enough for FILE_LINE_LEN.
THEOREM JoinsRead == Spec => []JoinReads
<1>1. RowsInv => JoinReads BY InvJoins
<1> QED BY <1>1, Inductive, PTL

\* cmpHeapTupleItem orders the numbers and days that are read from rows as what they
\* are, unless they differ by less than one or by more than an int holds, or a real type
\* that they are compared in has not both of them and their difference.
THEOREM Comparing == Spec => []ComparesExactly
<1>1. RowsInv => ComparesExactly BY InvCompares
<1> QED BY <1>1, Inductive, PTL

\* execUpdateTable ends the process at no row if the types of the statement fit, but at
\* one that does not fit its table, or behind one, which is lost, whose new row would be
\* too long for its columns or for FILE_LINE_LEN.
THEOREM Finishing == Spec => TypedUpdatesFinish
<1>1. RowsInv /\ [Next]_rowVars =>
        [/\ UpdateDies => ~Sound(rows[upd.next]) \/ ~WellTyped(upd.stmt)
         /\ UpdateLosesRow =>
              ~Roomy(Updated) \/ Len(uMem2Disk(Updated)) >= FILE_LINE_LEN - 1]_rowVars
  BY InvFinish, InvLost
<1> QED BY <1>1, Inductive, PTL DEF Spec, TypedUpdatesFinish
=============================================================================
