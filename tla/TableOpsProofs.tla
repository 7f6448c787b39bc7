---------------------------- MODULE TableOpsProofs ----------------------------
(***************************************************************************)
(* Proofs about the statements on one table: their types, that no row has  *)
(* two versions, that a scan returns what was there, and that they         *)
(* implement Table, for any numbers of rows, versions and blocks. An       *)
(* address must hold the block numbers in use.                             *)
(***************************************************************************)
EXTENDS TableOps, FiniteSetTheorems, TLAPS

AddrsFit == MaxBlk < AddrRange

-----------------------------------------------------------------------------
\* Blocks, and the rows in them.

Page == {s \in Seq(Items) : Len(s) <= Cap}

At(blocks, b, i, r) ==
  /\ b \in DOMAIN blocks /\ i \in DOMAIN blocks[b]
  /\ ~blocks[b][i].deleted /\ blocks[b][i].row = r

Has(blocks, r, v) == \E b, i : At(blocks, b, i, r) /\ blocks[b][i].ver = v

Once(blocks) ==
  \A b, c, i, j, r : At(blocks, b, i, r) /\ At(blocks, c, j, r) => b = c /\ i = j

Absent(blocks, r) == \A b, i : ~At(blocks, b, i, r)

\* A relation: its blocks are numbered from 0 on, and what the file has of a
\* block is its beginning.
TableOK(t) ==
  /\ t = [fsh |-> t.fsh, max |-> t.max, seen |-> t.seen, disk |-> t.disk]
  /\ DOMAIN t.disk \subseteq Nat
  /\ \A b \in DOMAIN t.disk : \A c \in Nat : c <= b => c \in DOMAIN t.disk
  /\ t.seen \in [DOMAIN t.disk -> Page]
  /\ t.disk \in [DOMAIN t.disk -> Page]
  /\ \A b \in DOMAIN t.disk :
       /\ Len(t.disk[b]) <= Len(t.seen[b])
       /\ \A i \in 1 .. Len(t.disk[b]) : t.disk[b][i] = t.seen[b][i]
  /\ t.max \in DOMAIN t.disk \cup {INValidBlockNumber}
  /\ t.fsh \in [DOMAIN t.fsh -> 1 .. Cap]
  /\ DOMAIN t.fsh \subseteq DOMAIN t.disk

AllKnown(t) == NextBlock(t.max) \notin DOMAIN t.disk

\* n comes from t when the rows New are added and, where not all blocks are known,
\* others may be lost.
Evolves(n, t, New) ==
  /\ \A r, v : Has(n.seen, r, v) => Has(t.seen, r, v) \/ <<r, v>> \in New
  /\ \A x \in New : Has(n.seen, x[1], x[2])
  /\ AllKnown(t) => /\ AllKnown(n)
                    /\ \A r, v : Has(t.seen, r, v) => Has(n.seen, r, v)
  /\ \A r, v, w : Has(t.disk, r, v) /\ Has(n.seen, r, w) => \E u : Has(n.disk, r, u)

LEMMA PageSeq ==
  ASSUME NEW s \in Page
  PROVE  /\ s \in Seq(Items) /\ Len(s) \in Nat /\ Len(s) <= Cap
         /\ DOMAIN s = 1 .. Len(s) /\ \A i \in 1 .. Len(s) : s[i] \in Items
BY DEF Page

\* What is in the file is there for the process.
LEMMA DiskSeen ==
  ASSUME NEW t, TableOK(t)
  PROVE  /\ \A b, i, r : At(t.disk, b, i, r) => At(t.seen, b, i, r) /\ t.seen[b][i] = t.disk[b][i]
         /\ \A r, v : Has(t.disk, r, v) => Has(t.seen, r, v)
<1>1. ASSUME NEW b, NEW i, NEW r, At(t.disk, b, i, r)
      PROVE  At(t.seen, b, i, r) /\ t.seen[b][i] = t.disk[b][i]
  <2>1. b \in DOMAIN t.disk /\ t.disk[b] \in Page /\ t.seen[b] \in Page /\ b \in DOMAIN t.seen
    BY <1>1 DEF At, TableOK
  <2>2. i \in 1 .. Len(t.disk[b]) /\ i \in 1 .. Len(t.seen[b])
    BY <1>1, <2>1, PageSeq DEF At, TableOK
  <2>3. t.disk[b][i] = t.seen[b][i] BY <2>1, <2>2 DEF TableOK
  <2> QED BY <1>1, <2>1, <2>2, <2>3, PageSeq DEF At
<1>2. ASSUME NEW r, NEW v, Has(t.disk, r, v) PROVE Has(t.seen, r, v)
  BY <1>1, <1>2 DEF Has
<1> QED BY <1>1, <1>2

LEMMA OnceHas ==
  ASSUME NEW blocks, Once(blocks), NEW r, NEW v, NEW w, Has(blocks, r, v), Has(blocks, r, w)
  PROVE  v = w
BY DEF Once, Has

LEMMA DiskOnce ==
  ASSUME NEW t, TableOK(t), Once(t.seen)
  PROVE  Once(t.disk)
<1> SUFFICES ASSUME NEW b, NEW c, NEW i, NEW j, NEW r, At(t.disk, b, i, r), At(t.disk, c, j, r)
             PROVE  b = c /\ i = j
  BY DEF Once
<1>1. At(t.seen, b, i, r) /\ At(t.seen, c, j, r) BY DiskSeen
<1> QED BY <1>1 DEF Once

-----------------------------------------------------------------------------
\* The table of rows that blocks stand for.

LEMMA LiveHas ==
  ASSUME NEW blocks
  PROVE  /\ \A r, v : <<r, v>> \in Live(blocks) <=> Has(blocks, r, v)
         /\ \A x \in Live(blocks) : x = <<x[1], x[2]>>
<1> DEFINE live == {i \in UNION {Range(blocks[b]) : b \in DOMAIN blocks} : ~i.deleted}
<1>1. Live(blocks) = {<<item.row, item.ver>> : item \in live} BY DEF Live
<1>2. ASSUME NEW r, NEW v, <<r, v>> \in Live(blocks) PROVE Has(blocks, r, v)
  <2>1. PICK item \in live : <<r, v>> = <<item.row, item.ver>> BY <1>1, <1>2
  <2>2. PICK b \in DOMAIN blocks : item \in Range(blocks[b]) BY <2>1
  <2>3. PICK i \in DOMAIN blocks[b] : item = blocks[b][i] BY <2>2 DEF Range
  <2>4. r = item.row /\ v = item.ver /\ ~item.deleted BY <2>1
  <2> QED BY <2>3, <2>4 DEF Has, At
<1>3. ASSUME NEW r, NEW v, Has(blocks, r, v) PROVE <<r, v>> \in Live(blocks)
  <2>1. PICK b, i : At(blocks, b, i, r) /\ blocks[b][i].ver = v BY <1>3 DEF Has
  <2> DEFINE item == blocks[b][i]
  <2>2. item \in Range(blocks[b]) /\ b \in DOMAIN blocks BY <2>1 DEF At, Range
  <2>3. item \in live BY <2>1, <2>2 DEF At
  <2>4. <<r, v>> = <<item.row, item.ver>> BY <2>1 DEF At
  <2> HIDE DEF item, live
  <2> QED BY <1>1, <2>3, <2>4
<1>4. \A x \in Live(blocks) : x = <<x[1], x[2]>>
  <2> HIDE DEF live
  <2> QED BY <1>1
<1> QED BY <1>2, <1>3, <1>4

LEMMA RowsHas ==
  ASSUME NEW blocks, Once(blocks)
  PROVE  /\ RowsOf(blocks) = [r \in DOMAIN RowsOf(blocks) |-> RowsOf(blocks)[r]]
         /\ \A r : r \in DOMAIN RowsOf(blocks) <=> \E v : Has(blocks, r, v)
         /\ \A r, v : Has(blocks, r, v) => RowsOf(blocks)[r] = v
<1> DEFINE R == {x[1] : x \in Live(blocks)}
           V(r) == (CHOOSE x \in Live(blocks) : x[1] = r)[2]
<1>1. RowsOf(blocks) = [r \in R |-> V(r)] BY DEF RowsOf
<1>2. \A r : r \in R <=> \E v : Has(blocks, r, v)
  <2>1. ASSUME NEW r \in R PROVE \E v : Has(blocks, r, v)
    <3>1. PICK x \in Live(blocks) : r = x[1] OBVIOUS
    <3>2. Has(blocks, x[1], x[2]) BY LiveHas
    <3> QED BY <3>1, <3>2
  <2>2. ASSUME NEW r, NEW v, Has(blocks, r, v) PROVE r \in R
    <3>1. <<r, v>> \in Live(blocks) /\ <<r, v>>[1] = r BY <2>2, LiveHas
    <3> QED BY <3>1
  <2> QED BY <2>1, <2>2
<1>3. ASSUME NEW r, NEW v, Has(blocks, r, v) PROVE r \in R /\ V(r) = v
  <2>1. <<r, v>> \in Live(blocks) /\ <<r, v>>[1] = r BY <1>3, LiveHas
  <2> DEFINE x == CHOOSE y \in Live(blocks) : y[1] = r
  <2>2. x \in Live(blocks) /\ x[1] = r BY <2>1
  <2>3. Has(blocks, r, x[2]) BY <2>2, LiveHas
  <2>4. x[2] = v BY <1>3, <2>3, OnceHas
  <2> QED BY <1>2, <1>3, <2>4
<1> HIDE DEF R, V
<1> QED BY <1>1, <1>2, <1>3

\* The same rows in fewer or other places.
LEMMA RowsEqual ==
  ASSUME NEW new, NEW old, Once(new), Once(old),
         \A r, v : Has(new, r, v) <=> Has(old, r, v)
  PROVE  RowsOf(new) = RowsOf(old)
<1>1. DOMAIN RowsOf(new) = DOMAIN RowsOf(old)
  <2>1. \A r : r \in DOMAIN RowsOf(new) <=> r \in DOMAIN RowsOf(old) BY RowsHas
  <2> QED BY <2>1
<1>2. ASSUME NEW r \in DOMAIN RowsOf(new) PROVE RowsOf(new)[r] = RowsOf(old)[r]
  <2>1. PICK v : Has(new, r, v) BY RowsHas
  <2>2. Has(old, r, v) BY <2>1
  <2> QED BY <2>1, <2>2, RowsHas
<1>3. RowsOf(new) = [r \in DOMAIN RowsOf(new) |-> RowsOf(new)[r]] BY RowsHas
<1>4. RowsOf(old) = [r \in DOMAIN RowsOf(old) |-> RowsOf(old)[r]] BY RowsHas
<1> HIDE DEF RowsOf
<1> QED BY <1>1, <1>2, <1>3, <1>4

\* Fewer rows are a part of the table.
LEMMA RowsPart ==
  ASSUME NEW new, NEW old, Once(new), Once(old),
         \A r, v : Has(new, r, v) => Has(old, r, v)
  PROVE  /\ RowsOf(new) = Restrict(RowsOf(old), DOMAIN RowsOf(new))
         /\ DOMAIN RowsOf(new) \subseteq DOMAIN RowsOf(old)
         /\ RowsOf(new) \in Abstract!Parts(RowsOf(old))
<1>1. DOMAIN RowsOf(new) \subseteq DOMAIN RowsOf(old)
  <2>1. \A r : r \in DOMAIN RowsOf(new) => r \in DOMAIN RowsOf(old) BY RowsHas
  <2> QED BY <2>1
<1>2. ASSUME NEW r \in DOMAIN RowsOf(new) PROVE RowsOf(new)[r] = RowsOf(old)[r]
  <2>1. PICK v : Has(new, r, v) BY RowsHas
  <2>2. Has(old, r, v) BY <2>1
  <2> QED BY <2>1, <2>2, RowsHas
<1>3. RowsOf(new) = [r \in DOMAIN RowsOf(new) |-> RowsOf(new)[r]] BY RowsHas
<1>4. RowsOf(new) = Restrict(RowsOf(old), DOMAIN RowsOf(new)) BY <1>2, <1>3 DEF Restrict
<1>5. RowsOf(new) = Abstract!Restrict(RowsOf(old), DOMAIN RowsOf(new))
  BY <1>2, <1>3 DEF Abstract!Restrict
<1> QED BY <1>1, <1>4, <1>5 DEF Abstract!Parts

-----------------------------------------------------------------------------
\* The operations on a relation.

LEMMA NextBlockNat ==
  ASSUME NEW t, TableOK(t)
  PROVE  /\ NextBlock(t.max) \in Nat
         /\ \A c \in Nat : c < NextBlock(t.max) => c \in DOMAIN t.disk
<1>1. INValidBlockNumber \in Nat BY BlockAssumption
<1>2. CASE IsValidBlockNumber(t.max)
  <2>1. t.max \in DOMAIN t.disk /\ t.max \in Nat
    BY <1>1, <1>2 DEF TableOK, IsValidBlockNumber
  <2> QED BY <1>2, <2>1 DEF NextBlock, TableOK
<1>3. CASE ~IsValidBlockNumber(t.max)
  BY <1>3 DEF NextBlock
<1> QED BY <1>2, <1>3

LEMMA AppendOK ==
  ASSUME NEW t, TableOK(t)
  PROVE  LET n == Rel_AppendNewBlock(t)
         IN  /\ TableOK(n)
             /\ DOMAIN n.disk = DOMAIN t.disk \cup {NextBlock(t.max)}
             /\ n.max = NextBlock(t.max) /\ n.seen[n.max] = <<>> /\ n.disk[n.max] = <<>>
             /\ n.fsh[n.max] = Cap /\ n.max \in DOMAIN n.fsh
             /\ \A b \in DOMAIN t.disk :
                  b # n.max => n.seen[b] = t.seen[b] /\ n.disk[b] = t.disk[b]
<1> DEFINE k == NextBlock(t.max)
           n == Rel_AppendNewBlock(t)
           D == DOMAIN t.disk
<1>1. k \in Nat /\ \A c \in Nat : c < k => c \in D BY NextBlockNat
<1>2. DOMAIN t.seen = D BY DEF TableOK
<1>3. n = [fsh |-> Set(t.fsh, k, Cap), max |-> k,
           seen |-> Set(t.seen, k, <<>>), disk |-> Set(t.disk, k, <<>>)]
  BY DEF Rel_AppendNewBlock
<1> HIDE DEF k, n
<1>4. /\ n.fsh = [c \in DOMAIN t.fsh \cup {k} |-> IF c = k THEN Cap ELSE t.fsh[c]]
      /\ n.max = k
      /\ n.seen = [c \in D \cup {k} |-> IF c = k THEN <<>> ELSE t.seen[c]]
      /\ n.disk = [c \in D \cup {k} |-> IF c = k THEN <<>> ELSE t.disk[c]]
  BY <1>2, <1>3 DEF Set
<1>5. <<>> \in Page BY BlockAssumption DEF Page
<1>6. n.seen \in [DOMAIN n.disk -> Page] /\ n.disk \in [DOMAIN n.disk -> Page]
  BY <1>4, <1>5 DEF TableOK
<1>7. DOMAIN n.disk \subseteq Nat
      /\ \A b \in DOMAIN n.disk : \A c \in Nat : c <= b => c \in DOMAIN n.disk
  BY <1>1, <1>4 DEF TableOK
<1>8. ASSUME NEW b \in DOMAIN n.disk
      PROVE  /\ Len(n.disk[b]) <= Len(n.seen[b])
             /\ \A i \in 1 .. Len(n.disk[b]) : n.disk[b][i] = n.seen[b][i]
  <2>1. CASE b = k
    <3>1. n.disk[b] = <<>> /\ n.seen[b] = <<>> BY <1>4, <2>1
    <3> QED BY <3>1
  <2>2. CASE b # k BY <1>4, <2>2 DEF TableOK
  <2> QED BY <2>1, <2>2
<1>9. n.fsh \in [DOMAIN n.fsh -> 1 .. Cap] /\ DOMAIN n.fsh \subseteq DOMAIN n.disk
  BY <1>4, BlockAssumption DEF TableOK
<1>10. TableOK(n) BY <1>3, <1>4, <1>6, <1>7, <1>8, <1>9 DEF TableOK
<1> QED BY <1>4, <1>10 DEF k, n

LEMMA TakenOK ==
  ASSUME NEW t, TableOK(t), NEW b \in DOMAIN t.fsh
  PROVE  LET n == Taken(t, b)
         IN  TableOK(n) /\ n.seen = t.seen /\ n.disk = t.disk /\ n.max = t.max
<1> DEFINE n == Taken(t, b)
           f == IF t.fsh[b] = 1 THEN Restrict(t.fsh, DOMAIN t.fsh \ {b})
                                ELSE [t.fsh EXCEPT ![b] = @ - 1]
<1>1. n = [fsh |-> f, max |-> t.max, seen |-> t.seen, disk |-> t.disk]
  <2>1. n = [t EXCEPT !.fsh = f] BY DEF Taken
  <2>2. t = [fsh |-> t.fsh, max |-> t.max, seen |-> t.seen, disk |-> t.disk] BY DEF TableOK
  <2> HIDE DEF n, f
  <2> QED BY <2>1, <2>2
<1>2. f \in [DOMAIN f -> 1 .. Cap] /\ DOMAIN f \subseteq DOMAIN t.fsh
  <2>1. CASE t.fsh[b] = 1
    BY <2>1 DEF Restrict, TableOK
  <2>2. CASE t.fsh[b] # 1
    <3>1. t.fsh[b] - 1 \in 1 .. Cap BY <2>2, BlockAssumption DEF TableOK
    <3> QED BY <2>2, <3>1 DEF TableOK
  <2> QED BY <2>1, <2>2
<1> HIDE DEF n, f
<1>3. n.fsh = f /\ n.seen = t.seen /\ n.disk = t.disk /\ n.max = t.max
  BY <1>1
<1>4. TableOK(n) BY <1>1, <1>2, <1>3 DEF TableOK
<1> QED BY <1>3, <1>4 DEF n

-----------------------------------------------------------------------------
\* What becomes of the rows.

LEMMA AppendEvolves ==
  ASSUME NEW t, TableOK(t), Once(t.seen), NextBlock(t.max) <= MaxBlk
  PROVE  LET n == Rel_AppendNewBlock(t)
         IN  Once(n.seen) /\ Evolves(n, t, {})
<1> DEFINE n == Rel_AppendNewBlock(t)
           k == NextBlock(t.max)
<1>1. /\ TableOK(n) /\ DOMAIN n.disk = DOMAIN t.disk \cup {k}
      /\ n.max = k /\ n.seen[k] = <<>> /\ n.disk[k] = <<>>
      /\ \A b \in DOMAIN t.disk : b # k => n.seen[b] = t.seen[b] /\ n.disk[b] = t.disk[b]
  BY AppendOK
<1>2. DOMAIN t.seen = DOMAIN t.disk /\ DOMAIN n.seen = DOMAIN t.disk \cup {k}
  BY <1>1 DEF TableOK
<1> HIDE DEF n
<1>3. ASSUME NEW b, NEW i, NEW r, At(n.seen, b, i, r)
      PROVE  b # k /\ At(t.seen, b, i, r) /\ n.seen[b] = t.seen[b]
  <2>1. b # k
    <3> SUFFICES ASSUME b = k PROVE FALSE OBVIOUS
    <3>1. i \in DOMAIN <<>> BY <1>1, <1>3 DEF At
    <3> QED BY <3>1
  <2> QED BY <1>1, <1>2, <1>3, <2>1 DEF At
<1>4. ASSUME NEW b, NEW i, NEW r, At(t.seen, b, i, r), b # k
      PROVE  At(n.seen, b, i, r) /\ n.seen[b] = t.seen[b]
  BY <1>1, <1>2, <1>4 DEF At
<1>5. Once(n.seen) BY <1>3 DEF Once
<1>6. \A r, v : Has(n.seen, r, v) => Has(t.seen, r, v)
  BY <1>3 DEF Has
<1>7. ASSUME AllKnown(t)
      PROVE  AllKnown(n) /\ \A r, v : Has(t.seen, r, v) => Has(n.seen, r, v)
  <2>1. k \notin DOMAIN t.disk BY <1>7 DEF AllKnown
  <2>2. \A b, i, r : At(t.seen, b, i, r) => b # k BY <1>2, <2>1 DEF At
  <2>3. \A r, v : Has(t.seen, r, v) => Has(n.seen, r, v) BY <1>4, <2>2 DEF Has
  <2>4. k \in Nat /\ k < INValidBlockNumber
    BY NextBlockNat, BlockAssumption, TableAssumption
  <2>5. NextBlock(n.max) = k + 1 BY <1>1, <2>4 DEF NextBlock, IsValidBlockNumber
  <2>6. k + 1 \notin DOMAIN t.disk BY <2>1, <2>4 DEF TableOK
  <2>7. k + 1 # k BY <2>4
  <2>8. AllKnown(n) BY <1>1, <2>5, <2>6, <2>7 DEF AllKnown
  <2> QED BY <2>3, <2>8
<1>8. ASSUME NEW r, NEW v, NEW w, Has(t.disk, r, v), Has(n.seen, r, w)
      PROVE  \E u : Has(n.disk, r, u)
  <2>1. PICK b, i : At(t.disk, b, i, r) BY <1>8 DEF Has
  <2>2. PICK c, j : At(n.seen, c, j, r) BY <1>8 DEF Has
  <2>3. At(t.seen, b, i, r) BY <2>1, DiskSeen
  <2>4. c # k /\ At(t.seen, c, j, r) BY <1>3, <2>2
  <2>5. b # k BY <2>3, <2>4 DEF Once
  <2>6. b \in DOMAIN t.disk BY <2>1 DEF At
  <2>7. n.disk[b] = t.disk[b] /\ b \in DOMAIN n.disk BY <1>1, <2>5, <2>6
  <2>8. At(n.disk, b, i, r) BY <2>1, <2>7 DEF At
  <2> QED BY <2>8 DEF Has
<1>9. Evolves(n, t, {}) BY <1>6, <1>7, <1>8 DEF Evolves
<1> QED BY <1>5, <1>9 DEF n

\* Item is put behind the items of block c, and block b is flushed.
Put(t, c, item, b) ==
  LET s == [t.seen EXCEPT ![c] = Append(@, item)]
  IN  [fsh |-> t.fsh, max |-> t.max, seen |-> s, disk |-> [t.disk EXCEPT ![b] = s[b]]]

LEMMA PutOK ==
  ASSUME NEW t, TableOK(t), Once(t.seen),
         NEW c \in DOMAIN t.disk, NEW b \in DOMAIN t.disk, Len(t.seen[c]) < Cap,
         NEW item \in Items, ~item.deleted, Absent(t.seen, item.row)
  PROVE  LET n == Put(t, c, item, b)
         IN  /\ TableOK(n) /\ Once(n.seen)
             /\ Evolves(n, t, {<<item.row, item.ver>>})
             /\ DOMAIN n.disk = DOMAIN t.disk /\ n.max = t.max
             /\ \A d \in DOMAIN t.disk :
                  d # c /\ d # b => n.seen[d] = t.seen[d] /\ n.disk[d] = t.disk[d]
<1> DEFINE s == [t.seen EXCEPT ![c] = Append(@, item)]
           f == [t.disk EXCEPT ![b] = s[b]]
           n == Put(t, c, item, b)
           l == Len(t.seen[c]) + 1
<1>1. n = [fsh |-> t.fsh, max |-> t.max, seen |-> s, disk |-> f] BY DEF Put
<1>2. \A d \in DOMAIN t.disk : t.seen[d] \in Page /\ t.disk[d] \in Page
  BY DEF TableOK
<1>3. DOMAIN s = DOMAIN t.disk /\ DOMAIN f = DOMAIN t.disk
      /\ DOMAIN t.seen = DOMAIN t.disk
  BY DEF TableOK
<1>4. /\ s[c] = Append(t.seen[c], item) /\ \A d \in DOMAIN t.disk : d # c => s[d] = t.seen[d]
      /\ f[b] = s[b] /\ \A d \in DOMAIN t.disk : d # b => f[d] = t.disk[d]
  BY <1>3
<1>5. /\ s[c] \in Page /\ Len(s[c]) = l /\ l \in Nat /\ s[c][l] = item
      /\ \A i \in 1 .. Len(t.seen[c]) : s[c][i] = t.seen[c][i]
  <2>1. t.seen[c] \in Seq(Items) /\ Len(t.seen[c]) \in Nat BY <1>2, PageSeq
  <2>2. Append(t.seen[c], item) \in Seq(Items) BY <2>1
  <2>3. Len(Append(t.seen[c], item)) = l BY <2>1
  <2>4. l <= Cap BY <2>1, BlockAssumption
  <2> QED BY <1>4, <2>1, <2>2, <2>3, <2>4 DEF Page
<1> HIDE DEF s, f, l
<1>6. s \in [DOMAIN f -> Page] /\ f \in [DOMAIN f -> Page]
  <2>1. s[c] = Append(t.seen[c], item) BY <1>4
  <2>2. s \in [DOMAIN t.disk -> Page] BY <1>5, <2>1 DEF TableOK, s
  <2>3. s[b] \in Page BY <2>2
  <2>4. f \in [DOMAIN t.disk -> Page] BY <2>3 DEF TableOK, f
  <2> QED BY <1>3, <2>2, <2>4
<1>7. ASSUME NEW d \in DOMAIN t.disk
      PROVE  Len(f[d]) <= Len(s[d]) /\ \A i \in 1 .. Len(f[d]) : f[d][i] = s[d][i]
  <2>1. CASE d = b
    <3>1. Len(s[d]) \in Nat BY <1>3, <1>6, PageSeq
    <3> QED BY <1>4, <2>1, <3>1
  <2>2. CASE d # b /\ d = c
    <3>1. Len(t.seen[c]) \in Nat /\ Len(t.disk[c]) \in Nat BY <1>2, PageSeq
    <3>2. Len(t.disk[c]) <= Len(t.seen[c]) BY DEF TableOK
    <3>3. f[c] = t.disk[c] BY <1>4, <2>2
    <3>4. Len(f[c]) <= Len(s[c]) BY <1>5, <3>1, <3>2, <3>3 DEF l
    <3>5. ASSUME NEW i \in 1 .. Len(f[c]) PROVE f[c][i] = s[c][i]
      <4>1. i \in 1 .. Len(t.seen[c]) /\ i \in 1 .. Len(t.disk[c]) BY <3>1, <3>2, <3>3
      <4>2. t.disk[c][i] = t.seen[c][i] BY <4>1 DEF TableOK
      <4> QED BY <1>5, <3>3, <4>1, <4>2
    <3> QED BY <2>2, <3>4, <3>5
  <2>3. CASE d # b /\ d # c BY <1>4, <2>3 DEF TableOK
  <2> QED BY <2>1, <2>2, <2>3
<1>8. TableOK(n) BY <1>1, <1>3, <1>6, <1>7 DEF TableOK
<1>9. ASSUME NEW d, NEW i, NEW r, At(s, d, i, r)
      PROVE  \/ At(t.seen, d, i, r) /\ s[d][i] = t.seen[d][i]
             \/ d = c /\ i = l /\ r = item.row /\ s[d][i] = item
  <2>1. CASE d # c BY <1>3, <1>4, <1>9, <2>1 DEF At
  <2>2. CASE d = c
    <3>1. i \in 1 .. l BY <1>5, <1>9, <2>2, PageSeq DEF At
    <3>2. CASE i = l BY <1>5, <1>9, <2>2, <3>2 DEF At
    <3>3. CASE i # l
      <4>1. i \in 1 .. Len(t.seen[c]) BY <1>2, <3>1, <3>3, PageSeq DEF l
      <4>2. i \in DOMAIN t.seen[c] BY <1>2, <4>1, PageSeq
      <4> QED BY <1>3, <1>5, <1>9, <2>2, <4>1, <4>2 DEF At
    <3> QED BY <3>2, <3>3
  <2> QED BY <2>1, <2>2
<1>10. ASSUME NEW d, NEW i, NEW r, At(t.seen, d, i, r)
       PROVE  At(s, d, i, r) /\ s[d][i] = t.seen[d][i]
  <2>1. CASE d # c BY <1>3, <1>4, <1>10, <2>1 DEF At
  <2>2. CASE d = c
    <3>1. i \in 1 .. Len(t.seen[c]) BY <1>2, <1>10, <2>2, PageSeq DEF At
    <3>2. i \in DOMAIN s[c] BY <1>2, <1>5, <3>1, PageSeq DEF l
    <3> QED BY <1>3, <1>5, <1>10, <2>2, <3>1, <3>2 DEF At
  <2> QED BY <2>1, <2>2
<1>11. At(s, c, l, item.row)
  <2>1. l \in DOMAIN s[c] BY <1>2, <1>5, PageSeq DEF l
  <2> QED BY <1>3, <1>5, <2>1 DEF At
<1>12. Once(s)
  <2> SUFFICES ASSUME NEW d, NEW e, NEW i, NEW j, NEW r, At(s, d, i, r), At(s, e, j, r)
               PROVE  d = e /\ i = j
    BY DEF Once
  <2>1. CASE r = item.row
    <3>1. ~At(t.seen, d, i, r) /\ ~At(t.seen, e, j, r) BY <2>1 DEF Absent
    <3> QED BY <1>9, <3>1
  <2>2. CASE r # item.row
    <3>1. At(t.seen, d, i, r) /\ At(t.seen, e, j, r) BY <1>9, <2>2
    <3> QED BY <3>1 DEF Once
  <2> QED BY <2>1, <2>2
<1>13. \A r, v : Has(s, r, v) => Has(t.seen, r, v) \/ <<r, v>> \in {<<item.row, item.ver>>}
  BY <1>9 DEF Has
<1>14. Has(s, item.row, item.ver) BY <1>5, <1>11 DEF Has
<1>15. \A r, v : Has(t.seen, r, v) => Has(s, r, v) BY <1>10 DEF Has
<1>16. ASSUME NEW r, NEW v, Has(t.disk, r, v) PROVE \E u : Has(f, r, u)
  <2>1. PICK d, i : At(t.disk, d, i, r) BY <1>16 DEF Has
  <2>2. d \in DOMAIN t.disk BY <2>1 DEF At
  <2>3. CASE d # b
    <3>1. At(f, d, i, r) BY <1>3, <1>4, <2>1, <2>2, <2>3 DEF At
    <3> QED BY <3>1 DEF Has
  <2>4. CASE d = b
    <3>1. At(t.seen, d, i, r) BY <2>1, DiskSeen
    <3>2. At(s, d, i, r) BY <1>10, <3>1
    <3>3. At(f, d, i, r) BY <1>3, <1>4, <2>2, <2>4, <3>2 DEF At
    <3> QED BY <3>3 DEF Has
  <2> QED BY <2>3, <2>4
<1>17. n.seen = s /\ n.disk = f /\ n.max = t.max BY <1>1
<1>18. AllKnown(t) => AllKnown(n) BY <1>3, <1>17 DEF AllKnown
<1> HIDE DEF n
<1>19. Evolves(n, t, {<<item.row, item.ver>>})
  <2>1. \A x \in {<<item.row, item.ver>>} : Has(s, x[1], x[2]) BY <1>14
  <2> QED BY <1>13, <1>15, <1>16, <1>17, <1>18, <2>1 DEF Evolves
<1> QED BY <1>3, <1>4, <1>8, <1>12, <1>17, <1>19 DEF n

LEMMA AbsentHas ==
  ASSUME NEW blocks, NEW r
  PROVE  Absent(blocks, r) <=> \A v : ~Has(blocks, r, v)
BY DEF Absent, Has

LEMMA EvolvesTwice ==
  ASSUME NEW t, NEW m, NEW n, NEW r, NEW v, TableOK(t),
         Evolves(m, t, {}), Evolves(n, m, {<<r, v>>}), Absent(t.seen, r)
  PROVE  Evolves(n, t, {<<r, v>>}) /\ Absent(m.seen, r)
<1>1. Absent(m.seen, r)
  <2>1. \A x : ~Has(t.seen, r, x) BY AbsentHas
  <2>2. \A x : ~Has(m.seen, r, x) BY <2>1 DEF Evolves
  <2> QED BY <2>2, AbsentHas
<1>2. \A q, u : Has(n.seen, q, u) => Has(t.seen, q, u) \/ <<q, u>> \in {<<r, v>>}
  <2>1. \A q, u : Has(m.seen, q, u) => Has(t.seen, q, u) BY DEF Evolves
  <2>2. \A q, u : Has(n.seen, q, u) => Has(m.seen, q, u) \/ <<q, u>> \in {<<r, v>>}
    BY DEF Evolves
  <2> QED BY <2>1, <2>2
<1>3. ASSUME NEW x \in {<<r, v>>} PROVE Has(n.seen, x[1], x[2])
  BY DEF Evolves
<1>4. AllKnown(t) => AllKnown(n) /\ \A q, u : Has(t.seen, q, u) => Has(n.seen, q, u)
  BY DEF Evolves
<1>5. ASSUME NEW q, NEW u, NEW w, Has(t.disk, q, u), Has(n.seen, q, w)
      PROVE  \E x : Has(n.disk, q, x)
  <2>1. Has(t.seen, q, u) BY <1>5, DiskSeen
  <2>2. q # r BY <2>1, AbsentHas
  <2>3. <<q, w>> # <<r, v>> BY <2>2
  <2>4. Has(m.seen, q, w) BY <1>5, <2>3 DEF Evolves
  <2>5. PICK x : Has(m.disk, q, x) BY <1>5, <2>4 DEF Evolves
  <2> QED BY <1>5, <2>5 DEF Evolves
<1> QED BY <1>1, <1>2, <1>3, <1>4, <1>5 DEF Evolves

\* Records are built from functions; the fields are what EXCEPT leaves.
LEMMA InsertedPut ==
  ASSUME NEW t, TableOK(t), NEW b \in DOMAIN t.disk, NEW item
  PROVE  /\ Len(t.seen[b]) < Cap => Inserted(t, b, item) = Put(t, b, item, b)
         /\ ~(Len(t.seen[b]) < Cap) =>
              LET m == Rel_AppendNewBlock(t) IN Inserted(t, b, item) = Put(m, m.max, item, b)
<1>1. ASSUME NEW m, TableOK(m), NEW c, NEW s
      PROVE  Flushed([m EXCEPT !.seen[c] = s], b) =
               LET f == [m.seen EXCEPT ![c] = s]
               IN  [fsh |-> m.fsh, max |-> m.max, seen |-> f,
                    disk |-> [m.disk EXCEPT ![b] = f[b]]]
  <2> DEFINE f == [m.seen EXCEPT ![c] = s]
             x == [m EXCEPT !.seen[c] = s]
             y == [fsh |-> m.fsh, max |-> m.max, seen |-> f, disk |-> m.disk]
  <2>1. m = [fsh |-> m.fsh, max |-> m.max, seen |-> m.seen, disk |-> m.disk]
    BY <1>1 DEF TableOK
  <2>2. x = y
    <3>1. x = [m EXCEPT !.seen = f] OBVIOUS
    <3> HIDE DEF f, x
    <3> QED BY <2>1, <3>1
  <2>3. Flushed(x, b) = [x EXCEPT !.disk[b] = x.seen[b]] BY DEF Flushed
  <2> HIDE DEF f, x
  <2>4. x.seen = f /\ x.disk = m.disk BY <2>2
  <2>5. [x EXCEPT !.disk[b] = x.seen[b]] = [x EXCEPT !.disk = [m.disk EXCEPT ![b] = f[b]]]
    BY <2>4
  <2>6. [x EXCEPT !.disk = [m.disk EXCEPT ![b] = f[b]]]
          = [fsh |-> m.fsh, max |-> m.max, seen |-> f, disk |-> [m.disk EXCEPT ![b] = f[b]]]
    BY <2>2
  <2> QED BY <2>3, <2>5, <2>6 DEF f, x
<1>2. ASSUME Len(t.seen[b]) < Cap PROVE Inserted(t, b, item) = Put(t, b, item, b)
  <2>1. Inserted(t, b, item) = Flushed([t EXCEPT !.seen[b] = Append(@, item)], b)
    BY <1>2 DEF Inserted
  <2> QED BY <1>1, <2>1 DEF Put
<1>3. ASSUME ~(Len(t.seen[b]) < Cap)
      PROVE  LET m == Rel_AppendNewBlock(t) IN Inserted(t, b, item) = Put(m, m.max, item, b)
  <2> DEFINE m == Rel_AppendNewBlock(t)
  <2>1. TableOK(m) /\ m.seen[m.max] = <<>> BY AppendOK
  <2>2. Inserted(t, b, item) = Flushed([m EXCEPT !.seen[m.max] = <<item>>], b)
    BY <1>3 DEF Inserted
  <2> HIDE DEF m
  <2>3. Append(m.seen[m.max], item) = <<item>> BY <2>1
  <2>4. Inserted(t, b, item) = Put(m, m.max, item, b) BY <1>1, <2>1, <2>2, <2>3 DEF Put
  <2> QED BY <2>4 DEF m
<1> QED BY <1>2, <1>3

LEMMA InsertedDomain ==
  ASSUME NEW t, TableOK(t), NEW b \in DOMAIN t.disk, NEW item
  PROVE  DOMAIN t.disk \subseteq DOMAIN Inserted(t, b, item).seen
<1> DEFINE m == Rel_AppendNewBlock(t)
           n == Inserted(t, b, item)
<1>1. DOMAIN t.seen = DOMAIN t.disk BY DEF TableOK
<1>2. CASE Len(t.seen[b]) < Cap
  <2>1. n = Put(t, b, item, b) BY <1>2, InsertedPut
  <2>2. DOMAIN n.seen = DOMAIN t.seen BY <2>1 DEF Put
  <2> QED BY <1>1, <2>2
<1>3. CASE ~(Len(t.seen[b]) < Cap)
  <2>1. n = Put(m, m.max, item, b) BY <1>3, InsertedPut
  <2>2. DOMAIN n.seen = DOMAIN m.seen BY <2>1 DEF Put
  <2>3. TableOK(m) /\ DOMAIN t.disk \subseteq DOMAIN m.disk BY AppendOK
  <2> QED BY <2>2, <2>3 DEF TableOK
<1> QED BY <1>2, <1>3

LEMMA EvolvesSame ==
  ASSUME NEW n, NEW t, n.seen = t.seen, n.disk = t.disk, n.max = t.max
  PROVE  Evolves(n, t, {})
BY DEF Evolves, AllKnown

\* BLK_vBlockInsert and the flush of its caller: one row comes, and where a block
\* is appended, one that is not known may go.
LEMMA InsertedOK ==
  ASSUME NEW t, TableOK(t), Once(t.seen), NEW b \in DOMAIN t.disk,
         NEW item \in Items, ~item.deleted, Absent(t.seen, item.row),
         DOMAIN Inserted(t, b, item).seen \subseteq 0 .. MaxBlk
  PROVE  LET n == Inserted(t, b, item)
         IN  /\ TableOK(n) /\ Once(n.seen)
             /\ Evolves(n, t, {<<item.row, item.ver>>})
             /\ DOMAIN t.disk \subseteq DOMAIN n.disk
             /\ n.max = t.max \/ (n.max = NextBlock(t.max) /\ n.max \in DOMAIN n.disk)
             /\ \A d \in DOMAIN t.disk :
                  d # b /\ d # NextBlock(t.max) =>
                    n.seen[d] = t.seen[d] /\ n.disk[d] = t.disk[d]
<1> DEFINE n == Inserted(t, b, item)
<1>1. CASE Len(t.seen[b]) < Cap
  <2>1. n = Put(t, b, item, b) BY <1>1, InsertedPut
  <2> HIDE DEF n
  <2>2. /\ TableOK(n) /\ Once(n.seen) /\ Evolves(n, t, {<<item.row, item.ver>>})
        /\ DOMAIN n.disk = DOMAIN t.disk /\ n.max = t.max
        /\ \A d \in DOMAIN t.disk :
             d # b => n.seen[d] = t.seen[d] /\ n.disk[d] = t.disk[d]
    BY <1>1, <2>1, PutOK
  <2> QED BY <2>2 DEF n
<1>2. CASE ~(Len(t.seen[b]) < Cap)
  <2> DEFINE m == Rel_AppendNewBlock(t)
             k == NextBlock(t.max)
  <2>1. n = Put(m, k, item, b) /\ m.max = k BY <1>2, InsertedPut, AppendOK
  <2>2. /\ TableOK(m) /\ DOMAIN m.disk = DOMAIN t.disk \cup {k} /\ m.seen[k] = <<>>
        /\ \A d \in DOMAIN t.disk : d # k => m.seen[d] = t.seen[d] /\ m.disk[d] = t.disk[d]
    BY AppendOK
  <2>3. k <= MaxBlk
    <3>1. DOMAIN m.seen = DOMAIN m.disk BY <2>2 DEF TableOK
    <3>2. DOMAIN n.seen = DOMAIN m.seen BY <2>1 DEF Put
    <3>3. k \in 0 .. MaxBlk BY <2>2, <3>1, <3>2
    <3> QED BY <3>3
  <2>4. Once(m.seen) /\ Evolves(m, t, {}) BY <2>3, AppendEvolves
  <2>5. Absent(m.seen, item.row)
    <3>1. \A x : ~Has(t.seen, item.row, x) BY AbsentHas
    <3>2. \A x : ~Has(m.seen, item.row, x) BY <2>4, <3>1 DEF Evolves
    <3> QED BY <3>2, AbsentHas
  <2>6. Len(m.seen[k]) < Cap /\ k \in DOMAIN m.disk /\ b \in DOMAIN m.disk
    BY <2>2, BlockAssumption
  <2> HIDE DEF m, n, k
  <2>7. /\ TableOK(n) /\ Once(n.seen) /\ Evolves(n, m, {<<item.row, item.ver>>})
        /\ DOMAIN n.disk = DOMAIN m.disk /\ n.max = m.max
        /\ \A d \in DOMAIN m.disk :
             d # k /\ d # b => n.seen[d] = m.seen[d] /\ n.disk[d] = m.disk[d]
    <3>1. TableOK(m) /\ Once(m.seen) BY <2>2, <2>4
    <3>2. n = Put(m, k, item, b) BY <2>1
    <3> QED BY <2>5, <2>6, <3>1, <3>2, PutOK
  <2>8. Evolves(n, t, {<<item.row, item.ver>>}) BY <2>4, <2>7, EvolvesTwice
  <2> QED BY <2>1, <2>2, <2>7, <2>8 DEF n, k
<1> QED BY <1>1, <1>2

\* n comes from t when row r, item i of block b, is deleted.
Removes(n, t, b, i, r) ==
  /\ TableOK(n) /\ Once(n.seen)
  /\ DOMAIN n.disk = DOMAIN t.disk /\ n.max = t.max
  /\ \A q, v : Has(n.seen, q, v) <=> Has(t.seen, q, v) /\ q # r
  /\ \A q, v : Has(n.disk, q, v) <=> Has(t.disk, q, v) /\ q # r
  /\ n.seen[b] = n.disk[b]
  /\ \A d \in DOMAIN t.disk :
       d # b => n.seen[d] = t.seen[d] /\ n.disk[d] = t.disk[d]
  /\ \A d, j, q : /\ At(n.seen, d, j, q) <=> At(t.seen, d, j, q) /\ ~(d = b /\ j = i)
                  /\ At(n.seen, d, j, q) => n.seen[d][j] = t.seen[d][j]

\* The deletion of a row that is there, in a block that is as in the file.
LEMMA DeletedOK ==
  ASSUME AddrsFit, NEW t, TableOK(t), Once(t.seen),
         NEW b \in DOMAIN t.disk, b <= MaxBlk, NEW i, NEW r,
         At(t.seen, b, i, r), t.seen[b] = t.disk[b]
  PROVE  Removes(Deleted(t, b, i), t, b, i, r)
<1> DEFINE page == [t.seen[b] EXCEPT ![i].deleted = TRUE]
           s == [t.seen EXCEPT ![b] = page]
           f == [t.disk EXCEPT ![b] = page]
           n == Deleted(t, b, i)
<1>1. b \in Nat /\ b % AddrRange = b
  <2>1. b \in Nat BY DEF TableOK
  <2>2. b \in 0 .. AddrRange - 1 BY <2>1, TableAssumption DEF AddrsFit
  <2> QED BY <2>1, <2>2, TableAssumption
<1>2. /\ DOMAIN t.seen = DOMAIN t.disk /\ t.seen[b] \in Page /\ i \in 1 .. Len(t.seen[b])
      /\ i \in DOMAIN t.seen[b]
  BY PageSeq DEF TableOK, At
<1>3. n = [fsh |-> t.fsh, max |-> t.max, seen |-> s, disk |-> f]
  <2>1. t = [fsh |-> t.fsh, max |-> t.max, seen |-> t.seen, disk |-> t.disk]
    BY DEF TableOK
  <2> DEFINE x == [t EXCEPT !.seen[b][i].deleted = TRUE]
             y == [t EXCEPT !.seen = s]
  <2>2. n = Flushed(Flagged(t, b, i), b) BY <1>1 DEF Deleted
  <2>3. Flagged(t, b, i) = x BY <1>2 DEF Flagged
  <2>4. x = y OBVIOUS
  <2>5. Flushed(x, b) = [x EXCEPT !.disk[b] = x.seen[b]] BY DEF Flushed
  <2> HIDE DEF s, x, n
  <2>6. y = [fsh |-> t.fsh, max |-> t.max, seen |-> s, disk |-> t.disk]
    BY <2>1
  <2>7. x.seen = s /\ x.disk = t.disk BY <2>4, <2>6
  <2>8. s[b] = page BY <1>2 DEF s
  <2> HIDE DEF y, page
  <2>9. [x EXCEPT !.disk[b] = x.seen[b]] = [x EXCEPT !.disk = f]
    BY <2>7, <2>8
  <2> HIDE DEF f
  <2> QED BY <2>2, <2>3, <2>4, <2>5, <2>6, <2>9
<1>4. /\ Len(page) = Len(t.seen[b]) /\ page \in Page
      /\ \A j \in 1 .. Len(page) : page[j].row = t.seen[b][j].row /\ page[j].ver = t.seen[b][j].ver
      /\ page[i].deleted /\ \A j \in 1 .. Len(page) : j # i => page[j] = t.seen[b][j]
  <2>1. t.seen[b] \in Seq(Items) /\ Len(t.seen[b]) \in Nat /\ Len(t.seen[b]) <= Cap
    BY <1>2, PageSeq
  <2>2. t.seen[b][i] \in Items BY <1>2, <2>1
  <2> DEFINE item == [t.seen[b][i] EXCEPT !.deleted = TRUE]
  <2>3. item \in Items /\ item.deleted /\ item.row = t.seen[b][i].row /\ item.ver = t.seen[b][i].ver
    BY <2>2 DEF Items
  <2>4. page = [t.seen[b] EXCEPT ![i] = item] OBVIOUS
  <2> HIDE DEF item, page
  <2>5. page \in Seq(Items) /\ Len(page) = Len(t.seen[b])
    BY <1>2, <2>1, <2>3, <2>4
  <2>6. page[i] = item /\ \A j \in 1 .. Len(page) : j # i => page[j] = t.seen[b][j]
    BY <1>2, <2>1, <2>4, <2>5
  <2> QED BY <2>1, <2>3, <2>5, <2>6 DEF Page
<1> HIDE DEF page
<1>5. /\ s[b] = page /\ f[b] = page /\ DOMAIN s = DOMAIN t.disk /\ DOMAIN f = DOMAIN t.disk
      /\ \A d \in DOMAIN t.disk : d # b => s[d] = t.seen[d] /\ f[d] = t.disk[d]
  BY <1>2
<1>6. s \in [DOMAIN f -> Page] /\ f \in [DOMAIN f -> Page]
  BY <1>4 DEF TableOK
<1> HIDE DEF s, f
<1>7. ASSUME NEW d \in DOMAIN t.disk
      PROVE  Len(f[d]) <= Len(s[d]) /\ \A j \in 1 .. Len(f[d]) : f[d][j] = s[d][j]
  <2>1. CASE d = b
    <3>1. Len(page) \in Nat BY <1>4, PageSeq
    <3> QED BY <1>5, <2>1, <3>1
  <2>2. CASE d # b BY <1>5, <2>2 DEF TableOK
  <2> QED BY <2>1, <2>2
<1>8. TableOK(n) BY <1>3, <1>5, <1>6, <1>7 DEF TableOK
<1>9. DOMAIN page = DOMAIN t.seen[b] /\ DOMAIN page = 1 .. Len(page)
  BY <1>2, <1>4, PageSeq
\* In the process and in the file alike.
<1>10. ASSUME NEW g, NEW h, DOMAIN h = DOMAIN t.disk, DOMAIN g = DOMAIN h,
              g[b] = page, h[b] = t.seen[b], \A d \in DOMAIN h : d # b => g[d] = h[d]
       PROVE  /\ \A d, j, q : At(g, d, j, q) <=> At(h, d, j, q) /\ ~(d = b /\ j = i)
              /\ \A d, j, q : At(g, d, j, q) => g[d][j] = h[d][j]
  <2>1. ASSUME NEW d, NEW j, NEW q, d = b
        PROVE  /\ At(g, d, j, q) <=> At(h, d, j, q) /\ ~(d = b /\ j = i)
               /\ At(g, d, j, q) => g[d][j] = h[d][j]
    <3>1. CASE j = i BY <1>4, <1>9, <1>10, <2>1, <3>1 DEF At
    <3>2. CASE j # i BY <1>4, <1>9, <1>10, <2>1, <3>2 DEF At
    <3> QED BY <3>1, <3>2
  <2>2. ASSUME NEW d, NEW j, NEW q, d # b
        PROVE  /\ At(g, d, j, q) <=> At(h, d, j, q) /\ ~(d = b /\ j = i)
               /\ At(g, d, j, q) => g[d][j] = h[d][j]
    BY <1>10, <2>2 DEF At
  <2> QED BY <2>1, <2>2
<1>11. ASSUME NEW g, NEW h, DOMAIN h = DOMAIN t.disk, DOMAIN g = DOMAIN h, Once(h),
              g[b] = page, h[b] = t.seen[b], \A d \in DOMAIN h : d # b => g[d] = h[d]
       PROVE  Once(g) /\ \A q, v : Has(g, q, v) <=> Has(h, q, v) /\ q # r
  <2>1. At(h, b, i, r) BY <1>11 DEF At
  <2>2. Once(g) BY <1>10, <1>11 DEF Once
  <2>3. ASSUME NEW q, NEW v, Has(g, q, v) PROVE Has(h, q, v) /\ q # r
    <3>1. PICK d, j : At(g, d, j, q) /\ g[d][j].ver = v BY <2>3 DEF Has
    <3>2. At(h, d, j, q) /\ ~(d = b /\ j = i) /\ h[d][j].ver = v BY <1>10, <1>11, <3>1
    <3>3. q # r BY <1>11, <2>1, <3>2 DEF Once
    <3> QED BY <3>2, <3>3 DEF Has
  <2>4. ASSUME NEW q, NEW v, Has(h, q, v), q # r PROVE Has(g, q, v)
    <3>1. PICK d, j : At(h, d, j, q) /\ h[d][j].ver = v BY <2>4 DEF Has
    <3>2. ~(d = b /\ j = i) BY <2>1, <2>4, <3>1 DEF At
    <3>3. At(g, d, j, q) /\ g[d][j].ver = v BY <1>10, <1>11, <3>1, <3>2
    <3> QED BY <3>3 DEF Has
  <2> QED BY <2>2, <2>3, <2>4
<1>12. Once(s) /\ \A q, v : Has(s, q, v) <=> Has(t.seen, q, v) /\ q # r
  BY <1>2, <1>5, <1>11
<1>13. \A q, v : Has(f, q, v) <=> Has(t.disk, q, v) /\ q # r
  <2>1. Once(t.disk) BY DiskOnce
  <2> QED BY <1>5, <1>11, <2>1
<1>14. n.seen = s /\ n.disk = f /\ n.max = t.max BY <1>3
<1> HIDE DEF n
<1>15. \A d, j, q : /\ At(n.seen, d, j, q) <=> At(t.seen, d, j, q) /\ ~(d = b /\ j = i)
                    /\ At(n.seen, d, j, q) => n.seen[d][j] = t.seen[d][j]
  BY <1>2, <1>5, <1>10, <1>14
<1>16. Removes(n, t, b, i, r) BY <1>5, <1>8, <1>12, <1>13, <1>14, <1>15 DEF Removes
<1> QED BY <1>16 DEF n

-----------------------------------------------------------------------------
\* The same, as steps of the table of rows.

KeptRows(t) ==
  IF AllKnown(t) THEN {RowsOf(t.seen)} ELSE Abstract!Parts(RowsOf(t.seen))

LEMMA StoredRows ==
  ASSUME NEW t, NEW n, NEW New, TableOK(t), TableOK(n), Once(t.seen), Once(n.seen),
         Evolves(n, t, New)
  PROVE  /\ RowsOf(n.disk) \in Abstract!Parts(RowsOf(n.seen))
         /\ DOMAIN RowsOf(t.disk) \cap DOMAIN RowsOf(n.seen) \subseteq DOMAIN RowsOf(n.disk)
<1>1. Once(t.disk) /\ Once(n.disk) BY DiskOnce
<1>2. \A r, v : Has(n.disk, r, v) => Has(n.seen, r, v) BY DiskSeen
<1>3. ASSUME NEW r, r \in DOMAIN RowsOf(t.disk), r \in DOMAIN RowsOf(n.seen)
      PROVE  r \in DOMAIN RowsOf(n.disk)
  <2>1. PICK v : Has(t.disk, r, v) BY <1>1, <1>3, RowsHas
  <2>2. PICK w : Has(n.seen, r, w) BY <1>3, RowsHas
  <2>3. PICK u : Has(n.disk, r, u) BY <2>1, <2>2 DEF Evolves
  <2> QED BY <1>1, <2>3, RowsHas
<1> QED BY <1>1, <1>2, <1>3, RowsPart

LEMMA EvolvesFewer ==
  ASSUME NEW t, NEW n, Once(t.seen), Once(n.seen), Evolves(n, t, {})
  PROVE  RowsOf(n.seen) \in KeptRows(t)
<1>1. \A r, v : Has(n.seen, r, v) => Has(t.seen, r, v) BY DEF Evolves
<1>2. CASE AllKnown(t)
  <2>1. \A r, v : Has(n.seen, r, v) <=> Has(t.seen, r, v) BY <1>1, <1>2 DEF Evolves
  <2> QED BY <1>2, <2>1, RowsEqual DEF KeptRows
<1>3. CASE ~AllKnown(t) BY <1>1, <1>3, RowsPart DEF KeptRows
<1> QED BY <1>2, <1>3

LEMMA EvolvesRow ==
  ASSUME NEW t, NEW n, NEW r, NEW v, Once(t.seen), Once(n.seen),
         Evolves(n, t, {<<r, v>>}), Absent(t.seen, r)
  PROVE  \E kept \in KeptRows(t) :
           r \notin DOMAIN kept /\ RowsOf(n.seen) = Abstract!Including(kept, r, v)
<1> DEFINE old == RowsOf(t.seen)
           new == RowsOf(n.seen)
           D == DOMAIN new \ {r}
           kept == Abstract!Restrict(old, D)
<1>1. \A q : q \in DOMAIN old <=> \E u : Has(t.seen, q, u) BY RowsHas
<1>2. \A q : q \in DOMAIN new <=> \E u : Has(n.seen, q, u) BY RowsHas
<1>3. \A q, u : Has(t.seen, q, u) => old[q] = u BY RowsHas
<1>4. \A q, u : Has(n.seen, q, u) => new[q] = u BY RowsHas
<1>5. /\ old = [q \in DOMAIN old |-> old[q]]
      /\ new = [q \in DOMAIN new |-> new[q]]
  BY RowsHas
<1>6. \A u : ~Has(t.seen, r, u) BY AbsentHas
<1> HIDE DEF old, new
<1>7. \A q, u : Has(n.seen, q, u) /\ q # r => Has(t.seen, q, u)
  <2>1. \A q, u : q # r => <<q, u>> # <<r, v>> OBVIOUS
  <2> QED BY <2>1 DEF Evolves
<1>8. Has(n.seen, r, v)
  <2>1. <<r, v>>[1] = r /\ <<r, v>>[2] = v OBVIOUS
  <2> QED BY <2>1 DEF Evolves
<1>9. D \subseteq DOMAIN old BY <1>1, <1>2, <1>7
<1>10. \A q \in D : old[q] = new[q] BY <1>2, <1>3, <1>4, <1>7
<1>11. r \in DOMAIN new /\ new[r] = v BY <1>2, <1>4, <1>8
<1>12. DOMAIN kept = D /\ \A q \in D : kept[q] = old[q] BY DEF Abstract!Restrict
<1>13. new = Abstract!Including(kept, r, v)
  <2>1. DOMAIN kept \cup {r} = DOMAIN new BY <1>11, <1>12
  <2>2. \A q \in DOMAIN new : new[q] = IF q = r THEN v ELSE kept[q]
    BY <1>10, <1>11, <1>12
  <2> HIDE DEF kept, D
  <2>3. Abstract!Including(kept, r, v) = [q \in DOMAIN new |-> IF q = r THEN v ELSE kept[q]]
    BY <2>1 DEF Abstract!Including
  <2> QED BY <1>5, <2>2, <2>3
<1>14. kept \in KeptRows(t)
  <2>1. CASE AllKnown(t)
    <3>1. \A q, u : Has(t.seen, q, u) => Has(n.seen, q, u) BY <2>1 DEF Evolves
    <3>2. D = DOMAIN old BY <1>1, <1>2, <1>6, <1>9, <3>1
    <3>3. kept = [q \in DOMAIN old |-> old[q]] BY <3>2 DEF Abstract!Restrict
    <3> QED BY <1>5, <2>1, <3>3 DEF KeptRows, old
  <2>2. CASE ~AllKnown(t)
    BY <1>9, <2>2 DEF KeptRows, Abstract!Parts, old
  <2> QED BY <2>1, <2>2
<1>15. r \notin DOMAIN kept BY <1>12
<1> QED BY <1>13, <1>14, <1>15 DEF new

LEMMA RowsWithout ==
  ASSUME NEW new, NEW old, NEW r, Once(new), Once(old),
         \A q, v : Has(new, q, v) <=> Has(old, q, v) /\ q # r
  PROVE  RowsOf(new) = Abstract!Without(RowsOf(old), r)
<1>1. RowsOf(new) = Restrict(RowsOf(old), DOMAIN RowsOf(new)) BY RowsPart
<1>2. \A q : q \in DOMAIN RowsOf(new) <=> q \in DOMAIN RowsOf(old) /\ q # r BY RowsHas
<1>3. DOMAIN RowsOf(new) = DOMAIN RowsOf(old) \ {r} BY <1>2
<1> QED BY <1>1, <1>3 DEF Abstract!Without, Abstract!Restrict, Restrict

-----------------------------------------------------------------------------
\* The inductive invariant.

Saved ==
  /\ fsmFile.fsh \in [DOMAIN fsmFile.fsh -> 1 .. Cap]
  /\ DOMAIN fsmFile.fsh \subseteq DOMAIN disk
  /\ fsmFile.max \in DOMAIN disk \cup {INValidBlockNumber}

\* What a statement scans is as in the file, and what it inserts is not scanned.
Scanned ==
  /\ scan = [blkNumber |-> scan.blkNumber, tupleIndex |-> scan.tupleIndex, max |-> scan.max]
  /\ kind = "none" => seen = disk
  /\ kind \in {"select", "delete", "update"} =>
       \A b \in DOMAIN disk : b <= scan.max => seen[b] = disk[b]
  /\ kind = "update" =>
       /\ scan.max \in Nat /\ scan.max < Rel_curMaxBlock
       /\ IsValidBlockNumber(Rel_curMaxBlock)

\* The tuple that was got is there; when it was deleted, its row is nowhere.
Got ==
  /\ pc \in {"got", "append"} =>
       tuple.item \in Items /\ (kind = "update" => tuple.item.ver < MaxVer)
  /\ pc = "got" =>
       /\ kind \in {"select", "delete", "update"}
       /\ tuple.bnum \in DOMAIN disk /\ tuple.bnum <= scan.max
       /\ At(seen, tuple.bnum, tuple.index, tuple.item.row)
       /\ seen[tuple.bnum][tuple.index] = tuple.item
  /\ pc = "append" => kind = "update" /\ Absent(seen, tuple.item.row)

IInv ==
  /\ kind \in Kinds \cup {"none"} /\ pc \in {"run", "got", "append", "done"}
  /\ TableOK(Table) /\ DOMAIN disk \subseteq 0 .. MaxBlk
  /\ Once(seen)
  /\ Saved /\ Scanned /\ Got

Scanning == kind \in {"select", "delete", "update"}

\* The blocks that a scan reads are the same.
SameUpTo(new, old, max) ==
  \A d \in DOMAIN new \cup DOMAIN old :
    d <= max => d \in DOMAIN new /\ d \in DOMAIN old /\ new[d] = old[d]

\* The mapping of INSTANCE, by name.
Moving == IF pc = "append" THEN {<<tuple.item.row, tuple.item.ver + 1>>} ELSE {}
AllBlocks == NextBlock(LastKnown) \notin DOMAIN disk

LEMMA TableFields ==
  /\ Table.fsh = Rel_fsh /\ Table.max = Rel_curMaxBlock
  /\ Table.seen = seen /\ Table.disk = disk
BY DEF Table

LEMMA BecomesTable ==
  ASSUME NEW t, TableOK(t), Becomes(t)
  PROVE  /\ TableOK(Table)' /\ seen' = t.seen /\ disk' = t.disk
         /\ Rel_curMaxBlock' = t.max /\ Rel_fsh' = t.fsh
<1>1. t = [fsh |-> t.fsh, max |-> t.max, seen |-> t.seen, disk |-> t.disk] BY DEF TableOK
<1>2. seen' = t.seen /\ disk' = t.disk /\ Rel_curMaxBlock' = t.max /\ Rel_fsh' = t.fsh
  BY DEF Becomes
<1>3. Table' = t BY <1>1, <1>2 DEF Table
<1>4. TableOK(Table') BY <1>3
<1> QED BY <1>2, <1>4

\* A relation that knows other blocks, or no block.
LEMMA Reopened ==
  ASSUME NEW fsh, NEW max, NEW s, NEW f, NEW t, TableOK(t), t.disk = f, s \in {t.seen, f},
         fsh \in [DOMAIN fsh -> 1 .. Cap], DOMAIN fsh \subseteq DOMAIN f,
         max \in DOMAIN f \cup {INValidBlockNumber}
  PROVE  TableOK([fsh |-> fsh, max |-> max, seen |-> s, disk |-> f])
<1> DEFINE n == [fsh |-> fsh, max |-> max, seen |-> s, disk |-> f]
<1>1. n.fsh = fsh /\ n.max = max /\ n.seen = s /\ n.disk = f OBVIOUS
<1>2. n = [fsh |-> n.fsh, max |-> n.max, seen |-> n.seen, disk |-> n.disk] OBVIOUS
<1> HIDE DEF n
<1>3. \A b \in DOMAIN f : Len(f[b]) \in Nat
  <2>1. \A b \in DOMAIN f : f[b] \in Page BY DEF TableOK
  <2> QED BY <2>1, PageSeq
<1>4. \A b \in DOMAIN f : Len(f[b]) <= Len(s[b]) /\ \A i \in 1 .. Len(f[b]) : f[b][i] = s[b][i]
  BY <1>3 DEF TableOK
<1>5. s \in [DOMAIN f -> Page] /\ f \in [DOMAIN f -> Page] BY DEF TableOK
<1>6. DOMAIN f \subseteq Nat /\ \A b \in DOMAIN f : \A c \in Nat : c <= b => c \in DOMAIN f
  BY DEF TableOK
<1>7. TableOK(n) BY <1>1, <1>2, <1>4, <1>5, <1>6 DEF TableOK
<1> QED BY <1>7 DEF n

LEMMA InitStep == Init => IInv /\ Abstract!Init
<1> SUFFICES ASSUME Init PROVE IInv /\ Abstract!Init OBVIOUS
<1>1. /\ DOMAIN seen = {} /\ DOMAIN disk = {} /\ seen = disk
      /\ DOMAIN Rel_fsh = {} /\ Rel_fsh = [b \in {} |-> 0] /\ disk = [b \in {} |-> <<>>]
  BY DEF Init
<1>2. TableOK(Table)
  <2>1. Rel_fsh \in [DOMAIN Rel_fsh -> 1 .. Cap] /\ disk \in [DOMAIN disk -> Page] BY <1>1
  <2>2. Rel_curMaxBlock = INValidBlockNumber BY DEF Init
  <2>3. Table = [fsh |-> Table.fsh, max |-> Table.max, seen |-> Table.seen, disk |-> Table.disk]
    BY TableFields DEF Table
  <2> QED BY <1>1, <2>1, <2>2, <2>3, TableFields DEF TableOK
<1>3. \A r, v : ~Has(seen, r, v) BY <1>1 DEF Has, At
<1>4. Once(seen) BY <1>1 DEF Once, At
<1>5. Saved
  <2>1. fsmFile.fsh = Rel_fsh /\ fsmFile.max = INValidBlockNumber BY DEF Init
  <2> QED BY <1>1, <2>1 DEF Saved
<1>10. scan = [blkNumber |-> scan.blkNumber, tupleIndex |-> scan.tupleIndex, max |-> scan.max]
  BY DEF Init
<1>6. IInv BY <1>1, <1>2, <1>4, <1>5, <1>10 DEF IInv, Init, Scanned, Got
<1>7. RowsOf(seen) = [r \in {} |-> 0]
  <2>1. Live(seen) = {} BY <1>3, LiveHas
  <2> QED BY <2>1 DEF RowsOf
<1>8. NextBlock(LastKnown) \notin DOMAIN disk BY <1>1
<1>9. Moving = {} BY DEF Init, Moving
<1> QED BY <1>1, <1>6, <1>7, <1>8, <1>9 DEF Abstract!Init, Moving

\* The process is gone, and with it what was not in the file.
LEMMA GoneStep ==
  ASSUME IInv, Gone,
         \/ fsmFile' = fsmFile
         \/ fsmFile' = [fsh |-> Rel_fsh, max |-> Rel_curMaxBlock]
  PROVE  IInv' /\ Abstract!Quit
<1>1. /\ kind' = "none" /\ pc' = "done" /\ seen' = disk /\ disk' = disk
      /\ Rel_fsh' = [b \in {} |-> 0] /\ Rel_curMaxBlock' = INValidBlockNumber
  BY DEF Gone
<1>2. TableOK(Table) /\ Once(Table.seen) BY TableFields DEF IInv
<1>3. TableOK([fsh |-> Rel_fsh', max |-> Rel_curMaxBlock', seen |-> disk, disk |-> disk])
  <2>1. Rel_fsh' \in [DOMAIN Rel_fsh' -> 1 .. Cap] /\ DOMAIN Rel_fsh' = {} BY <1>1
  <2> QED BY <1>1, <1>2, <2>1, TableFields, Reopened
<1>4. TableOK(Table)'
  <2>1. Table' = [fsh |-> Rel_fsh', max |-> Rel_curMaxBlock', seen |-> disk, disk |-> disk]
    BY <1>1 DEF Table
  <2>2. TableOK(Table') BY <1>3, <2>1
  <2> QED BY <2>2
<1>5. Once(disk) BY <1>2, DiskOnce, TableFields
<1>6. Saved'
  <2>1. CASE fsmFile' = fsmFile BY <1>1, <2>1 DEF IInv, Saved
  <2>2. CASE fsmFile' = [fsh |-> Rel_fsh, max |-> Rel_curMaxBlock]
    <3>1. fsmFile'.fsh = Rel_fsh /\ fsmFile'.max = Rel_curMaxBlock BY <2>2
    <3> QED BY <1>1, <1>2, <3>1, TableFields DEF Saved, TableOK
  <2> QED BY <2>1, <2>2
<1>9. scan' = [blkNumber |-> scan'.blkNumber, tupleIndex |-> scan'.tupleIndex, max |-> scan'.max]
  BY DEF Gone
<1>7. IInv' BY <1>1, <1>4, <1>5, <1>6, <1>9 DEF IInv, Scanned, Got
<1>8. RowsOf(seen)' = RowsOf(disk) /\ RowsOf(disk)' = RowsOf(disk) /\ Moving' = {}
  BY <1>1 DEF Moving
<1> QED BY <1>7, <1>8 DEF Abstract!Quit, Moving

\* A buffer is read again from the file: what was not in it is lost.
LEMMA ReplaceStep ==
  ASSUME IInv, NEW b \in DOMAIN seen, Replace(b)
  PROVE  IInv' /\ Abstract!Lose /\ (Scanning => SameUpTo(seen', seen, scan.max))
<1>1. /\ TableOK(Table) /\ Once(seen) /\ Saved /\ Scanned /\ Got
      /\ Table.seen = seen /\ Table.disk = disk
      /\ DOMAIN seen = DOMAIN disk
  BY TableFields DEF IInv, TableOK
<1>2. /\ seen' = [seen EXCEPT ![b] = disk[b]] /\ kind # "none" /\ seen[b] # disk[b]
      /\ UNCHANGED <<kind, pc, Rel_fsh, Rel_curMaxBlock, fsmFile, scan, tuple, disk>>
  BY DEF Replace
<1>3. seen'[b] = disk[b] /\ \A d \in DOMAIN disk : d # b => seen'[d] = seen[d]
  BY <1>1, <1>2
<1>4. TableOK(Table)'
  <2>1. seen' \in [DOMAIN disk -> Page] /\ disk \in [DOMAIN disk -> Page]
    BY <1>1, <1>2 DEF TableOK
  <2>2. ASSUME NEW d \in DOMAIN disk
        PROVE  Len(disk[d]) <= Len(seen'[d]) /\ \A i \in 1 .. Len(disk[d]) : disk[d][i] = seen'[d][i]
    <3>1. Len(disk[d]) \in Nat BY <2>1, PageSeq
    <3>2. CASE d = b BY <1>3, <3>1, <3>2
    <3>3. CASE d # b BY <1>1, <1>3, <3>3 DEF TableOK
    <3> QED BY <3>2, <3>3
  <2> DEFINE n == [fsh |-> Rel_fsh, max |-> Rel_curMaxBlock, seen |-> seen', disk |-> disk]
  <2>3. n.fsh = Rel_fsh /\ n.max = Rel_curMaxBlock /\ n.seen = seen' /\ n.disk = disk
        /\ n = [fsh |-> n.fsh, max |-> n.max, seen |-> n.seen, disk |-> n.disk]
    OBVIOUS
  <2>4. Table' = n BY <1>2 DEF Table
  <2> HIDE DEF n
  <2>5. TableOK(n) BY <1>1, <2>1, <2>2, <2>3, TableFields DEF TableOK
  <2>6. TableOK(Table') BY <2>4, <2>5
  <2> QED BY <2>6
<1>5. ASSUME NEW d, NEW i, NEW r, At(seen', d, i, r)
      PROVE  At(seen, d, i, r) /\ seen'[d][i] = seen[d][i]
  <2>1. CASE d = b
    <3>1. At(disk, d, i, r) /\ seen'[d][i] = disk[d][i]
      BY <1>1, <1>2, <1>3, <1>5, <2>1 DEF At
    <3> QED BY <1>1, <3>1, DiskSeen
  <2>2. CASE d # b BY <1>1, <1>2, <1>3, <1>5, <2>2 DEF At
  <2> QED BY <2>1, <2>2
<1>6. Once(seen') BY <1>1, <1>5 DEF Once
<1>7. \A r, v : Has(seen', r, v) => Has(seen, r, v) BY <1>5 DEF Has
<1>8. Saved' BY <1>1, <1>2 DEF Saved
<1>9. Scanned'
  <2>1. \A d \in DOMAIN disk : seen'[d] = seen[d] \/ seen'[d] = disk[d] BY <1>3
  <2> QED BY <1>1, <1>2, <2>1 DEF Scanned
<1>10. Got'
  <2>1. CASE pc = "got"
    <3>1. seen[tuple.bnum] = disk[tuple.bnum] BY <1>1, <2>1 DEF Got, Scanned
    <3>2. tuple.bnum # b BY <1>2, <3>1
    <3>3. seen'[tuple.bnum] = seen[tuple.bnum] /\ DOMAIN seen' = DOMAIN seen
      BY <1>1, <1>2, <1>3, <2>1, <3>2 DEF Got
    <3>4. At(seen', tuple.bnum, tuple.index, tuple.item.row)
      BY <1>1, <2>1, <3>3 DEF Got, At
    <3> QED BY <1>1, <1>2, <2>1, <3>3, <3>4 DEF Got
  <2>2. CASE pc = "append"
    <3>1. Absent(seen', tuple.item.row) BY <1>1, <1>5, <2>2 DEF Got, Absent
    <3> QED BY <1>1, <1>2, <2>2, <3>1 DEF Got
  <2>3. CASE pc \notin {"got", "append"} BY <1>2, <2>3 DEF Got
  <2> QED BY <2>1, <2>2, <2>3
<1>11. IInv' BY <1>2, <1>4, <1>6, <1>8, <1>9, <1>10 DEF IInv
<1>12. RowsOf(seen') \in Abstract!Parts(RowsOf(seen)) BY <1>1, <1>6, <1>7, RowsPart
<1>13. DOMAIN RowsOf(disk) \subseteq DOMAIN RowsOf(seen')
  <2>1. Table'.seen = seen' /\ Table'.disk = disk BY <1>2 DEF Table
  <2>2. TableOK(Table') BY <1>4
  <2>3. Once(disk) BY <1>1, DiskOnce
  <2>4. \A r, v : Has(disk, r, v) => Has(seen', r, v) BY <2>1, <2>2, DiskSeen
  <2>5. \A r : r \in DOMAIN RowsOf(disk) => r \in DOMAIN RowsOf(seen')
    BY <1>6, <2>3, <2>4, RowsHas
  <2> QED BY <2>5
<1>14. RowsOf(seen)' = RowsOf(seen') OBVIOUS
<1>15. RowsOf(disk)' = RowsOf(disk) BY <1>2 DEF RowsOf, Live
<1>16. Moving' = Moving /\ AllBlocks' = AllBlocks
  <2>1. LastKnown' = LastKnown BY <1>2 DEF LastKnown
  <2> QED BY <1>2, <2>1 DEF Moving, AllBlocks, NextBlock
<1>17. Scanning => SameUpTo(seen', seen, scan.max)
  <2> SUFFICES ASSUME Scanning, NEW d \in DOMAIN seen, d <= scan.max PROVE seen'[d] = seen[d]
    BY <1>1, <1>2 DEF SameUpTo
  <2>1. d # b BY <1>1, <1>2 DEF Scanned, Scanning
  <2> QED BY <1>1, <1>3, <2>1
<1> HIDE DEF RowsOf
<1> QED BY <1>11, <1>12, <1>13, <1>14, <1>15, <1>16, <1>17 DEF Abstract!Lose, Moving, AllBlocks

LEMMA BeginStep ==
  ASSUME IInv, NEW k \in Kinds, NEW where, Begin(k, where)
  PROVE  /\ IInv' /\ (Abstract!AddBlock \/ UNCHANGED Abstract!tableVars)
         /\ SameUpTo(seen', seen, fsmFile.max)
         /\ IsValidBlockNumber(Rel_curMaxBlock') <=> IsValidBlockNumber(fsmFile.max)
<1> DEFINE open == [fsh |-> fsmFile.fsh, max |-> fsmFile.max, seen |-> seen, disk |-> disk]
<1>1. /\ kind = "none" /\ kind' = k /\ pc' = "run" /\ fsmFile' = fsmFile
      /\ Becomes(IF k = "update" THEN Rel_AppendNewBlock(open) ELSE open)
      /\ scan' = [blkNumber |-> 0, tupleIndex |-> 0, max |-> fsmFile.max]
  BY DEF Begin, MaxBlockNumbertoScan
<1>2. k # "none" BY TableAssumption
<1>3. /\ TableOK(Table) /\ Once(seen) /\ Saved /\ Scanned /\ Got
      /\ Table.seen = seen /\ Table.disk = disk /\ seen = disk
      /\ pc # "append"
  BY <1>1, TableFields DEF IInv, Scanned, Got
<1>4. TableOK(open) BY <1>3, Reopened DEF Saved
<1>5. open.max = fsmFile.max /\ open.seen = seen /\ open.disk = disk /\ open.fsh = fsmFile.fsh
  OBVIOUS
<1> HIDE DEF open
<1>6. scan' = [blkNumber |-> scan'.blkNumber, tupleIndex |-> scan'.tupleIndex, max |-> scan'.max]
      /\ scan'.max = fsmFile.max
  BY <1>1
<1>7. LastKnown = fsmFile.max /\ LastKnown' = Rel_curMaxBlock'
  BY <1>1, <1>2 DEF LastKnown
<1>8. Moving = {} /\ Moving' = {} BY <1>1, <1>3 DEF Moving
<1>9. CASE k # "update"
  <2>1. Becomes(open) BY <1>1, <1>9
  <2>2. /\ TableOK(Table)' /\ seen' = seen /\ disk' = disk /\ Rel_curMaxBlock' = fsmFile.max
    BY <1>4, <1>5, <2>1, BecomesTable
  <2>3. Saved' BY <1>1, <1>3, <2>2 DEF Saved
  <2>4. Scanned' BY <1>1, <1>2, <1>3, <1>6, <1>9, <2>2 DEF Scanned
  <2>5. Got' BY <1>1 DEF Got
  <2>6. IInv' BY <1>1, <1>3, <2>2, <2>3, <2>4, <2>5 DEF IInv
  <2>7. RowsOf(seen)' = RowsOf(seen) /\ RowsOf(disk)' = RowsOf(disk)
    BY <2>2 DEF RowsOf, Live
  <2>8. AllBlocks' = AllBlocks BY <1>7, <2>2 DEF AllBlocks, NextBlock
  <2>9. SameUpTo(seen', seen, fsmFile.max) BY <2>2 DEF SameUpTo
  <2> QED BY <1>8, <2>2, <2>6, <2>7, <2>8, <2>9
          DEF Abstract!tableVars, Moving, AllBlocks, IsValidBlockNumber
<1>10. CASE k = "update"
  <2> DEFINE n == Rel_AppendNewBlock(open)
             m == NextBlock(fsmFile.max)
  <2>1. IsValidBlockNumber(fsmFile.max) /\ m <= MaxBlk BY <1>10 DEF Begin
  <2>2. fsmFile.max \in DOMAIN disk /\ fsmFile.max \in Nat /\ m = fsmFile.max + 1
    BY <1>3, <2>1, BlockAssumption DEF Saved, IsValidBlockNumber, NextBlock, TableOK
  <2>3. Becomes(n) BY <1>1, <1>10
  <2>4. /\ TableOK(n) /\ DOMAIN n.disk = DOMAIN disk \cup {m} /\ n.max = m
        /\ \A b \in DOMAIN disk : b # m => n.seen[b] = seen[b] /\ n.disk[b] = disk[b]
        /\ n.seen[m] = <<>> /\ n.disk[m] = <<>>
    BY <1>4, <1>5, AppendOK
  <2>5. Once(n.seen) /\ Evolves(n, open, {}) BY <1>3, <1>4, <1>5, <2>1, AppendEvolves
  <2> HIDE DEF n
  <2>6. /\ TableOK(Table)' /\ seen' = n.seen /\ disk' = n.disk /\ Rel_curMaxBlock' = n.max
    BY <2>3, <2>4, BecomesTable
  <2>7. DOMAIN disk' \subseteq 0 .. MaxBlk
    BY <2>1, <2>2, <2>4, <2>6, TableAssumption DEF IInv
  <2>8. Saved' BY <1>1, <1>3, <2>4, <2>6 DEF Saved
  <2>9. Scanned'
    <3>1. \A b \in DOMAIN disk' : seen'[b] = disk'[b]
      BY <1>3, <2>4, <2>6
    <3>2. scan'.max < Rel_curMaxBlock' /\ IsValidBlockNumber(Rel_curMaxBlock')
      BY <1>6, <2>1, <2>2, <2>4, <2>6, BlockAssumption, TableAssumption DEF IsValidBlockNumber
    <3>3. kind' # "none" BY <1>1, <1>2
    <3> QED BY <1>6, <2>2, <3>1, <3>2, <3>3 DEF Scanned
  <2>10. Got' BY <1>1 DEF Got
  <2>11. IInv' BY <1>1, <2>5, <2>6, <2>7, <2>8, <2>9, <2>10 DEF IInv
  <2>12. RowsOf(n.seen) \in KeptRows(open) BY <1>3, <1>5, <2>5, EvolvesFewer
  <2>13. /\ RowsOf(n.disk) \in Abstract!Parts(RowsOf(n.seen))
         /\ DOMAIN RowsOf(disk) \cap DOMAIN RowsOf(n.seen) \subseteq DOMAIN RowsOf(n.disk)
    BY <1>3, <1>4, <1>5, <2>4, <2>5, StoredRows
  <2>14. RowsOf(seen)' = RowsOf(n.seen) /\ RowsOf(disk)' = RowsOf(n.disk)
    BY <2>6 DEF RowsOf, Live
  <2>15. AllKnown(open) <=> AllBlocks BY <1>5, <1>7 DEF AllKnown, AllBlocks
  <2>16. AllKnown(open) => AllKnown(n) BY <2>5 DEF Evolves
  <2>17. AllKnown(n) => AllBlocks' BY <1>7, <2>6 DEF AllKnown, AllBlocks, NextBlock
  <2>18. Abstract!Kept = KeptRows(open)
    BY <1>5, <2>15 DEF Abstract!Kept, KeptRows, AllBlocks
  <2>19. SameUpTo(seen', seen, fsmFile.max)
    BY <1>3, <2>2, <2>4, <2>6 DEF SameUpTo, TableOK
  <2>20. IsValidBlockNumber(Rel_curMaxBlock')
    BY <2>1, <2>2, <2>4, <2>6, BlockAssumption, TableAssumption DEF IsValidBlockNumber
  <2>21. Abstract!AddBlock
    BY <1>8, <2>12, <2>13, <2>14, <2>15, <2>16, <2>17, <2>18
       DEF Abstract!AddBlock, Abstract!Stored, Moving, AllBlocks
  <2> QED BY <2>1, <2>11, <2>19, <2>20, <2>21
<1> QED BY <1>9, <1>10

\* The scan looks at the blocks and changes none.
LEMMA ScanStep ==
  ASSUME IInv, SeqScan_getNext \/ ScanEnds
  PROVE  IInv' /\ UNCHANGED Abstract!tableVars
<1>1. /\ UNCHANGED <<kind, Rel_fsh, Rel_curMaxBlock, fsmFile, seen, disk>>
      /\ pc = "run" /\ kind \in {"select", "delete", "update"}
      /\ pc' \in {"run", "got", "done"}
  BY DEF SeqScan_getNext, ScanEnds
<1>2. /\ TableOK(Table) /\ Once(seen) /\ Saved /\ Scanned
      /\ Table.seen = seen /\ Table.disk = disk /\ DOMAIN seen = DOMAIN disk
  BY TableFields DEF IInv, TableOK
<1>3. TableOK(Table)'
  <2>1. Table' = Table BY <1>1 DEF Table
  <2>2. TableOK(Table') BY <1>2, <2>1
  <2> QED BY <2>2
<1>4. /\ scan'.max = scan.max
      /\ scan' = [blkNumber |-> scan'.blkNumber, tupleIndex |-> scan'.tupleIndex, max |-> scan'.max]
  <2>1. CASE ScanEnds BY <1>2, <2>1 DEF ScanEnds, Scanned
  <2>2. CASE SeqScan_getNext
    <3>1. PICK a \in Ahead : scan' = [scan EXCEPT !.blkNumber = a[1], !.tupleIndex = a[2]]
      BY <2>2 DEF SeqScan_getNext
    <3>2. scan = [blkNumber |-> scan.blkNumber, tupleIndex |-> scan.tupleIndex, max |-> scan.max]
      BY <1>2 DEF Scanned
    <3>3. scan' = [blkNumber |-> a[1], tupleIndex |-> a[2], max |-> scan.max] BY <3>1, <3>2
    <3> QED BY <3>3
  <2> QED BY <2>1, <2>2
<1>5. Saved' BY <1>1, <1>2 DEF Saved
<1>6. Scanned' BY <1>1, <1>2, <1>4 DEF Scanned
<1>7. Got'
  <2>1. CASE ScanEnds BY <2>1 DEF Got, ScanEnds
  <2>2. CASE SeqScan_getNext
    <3>1. PICK a \in Ahead :
            LET item == seen[a[1]][a[2]]
            IN  /\ Visible(item)
                /\ tuple' = [bnum |-> a[1], index |-> a[2], item |-> item]
                /\ pc' = IF item.row \in cond /\ (kind = "update" => item.ver < MaxVer)
                         THEN "got" ELSE "run"
      BY <2>2 DEF SeqScan_getNext
    <3> DEFINE item == seen[a[1]][a[2]]
    <3>2. /\ a[1] \in DOMAIN seen /\ a[1] <= scan.max /\ a[2] \in 1 .. Cap
          /\ a[2] <= Len(seen[a[1]])
      BY DEF Ahead
    <3>3. seen[a[1]] \in Page BY <1>2, <3>2 DEF TableOK
    <3>4. a[2] \in 1 .. Len(seen[a[1]]) BY <3>2, <3>3, PageSeq, BlockAssumption
    <3>5. item \in Items /\ a[2] \in DOMAIN seen[a[1]] BY <3>3, <3>4, PageSeq
    <3>6. tuple'.bnum = a[1] /\ tuple'.index = a[2] /\ tuple'.item = item BY <3>1
    <3>7. ~item.deleted BY <3>1 DEF Visible
    <3>8. pc' = "got" => (kind = "update" => item.ver < MaxVer) BY <3>1
    <3> HIDE DEF item
    <3>9. At(seen, a[1], a[2], item.row) BY <3>2, <3>5, <3>7 DEF At, item
    <3>10. pc' # "append" BY <1>1
    <3>11. pc' = "got" => At(seen', tuple'.bnum, tuple'.index, tuple'.item.row)
      BY <1>1, <3>6, <3>9
    <3>12. seen'[tuple'.bnum][tuple'.index] = tuple'.item BY <1>1, <3>6 DEF item
    <3> QED BY <1>1, <1>2, <1>4, <3>2, <3>5, <3>6, <3>8, <3>10, <3>11, <3>12 DEF Got
  <2> QED BY <2>1, <2>2
<1>8. IInv' BY <1>1, <1>2, <1>3, <1>5, <1>6, <1>7 DEF IInv
<1>9. RowsOf(seen)' = RowsOf(seen) /\ RowsOf(disk)' = RowsOf(disk)
  BY <1>1 DEF RowsOf, Live
<1>10. Moving' = Moving BY <1>1 DEF Moving
<1>11. AllBlocks' = AllBlocks BY <1>1 DEF AllBlocks, LastKnown, NextBlock
<1> QED BY <1>8, <1>9, <1>10, <1>11 DEF Abstract!tableVars, Moving, AllBlocks

\* A row is put where the heap or the caller says, and Table has it then.
LEMMA PutsRow ==
  ASSUME IInv, NEW n, Becomes(n), NEW r, NEW v, UNCHANGED <<kind, fsmFile>>, kind # "none",
         TableOK(n), Once(n.seen), Evolves(n, Table, {<<r, v>>}), Absent(seen, r),
         DOMAIN disk \subseteq DOMAIN n.disk, DOMAIN n.seen \subseteq 0 .. MaxBlk
  PROVE  /\ TableOK(Table)' /\ Once(seen)' /\ Saved' /\ DOMAIN disk' \subseteq 0 .. MaxBlk
         /\ Abstract!Stored /\ (AllBlocks => AllBlocks')
         /\ \E kept \in Abstract!Kept :
              r \notin DOMAIN kept /\ RowsOf(seen)' = Abstract!Including(kept, r, v)
<1>1. /\ TableOK(Table) /\ Once(Table.seen) /\ Saved
      /\ Table.seen = seen /\ Table.disk = disk /\ Table.max = Rel_curMaxBlock
  BY TableFields DEF IInv
<1>2. TableOK(Table)' /\ seen' = n.seen /\ disk' = n.disk /\ Rel_curMaxBlock' = n.max
  BY BecomesTable
<1>3. DOMAIN disk' \subseteq 0 .. MaxBlk BY <1>2 DEF TableOK
<1>4. Once(seen)' BY <1>2 DEF Once, At
<1>5. Saved' BY <1>1, <1>2 DEF Saved
<1>6. LastKnown = Rel_curMaxBlock /\ LastKnown' = Rel_curMaxBlock' BY DEF LastKnown
<1>7. AllKnown(Table) <=> AllBlocks BY <1>1, <1>6 DEF AllKnown, AllBlocks
<1>8. AllKnown(n) => AllBlocks' BY <1>2, <1>6 DEF AllKnown, AllBlocks, NextBlock
<1>9. AllKnown(Table) => AllKnown(n) BY DEF Evolves
<1>10. RowsOf(seen)' = RowsOf(n.seen) /\ RowsOf(disk)' = RowsOf(n.disk)
  BY <1>2 DEF RowsOf, Live
<1>11. /\ RowsOf(n.disk) \in Abstract!Parts(RowsOf(n.seen))
       /\ DOMAIN RowsOf(disk) \cap DOMAIN RowsOf(n.seen) \subseteq DOMAIN RowsOf(n.disk)
  BY <1>1, StoredRows
<1>12. Abstract!Kept = KeptRows(Table)
  BY <1>1, <1>7 DEF Abstract!Kept, KeptRows, AllBlocks
<1>13. \E kept \in KeptRows(Table) :
         r \notin DOMAIN kept /\ RowsOf(n.seen) = Abstract!Including(kept, r, v)
  <2> DEFINE t == Table
  <2>1. Absent(t.seen, r) /\ Once(t.seen) /\ Evolves(n, t, {<<r, v>>}) BY <1>1
  <2> HIDE DEF t
  <2>2. \E kept \in KeptRows(t) :
          r \notin DOMAIN kept /\ RowsOf(n.seen) = Abstract!Including(kept, r, v)
    BY <2>1, EvolvesRow
  <2> QED BY <2>2 DEF t
<1>14. Abstract!Stored BY <1>10, <1>11 DEF Abstract!Stored
<1> QED BY <1>2, <1>3, <1>4, <1>5, <1>7, <1>8, <1>9, <1>10, <1>12, <1>13, <1>14

\* The heap gives a block, or has none and one is appended; the row is inserted.
LEMMA InsertStep ==
  ASSUME IInv, NEW row \in Rows, Tup_vInsert(row)
  PROVE  IInv' /\ Abstract!Insert(row)
<1> DEFINE item == Item(row, 0)
           m == IF DOMAIN Rel_fsh = {} THEN Rel_AppendNewBlock(Table) ELSE Table
<1>1. /\ kind \in {"load", "insert"} /\ pc = "run" /\ pc' \in {"run", "done"}
      /\ UNCHANGED <<kind, fsmFile, scan, tuple>>
  BY DEF Tup_vInsert
<1>2. /\ TableOK(Table) /\ Once(Table.seen) /\ Scanned
      /\ Table.seen = seen /\ Table.disk = disk /\ Table.fsh = Rel_fsh
  BY TableFields DEF IInv
<1>3. item \in Items /\ ~item.deleted /\ item.row = row /\ item.ver = 0
  BY TableAssumption DEF Item, Items
<1>4. Absent(seen, row)
  <2> SUFFICES ASSUME NEW b, NEW i, At(seen, b, i, row) PROVE FALSE BY DEF Absent
  <2>1. seen[b][i] \in Range(seen[b]) /\ b \in DOMAIN seen BY DEF At, Range
  <2>2. seen[b][i] \in UNION {Range(seen[c]) : c \in DOMAIN seen} BY <2>1
  <2>3. seen[b][i].row = row BY DEF At
  <2> QED BY <2>2, <2>3 DEF Tup_vInsert
<1> HIDE DEF item
<1>5. PICK got \in Rel_GetBlockToInsert(Table) :
        Becomes(Inserted(got[2], got[1], item)) /\ DOMAIN seen' \subseteq 0 .. MaxBlk
  BY DEF Tup_vInsert, item
<1>6. Rel_GetBlockToInsert(Table) = {<<b, Taken(m, b)>> : b \in DOMAIN m.fsh}
  BY <1>2 DEF Rel_GetBlockToInsert
<1> HIDE DEF m
<1>7. PICK b \in DOMAIN m.fsh : got = <<b, Taken(m, b)>> BY <1>5, <1>6
<1> DEFINE q == Taken(m, b)
           n == Inserted(q, b, item)
<1>8. Becomes(n) BY <1>5, <1>7
<1>9. TableOK(m) /\ DOMAIN disk \subseteq DOMAIN m.disk
  BY <1>2, AppendOK DEF m
<1>10. TableOK(q) /\ q.seen = m.seen /\ q.disk = m.disk /\ q.max = m.max
  BY <1>9, TakenOK
<1>11. b \in DOMAIN q.disk BY <1>9, <1>10 DEF TableOK
<1> HIDE DEF q
<1>12. seen' = n.seen /\ DOMAIN n.seen \subseteq 0 .. MaxBlk BY <1>5, <1>8 DEF Becomes
<1>13. DOMAIN q.disk \subseteq DOMAIN n.seen BY <1>10, <1>11, InsertedDomain
<1>14. Once(m.seen) /\ Evolves(m, Table, {})
  <2>1. CASE DOMAIN Rel_fsh = {}
    <3>1. m = Rel_AppendNewBlock(Table) BY <2>1 DEF m
    <3>2. NextBlock(Table.max) \in DOMAIN m.disk BY <1>2, <3>1, AppendOK
    <3>3. NextBlock(Table.max) \in 0 .. MaxBlk BY <1>10, <1>12, <1>13, <3>2
    <3>4. NextBlock(Table.max) <= MaxBlk BY <3>3
    <3> QED BY <1>2, <3>1, <3>4, AppendEvolves
  <2>2. CASE DOMAIN Rel_fsh # {}
    <3>1. m = Table BY <2>2 DEF m
    <3> QED BY <1>2, <3>1, EvolvesSame
  <2> QED BY <2>1, <2>2
<1>15. Once(q.seen) /\ Evolves(q, Table, {})
  BY <1>10, <1>14 DEF Evolves, AllKnown
<1>16. Absent(q.seen, item.row)
  <2>1. \A x : ~Has(seen, row, x) BY <1>4, AbsentHas
  <2>2. \A x : ~Has(q.seen, row, x) BY <1>2, <1>15, <2>1 DEF Evolves
  <2> QED BY <1>3, <2>2, AbsentHas
<1>17. /\ TableOK(n) /\ Once(n.seen) /\ Evolves(n, q, {<<row, 0>>})
       /\ DOMAIN q.disk \subseteq DOMAIN n.disk
  BY <1>3, <1>10, <1>11, <1>12, <1>15, <1>16, InsertedOK
<1> HIDE DEF n
<1>18. Evolves(n, Table, {<<row, 0>>}) BY <1>2, <1>4, <1>15, <1>17, EvolvesTwice
<1>19. DOMAIN disk \subseteq DOMAIN n.disk BY <1>9, <1>10, <1>17
<1>20. kind # "none" BY <1>1
<1>21. /\ TableOK(Table)' /\ Once(seen)' /\ Saved' /\ DOMAIN disk' \subseteq 0 .. MaxBlk
       /\ Abstract!Stored /\ (AllBlocks => AllBlocks')
       /\ \E kept \in Abstract!Kept :
            row \notin DOMAIN kept /\ RowsOf(seen)' = Abstract!Including(kept, row, 0)
  BY <1>1, <1>4, <1>8, <1>12, <1>17, <1>18, <1>19, <1>20, PutsRow
<1>22. Scanned' BY <1>1, <1>2 DEF Scanned
<1>23. Got' BY <1>1 DEF Got
<1>24. IInv' BY <1>1, <1>21, <1>22, <1>23 DEF IInv
<1>25. Moving = {} /\ Moving' = {} BY <1>1 DEF Moving
<1> QED BY <1>21, <1>24, <1>25 DEF Abstract!Insert, Moving, AllBlocks

\* The tuple that was got is deleted: from the buffer and from the file.
LEMMA DeleteStep ==
  ASSUME AddrsFit, IInv, Tup_cDeleteTuple
  PROVE  /\ IInv' /\ \E r \in Rows : Abstract!Delete(r) \/ Abstract!TakeOut(r)
         /\ Rel_curMaxBlock' = Rel_curMaxBlock
         /\ \A d, j, q : /\ At(seen', d, j, q) <=>
                               At(seen, d, j, q) /\ ~(d = tuple.bnum /\ j = tuple.index)
                         /\ At(seen', d, j, q) => seen'[d][j] = seen[d][j]
<1> DEFINE b == tuple.bnum
           r == tuple.item.row
           n == Deleted(Table, b, tuple.index)
<1>1. /\ pc = "got" /\ pc' = (IF kind = "update" THEN "append" ELSE "run") /\ Becomes(n)
      /\ UNCHANGED <<kind, fsmFile, scan, tuple>>
  BY DEF Tup_cDeleteTuple
<1>2. /\ TableOK(Table) /\ Once(Table.seen) /\ Saved /\ Scanned /\ Got
      /\ Table.seen = seen /\ Table.disk = disk /\ Table.max = Rel_curMaxBlock
  BY TableFields DEF IInv
<1>3. /\ kind \in {"select", "delete", "update"} /\ b \in DOMAIN disk /\ b <= scan.max
      /\ At(seen, b, tuple.index, r) /\ seen[b][tuple.index] = tuple.item
      /\ tuple.item \in Items /\ (kind = "update" => tuple.item.ver < MaxVer)
  BY <1>1, <1>2 DEF Got
<1>4. seen[b] = disk[b] BY <1>2, <1>3 DEF Scanned
<1>5. b <= MaxBlk BY <1>3 DEF IInv
<1>6. /\ TableOK(n) /\ Once(n.seen) /\ DOMAIN n.disk = DOMAIN disk /\ n.max = Rel_curMaxBlock
      /\ \A q, v : Has(n.seen, q, v) <=> Has(seen, q, v) /\ q # r
      /\ \A q, v : Has(n.disk, q, v) <=> Has(disk, q, v) /\ q # r
      /\ n.seen[b] = n.disk[b]
      /\ \A d \in DOMAIN disk : d # b => n.seen[d] = seen[d] /\ n.disk[d] = disk[d]
      /\ \A d, j, q : /\ At(n.seen, d, j, q) <=> At(seen, d, j, q) /\ ~(d = b /\ j = tuple.index)
                      /\ At(n.seen, d, j, q) => n.seen[d][j] = seen[d][j]
  <2> DEFINE t == Table
             i == tuple.index
  <2>1. /\ TableOK(t) /\ Once(t.seen) /\ b \in DOMAIN t.disk /\ At(t.seen, b, i, r)
        /\ t.seen[b] = t.disk[b]
    BY <1>2, <1>3, <1>4
  <2>2. n = Deleted(t, b, i) /\ t.seen = seen /\ t.disk = disk /\ t.max = Rel_curMaxBlock
    BY <1>2
  <2> HIDE DEF t, n, b, r, i
  <2>3. Removes(n, t, b, i, r) BY <1>5, <2>1, <2>2, DeletedOK
  <2> QED BY <2>2, <2>3 DEF Removes, i
<1> HIDE DEF n
<1>7. /\ TableOK(Table)' /\ seen' = n.seen /\ disk' = n.disk
      /\ Rel_curMaxBlock' = Rel_curMaxBlock
  BY <1>1, <1>6, BecomesTable
<1>8. Saved' BY <1>1, <1>2, <1>6, <1>7 DEF Saved
<1>9. Scanned'
  <2>1. \A d \in DOMAIN disk : seen[d] = disk[d] => seen'[d] = disk'[d]
    BY <1>6, <1>7
  <2> QED BY <1>1, <1>2, <1>3, <1>6, <1>7, <2>1 DEF Scanned
<1>10. Got'
  <2>1. Absent(seen', r) BY <1>6, <1>7, AbsentHas
  <2> QED BY <1>1, <1>3, <2>1 DEF Got
<1>11. IInv' BY <1>1, <1>6, <1>7, <1>8, <1>9, <1>10 DEF IInv
<1>12. r \in Rows BY <1>3 DEF Items
<1>13. RowsOf(seen)' = RowsOf(n.seen) /\ RowsOf(disk)' = RowsOf(n.disk)
  BY <1>7 DEF RowsOf, Live
<1>14. Once(seen) /\ Once(disk) /\ Once(n.disk) BY <1>2, <1>6, DiskOnce
<1>15. /\ RowsOf(n.seen) = Abstract!Without(RowsOf(seen), r)
       /\ RowsOf(n.disk) = Abstract!Without(RowsOf(disk), r)
  BY <1>6, <1>14, RowsWithout
<1>16. r \in DOMAIN RowsOf(seen) /\ RowsOf(seen)[r] = tuple.item.ver
  <2>1. Has(seen, r, tuple.item.ver) BY <1>3 DEF Has
  <2> QED BY <1>14, <2>1, RowsHas
<1>17. AllBlocks' = AllBlocks BY <1>1, <1>6, <1>7 DEF AllBlocks, LastKnown, NextBlock
<1>18. Moving = {} BY <1>1 DEF Moving
<1>21. \A d, j, q : /\ At(seen', d, j, q) <=>
                         At(seen, d, j, q) /\ ~(d = tuple.bnum /\ j = tuple.index)
                    /\ At(seen', d, j, q) => seen'[d][j] = seen[d][j]
  BY <1>6, <1>7
<1> HIDE DEF r
<1>19. CASE kind = "update"
  <2>1. Moving' = {<<r, RowsOf(seen)[r] + 1>>} BY <1>1, <1>16, <1>19 DEF Moving, r
  <2>2. Abstract!TakeOut(r)
    BY <1>13, <1>15, <1>16, <1>17, <1>18, <2>1 DEF Abstract!TakeOut, Moving, AllBlocks
  <2> QED BY <1>7, <1>11, <1>12, <1>21, <2>2
<1>20. CASE kind # "update"
  <2>1. Moving' = {} BY <1>1, <1>20 DEF Moving
  <2>2. Abstract!Delete(r)
    BY <1>13, <1>15, <1>16, <1>17, <1>18, <2>1 DEF Abstract!Delete, Moving, AllBlocks
  <2> QED BY <1>7, <1>11, <1>12, <1>21, <2>2
<1> QED BY <1>19, <1>20

\* The new version is put behind all that the scan looks at.
LEMMA AppendStep ==
  ASSUME IInv, Tup_vAppend
  PROVE  /\ IInv' /\ Abstract!PutBack
         /\ SameUpTo(seen', seen, scan.max) /\ IsValidBlockNumber(Rel_curMaxBlock')
<1> DEFINE b == Rel_curMaxBlock
           r == tuple.item.row
           v == tuple.item.ver + 1
           item == Item(r, v)
           n == Inserted(Table, b, item)
<1>1. /\ pc = "append" /\ pc' = "run" /\ Becomes(n) /\ DOMAIN seen' \subseteq 0 .. MaxBlk
      /\ UNCHANGED <<kind, fsmFile, scan, tuple>>
  BY DEF Tup_vAppend
<1>2. /\ TableOK(Table) /\ Once(Table.seen) /\ Scanned /\ Got
      /\ Table.seen = seen /\ Table.disk = disk /\ Table.max = b
  BY TableFields DEF IInv
<1>3. /\ kind = "update" /\ Absent(seen, r)
      /\ tuple.item \in Items /\ tuple.item.ver < MaxVer
  BY <1>1, <1>2 DEF Got
<1>4. /\ scan.max \in Nat /\ scan.max < b /\ b < INValidBlockNumber /\ NextBlock(b) = b + 1
      /\ b \in DOMAIN disk /\ b \in Nat
  BY <1>2, <1>3, BlockAssumption DEF Scanned, IsValidBlockNumber, NextBlock, TableOK
<1>5. item \in Items /\ ~item.deleted /\ item.row = r /\ item.ver = v
  BY <1>3, TableAssumption DEF Item, Items
<1> HIDE DEF item
<1>6. seen' = n.seen /\ DOMAIN n.seen \subseteq 0 .. MaxBlk BY <1>1 DEF Becomes
<1>7. /\ TableOK(n) /\ Once(n.seen) /\ Evolves(n, Table, {<<r, v>>})
      /\ DOMAIN disk \subseteq DOMAIN n.disk
      /\ n.max = b \/ (n.max = b + 1 /\ n.max \in DOMAIN n.disk)
      /\ \A d \in DOMAIN disk :
           d # b /\ d # b + 1 => n.seen[d] = seen[d] /\ n.disk[d] = disk[d]
  <2>1. Absent(Table.seen, item.row) /\ b \in DOMAIN Table.disk BY <1>2, <1>3, <1>4, <1>5
  <2> QED BY <1>2, <1>4, <1>5, <1>6, <2>1, InsertedOK
<1> HIDE DEF n
<1>8. /\ TableOK(Table)' /\ Once(seen)' /\ Saved' /\ DOMAIN disk' \subseteq 0 .. MaxBlk
      /\ Abstract!Stored /\ (AllBlocks => AllBlocks')
      /\ \E kept \in Abstract!Kept :
           r \notin DOMAIN kept /\ RowsOf(seen)' = Abstract!Including(kept, r, v)
  <2>1. kind # "none" BY <1>3
  <2> QED BY <1>1, <1>3, <1>6, <1>7, <2>1, PutsRow
<1>9. disk' = n.disk /\ Rel_curMaxBlock' = n.max BY <1>1, <1>7, BecomesTable
<1>10. Scanned'
  <2>1. ASSUME NEW d \in DOMAIN disk', d <= scan.max PROVE seen'[d] = disk'[d]
    <3>1. d \in Nat BY <1>7, <1>9 DEF TableOK
    <3>2. d < b BY <1>4, <2>1, <3>1
    <3>3. d \in DOMAIN disk BY <1>2, <1>4, <3>1, <3>2 DEF TableOK
    <3>4. d # b /\ d # b + 1 BY <1>4, <3>1, <3>2
    <3>5. seen[d] = disk[d] BY <1>2, <1>3, <2>1, <3>3 DEF Scanned
    <3> QED BY <1>6, <1>7, <1>9, <3>3, <3>4, <3>5
  <2>2. n.max \in Nat /\ scan.max < n.max /\ n.max < INValidBlockNumber
    <3>1. CASE n.max = b BY <1>4, <3>1
    <3>2. CASE n.max # b
      <4>1. n.max = b + 1 /\ n.max \in 0 .. MaxBlk BY <1>7, <1>8, <1>9, <3>2
      <4> QED BY <1>4, <4>1, BlockAssumption, TableAssumption
    <3> QED BY <3>1, <3>2
  <2> QED BY <1>1, <1>2, <1>3, <1>4, <1>9, <2>1, <2>2 DEF Scanned, IsValidBlockNumber
<1>11. Got' BY <1>1 DEF Got
<1>12. IInv' BY <1>1, <1>8, <1>10, <1>11 DEF IInv
<1>15. SameUpTo(seen', seen, scan.max)
  <2> SUFFICES ASSUME NEW d \in DOMAIN seen' \cup DOMAIN seen, d <= scan.max
               PROVE  d \in DOMAIN seen' /\ d \in DOMAIN seen /\ seen'[d] = seen[d]
    BY DEF SameUpTo
  <2>1. /\ DOMAIN seen = DOMAIN disk /\ DOMAIN seen' = DOMAIN disk'
        /\ DOMAIN disk \subseteq DOMAIN disk' /\ DOMAIN disk' \subseteq Nat
    BY <1>2, <1>6, <1>7, <1>9 DEF TableOK
  <2>2. d \in Nat /\ d < b BY <1>4, <2>1
  <2>3. d \in DOMAIN disk BY <1>2, <1>4, <2>2 DEF TableOK
  <2>4. d # b /\ d # b + 1 BY <1>4, <2>2
  <2> QED BY <1>6, <1>7, <2>1, <2>3, <2>4
<1>16. IsValidBlockNumber(Rel_curMaxBlock') BY <1>1, <1>3, <1>10 DEF Scanned, IsValidBlockNumber
<1>13. Moving = {<<r, v>>} /\ Moving' = {} BY <1>1 DEF Moving
<1> HIDE DEF r, v
<1>14. Abstract!PutBack
  <2>1. <<r, v>> \in Moving /\ <<r, v>>[1] = r /\ <<r, v>>[2] = v BY <1>13
  <2>2. PICK kept \in Abstract!Kept : RowsOf(seen)' = Abstract!Including(kept, r, v) BY <1>8
  <2>3. \E mv \in Moving : \E k \in Abstract!Kept :
          RowsOf(seen)' = Abstract!Including(k, mv[1], mv[2])
    BY <2>1, <2>2
  <2> QED BY <1>8, <1>13, <2>3 DEF Abstract!PutBack, Moving, AllBlocks
<1> QED BY <1>12, <1>14, <1>15, <1>16

LEMMA NextStep ==
  ASSUME AddrsFit, IInv, [Next]_tableVars
  PROVE  IInv' /\ [Abstract!Next]_(Abstract!tableVars)
<1>1. ASSUME NEW k \in Kinds, NEW where, Begin(k, where)
      PROVE  IInv' /\ [Abstract!Next]_(Abstract!tableVars)
  BY <1>1, BeginStep DEF Abstract!Next
<1>2. ASSUME NEW row \in Rows, Tup_vInsert(row)
      PROVE  IInv' /\ [Abstract!Next]_(Abstract!tableVars)
  BY <1>2, InsertStep DEF Abstract!Next
<1>3. CASE SeqScan_getNext \/ ScanEnds BY <1>3, ScanStep
<1>4. CASE Tup_cDeleteTuple BY <1>4, DeleteStep DEF Abstract!Next
<1>5. CASE Tup_vAppend BY <1>5, AppendStep DEF Abstract!Next
<1>6. ASSUME NEW b \in DOMAIN seen, Replace(b)
      PROVE  IInv' /\ [Abstract!Next]_(Abstract!tableVars)
  BY <1>6, ReplaceStep DEF Abstract!Next
<1>7. CASE End \/ Crash
  <2>1. /\ Gone
        /\ fsmFile' = fsmFile \/ fsmFile' = [fsh |-> Rel_fsh, max |-> Rel_curMaxBlock]
    BY <1>7 DEF End, Crash
  <2> QED BY <2>1, GoneStep DEF Abstract!Next
<1>8. CASE UNCHANGED tableVars
  <2>1. IInv'
    <3>1. Table' = Table BY <1>8 DEF tableVars, Table
    <3>2. TableOK(Table)' <=> TableOK(Table)
      <4>1. TableOK(Table') <=> TableOK(Table) BY <3>1
      <4> QED BY <4>1
    <3>3. Once(seen)' <=> Once(seen) BY <1>8 DEF tableVars, Once, At
    <3> QED BY <1>8, <3>2, <3>3 DEF tableVars, IInv, Saved, Scanned, Got, Absent, At
  <2>2. RowsOf(seen)' = RowsOf(seen) /\ RowsOf(disk)' = RowsOf(disk)
    BY <1>8 DEF tableVars, RowsOf, Live
  <2>3. Moving' = Moving BY <1>8 DEF tableVars, Moving
  <2>4. AllBlocks' = AllBlocks BY <1>8 DEF tableVars, AllBlocks, LastKnown, NextBlock
  <2> QED BY <2>1, <2>2, <2>3, <2>4 DEF Abstract!tableVars, Moving, AllBlocks
<1> QED BY <1>1, <1>2, <1>3, <1>4, <1>5, <1>6, <1>7, <1>8 DEF Next

-----------------------------------------------------------------------------
\* What follows from the invariant.

LEMMA Invariance ==
  ASSUME AddrsFit PROVE Spec => []IInv
<1>1. Init => IInv BY InitStep
<1>2. IInv /\ [Next]_tableVars => IInv' BY NextStep
<1> QED BY <1>1, <1>2, PTL DEF Spec

\* Blocks are lists of at most Cap items, the file has every block that the buffers
\* show, and neither the heap nor Rel_curMaxBlock names a block that it has not, for
\* any numbers of rows, versions and blocks (execTable.c, tuple.c:20-160).
THEOREM TypeCorrect ==
  ASSUME AddrsFit PROVE Spec => []TypeOK
<1>1. IInv => TypeOK
  <2> SUFFICES ASSUME IInv PROVE TypeOK OBVIOUS
  <2>1. TableOK(Table) BY DEF IInv
  <2>2. DOMAIN seen = DOMAIN disk BY <2>1, TableFields DEF TableOK
  <2>3. ASSUME NEW b \in DOMAIN disk, NEW block \in {seen[b], disk[b]}
        PROVE  Len(block) <= Cap /\ Range(block) \subseteq Items
    <3>1. block \in Page BY <2>1, TableFields DEF TableOK
    <3> QED BY <3>1, PageSeq DEF Range
  <2>4. \A b \in DOMAIN Rel_fsh : b \in DOMAIN disk /\ Rel_fsh[b] \in 1 .. Cap
    BY <2>1, TableFields DEF TableOK
  <2>5. Rel_curMaxBlock \in DOMAIN disk \cup {INValidBlockNumber}
    BY <2>1, TableFields DEF TableOK
  <2> QED BY <2>2, <2>3, <2>4, <2>5 DEF TypeOK, IInv
<1> QED BY <1>1, Invariance, PTL

\* Whatever statements run and wherever they crash, a row never has two versions
\* that are not deleted, in the buffers or in the file (execTable.c:180-181).
THEOREM RowsOnce ==
  ASSUME AddrsFit PROVE Spec => []OneVersion
<1>1. IInv => OneVersion
  <2> SUFFICES ASSUME IInv, NEW blocks \in {seen, disk}, NEW b \in DOMAIN blocks,
                      NEW c \in DOMAIN blocks, NEW i \in DOMAIN blocks[b],
                      NEW j \in DOMAIN blocks[c],
                      ~blocks[b][i].deleted, ~blocks[c][j].deleted,
                      blocks[b][i].row = blocks[c][j].row
               PROVE  b = c /\ i = j
    BY DEF OneVersion
  <2>1. TableOK(Table) /\ Once(Table.seen) BY TableFields DEF IInv
  <2>2. Once(seen) /\ Once(disk) BY <2>1, DiskOnce, TableFields
  <2>3. Once(blocks) BY <2>2
  <2>4. At(blocks, b, i, blocks[b][i].row) /\ At(blocks, c, j, blocks[b][i].row)
    BY DEF At
  <2> QED BY <2>3, <2>4 DEF Once
<1> QED BY <1>1, Invariance, PTL

\* Every step of a statement, a crash or a replaced buffer is one of Table: one row
\* comes or goes, in the buffers and in the file, and only blocks that the process
\* does not know are lost with their rows (execTable.c, tuple.c, block.c:130-160).
THEOREM Refinement ==
  ASSUME AddrsFit PROVE Spec => TableSpec
<1>1. Init => Abstract!Init BY InitStep
<1>2. IInv /\ [Next]_tableVars => [Abstract!Next]_(Abstract!tableVars) BY NextStep
<1> QED BY <1>1, <1>2, Invariance, PTL DEF Spec, TableSpec, Abstract!Spec

-----------------------------------------------------------------------------
\* What a scan has returned and what is still to come are the rows it found.

\* A row that lies in a block to be scanned, behind the scan's position.
Coming(blocks, s, r, v) ==
  \E b, i : /\ At(blocks, b, i, r) /\ blocks[b][i].ver = v
            /\ b <= s.max /\ Before(<<s.blkNumber, s.tupleIndex>>, <<b, i>>)

Versions == Rows \X (0 .. MaxVer)

\* The rows that were there when the statement began are those returned and those
\* to come, none twice; the cursor is on the tuple that was got.
Progress ==
  Scanning =>
    /\ returned \in Seq(Versions) /\ before \subseteq Versions
    /\ \A i, j \in 1 .. Len(returned) : returned[i] = returned[j] => i = j
    /\ scan.blkNumber \in Nat /\ scan.tupleIndex \in Nat
    /\ pc = "got" => tuple.bnum = scan.blkNumber /\ tuple.index = scan.tupleIndex
    /\ pc \in {"got", "append"} => IsValidBlockNumber(Rel_curMaxBlock)
    /\ ~IsValidBlockNumber(Rel_curMaxBlock) => before = {} /\ returned = <<>>
    /\ IsValidBlockNumber(Rel_curMaxBlock) =>
         /\ \A r, v : <<r, v>> \in before <=>
              <<r, v>> \in Range(returned) \/ Coming(seen, scan, r, v)
         /\ \A r, v : Coming(seen, scan, r, v) => <<r, v>> \notin Range(returned)
         /\ pc = "done" => \A r, v : ~Coming(seen, scan, r, v)

LEMMA ComingSame ==
  ASSUME NEW new, NEW old, NEW s,
         \A b, i, r : b <= s.max =>
           /\ At(new, b, i, r) <=> At(old, b, i, r)
           /\ At(new, b, i, r) => new[b][i] = old[b][i]
  PROVE  \A r, v : Coming(new, s, r, v) <=> Coming(old, s, r, v)
<1> SUFFICES ASSUME NEW r, NEW v PROVE Coming(new, s, r, v) <=> Coming(old, s, r, v)
  OBVIOUS
<1>1. ASSUME Coming(new, s, r, v) PROVE Coming(old, s, r, v)
  <2>1. PICK b, i : /\ At(new, b, i, r) /\ new[b][i].ver = v
                    /\ b <= s.max /\ Before(<<s.blkNumber, s.tupleIndex>>, <<b, i>>)
    BY <1>1 DEF Coming
  <2>2. At(old, b, i, r) /\ new[b][i] = old[b][i] BY <2>1
  <2> QED BY <2>1, <2>2 DEF Coming
<1>2. ASSUME Coming(old, s, r, v) PROVE Coming(new, s, r, v)
  <2>1. PICK b, i : /\ At(old, b, i, r) /\ old[b][i].ver = v
                    /\ b <= s.max /\ Before(<<s.blkNumber, s.tupleIndex>>, <<b, i>>)
    BY <1>2 DEF Coming
  <2>2. At(new, b, i, r) /\ new[b][i] = old[b][i] BY <2>1
  <2> QED BY <2>1, <2>2 DEF Coming
<1> QED BY <1>1, <1>2

LEMMA ComingUpTo ==
  ASSUME NEW new, NEW old, NEW s, SameUpTo(new, old, s.max)
  PROVE  \A r, v : Coming(new, s, r, v) <=> Coming(old, s, r, v)
<1>1. ASSUME NEW b, NEW i, NEW r, b <= s.max
      PROVE  /\ At(new, b, i, r) <=> At(old, b, i, r)
             /\ At(new, b, i, r) => new[b][i] = old[b][i]
  BY <1>1 DEF SameUpTo, At
<1> QED BY <1>1, ComingSame

\* A step that leaves the scan and what is to come as they are.
LEMMA ProgressSame ==
  ASSUME Progress, UNCHANGED <<kind, scan, tuple, before, returned>>,
         Scanning =>
           /\ IsValidBlockNumber(Rel_curMaxBlock') <=> IsValidBlockNumber(Rel_curMaxBlock)
           /\ pc' = "got" => pc = "got"
           /\ pc' = "append" => pc \in {"got", "append"}
           /\ pc' = "done" =>
                pc = "done" \/ (IsValidBlockNumber(Rel_curMaxBlock) =>
                                  \A r, v : ~Coming(seen, scan, r, v))
           /\ \A r, v : Coming(seen', scan, r, v) <=> Coming(seen, scan, r, v)
  PROVE  Progress'
<1> SUFFICES ASSUME Scanning' PROVE Progress' BY DEF Progress
<1>1. Scanning BY DEF Scanning
<1>2. \A r, v : Coming(seen, scan, r, v)' <=> Coming(seen, scan, r, v)
  BY <1>1 DEF Coming
<1> QED BY <1>1, <1>2 DEF Progress

\* At the beginning everything that the scan should return is still to come.
LEMMA ProgressBegins ==
  ASSUME IInv, NEW k \in Kinds, NEW where, Begin(k, where)
  PROVE  Progress'
<1>1. /\ scan' = [blkNumber |-> 0, tupleIndex |-> 0, max |-> fsmFile.max]
      /\ before' = Live(Known(seen, fsmFile.max)) /\ returned' = <<>> /\ pc' = "run"
  BY DEF Begin, MaxBlockNumbertoScan
<1>2. /\ TableOK(Table) /\ Table.seen = seen /\ Table.disk = disk /\ DOMAIN seen = DOMAIN disk
  BY TableFields DEF IInv, TableOK
<1>3. /\ SameUpTo(seen', seen, fsmFile.max)
      /\ IsValidBlockNumber(Rel_curMaxBlock') <=> IsValidBlockNumber(fsmFile.max)
  BY BeginStep
<1>4. scan'.blkNumber = 0 /\ scan'.tupleIndex = 0 /\ scan'.max = fsmFile.max BY <1>1
<1> DEFINE known == Known(seen, fsmFile.max)
<1>5. known = [b \in {c \in DOMAIN seen : IsValidBlockNumber(fsmFile.max) /\ c <= fsmFile.max}
                 |-> seen[b]]
  BY DEF Known, Restrict
<1>6. ASSUME NEW b, NEW i, NEW r
      PROVE  /\ At(known, b, i, r) <=> /\ At(seen, b, i, r)
                                       /\ IsValidBlockNumber(fsmFile.max) /\ b <= fsmFile.max
             /\ At(known, b, i, r) => known[b][i] = seen[b][i]
  <2> HIDE DEF known
  <2> QED BY <1>5 DEF At
<1>7. ASSUME NEW b, NEW i, NEW r, At(seen, b, i, r)
      PROVE  /\ Before(<<0, 0>>, <<b, i>>) /\ seen[b][i] \in Items /\ seen[b][i].row = r
  <2>1. b \in Nat /\ seen[b] \in Page BY <1>2, <1>7 DEF TableOK, At
  <2>2. i \in 1 .. Len(seen[b]) /\ Len(seen[b]) \in Nat BY <1>7, <2>1, PageSeq DEF At
  <2>3. seen[b][i] \in Items BY <2>1, <2>2, PageSeq
  <2> QED BY <1>7, <2>1, <2>2, <2>3 DEF Before, At
<1>8. ASSUME NEW r, NEW v
      PROVE  <<r, v>> \in before' <=> IsValidBlockNumber(fsmFile.max) /\ Coming(seen', scan', r, v)
  <2>1. <<r, v>> \in before' <=> Has(known, r, v) BY <1>1, LiveHas
  <2>2. Coming(seen', scan', r, v) <=> Coming(seen, scan', r, v)
    BY <1>3, <1>4, ComingUpTo
  <2>3. ASSUME Has(known, r, v)
        PROVE  IsValidBlockNumber(fsmFile.max) /\ Coming(seen, scan', r, v)
    <3>1. PICK b, i : At(known, b, i, r) /\ known[b][i].ver = v BY <2>3 DEF Has
    <3>2. /\ At(seen, b, i, r) /\ seen[b][i].ver = v
          /\ IsValidBlockNumber(fsmFile.max) /\ b <= fsmFile.max
      BY <1>6, <3>1
    <3> QED BY <1>4, <1>7, <3>2 DEF Coming
  <2>4. ASSUME IsValidBlockNumber(fsmFile.max), Coming(seen, scan', r, v)
        PROVE  Has(known, r, v)
    <3>1. PICK b, i : At(seen, b, i, r) /\ seen[b][i].ver = v /\ b <= scan'.max
      BY <2>4 DEF Coming
    <3>2. At(known, b, i, r) /\ known[b][i] = seen[b][i] BY <1>4, <1>6, <2>4, <3>1
    <3> QED BY <3>1, <3>2 DEF Has
  <2> QED BY <2>1, <2>2, <2>3, <2>4
<1>9. before' \subseteq Versions
  <2> SUFFICES ASSUME NEW x \in before' PROVE x \in Versions OBVIOUS
  <2>1. x = <<x[1], x[2]>> BY <1>1, LiveHas
  <2>2. Has(known, x[1], x[2]) BY <1>1, <2>1, LiveHas
  <2>3. PICK b, i : At(known, b, i, x[1]) /\ known[b][i].ver = x[2] BY <2>2 DEF Has
  <2>4. At(seen, b, i, x[1]) /\ seen[b][i].ver = x[2] BY <1>6, <2>3
  <2>5. x[1] \in Rows /\ x[2] \in 0 .. MaxVer BY <1>7, <2>4 DEF Items
  <2> QED BY <2>1, <2>5 DEF Versions
<1>10. ~IsValidBlockNumber(fsmFile.max) => before' = {}
  <2> SUFFICES ASSUME ~IsValidBlockNumber(fsmFile.max), NEW x \in before' PROVE FALSE OBVIOUS
  <2>1. x = <<x[1], x[2]>> BY <1>1, LiveHas
  <2> QED BY <1>8, <2>1
<1>11. returned' \in Seq(Versions) /\ Len(returned') = 0 /\ Range(returned') = {}
  BY <1>1 DEF Range
<1>12. \A r, v : Coming(seen, scan, r, v)' <=> Coming(seen', scan', r, v) BY DEF Coming
<1>13. /\ \A i, j \in 1 .. Len(returned') : returned'[i] = returned'[j] => i = j
       /\ returned' = <<>>
  BY <1>1, <1>11
<1> QED BY <1>1, <1>3, <1>4, <1>8, <1>9, <1>10, <1>11, <1>12, <1>13 DEF Progress

\* The places that Ahead names.
LEMMA AheadAt ==
  ASSUME IInv
  PROVE  /\ \A a \in Ahead : /\ a = <<a[1], a[2]>> /\ a[1] \in Nat /\ a[2] \in Nat
                             /\ a[1] \in DOMAIN seen /\ a[2] \in DOMAIN seen[a[1]]
                             /\ seen[a[1]][a[2]] \in Items /\ a[1] <= scan.max
                             /\ Before(<<scan.blkNumber, scan.tupleIndex>>, a)
         /\ \A b, i, r : /\ At(seen, b, i, r) /\ b <= scan.max
                         /\ Before(<<scan.blkNumber, scan.tupleIndex>>, <<b, i>>)
                         => <<b, i>> \in Ahead /\ Visible(seen[b][i])
<1>1. /\ TableOK(Table) /\ Table.seen = seen /\ Table.disk = disk /\ DOMAIN seen = DOMAIN disk
  BY TableFields DEF IInv, TableOK
<1>2. ASSUME NEW a \in Ahead
      PROVE  /\ a = <<a[1], a[2]>> /\ a[1] \in Nat /\ a[2] \in Nat
             /\ a[1] \in DOMAIN seen /\ a[2] \in DOMAIN seen[a[1]]
             /\ seen[a[1]][a[2]] \in Items /\ a[1] <= scan.max
             /\ Before(<<scan.blkNumber, scan.tupleIndex>>, a)
  <2>1. /\ a = <<a[1], a[2]>> /\ a[1] \in DOMAIN seen /\ a[2] \in 1 .. Cap
        /\ a[1] <= scan.max /\ a[2] <= Len(seen[a[1]])
        /\ Before(<<scan.blkNumber, scan.tupleIndex>>, a)
    BY DEF Ahead
  <2>2. seen[a[1]] \in Page /\ a[1] \in Nat BY <1>1, <2>1 DEF TableOK
  <2>3. a[2] \in 1 .. Len(seen[a[1]]) BY <2>1, <2>2, PageSeq, BlockAssumption
  <2>4. seen[a[1]][a[2]] \in Items /\ a[2] \in DOMAIN seen[a[1]] BY <2>2, <2>3, PageSeq
  <2> QED BY <2>1, <2>2, <2>3, <2>4
<1>3. ASSUME NEW b, NEW i, NEW r, At(seen, b, i, r), b <= scan.max,
             Before(<<scan.blkNumber, scan.tupleIndex>>, <<b, i>>)
      PROVE  <<b, i>> \in Ahead /\ Visible(seen[b][i])
  <2>1. b \in DOMAIN seen /\ seen[b] \in Page /\ ~seen[b][i].deleted
    BY <1>1, <1>3 DEF TableOK, At
  <2>2. i \in 1 .. Len(seen[b]) /\ Len(seen[b]) \in Nat /\ Len(seen[b]) <= Cap
    BY <1>3, <2>1, PageSeq DEF At
  <2>3. i \in 1 .. Cap /\ i <= Len(seen[b]) BY <2>2, BlockAssumption
  <2> QED BY <1>3, <2>1, <2>3 DEF Ahead, Visible
<1> QED BY <1>2, <1>3

\* The tuple returned is the first of those to come, and the only one of its row.
LEMMA ProgressScans ==
  ASSUME IInv, Progress, SeqScan_getNext
  PROVE  Progress'
<1>1. /\ Scanning /\ pc = "run" /\ IsValidBlockNumber(Rel_curMaxBlock)
      /\ UNCHANGED <<kind, Rel_curMaxBlock, seen, before>>
  BY DEF SeqScan_getNext, Scanning
<1>2. PICK a \in Ahead :
        LET item == seen[a[1]][a[2]]
        IN  /\ Visible(item)
            /\ \A b \in Ahead : Before(b, a) => ~Visible(seen[b[1]][b[2]])
            /\ scan' = [scan EXCEPT !.blkNumber = a[1], !.tupleIndex = a[2]]
            /\ tuple' = [bnum |-> a[1], index |-> a[2], item |-> item]
            /\ returned' = Append(returned, <<item.row, item.ver>>)
            /\ pc' = IF item.row \in cond /\ (kind = "update" => item.ver < MaxVer)
                     THEN "got" ELSE "run"
  BY DEF SeqScan_getNext
<1> DEFINE item == seen[a[1]][a[2]]
           x == <<item.row, item.ver>>
           pos == <<scan.blkNumber, scan.tupleIndex>>
<1>3. /\ a = <<a[1], a[2]>> /\ a[1] \in Nat /\ a[2] \in Nat
      /\ a[1] \in DOMAIN seen /\ a[2] \in DOMAIN seen[a[1]]
      /\ item \in Items /\ a[1] <= scan.max /\ Before(pos, a)
  BY AheadAt
<1>4. At(seen, a[1], a[2], item.row) BY <1>2, <1>3 DEF At, Visible
<1>5. scan'.blkNumber = a[1] /\ scan'.tupleIndex = a[2] /\ scan'.max = scan.max
  <2>1. scan = [blkNumber |-> scan.blkNumber, tupleIndex |-> scan.tupleIndex, max |-> scan.max]
    BY DEF IInv, Scanned
  <2>2. scan' = [blkNumber |-> a[1], tupleIndex |-> a[2], max |-> scan.max] BY <1>2, <2>1
  <2> QED BY <2>2
<1>6. tuple'.bnum = a[1] /\ tuple'.index = a[2] /\ returned' = Append(returned, x)
      /\ pc' \in {"run", "got"}
  BY <1>2
<1>7. /\ returned \in Seq(Versions) /\ before \subseteq Versions
      /\ \A i, j \in 1 .. Len(returned) : returned[i] = returned[j] => i = j
      /\ scan.blkNumber \in Nat /\ scan.tupleIndex \in Nat
      /\ \A r, v : <<r, v>> \in before <=>
           <<r, v>> \in Range(returned) \/ Coming(seen, scan, r, v)
      /\ \A r, v : Coming(seen, scan, r, v) => <<r, v>> \notin Range(returned)
  BY <1>1 DEF Progress
<1>8. Once(seen) BY DEF IInv
<1>9. \A b \in Ahead : Visible(seen[b[1]][b[2]]) => ~Before(b, a) BY <1>2
<1> HIDE DEF item
<1>10. Coming(seen, scan, item.row, item.ver) BY <1>3, <1>4 DEF Coming, item
<1>11. ASSUME NEW r, NEW v, Coming(seen, scan, r, v)
       PROVE  \/ r = item.row /\ v = item.ver
              \/ r # item.row /\ Coming(seen, scan', r, v)
  <2>1. PICK b, i : /\ At(seen, b, i, r) /\ seen[b][i].ver = v
                    /\ b <= scan.max /\ Before(pos, <<b, i>>)
    BY <1>11 DEF Coming
  <2>2. CASE r = item.row BY <1>4, <1>8, <2>1, <2>2 DEF Once, item
  <2>3. CASE r # item.row
    <3>1. <<b, i>> \in Ahead /\ Visible(seen[b][i]) BY <2>1, AheadAt
    <3>2. b \in Nat /\ i \in Nat BY <3>1, AheadAt
    <3>3. ~Before(<<b, i>>, a) BY <1>9, <3>1
    <3>4. ~(b = a[1] /\ i = a[2]) BY <1>4, <2>1, <2>3 DEF At
    <3>5. Before(<<a[1], a[2]>>, <<b, i>>) BY <1>3, <3>2, <3>3, <3>4 DEF Before
    <3> QED BY <1>5, <2>1, <2>3, <3>5 DEF Coming
  <2> QED BY <2>2, <2>3
<1>12. ASSUME NEW r, NEW v, Coming(seen, scan', r, v)
       PROVE  r # item.row /\ Coming(seen, scan, r, v)
  <2>1. PICK b, i : /\ At(seen, b, i, r) /\ seen[b][i].ver = v
                    /\ b <= scan.max /\ Before(<<a[1], a[2]>>, <<b, i>>)
    BY <1>5, <1>12 DEF Coming
  <2>2. b \in Nat /\ i \in Nat
    <3>1. TableOK(Table) /\ Table.seen = seen /\ Table.disk = disk /\ DOMAIN seen = DOMAIN disk
      BY TableFields DEF IInv, TableOK
    <3>2. b \in Nat /\ seen[b] \in Page BY <2>1, <3>1 DEF At, TableOK
    <3> QED BY <2>1, <3>2, PageSeq DEF At
  <2>3. Before(pos, <<b, i>>) BY <1>3, <1>7, <2>1, <2>2 DEF Before
  <2>4. ~(b = a[1] /\ i = a[2]) BY <1>3, <2>1 DEF Before
  <2>5. r # item.row BY <1>4, <1>8, <2>1, <2>4 DEF Once
  <2> QED BY <2>1, <2>3, <2>5 DEF Coming
<1>13. x \in Versions BY <1>3 DEF Versions, Items
<1>14. x \notin Range(returned) BY <1>7, <1>10
<1> HIDE DEF x
<1>15. /\ returned' \in Seq(Versions) /\ Len(returned') = Len(returned) + 1
       /\ Len(returned) \in Nat /\ returned'[Len(returned) + 1] = x
       /\ \A i \in 1 .. Len(returned) : returned'[i] = returned[i]
  BY <1>6, <1>7, <1>13
<1>16. \A i \in 1 .. Len(returned) : returned[i] # x BY <1>7, <1>14 DEF Range
<1>17. \A i, j \in 1 .. Len(returned') : returned'[i] = returned'[j] => i = j
  BY <1>7, <1>15, <1>16
<1>18. \A y : y \in Range(returned') <=> y \in Range(returned) \/ y = x
  <2>1. /\ Range(returned) = {returned[i] : i \in 1 .. Len(returned)}
        /\ Range(returned') = {returned'[i] : i \in 1 .. Len(returned')}
    BY <1>7, <1>15 DEF Range
  <2>2. 1 .. Len(returned') = 1 .. Len(returned) \cup {Len(returned) + 1} BY <1>15
  <2> QED BY <1>15, <2>1, <2>2
<1>19. \A r, v : Coming(seen, scan, r, v)' <=> Coming(seen, scan', r, v) BY <1>1 DEF Coming
<1>20. \A r, v : <<r, v>> = x <=> r = item.row /\ v = item.ver BY DEF x
<1>21. \A r, v : <<r, v>> \in before <=>
           <<r, v>> \in Range(returned') \/ Coming(seen, scan', r, v)
  BY <1>7, <1>10, <1>11, <1>12, <1>18, <1>20
<1>22. \A r, v : Coming(seen, scan', r, v) => <<r, v>> \notin Range(returned')
  BY <1>7, <1>12, <1>18, <1>20
<1>23. pc' # "done" /\ pc' # "append" BY <1>6
<1> QED BY <1>1, <1>3, <1>5, <1>6, <1>7, <1>15, <1>17, <1>19, <1>21, <1>22, <1>23
        DEF Progress

\* At the end nothing is to come.
LEMMA ProgressEnds ==
  ASSUME IInv, Progress, ScanEnds
  PROVE  Progress'
<1>1. /\ UNCHANGED <<kind, Rel_curMaxBlock, scan, tuple, seen, before, returned>>
      /\ pc' = "done"
      /\ IsValidBlockNumber(Rel_curMaxBlock) => \A a \in Ahead : ~Visible(seen[a[1]][a[2]])
  BY DEF ScanEnds
<1>2. ASSUME IsValidBlockNumber(Rel_curMaxBlock), NEW r, NEW v, Coming(seen, scan, r, v)
      PROVE  FALSE
  <2>1. PICK b, i : /\ At(seen, b, i, r) /\ b <= scan.max
                    /\ Before(<<scan.blkNumber, scan.tupleIndex>>, <<b, i>>)
    BY <1>2 DEF Coming
  <2>2. <<b, i>> \in Ahead /\ Visible(seen[b][i]) BY <2>1, AheadAt
  <2> QED BY <1>1, <1>2, <2>2
<1> QED BY <1>1, <1>2, ProgressSame

\* What is deleted was returned.
LEMMA ProgressDeletes ==
  ASSUME AddrsFit, IInv, Progress, Tup_cDeleteTuple
  PROVE  Progress'
<1>1. /\ pc = "got" /\ pc' \in {"run", "append"}
      /\ UNCHANGED <<kind, scan, tuple, before, returned>>
  BY DEF Tup_cDeleteTuple
<1>2. /\ Scanning /\ tuple.bnum = scan.blkNumber /\ tuple.index = scan.tupleIndex
      /\ scan.blkNumber \in Nat /\ scan.tupleIndex \in Nat
  BY <1>1 DEF IInv, Got, Progress, Scanning
<1>3. /\ Rel_curMaxBlock' = Rel_curMaxBlock
      /\ \A d, j, q : /\ At(seen', d, j, q) <=>
                            At(seen, d, j, q) /\ ~(d = tuple.bnum /\ j = tuple.index)
                      /\ At(seen', d, j, q) => seen'[d][j] = seen[d][j]
  BY DeleteStep
<1> DEFINE pos == <<scan.blkNumber, scan.tupleIndex>>
<1>4. ~Before(pos, pos) BY <1>2 DEF Before
<1>5. ASSUME NEW r, NEW v PROVE Coming(seen', scan, r, v) <=> Coming(seen, scan, r, v)
  <2>1. ASSUME Coming(seen', scan, r, v) PROVE Coming(seen, scan, r, v)
    <3>1. PICK b, i : /\ At(seen', b, i, r) /\ seen'[b][i].ver = v
                      /\ b <= scan.max /\ Before(pos, <<b, i>>)
      BY <2>1 DEF Coming
    <3>2. At(seen, b, i, r) BY <1>3, <3>1
    <3>3. seen'[b][i] = seen[b][i] BY <1>3, <3>1
    <3> QED BY <3>1, <3>2, <3>3 DEF Coming
  <2>2. ASSUME Coming(seen, scan, r, v) PROVE Coming(seen', scan, r, v)
    <3>1. PICK b, i : /\ At(seen, b, i, r) /\ seen[b][i].ver = v
                      /\ b <= scan.max /\ Before(pos, <<b, i>>)
      BY <2>2 DEF Coming
    <3>2. ~(b = tuple.bnum /\ i = tuple.index) BY <1>2, <1>4, <3>1
    <3>3. At(seen', b, i, r) BY <1>3, <3>1, <3>2
    <3>4. seen'[b][i] = seen[b][i] BY <1>3, <3>3
    <3> QED BY <3>1, <3>3, <3>4 DEF Coming
  <2> QED BY <2>1, <2>2
<1> QED BY <1>1, <1>2, <1>3, <1>5, ProgressSame

LEMMA ProgressInit == Init => Progress
BY DEF Init, Progress, Scanning

LEMMA ProgressStep ==
  ASSUME AddrsFit, IInv, Progress, [Next]_tableVars
  PROVE  Progress'
<1>1. ASSUME NEW k \in Kinds, NEW where, Begin(k, where) PROVE Progress'
  BY <1>1, ProgressBegins
<1>2. ASSUME NEW row \in Rows, Tup_vInsert(row) PROVE Progress'
  <2>1. ~Scanning' BY <1>2 DEF Tup_vInsert, Scanning
  <2> QED BY <2>1 DEF Progress
<1>3. CASE SeqScan_getNext BY <1>3, ProgressScans
<1>4. CASE ScanEnds BY <1>4, ProgressEnds
<1>5. CASE Tup_cDeleteTuple BY <1>5, ProgressDeletes
<1>6. CASE Tup_vAppend
  <2>1. /\ pc = "append" /\ pc' = "run"
        /\ UNCHANGED <<kind, scan, tuple, before, returned>>
    BY <1>6 DEF Tup_vAppend
  <2>2. SameUpTo(seen', seen, scan.max) /\ IsValidBlockNumber(Rel_curMaxBlock')
    BY <1>6, AppendStep
  <2>3. \A r, v : Coming(seen', scan, r, v) <=> Coming(seen, scan, r, v)
    BY <2>2, ComingUpTo
  <2>4. Scanning => IsValidBlockNumber(Rel_curMaxBlock) BY <2>1 DEF Progress
  <2> QED BY <2>1, <2>2, <2>3, <2>4, ProgressSame
<1>7. ASSUME NEW b \in DOMAIN seen, Replace(b) PROVE Progress'
  <2>1. UNCHANGED <<kind, pc, Rel_curMaxBlock, scan, tuple, before, returned>>
    BY <1>7 DEF Replace
  <2>2. Scanning => SameUpTo(seen', seen, scan.max) BY <1>7, ReplaceStep
  <2>3. Scanning => \A r, v : Coming(seen', scan, r, v) <=> Coming(seen, scan, r, v)
    BY <2>2, ComingUpTo
  <2> QED BY <2>1, <2>3, ProgressSame
<1>8. CASE End \/ Crash
  <2>1. ~Scanning' BY <1>8 DEF End, Crash, Gone, Scanning
  <2> QED BY <2>1 DEF Progress
<1>9. CASE UNCHANGED tableVars
  <2>1. UNCHANGED <<kind, pc, Rel_curMaxBlock, scan, tuple, seen, before, returned>>
    BY <1>9 DEF tableVars
  <2> QED BY <2>1, ProgressSame
<1> QED BY <1>1, <1>2, <1>3, <1>4, <1>5, <1>6, <1>7, <1>8, <1>9 DEF Next

\* A statement's scan returns exactly the rows that the blocks it knows held when it
\* began, each once and in the version it had, whatever the statement deletes and
\* appends meanwhile, for any numbers of rows, versions and blocks (analyze.h:116,
\* execScan.c, execTable.c:94-190). Buffers that are not dirty are replaced at any
\* time in relation 0; in another relation none may be, because the item of a
\* replaced buffer stays in the hash (buffer.c:170).
THEOREM ScansExact ==
  ASSUME AddrsFit PROVE Spec => []ScanExact
<1>1. Init => IInv /\ Progress BY InitStep, ProgressInit
<1>2. (IInv /\ Progress) /\ [Next]_tableVars => (IInv /\ Progress)' BY NextStep, ProgressStep
<1>3. Progress => ScanExact
  <2> SUFFICES ASSUME Progress, Scanning, pc = "done"
               PROVE  Range(returned) = before /\ Len(returned) = Cardinality(before)
    BY DEF ScanExact, Scanning
  <2>1. /\ returned \in Seq(Versions) /\ before \subseteq Versions
        /\ \A i, j \in 1 .. Len(returned) : returned[i] = returned[j] => i = j
    BY DEF Progress
  <2>2. Range(returned) \subseteq Versions BY <2>1 DEF Range
  <2>3. \A r, v : <<r, v>> \in before <=> <<r, v>> \in Range(returned)
    <3>1. CASE IsValidBlockNumber(Rel_curMaxBlock) BY <3>1 DEF Progress
    <3>2. CASE ~IsValidBlockNumber(Rel_curMaxBlock)
      <4>1. before = {} /\ returned = <<>> BY <3>2 DEF Progress
      <4> QED BY <4>1 DEF Range
    <3> QED BY <3>1, <3>2
  <2>4. \A x \in Versions : x = <<x[1], x[2]>> BY DEF Versions
  <2>5. Range(returned) = before
    <3>1. ASSUME NEW x \in Versions PROVE x \in before <=> x \in Range(returned)
      BY <2>3, <2>4
    <3> QED BY <2>1, <2>2, <3>1
  <2>6. Len(returned) \in Nat /\ returned \in [1 .. Len(returned) -> Range(returned)]
    BY <2>1 DEF Range
  <2>7. returned \in Bijection(1 .. Len(returned), before)
    <3>1. returned \in [1 .. Len(returned) -> before] BY <2>5, <2>6
    <3>2. \A x \in before : \E i \in 1 .. Len(returned) : returned[i] = x
      BY <2>5, <2>6 DEF Range
    <3> QED BY <2>1, <3>1, <3>2 DEF Bijection, Injection, Surjection, IsInjective
  <2>8. Cardinality(before) = Len(returned)
    <3>1. ExistsBijection(1 .. Len(returned), before) BY <2>7 DEF ExistsBijection
    <3> QED BY <2>6, <3>1, FS_CountingElements
  <2> QED BY <2>5, <2>8
<1> QED BY <1>1, <1>2, <1>3, PTL DEF Spec
=============================================================================
