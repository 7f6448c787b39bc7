-------------------------- MODULE BufferPoolProofs --------------------------
(***************************************************************************)
(* Proofs about the buffer manager, after the facts about numbers,         *)
(* sequences and finite sets that they rest on: its types, its clock, and, *)
(* where the hash can be trusted (HashSafe), that the hash finds what is   *)
(* in the buffers and that clients read what was written last.             *)
(***************************************************************************)
EXTENDS BufferPool, TLAPS, FiniteSetTheorems, FunctionTheorems,
        WellFoundedInduction, SequenceTheorems

-----------------------------------------------------------------------------
\* Division with remainder.

LEMMA ModRange ==
  ASSUME NEW n \in Nat \ {0}, NEW a \in Int
  PROVE  a % n \in 0 .. n - 1
  OBVIOUS

LEMMA ModSmall ==
  ASSUME NEW n \in Nat \ {0}, NEW a \in 0 .. n - 1
  PROVE  a % n = a /\ (a + n) % n = a
  OBVIOUS

LEMMA DivNat ==
  ASSUME NEW n \in Nat \ {0}, NEW a \in Nat
  PROVE  a \div n \in Nat
  OBVIOUS

LEMMA DivMod ==
  ASSUME NEW n \in Nat \ {0}, NEW a \in Int
  PROVE  a = n * (a \div n) + (a % n)
  OBVIOUS

\* Quotient and remainder determine a number.
LEMMA DivModUnique ==
  ASSUME NEW n \in Nat \ {0}, NEW a \in Nat, NEW b \in Nat,
         a % n = b % n, a \div n = b \div n
  PROVE  a = b
  BY DivMod

\* Adding a constant keeps numbers below the modulus apart.
LEMMA ModInjective ==
  ASSUME NEW n \in Nat \ {0}, NEW a \in 0 .. n - 1, NEW b \in 0 .. n - 1,
         NEW k \in Int, (a + k) % n = (b + k) % n
  PROVE  a = b
<1> DEFINE p == (a + k) \div n
           q == (b + k) \div n
<1>1. a + k = n * p + ((a + k) % n) BY DivMod
<1>2. b + k = n * q + ((b + k) % n) BY DivMod
<1>3. p \in Int /\ q \in Int OBVIOUS
<1> HIDE DEF p, q
<1>4. a - b = n * (p - q)  BY <1>1, <1>2, <1>3
<1>5. a - b < n /\ b - a < n OBVIOUS
<1>6. p - q < 1 /\ q - p < 1 BY <1>4, <1>5, <1>3
<1> QED BY <1>4, <1>6, <1>3

-----------------------------------------------------------------------------
\* Least and greatest elements.

LEMMA MinNat ==
  ASSUME NEW S \in SUBSET Nat, S # {}
  PROVE  /\ Min(S) \in S
         /\ \A y \in S : Min(S) <= y
<1>1. PICK x \in S : \A y \in S : ~ (<<y, x>> \in OpToRel(<, Nat))
  BY NatLessThanWellFounded, WFMin, Zenon
<1>2. OpToRel(<, Nat) = {ss \in Nat \X Nat : ss[1] < ss[2]}
  BY Zenon DEF OpToRel
<1>3. ASSUME NEW y \in S PROVE x <= y
  <2>1. ~ (<<y, x>> \in {ss \in Nat \X Nat : ss[1] < ss[2]})
    BY <1>1, <1>2, Zenon
  <2>2. y \in Nat /\ x \in Nat OBVIOUS
  <2> QED BY <2>1, <2>2
<1> QED BY <1>3, Zenon DEF Min

LEMMA MaxInterval ==
  ASSUME NEW n \in Nat, NEW S \in SUBSET (0 .. n - 1), S # {}
  PROVE  /\ Max(S) \in S
         /\ \A y \in S : y <= Max(S)
<1> DEFINE T == {n - 1 - x : x \in S}
<1>1. T \in SUBSET Nat /\ T # {}
  <2>1. \A x \in S : n - 1 - x \in Nat OBVIOUS
  <2> QED BY <2>1
<1>2. Min(T) \in T /\ \A t \in T : Min(T) <= t BY <1>1, MinNat
<1>3. PICK x \in S : Min(T) = n - 1 - x BY <1>2
<1>4. ASSUME NEW y \in S PROVE x >= y
  <2>1. n - 1 - y \in T OBVIOUS
  <2>2. n - 1 - x <= n - 1 - y BY <1>2, <1>3, <2>1
  <2> QED BY <2>2
<1> QED BY <1>4 DEF Max

-----------------------------------------------------------------------------
\* Sequences: an element put in front, an element taken out.

LEMMA ConsSeq ==
  ASSUME NEW S, NEW s \in Seq(S), NEW e \in S
  PROVE  /\ <<e>> \o s \in Seq(S)
         /\ Len(<<e>> \o s) = Len(s) + 1
         /\ (<<e>> \o s)[1] = e
         /\ \A j \in 1 .. Len(s) : (<<e>> \o s)[j + 1] = s[j]
  OBVIOUS

LEMMA RemoveAtSeq ==
  ASSUME NEW S, NEW s \in Seq(S), NEW i \in 1 .. Len(s)
  PROVE  /\ RemoveAt(s, i) \in Seq(S)
         /\ Len(RemoveAt(s, i)) = Len(s) - 1
         /\ \A j \in 1 .. Len(s) - 1 :
              RemoveAt(s, i)[j] = IF j < i THEN s[j] ELSE s[j + 1]
<1> DEFINE p == SubSeq(s, 1, i - 1)
           q == SubSeq(s, i + 1, Len(s))
<1>1. p \in Seq(S) /\ Len(p) = i - 1 /\ \A j \in 1 .. i - 1 : p[j] = s[j]
  BY SubSeqProperties
<1>2. q \in Seq(S) /\ Len(q) = Len(s) - i
      /\ \A j \in 1 .. Len(s) - i : q[j] = s[i + j]
  BY SubSeqProperties
<1>3. RemoveAt(s, i) = p \o q BY DEF RemoveAt
<1> HIDE DEF p, q
<1>4. Len(s) \in Nat OBVIOUS
<1>5. p \o q \in Seq(S) BY <1>1, <1>2
<1>6. Len(p \o q) = Len(p) + Len(q)
      /\ \A j \in 1 .. Len(p) + Len(q) :
           (p \o q)[j] = IF j <= Len(p) THEN p[j] ELSE q[j - Len(p)]
  BY <1>1, <1>2, ConcatProperties
<1>7. Len(p) + Len(q) = Len(s) - 1 BY <1>1, <1>2, <1>4
<1>8. ASSUME NEW j \in 1 .. Len(s) - 1
      PROVE  (p \o q)[j] = IF j < i THEN s[j] ELSE s[j + 1]
  <2>1. CASE j < i BY <1>1, <1>4, <1>6, <1>7, <2>1
  <2>2. CASE j >= i
    <3>1. j - Len(p) \in 1 .. Len(s) - i /\ ~ (j <= Len(p)) BY <1>1, <1>4, <2>2
    <3>2. i + (j - Len(p)) = j + 1 BY <1>1
    <3>3. (p \o q)[j] = q[j - Len(p)] BY <1>4, <1>6, <1>7, <3>1
    <3>4. q[j - Len(p)] = s[i + (j - Len(p))] BY <1>2, <3>1
    <3> QED BY <2>2, <3>2, <3>3, <3>4
  <2>3. j < i \/ j >= i BY <1>4
  <2> QED BY <2>1, <2>2, <2>3, Zenon
<1> QED BY <1>3, <1>5, <1>6, <1>7, <1>8
-----------------------------------------------------------------------------
\* Counting.

LEMMA CardinalityBelow ==
  ASSUME NEW n \in Nat
  PROVE  IsFiniteSet(0 .. n - 1) /\ Cardinality(0 .. n - 1) = n
<1>1. IsFiniteSet(0 .. n - 1)
      /\ Cardinality(0 .. n - 1) = IF 0 > n - 1 THEN 0 ELSE n - 1 - 0 + 1
  BY FS_Interval
<1> QED BY <1>1

\* Fewer than n values leave one of 0 .. n - 1 out.
LEMMA NotOnto ==
  ASSUME NEW S, IsFiniteSet(S), NEW n \in Nat, Cardinality(S) < n, NEW f
  PROVE  \E b \in 0 .. n - 1 : \A s \in S : f[s] # b
<1> SUFFICES ASSUME \A b \in 0 .. n - 1 : \E s \in S : f[s] = b
             PROVE  FALSE
  OBVIOUS
<1> DEFINE T == {s \in S : f[s] \in 0 .. n - 1}
           g == [s \in T |-> f[s]]
<1>1. g \in Surjection(T, 0 .. n - 1)
  BY DEF Surjection
<1>2. IsFiniteSet(T) /\ Cardinality(T) <= Cardinality(S)
  <2>1. T \in SUBSET S OBVIOUS
  <2> HIDE DEF T
  <2> QED BY <2>1, FS_Subset
<1>3. Cardinality(0 .. n - 1) <= Cardinality(T)
  <2> HIDE DEF T, g
  <2> QED BY <1>1, <1>2, FS_Surjection
<1>4. Cardinality(T) \in Nat /\ Cardinality(S) \in Nat
  BY <1>2, FS_CardinalityType
<1> HIDE DEF T, g
<1> QED BY <1>2, <1>3, <1>4, CardinalityBelow

\* A list whose elements are told apart by a number below n is no longer than n.
LEMMA DistinctBound ==
  ASSUME NEW n \in Nat, NEW m \in Nat, NEW f \in [1 .. m -> 0 .. n - 1],
         \A i, j \in 1 .. m : f[i] = f[j] => i = j
  PROVE  m <= n
<1>1. f \in Injection(1 .. m, 0 .. n - 1) BY DEF Injection, IsInjective
<1>2. Cardinality(1 .. m) <= Cardinality(0 .. n - 1)
  BY <1>1, CardinalityBelow, FS_Injection
<1>3. Cardinality(1 .. m) = IF 1 > m THEN 0 ELSE m - 1 + 1 BY FS_Interval
<1>4. Cardinality(0 .. n - 1) = n BY CardinalityBelow
<1>5. Cardinality(1 .. m) = m BY <1>3
<1> QED BY <1>2, <1>4, <1>5

-----------------------------------------------------------------------------
\* Hashing stays within the buckets.

LEMMA BlockFields ==
  ASSUME NEW blk \in Blocks
  PROVE  /\ blk.rid \in Rels /\ blk.rid \in Nat
         /\ blk.bnum \in 0 .. MaxBlk /\ blk.bnum \in Nat
<1>1. blk.rid \in Rels /\ blk.bnum \in 0 .. MaxBlk BY DEF Blocks
<1>2. Rels \subseteq Nat /\ MaxBlk \in Nat BY SizesAssumption
<1>3. blk.rid \in Nat BY <1>1, <1>2
<1>4. blk.bnum \in Nat BY <1>1, <1>2
<1> QED BY <1>1, <1>3, <1>4

LEMMA OidType ==
  ASSUME NEW blk \in Blocks
  PROVE  /\ BLK_GetBlockOid(blk) \in 0 .. UintRange - 1
         /\ Bucket(blk) \in Buckets
         /\ Divider(blk) \in Nat
<1> DEFINE fid == blk.rid * MaxFileNumforRelation
<1>1. blk.rid \in Nat /\ blk.bnum \in Nat BY BlockFields
<1>2. fid \in Nat BY <1>1, SizesAssumption
<1>3. fid * INValidBlockNumber \in Nat
  <2> HIDE DEF fid
  <2> QED BY <1>2, SizesAssumption
<1>4. blk.bnum + fid * INValidBlockNumber \in Nat
  <2> HIDE DEF fid
  <2> QED BY <1>1, <1>3
<1>5. BLK_GetBlockOid(blk) \in 0 .. UintRange - 1
  <2>1. UintRange \in Nat \ {0} BY SizesAssumption
  <2>2. blk.bnum + fid * INValidBlockNumber \in Int BY <1>4
  <2>3. BLK_GetBlockOid(blk) = (blk.bnum + fid * INValidBlockNumber) % UintRange
    BY DEF BLK_GetBlockOid
  <2> HIDE DEF fid
  <2> QED BY <2>1, <2>2, <2>3, ModRange
<1>6. BLK_GetBlockOid(blk) \in Nat BY <1>5
<1>7. Bucket(blk) \in Buckets
  BY <1>6, ModRange, SizesAssumption DEF Bucket, Hash_GetHashValueforOid, Buckets
<1>8. Divider(blk) \in Nat
  BY <1>6, DivNat, SizesAssumption DEF Divider, Hash_GetHashDividerforOid
<1> QED BY <1>5, <1>7, <1>8

LEMMA NumberType ==
  ASSUME NEW blk \in Blocks
  PROVE  /\ Hash_GetHashValueforOid(blk.bnum) \in Buckets
         /\ Hash_GetHashDividerforOid(blk.bnum) \in Nat
<1>1. blk.bnum \in Nat BY BlockFields
<1>2. BUFFER_MAX_COUNT \in Nat \ {0} BY SizesAssumption
<1>3. Hash_GetHashValueforOid(blk.bnum) \in Buckets
  <2> DEFINE n == blk.bnum
  <2>1. n \in Int BY <1>1
  <2>2. n % BUFFER_MAX_COUNT \in 0 .. BUFFER_MAX_COUNT - 1
    <3> HIDE DEF n
    <3> QED BY <1>2, <2>1, ModRange
  <2> QED BY <2>2 DEF Hash_GetHashValueforOid, Buckets
<1>4. Hash_GetHashDividerforOid(blk.bnum) \in Nat
  BY <1>1, <1>2, DivNat DEF Hash_GetHashDividerforOid
<1> QED BY <1>3, <1>4

LEMMA NoBlockNotBlock == NoBlock \notin Blocks
  BY SizesAssumption DEF NoBlock, Blocks

-----------------------------------------------------------------------------
\* The clock's hand passes every buffer, so as soon as one buffer is not
\* pinned the clock finds one.

LEMMA ClockOnto ==
  ASSUME lastReplaceIndex \in Buffers
  PROVE  /\ \A i \in Buffers : ClockPos(i) \in Buffers
         /\ \A bp \in Buffers : \E i \in Buffers : ClockPos(i) = bp
<1> DEFINE N == BUFFER_MAX_COUNT
           l == lastReplaceIndex
<1>1. N \in Nat \ {0} BY SizesAssumption
<1>2. l \in 0 .. N - 1 BY DEF Buffers
<1>3. ASSUME NEW i \in Buffers PROVE ClockPos(i) \in Buffers
  <2>1. l + 1 + i \in Int BY <1>2 DEF Buffers
  <2> QED BY <1>1, <2>1, ModRange DEF ClockPos, Buffers
<1>4. ASSUME NEW bp \in Buffers PROVE \E i \in Buffers : ClockPos(i) = bp
  <2>1. bp \in 0 .. N - 1 BY DEF Buffers
  <2>2. CASE bp > l
    <3>1. bp - l - 1 \in Buffers BY <1>1, <1>2, <2>1, <2>2 DEF Buffers
    <3>2. l + 1 + (bp - l - 1) = bp BY <1>2, <2>1
    <3>3. ClockPos(bp - l - 1) = bp BY <1>1, <2>1, <3>2, ModSmall DEF ClockPos
    <3> QED BY <3>1, <3>3
  <2>3. CASE bp <= l
    <3>1. bp - l - 1 + N \in Buffers BY <1>1, <1>2, <2>1, <2>3 DEF Buffers
    <3>2. l + 1 + (bp - l - 1 + N) = bp + N BY <1>1, <1>2, <2>1
    <3>3. ClockPos(bp - l - 1 + N) = bp BY <1>1, <2>1, <3>2, ModSmall DEF ClockPos
    <3> QED BY <3>1, <3>3
  <2> QED BY <1>2, <2>1, <2>2, <2>3
<1> QED BY <1>3, <1>4

\* The victim is not pinned, and it was accessed only if every buffer was
\* accessed or pinned.
LEMMA VictimUnpinned ==
  ASSUME lastReplaceIndex \in Buffers, NEW flag,
         \E bp \in Buffers : Unpinned(flag, bp)
  PROVE  /\ Victim(flag) \in Buffers
         /\ Unpinned(flag, Victim(flag))
         /\ Untouched(flag, Victim(flag)) \/ \A bp \in Buffers : ~Untouched(flag, bp)
<1>1. SecondRound(flag) # {} BY ClockOnto DEF SecondRound
<1>2. FirstRound(flag) \in SUBSET Nat /\ SecondRound(flag) \in SUBSET Nat
  BY DEF FirstRound, SecondRound, Buffers
<1>3. CASE FirstRound(flag) # {}
  <2>1. Min(FirstRound(flag)) \in FirstRound(flag) BY <1>2, <1>3, MinNat
  <2>2. Victim(flag) = ClockPos(Min(FirstRound(flag))) BY <1>3 DEF Victim
  <2>3. Victim(flag) \in Buffers BY <2>1, <2>2, ClockOnto DEF FirstRound
  <2>4. Untouched(flag, Victim(flag)) BY <2>1, <2>2 DEF FirstRound
  <2> QED BY <2>3, <2>4 DEF Untouched
<1>4. CASE FirstRound(flag) = {}
  <2>1. Min(SecondRound(flag)) \in SecondRound(flag) BY <1>1, <1>2, MinNat
  <2>2. Victim(flag) = ClockPos(Min(SecondRound(flag))) BY <1>4 DEF Victim
  <2>3. Victim(flag) \in Buffers BY <2>1, <2>2, ClockOnto DEF SecondRound
  <2>4. Unpinned(flag, Victim(flag)) BY <2>1, <2>2 DEF SecondRound
  <2>5. \A bp \in Buffers : ~Untouched(flag, bp)
    BY <1>4, ClockOnto DEF FirstRound
  <2> QED BY <2>3, <2>4, <2>5
<1> QED BY <1>3, <1>4

-----------------------------------------------------------------------------
\* The lookup returns the buffer of a matching item of the bucket, or none.

LEMMA SearchFound ==
  ASSUME BufferOverFlow \in [Buckets -> Seq(Items)],
         NEW blk \in Blocks, Bucket(blk) \in Buckets,
         BFM_SearchExistBuffer(blk) # INVALID_BUFFER
  PROVE  /\ BufferHashNum[Bucket(blk)] # 0
         /\ \E i \in 1 .. Len(BufferOverFlow[Bucket(blk)]) :
              LET item == BufferOverFlow[Bucket(blk)][i]
              IN  /\ item \in Items
                  /\ BFM_checkBufferOverFlowItem(item, blk.rid, Divider(blk))
                  /\ item.RealBuffer = BFM_SearchExistBuffer(blk)
<1> DEFINE list == BufferOverFlow[Bucket(blk)]
           I == {i \in 1 .. Len(list) :
                   BFM_checkBufferOverFlowItem(list[i], blk.rid, Divider(blk))}
<1>1. list \in Seq(Items) OBVIOUS
<1>2. BFM_SearchExistBuffer(blk) =
        LET i == IF I # {} THEN Min(I) ELSE 0
        IN  IF BufferHashNum[Bucket(blk)] = 0 \/ i = 0 THEN INVALID_BUFFER
            ELSE list[i].RealBuffer
  BY DEF BFM_SearchExistBuffer, SelectInSeq
<1>3. I # {} => Min(I) \in I
  <2>1. I \in SUBSET Nat BY <1>1
  <2> HIDE DEF I
  <2> QED BY <2>1, MinNat
<1>4. I # {} /\ BufferHashNum[Bucket(blk)] # 0 BY <1>2
<1>5. BFM_SearchExistBuffer(blk) = list[Min(I)].RealBuffer
  BY <1>1, <1>2, <1>3, <1>4
<1>6. list[Min(I)] \in Items BY <1>1, <1>3, <1>4
<1> QED BY <1>3, <1>4, <1>5, <1>6

LEMMA SearchMissed ==
  ASSUME BufferOverFlow \in [Buckets -> Seq(Items)],
         NEW blk \in Blocks, Bucket(blk) \in Buckets,
         BFM_SearchExistBuffer(blk) = INVALID_BUFFER
  PROVE  \/ BufferHashNum[Bucket(blk)] = 0
         \/ \A i \in 1 .. Len(BufferOverFlow[Bucket(blk)]) :
              ~ BFM_checkBufferOverFlowItem(BufferOverFlow[Bucket(blk)][i],
                                            blk.rid, Divider(blk))
<1> DEFINE list == BufferOverFlow[Bucket(blk)]
           I == {i \in 1 .. Len(list) :
                   BFM_checkBufferOverFlowItem(list[i], blk.rid, Divider(blk))}
<1>1. list \in Seq(Items) OBVIOUS
<1>2. BFM_SearchExistBuffer(blk) =
        LET i == IF I # {} THEN Min(I) ELSE 0
        IN  IF BufferHashNum[Bucket(blk)] = 0 \/ i = 0 THEN INVALID_BUFFER
            ELSE list[i].RealBuffer
  BY DEF BFM_SearchExistBuffer, SelectInSeq
<1>3. SUFFICES ASSUME I # {}, BufferHashNum[Bucket(blk)] # 0
               PROVE  FALSE
  OBVIOUS
<1>4. Min(I) \in I
  <2>1. I \in SUBSET Nat BY <1>1
  <2> HIDE DEF I
  <2> QED BY <1>3, <2>1, MinNat
<1>5. BFM_SearchExistBuffer(blk) = list[Min(I)].RealBuffer
  BY <1>1, <1>2, <1>3, <1>4
<1>6. list[Min(I)] \in Items BY <1>1, <1>4
<1>7. list[Min(I)].RealBuffer \in 0 .. BUFFER_MAX_COUNT - 1
  BY <1>6 DEF Items, Buffers
<1> QED BY <1>5, <1>7, SizesAssumption DEF INVALID_BUFFER
-----------------------------------------------------------------------------
\* Type correctness. The index a load returns is that of a buffer because the
\* clock never runs through a pool that is pinned throughout: every pin is held
\* by a scan, and there are fewer scans than buffers.

\* The buffers still on the free stack are the ones without a block.
FreeUnbound ==
  \A bp \in Buffers : buffer_block[bp] = NoBlock <=> bp >= FreeBufferTop

\* A pinned buffer is pinned for a scan that stands on it.
PinsHeld ==
  \A bp \in Buffers :
    "Pin" \in BufferFlag[bp]
      => \E s \in Scans : cursor[s] # NoHandle /\ cursor[s].buf = bp

\* Only an insert into the buffer in hand comes to its fallback.
HandHeld == fallback # NoHandle => hand # NoHandle

TypeInv == TypeOK /\ FreeUnbound /\ PinsHeld /\ HandHeld

LEMMA SearchType ==
  ASSUME TypeOK, NEW blk \in Blocks
  PROVE  BFM_SearchExistBuffer(blk) \in Buffers \cup {INVALID_BUFFER}
<1>1. Bucket(blk) \in Buckets BY OidType
<1>2. BufferOverFlow \in [Buckets -> Seq(Items)] BY DEF TypeOK
<1>3. SUFFICES ASSUME BFM_SearchExistBuffer(blk) # INVALID_BUFFER
               PROVE  BFM_SearchExistBuffer(blk) \in Buffers
  OBVIOUS
<1>4. PICK i \in 1 .. Len(BufferOverFlow[Bucket(blk)]) :
        /\ BufferOverFlow[Bucket(blk)][i] \in Items
        /\ BufferOverFlow[Bucket(blk)][i].RealBuffer = BFM_SearchExistBuffer(blk)
  BY <1>1, <1>2, <1>3, SearchFound
<1> QED BY <1>4 DEF Items

LEMMA SomeUnpinned ==
  ASSUME PinsHeld, cursor \in [Scans -> Handles \cup {NoHandle}]
  PROVE  \E bp \in Buffers : Unpinned(BufferFlag, bp)
<1> DEFINE f == [s \in Scans |-> cursor[s].buf]
<1>1. IsFiniteSet(Scans) /\ Cardinality(Scans) < BUFFER_MAX_COUNT
  BY ScansAssumption
<1>2. BUFFER_MAX_COUNT \in Nat BY SizesAssumption
<1>3. PICK bp \in 0 .. BUFFER_MAX_COUNT - 1 : \A s \in Scans : f[s] # bp
  <2> HIDE DEF f
  <2> QED BY <1>1, <1>2, NotOnto
<1>4. bp \in Buffers /\ \A s \in Scans : cursor[s].buf # bp
  BY <1>3 DEF Buffers
<1> QED BY <1>4 DEF PinsHeld, Unpinned

\* A scan's flags, with its own pin taken off, leave a buffer unpinned too.
LEMMA StillUnpinned ==
  ASSUME TypeInv, NEW flag \in [Buffers -> SUBSET Flags],
         \A bp \in Buffers : flag[bp] \subseteq BufferFlag[bp]
  PROVE  \E bp \in Buffers : Unpinned(flag, bp)
<1>1. PICK bp \in Buffers : Unpinned(BufferFlag, bp)
  BY SomeUnpinned DEF TypeInv, TypeOK
<1> QED BY <1>1 DEF Unpinned

LEMMA FlushedDiskType ==
  ASSUME TypeOK, NEW bp \in Buffers
  PROVE  FlushedDisk(bp) \in [Blocks -> Contents]
  BY NoBlockNotBlock DEF TypeOK, FlushedDisk

LEMMA FreedHashNumType ==
  ASSUME TypeOK, NEW bp \in Buffers
  PROVE  FreedHashNum(bp) \in [Buckets -> 0 .. UintRange - 1]
<1> DEFINE h == Hash_GetHashValueforOid(buffer_block[bp].bnum)
<1>1. CASE buffer_block[bp] = NoBlock BY <1>1 DEF TypeOK, FreedHashNum
<1>2. CASE buffer_block[bp] # NoBlock
  <2>1. UintRange \in Nat \ {0} BY SizesAssumption
  <2>2. h \in Buckets BY <1>2, NumberType DEF TypeOK
  <2>3. BufferHashNum[h] \in 0 .. UintRange - 1 BY <2>2 DEF TypeOK
  <2>4. (BufferHashNum[h] - 1) % UintRange \in 0 .. UintRange - 1
    <3>1. BufferHashNum[h] - 1 \in Int BY <2>1, <2>3
    <3> QED BY <2>1, <3>1, ModRange, Zenon
  <2>5. FreedHashNum(bp) =
          [BufferHashNum EXCEPT ![h] = (BufferHashNum[h] - 1) % UintRange]
    BY <1>2 DEF FreedHashNum
  <2> HIDE DEF h
  <2> QED BY <2>2, <2>4, <2>5 DEF TypeOK
<1> QED BY <1>1, <1>2

\* The list of the freed block's number is left with one item less, or as it was.
LEMMA FreedList ==
  ASSUME TypeOK, NEW bp \in Buffers, buffer_block[bp] # NoBlock
  PROVE  LET blk == buffer_block[bp]
             h == Hash_GetHashValueforOid(blk.bnum)
             d == Hash_GetHashDividerforOid(blk.bnum)
             list == BufferOverFlow[h]
             Match(i) == BFM_checkBufferOverFlowItem(list[i], blk.rid, d)
         IN  \/ /\ \A i \in 1 .. Len(list) : ~ Match(i)
                /\ FreedOverFlow(bp) = BufferOverFlow
             \/ \E i \in 1 .. Len(list) :
                  /\ Match(i)
                  /\ FreedOverFlow(bp) =
                       [BufferOverFlow EXCEPT ![h] = RemoveAt(list, i)]
<1> DEFINE blk == buffer_block[bp]
           h == Hash_GetHashValueforOid(blk.bnum)
           d == Hash_GetHashDividerforOid(blk.bnum)
           list == BufferOverFlow[h]
           I == {i \in 1 .. Len(list) : BFM_checkBufferOverFlowItem(list[i], blk.rid, d)}
<1>1. h \in Buckets BY NumberType DEF TypeOK
<1>2. list \in Seq(Items) BY <1>1 DEF TypeOK
<1>3. FreedOverFlow(bp) =
        [BufferOverFlow EXCEPT ![h] =
           IF I # {} THEN RemoveAt(list, IF I # {} THEN Min(I) ELSE 0) ELSE list]
  BY DEF FreedOverFlow, RemoveFirstMatch, SelectInSeq
<1>4. CASE I = {}
  <2>1. FreedOverFlow(bp) = [BufferOverFlow EXCEPT ![h] = list] BY <1>3, <1>4
  <2>2. FreedOverFlow(bp) = BufferOverFlow BY <1>1, <2>1 DEF TypeOK
  <2> QED BY <1>4, <2>2
<1>5. CASE I # {}
  <2>1. I \in SUBSET Nat BY <1>2
  <2>2. Min(I) \in I
    <3> HIDE DEF I
    <3> QED BY <1>5, <2>1, MinNat
  <2>3. FreedOverFlow(bp) = [BufferOverFlow EXCEPT ![h] = RemoveAt(list, Min(I))]
    BY <1>3, <1>5
  <2> QED BY <2>2, <2>3
<1> QED BY <1>4, <1>5

LEMMA FreedOverFlowType ==
  ASSUME TypeOK, NEW bp \in Buffers
  PROVE  FreedOverFlow(bp) \in [Buckets -> Seq(Items)]
<1> DEFINE h == Hash_GetHashValueforOid(buffer_block[bp].bnum)
<1>1. CASE buffer_block[bp] = NoBlock BY <1>1 DEF TypeOK, FreedOverFlow
<1>2. CASE buffer_block[bp] # NoBlock
  <2>1. h \in Buckets BY <1>2, NumberType DEF TypeOK
  <2>2. BufferOverFlow[h] \in Seq(Items) BY <2>1 DEF TypeOK
  <2>3. \A i \in 1 .. Len(BufferOverFlow[h]) :
          RemoveAt(BufferOverFlow[h], i) \in Seq(Items)
    BY <2>2, RemoveAtSeq
  <2>4. \/ FreedOverFlow(bp) = BufferOverFlow
        \/ \E i \in 1 .. Len(BufferOverFlow[h]) :
             FreedOverFlow(bp) =
               [BufferOverFlow EXCEPT ![h] = RemoveAt(BufferOverFlow[h], i)]
    BY <1>2, FreedList
  <2> HIDE DEF h
  <2> QED BY <2>3, <2>4 DEF TypeOK
<1> QED BY <1>1, <1>2

\* What every kind of load does to the types: it yields a buffer, and leaves at
\* most that buffer pinned in addition to those pinned before.
LoadTypes(blk, flag, mark) ==
  /\ LoadTarget(blk, flag) \in Buffers
  /\ buffer_block' \in [Buffers -> Blocks \cup {NoBlock}]
  /\ buffers' \in [Buffers -> Contents]
  /\ BufferFlag' \in [Buffers -> SUBSET Flags]
  /\ freeBufferCount' \in 0 .. BUFFER_MAX_COUNT
  /\ lastReplaceIndex' \in Buffers
  /\ BufferHashNum' \in [Buckets -> 0 .. UintRange - 1]
  /\ BufferOverFlow' \in [Buckets -> Seq(Items)]
  /\ disk' \in [Blocks -> Contents]
  /\ unmarked' \in SUBSET unmarked
  /\ FreeUnbound'
  /\ \A bp \in Buffers :
       "Pin" \in BufferFlag'[bp]
         => (bp = LoadTarget(blk, flag) /\ "Pin" \in mark) \/ "Pin" \in flag[bp]

LEMMA BindType ==
  ASSUME NEW blk \in Blocks, NEW bp \in Buffers,
         NEW num \in [Buckets -> 0 .. UintRange - 1],
         NEW over \in [Buckets -> Seq(Items)],
         NEW d \in [Blocks -> Contents],
         TypeOK, BindAndRead(blk, bp, num, over, d)
  PROVE  /\ buffer_block' \in [Buffers -> Blocks \cup {NoBlock}]
         /\ buffers' \in [Buffers -> Contents]
         /\ BufferHashNum' \in [Buckets -> 0 .. UintRange - 1]
         /\ BufferOverFlow' \in [Buckets -> Seq(Items)]
<1> DEFINE h == Bucket(blk)
           item == [relOid |-> blk.rid, divider |-> Divider(blk), RealBuffer |-> bp]
<1>1. h \in Buckets /\ Divider(blk) \in Nat /\ blk.rid \in Rels
  BY OidType, BlockFields
<1>2. item \in Items BY <1>1 DEF Items
<1>3. BufferOverFlow' = [over EXCEPT ![h] = <<item>> \o over[h]]
      /\ BufferHashNum' = [num EXCEPT ![h] = (num[h] + 1) % UintRange]
      /\ buffer_block' = [buffer_block EXCEPT ![bp] = blk]
      /\ buffers' = [buffers EXCEPT ![bp] = d[blk]]
  BY DEF BindAndRead
<1> HIDE DEF h, item
<1>4. <<item>> \o over[h] \in Seq(Items) BY <1>1, <1>2, ConsSeq
<1>5. (num[h] + 1) % UintRange \in 0 .. UintRange - 1
  <2>1. UintRange \in Nat \ {0} BY SizesAssumption
  <2>2. num[h] + 1 \in Int BY <1>1, <2>1
  <2> QED BY <2>1, <2>2, ModRange, Zenon
<1> QED BY <1>1, <1>3, <1>4, <1>5 DEF TypeOK

LEMMA LoadType ==
  ASSUME TypeInv, NEW blk \in Blocks,
         NEW flag \in [Buffers -> SUBSET Flags],
         \A bp \in Buffers : flag[bp] \subseteq BufferFlag[bp],
         NEW mark \in SUBSET Flags,
         Load(blk, flag, mark)
  PROVE  LoadTypes(blk, flag, mark)
<1>1. TypeOK /\ FreeUnbound BY DEF TypeInv
<1>2. BFM_SearchExistBuffer(blk) \in Buffers \cup {INVALID_BUFFER}
  BY <1>1, SearchType
<1>3. "Access" \in Flags BY DEF Flags
<1>4. CASE LoadHit(blk, flag, mark)
  <2> DEFINE bp == BFM_SearchExistBuffer(blk)
  <2>1. bp # INVALID_BUFFER BY <1>4 DEF LoadHit
  <2>2. LoadTarget(blk, flag) = bp /\ bp \in Buffers
    BY <1>2, <2>1 DEF LoadTarget
  <2>3. BufferFlag' = [flag EXCEPT ![bp] = flag[bp] \cup {"Access"} \cup mark]
    BY <1>4 DEF LoadHit
  <2> HIDE DEF bp
  <2>4. BufferFlag' \in [Buffers -> SUBSET Flags] BY <1>3, <2>2, <2>3
  <2>5. \A b \in Buffers :
          "Pin" \in BufferFlag'[b]
               => (b = LoadTarget(blk, flag) /\ "Pin" \in mark) \/ "Pin" \in flag[b]
    BY <2>2, <2>3
  <2>6. UNCHANGED <<buffer_block, buffers, freeBufferCount, lastReplaceIndex,
                    BufferHashNum, BufferOverFlow, disk, unmarked>>
    BY <1>4 DEF LoadHit
  <2>7. FreeUnbound' BY <1>1, <2>6 DEF FreeUnbound, FreeBufferTop
  <2> QED BY <1>1, <2>2, <2>4, <2>5, <2>6, <2>7
          DEF LoadTypes, TypeOK, Buckets, Buffers
<1>5. CASE LoadFree(blk, flag, mark)
  <2> DEFINE bp == FreeBufferTop
  <2>1. BFM_SearchExistBuffer(blk) = INVALID_BUFFER /\ freeBufferCount > 0
    BY <1>5 DEF LoadFree
  <2>2. freeBufferCount \in 0 .. BUFFER_MAX_COUNT /\ BUFFER_MAX_COUNT \in Nat
    BY <1>1, SizesAssumption DEF TypeOK
  <2>3. LoadTarget(blk, flag) = bp /\ bp \in Buffers
    BY <2>1, <2>2 DEF LoadTarget, FreeBufferTop, Buffers
  <2>4. BufferFlag' = [flag EXCEPT ![bp] = mark]
        /\ freeBufferCount' = freeBufferCount - 1
        /\ BindAndRead(blk, bp, BufferHashNum, BufferOverFlow, disk)
        /\ UNCHANGED <<lastReplaceIndex, disk, unmarked>>
    BY <1>5 DEF LoadFree
  <2>5. buffer_block' = [buffer_block EXCEPT ![bp] = blk]
    BY <2>4 DEF BindAndRead
  <2>6. FreeUnbound'
    <3>1. FreeBufferTop' = FreeBufferTop + 1 BY <2>2, <2>4 DEF FreeBufferTop
    <3>2. FreeBufferTop \in Int BY <2>2 DEF FreeBufferTop
    <3>3. ASSUME NEW b \in Buffers
          PROVE  (buffer_block[b])' = NoBlock <=> b >= FreeBufferTop'
      <4>1. b \in Int BY <2>2 DEF Buffers
      <4>2. buffer_block \in [Buffers -> Blocks \cup {NoBlock}] BY <1>1 DEF TypeOK
      <4>3. CASE b = bp
        <5>1. buffer_block'[b] = blk BY <2>5, <4>2, <4>3
        <5>2. ~ (b >= FreeBufferTop') BY <3>1, <3>2, <4>3
        <5> QED BY <5>1, <5>2, NoBlockNotBlock
      <4>4. CASE b # bp
        <5>1. buffer_block'[b] = buffer_block[b] BY <2>5, <4>2, <4>4
        <5>2. b >= FreeBufferTop' <=> b >= FreeBufferTop
          BY <3>1, <3>2, <4>1, <4>4
        <5> QED BY <1>1, <5>1, <5>2 DEF FreeUnbound
      <4> QED BY <4>3, <4>4
    <3> QED BY <3>3 DEF FreeUnbound
  <2>7. /\ buffer_block' \in [Buffers -> Blocks \cup {NoBlock}]
        /\ buffers' \in [Buffers -> Contents]
        /\ BufferHashNum' \in [Buckets -> 0 .. UintRange - 1]
        /\ BufferOverFlow' \in [Buckets -> Seq(Items)]
    <3> HIDE DEF bp
    <3> QED BY <1>1, <2>3, <2>4, BindType DEF TypeOK
  <2>8. freeBufferCount' \in 0 .. BUFFER_MAX_COUNT BY <2>1, <2>2, <2>4
  <2> HIDE DEF bp
  <2>9. /\ BufferFlag' \in [Buffers -> SUBSET Flags]
        /\ \A b \in Buffers :
             "Pin" \in BufferFlag'[b]
               => (b = LoadTarget(blk, flag) /\ "Pin" \in mark) \/ "Pin" \in flag[b]
    BY <2>3, <2>4
  <2> QED BY <1>1, <2>3, <2>4, <2>6, <2>7, <2>8, <2>9
          DEF LoadTypes, TypeOK, Buckets, Buffers
<1>6. CASE LoadReplace(blk, flag, mark)
  <2> DEFINE bp == Victim(flag)
  <2>1. BFM_SearchExistBuffer(blk) = INVALID_BUFFER /\ freeBufferCount = 0
    BY <1>6 DEF LoadReplace
  <2>2. \E b \in Buffers : Unpinned(flag, b) BY StillUnpinned
  <2>3. bp \in Buffers BY <1>1, <2>2, VictimUnpinned DEF TypeOK
  <2>4. LoadTarget(blk, flag) = bp BY <2>1 DEF LoadTarget
  <2>5. /\ lastReplaceIndex' = bp
        /\ BufferFlag' = [ClockFlags(flag) EXCEPT ![bp] = mark]
        /\ disk' = FlushedDisk(bp)
        /\ BindAndRead(blk, bp, FreedHashNum(bp), FreedOverFlow(bp), FlushedDisk(bp))
        /\ unmarked' = unmarked \ {bp}
        /\ UNCHANGED freeBufferCount
    BY <1>6 DEF LoadReplace
  <2>6. buffer_block' = [buffer_block EXCEPT ![bp] = blk]
    BY <2>5 DEF BindAndRead
  <2> HIDE DEF bp
  <2>7. FreeUnbound'
    <3>1. FreeBufferTop' = BUFFER_MAX_COUNT /\ FreeBufferTop = BUFFER_MAX_COUNT
      BY <2>1, <2>5, SizesAssumption DEF FreeBufferTop
    <3>2. \A b \in Buffers : ~ (b >= BUFFER_MAX_COUNT)
      BY SizesAssumption DEF Buffers
    <3>3. \A b \in Buffers : buffer_block[b] # NoBlock
      BY <1>1, <3>1, <3>2 DEF FreeUnbound
    <3>4. \A b \in Buffers : buffer_block'[b] # NoBlock
      BY <1>1, <2>6, <3>3, NoBlockNotBlock DEF TypeOK
    <3> QED BY <3>1, <3>2, <3>4 DEF FreeUnbound
  <2>8. /\ FlushedDisk(bp) \in [Blocks -> Contents]
        /\ FreedHashNum(bp) \in [Buckets -> 0 .. UintRange - 1]
        /\ FreedOverFlow(bp) \in [Buckets -> Seq(Items)]
    BY <1>1, <2>3, FlushedDiskType, FreedHashNumType, FreedOverFlowType
  <2>9. /\ buffer_block' \in [Buffers -> Blocks \cup {NoBlock}]
        /\ buffers' \in [Buffers -> Contents]
        /\ BufferHashNum' \in [Buckets -> 0 .. UintRange - 1]
        /\ BufferOverFlow' \in [Buckets -> Seq(Items)]
    BY <1>1, <2>3, <2>5, <2>8, BindType
  <2>10. /\ BufferFlag' \in [Buffers -> SUBSET Flags]
         /\ \A b \in Buffers :
              "Pin" \in BufferFlag'[b]
               => (b = LoadTarget(blk, flag) /\ "Pin" \in mark) \/ "Pin" \in flag[b]
    BY <2>3, <2>4, <2>5 DEF ClockFlags
  <2> QED BY <1>1, <2>3, <2>4, <2>5, <2>7, <2>8, <2>9, <2>10
          DEF LoadTypes, TypeOK, Buckets, Buffers
<1> QED BY <1>4, <1>5, <1>6 DEF Load

\* The new buffer manager is empty.
LEMMA EmptyPoolType ==
  ASSUME LosePool, disk' \in [Blocks -> Contents]
  PROVE  TypeInv'
<1>1. /\ up' = FALSE
      /\ buffer_block' = [bp \in Buffers |-> NoBlock]
      /\ buffers' = [bp \in Buffers |-> Zeroed]
      /\ BufferFlag' = [bp \in Buffers |-> {}]
      /\ freeBufferCount' = BUFFER_MAX_COUNT
      /\ lastReplaceIndex' = 0
      /\ BufferHashNum' = [h \in Buckets |-> 0]
      /\ BufferOverFlow' = [h \in Buckets |-> <<>>]
      /\ hand' = NoHandle /\ fallback' = NoHandle
      /\ cursor' = [s \in Scans |-> NoHandle]
      /\ unmarked' = {}
  BY DEF LosePool
<1>2. BUFFER_MAX_COUNT \in Nat \ {0} /\ UintRange \in Nat /\ UintRange > 0
  BY SizesAssumption
<1>3. 0 \in Buffers /\ 0 \in 0 .. UintRange - 1
      /\ BUFFER_MAX_COUNT \in 0 .. BUFFER_MAX_COUNT
  BY <1>2 DEF Buffers
<1>4. FreeUnbound'
  <2>1. FreeBufferTop' = 0 BY <1>1, <1>2 DEF FreeBufferTop
  <2>2. \A bp \in Buffers : bp >= 0 BY <1>2 DEF Buffers
  <2> QED BY <1>1, <2>1, <2>2 DEF FreeUnbound
<1>5. PinsHeld' /\ HandHeld' BY <1>1 DEF PinsHeld, HandHeld
<1>6. TypeOK'
  <2>1. BufferOverFlow' \in [Buckets -> Seq(Items)] BY <1>1
  <2>2. BufferFlag' \in [Buckets -> SUBSET Flags] BY <1>1 DEF Buckets, Buffers
  <2> QED BY <1>1, <1>3, <2>1, <2>2 DEF TypeOK, Contents, Buckets, Buffers
<1> QED BY <1>4, <1>5, <1>6 DEF TypeInv

LEMMA TypeInvInit == Init => TypeInv
<1> SUFFICES ASSUME Init PROVE TypeInv
  OBVIOUS
<1>1. BUFFER_MAX_COUNT \in Nat \ {0} /\ UintRange \in Nat /\ UintRange > 0
  BY SizesAssumption
<1>2. 0 \in Buffers /\ 0 \in 0 .. UintRange - 1
      /\ BUFFER_MAX_COUNT \in 0 .. BUFFER_MAX_COUNT
  BY <1>1 DEF Buffers
<1>3. TypeOK
  <2>1. /\ up = FALSE /\ hand = NoHandle /\ fallback = NoHandle
        /\ unmarked = {}
        /\ buffer_block = [bp \in Buffers |-> NoBlock]
        /\ buffers = [bp \in Buffers |-> Zeroed]
        /\ BufferFlag = [bp \in Buffers |-> {}]
        /\ freeBufferCount = BUFFER_MAX_COUNT
        /\ lastReplaceIndex = 0
        /\ BufferHashNum = [h \in Buckets |-> 0]
        /\ BufferOverFlow = [h \in Buckets |-> <<>>]
        /\ disk = [blk \in Blocks |-> Zeroed]
        /\ cursor = [s \in Scans |-> NoHandle]
    BY DEF Init
  <2>2. disk \in [Blocks -> Contents] BY <2>1 DEF Contents
  <2>3. BufferOverFlow \in [Buckets -> Seq(Items)] BY <2>1
  <2>4. BufferFlag \in [Buckets -> SUBSET Flags] BY <2>1 DEF Buckets, Buffers
  <2> QED BY <1>2, <2>1, <2>2, <2>3, <2>4 DEF TypeOK, Contents, Buckets, Buffers
<1>4. FreeUnbound
  <2>1. FreeBufferTop = 0 BY <1>1 DEF Init, FreeBufferTop
  <2>2. \A bp \in Buffers : bp >= 0 BY <1>1 DEF Buffers
  <2> QED BY <2>1, <2>2 DEF Init, FreeUnbound
<1>5. PinsHeld /\ HandHeld BY DEF Init, PinsHeld, HandHeld
<1> QED BY <1>3, <1>4, <1>5 DEF TypeInv

\* The flags a scan loads on: all, but its own pin taken off.
LEMMA OwnFlags ==
  ASSUME TypeOK, NEW b
  PROVE  LET flag == [BufferFlag EXCEPT ![b] = @ \ {"Pin"}]
         IN  /\ flag \in [Buffers -> SUBSET Flags]
             /\ \A bp \in Buffers : flag[bp] \subseteq BufferFlag[bp]
             /\ \A bp \in Buffers : "Pin" \in flag[bp] => bp # b
  BY DEF TypeOK

LEMMA TypeInvNext == TypeInv /\ [Next]_vars => TypeInv'
<1> SUFFICES ASSUME TypeInv, [Next]_vars PROVE TypeInv'
  OBVIOUS
<1>a. TypeOK /\ FreeUnbound /\ PinsHeld /\ HandHeld BY DEF TypeInv
<1>b. BufferFlag \in [Buffers -> SUBSET Flags] BY <1>a DEF TypeOK
<1>1. CASE BFM_CreateBufferManager
  <2>1. TypeOK' BY <1>a, <1>1 DEF BFM_CreateBufferManager, TypeOK, pool
  <2>2. FreeUnbound' /\ PinsHeld' /\ HandHeld'
    BY <1>a, <1>1 DEF BFM_CreateBufferManager, FreeUnbound, FreeBufferTop,
                      PinsHeld, HandHeld, pool
  <2> QED BY <2>1, <2>2 DEF TypeInv
<1>2. ASSUME NEW blk \in Blocks, LoadBlock(blk) PROVE TypeInv'
  <2>1. Load(blk, BufferFlag, {}) /\ cursor' = cursor /\ up' = up
        /\ fallback = NoHandle /\ fallback' = fallback
        /\ hand' = [buf |-> LoadTarget(blk, BufferFlag), blk |-> blk]
    BY <1>2 DEF LoadBlock, Load, Between
  <2>2. LoadTypes(blk, BufferFlag, {}) BY <1>b, <2>1, LoadType
  <2>3. hand' \in Handles BY <2>1, <2>2 DEF Handles, LoadTypes
  <2>4. TypeOK' BY <1>a, <2>1, <2>2, <2>3 DEF TypeOK, LoadTypes
  <2>5. LoadTarget(blk, BufferFlag) \in Buffers /\ FreeUnbound'
    BY <2>2 DEF LoadTypes
  <2>6. PinsHeld'
    \* The mark is empty, so the buffer loaded is pinned only if it was.
    <3>1. \A bp \in Buffers : "Pin" \in BufferFlag'[bp] => "Pin" \in BufferFlag[bp]
      BY <2>2 DEF LoadTypes
    <3> QED BY <1>a, <2>1, <3>1 DEF PinsHeld
  <2> QED BY <2>1, <2>4, <2>5, <2>6 DEF TypeInv, HandHeld
<1>3. ASSUME NEW v \in Vals \ {Fresh}, ModifyBlock(v) PROVE TypeInv'
  <2>1. hand \in Handles /\ hand.buf \in Buffers
    BY <1>a, <1>3 DEF TypeOK, ModifyBlock, Handles
  <2>2. TypeOK'
    BY <1>a, <1>3, <2>1 DEF TypeOK, ModifyBlock, Contents, Flags
  <2>3. FreeUnbound' BY <1>a, <1>3 DEF ModifyBlock, FreeUnbound, FreeBufferTop
  <2>4. PinsHeld' /\ HandHeld'
    BY <1>a, <1>b, <1>3, <2>1 DEF ModifyBlock, PinsHeld, HandHeld
  <2> QED BY <2>2, <2>3, <2>4 DEF TypeInv
<1>4. CASE BFM_vFlushBuffer
  <2>1. hand \in Handles /\ hand.buf \in Buffers
    BY <1>a, <1>4 DEF TypeOK, BFM_vFlushBuffer, Handles
  <2>2. FlushedDisk(hand.buf) \in [Blocks -> Contents]
    BY <1>a, <2>1, FlushedDiskType
  <2>3. TypeOK' BY <1>a, <1>4, <2>1, <2>2 DEF TypeOK, BFM_vFlushBuffer
  <2>4. FreeUnbound' BY <1>a, <1>4 DEF BFM_vFlushBuffer, FreeUnbound, FreeBufferTop
  <2>5. PinsHeld' /\ HandHeld'
    BY <1>a, <1>b, <1>4, <2>1 DEF BFM_vFlushBuffer, Between, PinsHeld, HandHeld
  <2> QED BY <2>3, <2>4, <2>5 DEF TypeInv
<1>5. ASSUME NEW blk \in Blocks, AppendNewBlock(blk) PROVE TypeInv'
  <2>1. Fresh \in Contents BY ContentsAssumption DEF Contents
  <2>a. fallback' \in {NoHandle} \cup [buf : {INVALID_BUFFER}, blk : Blocks]
        /\ (fallback' # NoHandle => hand # NoHandle)
    BY <1>5 DEF AppendNewBlock, Between
  <2>2. TypeOK' BY <1>a, <1>5, <2>1, <2>a DEF TypeOK, AppendNewBlock, pool
  <2>3. FreeUnbound' /\ PinsHeld' /\ HandHeld'
    BY <1>a, <1>5, <2>a
       DEF AppendNewBlock, pool, FreeUnbound, FreeBufferTop, PinsHeld, HandHeld
  <2> QED BY <2>2, <2>3 DEF TypeInv
<1>6. ASSUME NEW s \in Scans, ScanOpen(s) PROVE TypeInv'
  <2> DEFINE blk == [rid |-> ScanRel[s], bnum |-> 0]
  <2>1. blk \in Blocks BY ScansAssumption, SizesAssumption DEF Blocks
  <2> HIDE DEF blk
  <2>2. Load(blk, BufferFlag, {"Pin"}) /\ up' = up /\ hand' = NoHandle
        /\ fallback = NoHandle /\ fallback' = fallback
        /\ cursor[s] = NoHandle
        /\ cursor' = [cursor EXCEPT ![s] =
                        [buf |-> LoadTarget(blk, BufferFlag), blk |-> blk]]
    BY <1>6 DEF ScanOpen, Between, Load, blk
  <2>3. {"Pin"} \in SUBSET Flags BY DEF Flags
  <2>4. LoadTypes(blk, BufferFlag, {"Pin"}) BY <1>b, <2>1, <2>2, <2>3, LoadType
  <2>5. [buf |-> LoadTarget(blk, BufferFlag), blk |-> blk] \in Handles
    BY <2>1, <2>4 DEF Handles, LoadTypes
  <2>6. TypeOK' BY <1>a, <2>2, <2>4, <2>5 DEF TypeOK, LoadTypes
  <2>7. PinsHeld'
    <3>1. \A h \in Handles : h # NoHandle
      BY SizesAssumption DEF Handles, NoHandle, Buffers, INVALID_BUFFER
    <3> SUFFICES ASSUME NEW bp \in Buffers, "Pin" \in BufferFlag'[bp]
                 PROVE  \E t \in Scans : cursor'[t] # NoHandle /\ cursor'[t].buf = bp
      BY DEF PinsHeld
    <3>2. bp = LoadTarget(blk, BufferFlag) \/ "Pin" \in BufferFlag[bp]
      BY <2>4 DEF LoadTypes
    <3>3. cursor \in [Scans -> Handles \cup {NoHandle}] BY <1>a DEF TypeOK
    <3>4. CASE bp = LoadTarget(blk, BufferFlag) BY <2>2, <2>5, <3>1, <3>3, <3>4
    <3>5. CASE "Pin" \in BufferFlag[bp]
      <4>1. PICK t \in Scans : cursor[t] # NoHandle /\ cursor[t].buf = bp
        BY <1>a, <3>5 DEF PinsHeld
      <4>2. t # s BY <2>2, <4>1
      <4> QED BY <2>2, <3>3, <4>1, <4>2
    <3> QED BY <3>2, <3>4, <3>5
  <2> QED BY <2>2, <2>4, <2>6, <2>7 DEF TypeInv, LoadTypes, HandHeld
<1>7. ASSUME NEW s \in Scans, ScanAdvance(s) PROVE TypeInv'
  <2> DEFINE blk == [rid |-> ScanRel[s], bnum |-> cursor[s].blk.bnum + 1]
             flag == [BufferFlag EXCEPT ![cursor[s].buf] = @ \ {"Pin"}]
  <2>1. blk \in Blocks BY <1>7 DEF ScanAdvance
  <2>2. Load(blk, flag, {"Pin"}) /\ up' = up /\ hand' = NoHandle
        /\ fallback = NoHandle /\ fallback' = fallback
        /\ cursor[s] # NoHandle
        /\ cursor' = [cursor EXCEPT ![s] = [buf |-> LoadTarget(blk, flag), blk |-> blk]]
    BY <1>7 DEF ScanAdvance, Between, Load
  <2>3. /\ flag \in [Buffers -> SUBSET Flags]
        /\ \A bp \in Buffers : flag[bp] \subseteq BufferFlag[bp]
        /\ \A bp \in Buffers : "Pin" \in flag[bp] => bp # cursor[s].buf
    BY <1>a, OwnFlags
  <2> HIDE DEF blk, flag
  <2>4. {"Pin"} \in SUBSET Flags BY DEF Flags
  <2>5. LoadTypes(blk, flag, {"Pin"}) BY <2>1, <2>2, <2>3, <2>4, LoadType
  <2>6. [buf |-> LoadTarget(blk, flag), blk |-> blk] \in Handles
    BY <2>1, <2>5 DEF Handles, LoadTypes
  <2>7. TypeOK' BY <1>a, <2>2, <2>5, <2>6 DEF TypeOK, LoadTypes
  <2>8. PinsHeld'
    <3>1. \A h \in Handles : h # NoHandle
      BY SizesAssumption DEF Handles, NoHandle, Buffers, INVALID_BUFFER
    <3> SUFFICES ASSUME NEW bp \in Buffers, "Pin" \in BufferFlag'[bp]
                 PROVE  \E t \in Scans : cursor'[t] # NoHandle /\ cursor'[t].buf = bp
      BY DEF PinsHeld
    <3>2. bp = LoadTarget(blk, flag) \/ "Pin" \in flag[bp]
      BY <2>5 DEF LoadTypes
    <3>3. cursor \in [Scans -> Handles \cup {NoHandle}] BY <1>a DEF TypeOK
    <3>4. CASE bp = LoadTarget(blk, flag) BY <2>2, <2>6, <3>1, <3>3, <3>4
    <3>5. CASE "Pin" \in flag[bp]
      <4>1. PICK t \in Scans : cursor[t] # NoHandle /\ cursor[t].buf = bp
        BY <1>a, <2>3, <3>5 DEF PinsHeld
      <4>2. t # s BY <2>3, <3>5, <4>1
      <4> QED BY <2>2, <3>3, <4>1, <4>2
    <3> QED BY <3>2, <3>4, <3>5
  <2> QED BY <2>2, <2>5, <2>7, <2>8 DEF TypeInv, LoadTypes, HandHeld
<1>8. CASE BFM_vDestoryBufferManager
  <2>1. LosePool BY <1>8 DEF BFM_vDestoryBufferManager
  <2>2. ASSUME NEW blk \in Blocks, DirtyBuffersOf(blk) # {}
        PROVE  buffers[Max(DirtyBuffersOf(blk))] \in Contents
    <3>1. DirtyBuffersOf(blk) \in SUBSET (0 .. BUFFER_MAX_COUNT - 1)
      BY DEF DirtyBuffersOf, Buffers
    <3>2. BUFFER_MAX_COUNT \in Nat BY SizesAssumption
    <3>3. Max(DirtyBuffersOf(blk)) \in DirtyBuffersOf(blk)
      BY <2>2, <3>1, <3>2, MaxInterval
    <3>4. Max(DirtyBuffersOf(blk)) \in Buffers BY <3>3 DEF DirtyBuffersOf
    <3> QED BY <1>a, <3>4 DEF TypeOK
  <2>3. disk \in [Blocks -> Contents] BY <1>a DEF TypeOK
  <2>4. disk' \in [Blocks -> Contents]
    BY <1>8, <2>2, <2>3 DEF BFM_vDestoryBufferManager
  <2> QED BY <2>1, <2>4, EmptyPoolType
<1>9. CASE Crash
  BY <1>a, <1>9, EmptyPoolType DEF Crash, TypeOK
<1>10. CASE UNCHANGED vars
  <2>1. TypeOK' BY <1>a, <1>10 DEF vars, pool, TypeOK
  <2>2. FreeUnbound' /\ PinsHeld' /\ HandHeld'
    BY <1>a, <1>10 DEF vars, pool, FreeUnbound, FreeBufferTop, PinsHeld, HandHeld
  <2> QED BY <2>1, <2>2 DEF TypeInv
<1>11. CASE LoadFallback
  <2> DEFINE blk == fallback.blk
             new == [buf |-> LoadTarget(blk, BufferFlag), blk |-> blk]
  <2>1. Load(blk, BufferFlag, {}) /\ cursor' = cursor /\ up' = up
        /\ fallback' = new /\ fallback # NoHandle
        /\ hand' = IF new.buf = hand.buf THEN new ELSE hand
    BY <1>11 DEF LoadFallback, Load
  <2>2. blk \in Blocks BY <1>a, <2>1 DEF TypeOK, Handles
  <2> HIDE DEF blk
  <2>3. LoadTypes(blk, BufferFlag, {}) BY <1>b, <2>1, <2>2, LoadType
  <2>4. new \in Handles BY <2>2, <2>3 DEF Handles, LoadTypes
  <2>5. new # NoHandle
    BY <2>4, SizesAssumption DEF Handles, NoHandle, Buffers, INVALID_BUFFER
  <2> HIDE DEF new
  <2>6. TypeOK' BY <1>a, <2>1, <2>3, <2>4 DEF TypeOK, LoadTypes
  <2>7. FreeUnbound' BY <2>3 DEF LoadTypes
  <2>8. PinsHeld'
    <3>1. \A bp \in Buffers : "Pin" \in BufferFlag'[bp] => "Pin" \in BufferFlag[bp]
      BY <2>3 DEF LoadTypes
    <3> QED BY <1>a, <2>1, <3>1 DEF PinsHeld
  <2>9. HandHeld' BY <1>a, <2>1, <2>5 DEF HandHeld
  <2> QED BY <2>6, <2>7, <2>8, <2>9 DEF TypeInv
<1>12. ASSUME NEW v \in Vals \ {Fresh}, InsertElsewhere(v) PROVE TypeInv'
  <2>1. fallback # NoHandle /\ fallback.buf # INVALID_BUFFER
        /\ buffers' = [buffers EXCEPT ![fallback.buf] = v]
        /\ BufferFlag' = [BufferFlag EXCEPT ![hand.buf] = @ \cup {"Dirty"}]
        /\ unmarked' = (unmarked \cup {fallback.buf}) \ {hand.buf}
        /\ fallback' = NoHandle
        /\ UNCHANGED <<up, buffer_block, freeBufferCount, lastReplaceIndex,
                       BufferHashNum, BufferOverFlow, disk, hand, cursor>>
    BY <1>12 DEF InsertElsewhere
  <2>2. fallback.buf \in Buffers BY <1>a, <2>1 DEF TypeOK, Handles
  <2>3. hand.buf \in Buffers BY <1>a, <2>1 DEF TypeOK, HandHeld, Handles
  <2>4. TypeOK' BY <1>a, <2>1, <2>2, <2>3 DEF TypeOK, Contents, Flags
  <2>5. FreeUnbound' BY <1>a, <2>1 DEF FreeUnbound, FreeBufferTop
  <2>6. PinsHeld' BY <1>a, <1>b, <2>1, <2>3 DEF PinsHeld
  <2>7. HandHeld' BY <2>1 DEF HandHeld
  <2> QED BY <2>4, <2>5, <2>6, <2>7 DEF TypeInv
<1> QED BY <1>1, <1>2, <1>3, <1>4, <1>5, <1>6, <1>7, <1>8, <1>9, <1>10, <1>11,
           <1>12 DEF Next

\* Every variable stays in its type: buffer.c never indexes its arrays of
\* buffers and buckets out of range.
THEOREM TypeCorrect == Spec => []TypeOK
<1>1. TypeInv => TypeOK BY DEF TypeInv
<1> QED BY <1>1, TypeInvInit, TypeInvNext, PTL DEF Spec

-----------------------------------------------------------------------------
\* The clock's second chance.

\* What SecondChance says of one step.
ChanceStep ==
  (up /\ up') =>
    \A bp \in Buffers :
      /\ buffer_block[bp] # NoBlock /\ buffer_block'[bp] # buffer_block[bp]
      /\ "Access" \in BufferFlag[bp]
      => \A other \in Buffers : BufferFlag[other] \cap {"Access", "Pin"} # {}

LEMMA LoadChance ==
  ASSUME TypeInv, NEW blk \in Blocks,
         NEW flag \in [Buffers -> SUBSET Flags],
         \A bp \in Buffers : flag[bp] \subseteq BufferFlag[bp],
         \A bp \in Buffers : "Access" \in BufferFlag[bp] => "Access" \in flag[bp],
         NEW mark, Load(blk, flag, mark)
  PROVE  ChanceStep
<1>1. TypeOK /\ FreeUnbound BY DEF TypeInv
<1> SUFFICES ASSUME NEW bp \in Buffers,
                    buffer_block[bp] # NoBlock, buffer_block'[bp] # buffer_block[bp],
                    "Access" \in BufferFlag[bp],
                    NEW other \in Buffers
             PROVE  BufferFlag[other] \cap {"Access", "Pin"} # {}
  BY DEF ChanceStep
<1>2. CASE LoadHit(blk, flag, mark) BY <1>2 DEF LoadHit
<1>3. CASE LoadFree(blk, flag, mark)
  \* The buffer taken from the stack had no block.
  <2>1. freeBufferCount > 0 /\ freeBufferCount \in 0 .. BUFFER_MAX_COUNT
        /\ BUFFER_MAX_COUNT \in Nat
    BY <1>1, <1>3, SizesAssumption DEF LoadFree, TypeOK
  <2>2. buffer_block' = [buffer_block EXCEPT ![FreeBufferTop] = blk]
    BY <1>3 DEF LoadFree, BindAndRead
  <2>3. bp = FreeBufferTop BY <1>1, <2>2 DEF TypeOK
  <2>4. FreeBufferTop \in Int BY <2>1 DEF FreeBufferTop
  <2>5. bp >= FreeBufferTop BY <2>3, <2>4
  <2> QED BY <1>1, <2>5 DEF FreeUnbound
<1>4. CASE LoadReplace(blk, flag, mark)
  <2>1. buffer_block' = [buffer_block EXCEPT ![Victim(flag)] = blk]
    BY <1>4 DEF LoadReplace, BindAndRead
  <2>2. bp = Victim(flag) BY <1>1, <2>1 DEF TypeOK
  <2>3. \E b \in Buffers : Unpinned(flag, b) BY StillUnpinned
  <2>4. ~ Untouched(flag, bp) BY DEF Untouched
  <2>5. ~ Untouched(flag, other)
    BY <1>1, <2>2, <2>3, <2>4, VictimUnpinned DEF TypeOK
  <2> QED BY <2>5 DEF Untouched, Unpinned
<1> QED BY <1>2, <1>3, <1>4 DEF Load

\* The clock never takes the block of a buffer that was accessed since the hand
\* last passed it while another buffer is neither accessed nor pinned.
THEOREM ChanceGiven == Spec => SecondChance
<1>1. ASSUME TypeInv, Next PROVE ChanceStep
  <2>1. TypeOK BY <1>1 DEF TypeInv
  <2>2. BufferFlag \in [Buffers -> SUBSET Flags] BY <2>1 DEF TypeOK
  <2>3. ASSUME NEW blk \in Blocks, LoadBlock(blk) PROVE ChanceStep
    BY <1>1, <2>2, <2>3, LoadChance DEF LoadBlock
  <2>4. ASSUME NEW s \in Scans, ScanOpen(s) PROVE ChanceStep
    <3>1. [rid |-> ScanRel[s], bnum |-> 0] \in Blocks
      BY ScansAssumption, SizesAssumption DEF Blocks
    <3> QED BY <1>1, <2>2, <2>4, <3>1, LoadChance DEF ScanOpen
  <2>5. ASSUME NEW s \in Scans, ScanAdvance(s) PROVE ChanceStep
    <3> DEFINE blk == [rid |-> ScanRel[s], bnum |-> cursor[s].blk.bnum + 1]
               flag == [BufferFlag EXCEPT ![cursor[s].buf] = @ \ {"Pin"}]
    <3>1. blk \in Blocks /\ Load(blk, flag, {"Pin"}) BY <2>5 DEF ScanAdvance
    <3>2. /\ flag \in [Buffers -> SUBSET Flags]
          /\ \A bp \in Buffers : flag[bp] \subseteq BufferFlag[bp]
      BY <2>1, OwnFlags
    <3>3. \A bp \in Buffers : "Access" \in BufferFlag[bp] => "Access" \in flag[bp]
      BY <2>2
    <3> HIDE DEF blk, flag
    <3> QED BY <1>1, <3>1, <3>2, <3>3, LoadChance
  <2>6. CASE UNCHANGED buffer_block BY <2>6 DEF ChanceStep
  <2>7. CASE ~ (up /\ up') BY <2>7 DEF ChanceStep
  <2>8. CASE LoadFallback
    <3>1. fallback.blk \in Blocks BY <2>1, <2>8 DEF LoadFallback, TypeOK, Handles
    <3> QED BY <1>1, <2>2, <2>8, <3>1, LoadChance DEF LoadFallback
  <2> QED BY <1>1, <2>3, <2>4, <2>5, <2>6, <2>7, <2>8
      DEF Next, BFM_CreateBufferManager, ModifyBlock, BFM_vFlushBuffer,
          AppendNewBlock, InsertElsewhere, pool, BFM_vDestoryBufferManager,
          Crash, LosePool
<1>2. TypeInv /\ [Next]_vars => [ChanceStep]_vars BY <1>1
<1>3. SecondChance <=> [][ChanceStep]_vars BY DEF SecondChance, ChanceStep
<1> QED BY <1>2, <1>3, TypeInvInit, TypeInvNext, PTL DEF Spec

-----------------------------------------------------------------------------
\* A bucket's key determines the block.

LEMMA KeyInjective ==
  ASSUME NEW b \in Blocks, NEW c \in Blocks,
         b.rid = c.rid, Bucket(b) = Bucket(c), Divider(b) = Divider(c)
  PROVE  b = c
<1> DEFINE k == (b.rid * MaxFileNumforRelation) * INValidBlockNumber
           x == BLK_GetBlockOid(b)
           y == BLK_GetBlockOid(c)
<1>1. x \in Nat /\ y \in Nat BY OidType
<1>2. BUFFER_MAX_COUNT \in Nat \ {0} BY SizesAssumption
<1>3. x % BUFFER_MAX_COUNT = y % BUFFER_MAX_COUNT
      /\ x \div BUFFER_MAX_COUNT = y \div BUFFER_MAX_COUNT
  BY DEF Bucket, Divider, Hash_GetHashValueforOid, Hash_GetHashDividerforOid
<1>4. x = y
  <2> HIDE DEF x, y
  <2> QED BY <1>1, <1>2, <1>3, DivModUnique
<1>5. UintRange \in Nat \ {0} BY SizesAssumption
<1>6. b.bnum \in 0 .. UintRange - 1 /\ c.bnum \in 0 .. UintRange - 1
  BY BlockFields, SizesAssumption
<1>7. k \in Int
  <2>1. b.rid * MaxFileNumforRelation \in Nat BY BlockFields, SizesAssumption
  <2> QED BY <2>1, SizesAssumption
<1>8. (b.bnum + k) % UintRange = (c.bnum + k) % UintRange
  BY <1>4 DEF BLK_GetBlockOid
<1>9. b.bnum = c.bnum
  <2> HIDE DEF k
  <2> QED BY <1>5, <1>6, <1>7, <1>8, ModInjective
<1> QED BY <1>9 DEF Blocks

-----------------------------------------------------------------------------
\* The buckets describe the buffers: bb binds blocks to buffers, num counts and
\* over lists them per bucket.

Entries(bb, over) ==
  \A h \in Buckets : \A i \in 1 .. Len(over[h]) :
    LET blk == bb[over[h][i].RealBuffer]
    IN  /\ blk # NoBlock
        /\ Bucket(blk) = h
        /\ over[h][i].relOid = blk.rid
        /\ over[h][i].divider = Divider(blk)

Distinct(over) ==
  \A h \in Buckets : \A i, j \in 1 .. Len(over[h]) :
    over[h][i].RealBuffer = over[h][j].RealBuffer => i = j

Counted(num, over) == \A h \in Buckets : num[h] = Len(over[h])

Listed(bb, over) ==
  \A bp \in Buffers :
    bb[bp] # NoBlock
      => \E i \in 1 .. Len(over[Bucket(bb[bp])]) :
           over[Bucket(bb[bp])][i].RealBuffer = bp

SingleCopy(bb) ==
  \A bp, bq \in Buffers : bb[bp] # NoBlock /\ bb[bp] = bb[bq] => bp = bq

HashGood(bb, num, over) ==
  /\ bb \in [Buffers -> Blocks \cup {NoBlock}]
  /\ num \in [Buckets -> Nat]
  /\ over \in [Buckets -> Seq(Items)]
  /\ Entries(bb, over) /\ Distinct(over) /\ Counted(num, over)
  /\ Listed(bb, over) /\ SingleCopy(bb)

HashInv == HashGood(buffer_block, BufferHashNum, BufferOverFlow)

\* With such buckets the lookup is exact.
LEMMA LookupFromHash == TypeOK /\ HashInv => LookupExact
<1> SUFFICES ASSUME TypeOK, HashInv, NEW blk \in Blocks, NEW bp \in Buffers
             PROVE  BFM_SearchExistBuffer(blk) = bp <=> buffer_block[bp] = blk
  BY DEF LookupExact
<1>1. Bucket(blk) \in Buckets BY OidType
<1>2. BufferOverFlow \in [Buckets -> Seq(Items)] BY DEF TypeOK
<1>3. buffer_block \in [Buffers -> Blocks \cup {NoBlock}] BY DEF TypeOK
<1>4. \A b \in Buffers : b # INVALID_BUFFER
  BY SizesAssumption DEF Buffers, INVALID_BUFFER
<1>5. ASSUME NEW b \in Buffers, BFM_SearchExistBuffer(blk) = b
      PROVE  buffer_block[b] = blk
  <2>1. PICK i \in 1 .. Len(BufferOverFlow[Bucket(blk)]) :
          /\ BufferOverFlow[Bucket(blk)][i] \in Items
          /\ BFM_checkBufferOverFlowItem(BufferOverFlow[Bucket(blk)][i],
                                         blk.rid, Divider(blk))
          /\ BufferOverFlow[Bucket(blk)][i].RealBuffer = b
    BY <1>1, <1>2, <1>4, <1>5, SearchFound
  <2>2. /\ buffer_block[b] # NoBlock
        /\ Bucket(buffer_block[b]) = Bucket(blk)
        /\ buffer_block[b].rid = blk.rid
        /\ Divider(buffer_block[b]) = Divider(blk)
    BY <1>1, <2>1 DEF HashInv, HashGood, Entries, BFM_checkBufferOverFlowItem
  <2> QED BY <1>3, <2>2, KeyInjective
<1>6. ASSUME buffer_block[bp] = blk PROVE BFM_SearchExistBuffer(blk) = bp
  <2>1. buffer_block[bp] # NoBlock BY <1>6, NoBlockNotBlock
  <2>2. PICK i \in 1 .. Len(BufferOverFlow[Bucket(blk)]) :
          BufferOverFlow[Bucket(blk)][i].RealBuffer = bp
    BY <1>6, <2>1 DEF HashInv, HashGood, Listed
  <2>3. BFM_checkBufferOverFlowItem(BufferOverFlow[Bucket(blk)][i], blk.rid,
                                    Divider(blk))
    BY <1>1, <1>6, <2>2 DEF HashInv, HashGood, Entries, BFM_checkBufferOverFlowItem
  <2>4. BufferHashNum[Bucket(blk)] # 0
    <3>1. BufferHashNum[Bucket(blk)] = Len(BufferOverFlow[Bucket(blk)])
      BY <1>1 DEF HashInv, HashGood, Counted
    <3>2. BufferOverFlow[Bucket(blk)] \in Seq(Items) BY <1>1, <1>2
    <3> QED BY <2>2, <3>1, <3>2
  <2>5. BFM_SearchExistBuffer(blk) # INVALID_BUFFER
    BY <1>1, <1>2, <2>3, <2>4, SearchMissed
  <2>6. BFM_SearchExistBuffer(blk) \in Buffers BY <2>5, SearchType
  <2>7. buffer_block[BFM_SearchExistBuffer(blk)] = blk BY <1>5, <2>6
  <2> QED BY <1>6, <2>1, <2>6, <2>7 DEF HashInv, HashGood, SingleCopy
<1> QED BY <1>5, <1>6

-----------------------------------------------------------------------------
\* Entering a block, as BFM_vAddBufferHash does for an empty buffer.
LEMMA EnterKeepsHash ==
  ASSUME NEW bb, NEW num, NEW over, HashGood(bb, num, over),
         NEW bp \in Buffers, bb[bp] = NoBlock,
         NEW blk \in Blocks, \A b \in Buffers : bb[b] # blk
  PROVE  LET h == Bucket(blk)
             item == [relOid |-> blk.rid, divider |-> Divider(blk), RealBuffer |-> bp]
         IN  HashGood([bb EXCEPT ![bp] = blk],
                      [num EXCEPT ![h] = (@ + 1) % UintRange],
                      [over EXCEPT ![h] = <<item>> \o @])
<1> DEFINE h == Bucket(blk)
           item == [relOid |-> blk.rid, divider |-> Divider(blk), RealBuffer |-> bp]
           new == <<item>> \o over[h]
           bb2 == [bb EXCEPT ![bp] = blk]
           num2 == [num EXCEPT ![h] = (@ + 1) % UintRange]
           over2 == [over EXCEPT ![h] = new]
<1>1. h \in Buckets /\ Divider(blk) \in Nat /\ blk.rid \in Rels
  BY OidType, BlockFields
<1>2. /\ bb \in [Buffers -> Blocks \cup {NoBlock}]
      /\ num \in [Buckets -> Nat] /\ over \in [Buckets -> Seq(Items)]
      /\ Entries(bb, over) /\ Distinct(over) /\ Counted(num, over)
      /\ Listed(bb, over) /\ SingleCopy(bb)
  BY DEF HashGood
<1>3. item \in Items /\ item.relOid = blk.rid /\ item.divider = Divider(blk)
      /\ item.RealBuffer = bp
  BY <1>1 DEF Items
<1> HIDE DEF item
<1>4. over[h] \in Seq(Items) /\ Len(over[h]) \in Nat BY <1>1, <1>2
<1>5. /\ new \in Seq(Items)
      /\ Len(new) = Len(over[h]) + 1
      /\ new[1] = item
      /\ \A j \in 1 .. Len(over[h]) : new[j + 1] = over[h][j]
  BY <1>3, <1>4, ConsSeq
<1>6. over2 \in [Buckets -> Seq(Items)] /\ over2[h] = new
      /\ \A g \in Buckets : g # h => over2[g] = over[g]
  BY <1>1, <1>2, <1>5
<1>7. bb2 \in [Buffers -> Blocks \cup {NoBlock}] /\ bb2[bp] = blk
      /\ \A b \in Buffers : b # bp => bb2[b] = bb[b]
  BY <1>2
<1> HIDE DEF new, bb2, over2
\* No list mentions the empty buffer yet.
<1>8. ASSUME NEW g \in Buckets, NEW i \in 1 .. Len(over[g])
      PROVE  over[g][i].RealBuffer \in Buffers /\ over[g][i].RealBuffer # bp
  <2>1. over[g] \in Seq(Items) BY <1>2
  <2>2. over[g][i] \in Items BY <2>1
  <2>3. over[g][i].RealBuffer \in Buffers BY <2>2 DEF Items
  <2>4. bb[over[g][i].RealBuffer] # NoBlock BY <1>2 DEF Entries
  <2> QED BY <2>3, <2>4
\* An index of the new list is 1 or one more than an index of the old one.
<1>9. ASSUME NEW i \in 1 .. Len(new)
      PROVE  \/ i = 1 /\ new[i] = item
             \/ i - 1 \in 1 .. Len(over[h]) /\ new[i] = over[h][i - 1]
  <2>1. CASE i = 1 BY <1>5, <2>1
  <2>2. CASE i # 1
    <3>1. i - 1 \in 1 .. Len(over[h]) /\ (i - 1) + 1 = i BY <1>4, <1>5, <2>2
    <3> QED BY <1>5, <3>1
  <2> QED BY <2>1, <2>2
<1>10. Entries(bb2, over2)
  <2> SUFFICES ASSUME NEW g \in Buckets, NEW i \in 1 .. Len(over2[g])
               PROVE  LET b == bb2[over2[g][i].RealBuffer]
                      IN  /\ b # NoBlock
                          /\ Bucket(b) = g
                          /\ over2[g][i].relOid = b.rid
                          /\ over2[g][i].divider = Divider(b)
    BY DEF Entries
  <2>1. CASE g # h
    <3>1. over2[g] = over[g] BY <1>6, <2>1
    <3>2. bb2[over[g][i].RealBuffer] = bb[over[g][i].RealBuffer]
      BY <1>7, <1>8, <3>1
    <3> QED BY <1>2, <3>1, <3>2 DEF Entries
  <2>2. CASE g = h /\ new[i] = item
    <3>1. over2[g][i] = item BY <1>6, <2>2
    <3> QED BY <1>3, <1>7, <2>2, <3>1, NoBlockNotBlock
  <2>3. CASE g = h /\ i - 1 \in 1 .. Len(over[h]) /\ new[i] = over[h][i - 1]
    <3>1. over2[g][i] = over[h][i - 1] BY <1>6, <2>3
    <3>2. bb2[over[h][i - 1].RealBuffer] = bb[over[h][i - 1].RealBuffer]
      BY <1>1, <1>7, <1>8, <2>3
    <3>3. PICK k \in 1 .. Len(over[h]) : k = i - 1 BY <2>3
    <3>4. LET b == bb[over[h][k].RealBuffer]
          IN  /\ b # NoBlock
              /\ Bucket(b) = h
              /\ over[h][k].relOid = b.rid
              /\ over[h][k].divider = Divider(b)
      BY <1>1, <1>2 DEF Entries
    <3> QED BY <2>3, <3>1, <3>2, <3>3, <3>4
  <2> QED BY <1>6, <1>9, <2>1, <2>2, <2>3
<1>11. Distinct(over2)
  <2> SUFFICES ASSUME NEW g \in Buckets, NEW i \in 1 .. Len(over2[g]),
                      NEW j \in 1 .. Len(over2[g]),
                      over2[g][i].RealBuffer = over2[g][j].RealBuffer
               PROVE  i = j
    BY DEF Distinct
  <2>1. CASE g # h BY <1>2, <1>6, <2>1 DEF Distinct
  <2>2. CASE g = h
    <3>1. i \in 1 .. Len(new) /\ j \in 1 .. Len(new)
          /\ new[i].RealBuffer = new[j].RealBuffer
      BY <1>6, <2>2
    <3>2. i \in Int /\ j \in Int BY <1>4, <1>5, <3>1
    <3>3. CASE i - 1 \in 1 .. Len(over[h]) /\ new[i] = over[h][i - 1]
               /\ j - 1 \in 1 .. Len(over[h]) /\ new[j] = over[h][j - 1]
      <4>1. i - 1 = j - 1 BY <1>1, <1>2, <3>1, <3>3 DEF Distinct
      <4> QED BY <3>2, <4>1
    <3>4. CASE i = 1 /\ new[i] = item
      BY <1>1, <1>3, <1>8, <1>9, <3>1, <3>4
    <3>5. CASE j = 1 /\ new[j] = item
      BY <1>1, <1>3, <1>8, <1>9, <3>1, <3>5
    <3> QED BY <1>9, <3>1, <3>3, <3>4, <3>5
  <2> QED BY <2>1, <2>2
<1>12. Len(new) <= BUFFER_MAX_COUNT
  <2> DEFINE f == [i \in 1 .. Len(new) |-> new[i].RealBuffer]
  <2>1. BUFFER_MAX_COUNT \in Nat /\ Len(new) \in Nat
    BY <1>4, <1>5, SizesAssumption
  <2>2. ASSUME NEW i \in 1 .. Len(new)
        PROVE  new[i].RealBuffer \in 0 .. BUFFER_MAX_COUNT - 1
    <3>1. new[i] \in Items BY <1>5
    <3> QED BY <3>1 DEF Items, Buffers
  <2>3. f \in [1 .. Len(new) -> 0 .. BUFFER_MAX_COUNT - 1] BY <2>2
  <2>4. \A i, j \in 1 .. Len(new) : f[i] = f[j] => i = j
    BY <1>1, <1>6, <1>11 DEF Distinct
  <2> HIDE DEF f
  <2> QED BY <2>1, <2>3, <2>4, DistinctBound
<1>13. num2 \in [Buckets -> Nat] /\ Counted(num2, over2)
  <2>1. num[h] = Len(over[h]) BY <1>1, <1>2 DEF Counted
  <2>2. (num[h] + 1) % UintRange = Len(new)
    <3>1. num[h] + 1 = Len(new) BY <1>5, <2>1
    <3>2. Len(new) \in 0 .. UintRange - 1
      BY <1>4, <1>5, <1>12, SizesAssumption
    <3>3. UintRange \in Nat \ {0} BY SizesAssumption
    <3>4. Len(new) % UintRange = Len(new) BY <3>2, <3>3, ModSmall
    <3> QED BY <3>1, <3>4
  <2>3. num2 = [num EXCEPT ![h] = Len(new)] BY <2>2
  <2> HIDE DEF num2
  <2>4. Len(new) \in Nat BY <1>4, <1>5
  <2> QED BY <1>1, <1>2, <1>6, <2>3, <2>4 DEF Counted
<1>14. Listed(bb2, over2)
  <2> SUFFICES ASSUME NEW b \in Buffers, bb2[b] # NoBlock
               PROVE  \E i \in 1 .. Len(over2[Bucket(bb2[b])]) :
                        over2[Bucket(bb2[b])][i].RealBuffer = b
    BY DEF Listed
  <2>1. CASE b = bp
    <3>1. 1 \in 1 .. Len(new) BY <1>4, <1>5
    <3> QED BY <1>3, <1>5, <1>6, <1>7, <2>1, <3>1
  <2>2. CASE b # bp
    <3>1. bb2[b] = bb[b] /\ bb[b] \in Blocks BY <1>2, <1>7, <2>2
    <3>2. PICK i \in 1 .. Len(over[Bucket(bb[b])]) :
            over[Bucket(bb[b])][i].RealBuffer = b
      BY <1>2, <3>1 DEF Listed
    <3>3. CASE Bucket(bb[b]) = h
      <4>1. i + 1 \in 1 .. Len(new) /\ new[i + 1] = over[h][i]
        BY <1>4, <1>5, <3>2, <3>3
      <4> QED BY <1>6, <3>1, <3>2, <3>3, <4>1
    <3>4. CASE Bucket(bb[b]) # h
      <4>1. Bucket(bb[b]) \in Buckets BY <3>1, OidType
      <4> QED BY <1>6, <3>1, <3>2, <3>4, <4>1
    <3> QED BY <3>3, <3>4
  <2> QED BY <2>1, <2>2
<1>15. SingleCopy(bb2) BY <1>2, <1>7 DEF SingleCopy
<1>16. HashGood(bb2, num2, over2)
  BY <1>6, <1>7, <1>10, <1>11, <1>13, <1>14, <1>15 DEF HashGood
<1> QED BY <1>16 DEF bb2, over2, new, item

-----------------------------------------------------------------------------
\* Taking a block out, as BFM_vFreeBuffer does, when the block's oid is its number.
LEMMA LeaveKeepsHash ==
  ASSUME TypeOK, HashInv, NEW bp \in Buffers, buffer_block[bp] # NoBlock,
         BLK_GetBlockOid(buffer_block[bp]) = buffer_block[bp].bnum
  PROVE  HashGood([buffer_block EXCEPT ![bp] = NoBlock],
                  FreedHashNum(bp), FreedOverFlow(bp))
<1> DEFINE blk == buffer_block[bp]
           h == Bucket(blk)
           list == BufferOverFlow[h]
           bb2 == [buffer_block EXCEPT ![bp] = NoBlock]
           num2 == FreedHashNum(bp)
           over2 == FreedOverFlow(bp)
<1>1. blk \in Blocks /\ blk # NoBlock BY DEF TypeOK
<1>2. h = Hash_GetHashValueforOid(blk.bnum)
      /\ Divider(blk) = Hash_GetHashDividerforOid(blk.bnum)
  BY DEF Bucket, Divider
<1>3. h \in Buckets BY <1>1, OidType
<1>4. /\ buffer_block \in [Buffers -> Blocks \cup {NoBlock}]
      /\ BufferHashNum \in [Buckets -> 0 .. UintRange - 1]
      /\ BufferOverFlow \in [Buckets -> Seq(Items)]
      /\ Entries(buffer_block, BufferOverFlow) /\ Distinct(BufferOverFlow)
      /\ Counted(BufferHashNum, BufferOverFlow)
      /\ Listed(buffer_block, BufferOverFlow) /\ SingleCopy(buffer_block)
  BY DEF TypeOK, HashInv, HashGood
<1>5. list \in Seq(Items) /\ Len(list) \in Nat BY <1>3, <1>4
\* Only the freed buffer's own item matches its key.
<1>6. ASSUME NEW i \in 1 .. Len(list),
             BFM_checkBufferOverFlowItem(list[i], blk.rid, Divider(blk))
      PROVE  list[i].RealBuffer = bp
  <2> DEFINE b == buffer_block[list[i].RealBuffer]
  <2>1. list[i] \in Items BY <1>5
  <2>2. list[i].RealBuffer \in Buffers BY <2>1 DEF Items
  <2>3. b # NoBlock /\ Bucket(b) = h /\ list[i].relOid = b.rid
        /\ list[i].divider = Divider(b)
    BY <1>3, <1>4 DEF Entries
  <2>4. b \in Blocks BY <1>4, <2>2, <2>3
  <2>5. b.rid = blk.rid /\ Divider(b) = Divider(blk)
    BY <1>6, <2>3 DEF BFM_checkBufferOverFlowItem
  <2>6. b = blk BY <1>1, <2>3, <2>4, <2>5, KeyInjective
  <2> QED BY <1>4, <2>2, <2>3, <2>6 DEF SingleCopy
<1>7. \E i \in 1 .. Len(list) :
        BFM_checkBufferOverFlowItem(list[i], blk.rid, Divider(blk))
  <2>1. PICK i \in 1 .. Len(list) : list[i].RealBuffer = bp
    BY <1>1, <1>4 DEF Listed
  <2>2. list[i].relOid = blk.rid /\ list[i].divider = Divider(blk)
    BY <1>3, <1>4, <2>1 DEF Entries
  <2> QED BY <2>2 DEF BFM_checkBufferOverFlowItem
<1>8. PICK i \in 1 .. Len(list) :
        /\ BFM_checkBufferOverFlowItem(list[i], blk.rid, Divider(blk))
        /\ over2 = [BufferOverFlow EXCEPT ![h] = RemoveAt(list, i)]
  BY <1>1, <1>2, <1>7, FreedList
<1>9. list[i].RealBuffer = bp BY <1>6, <1>8
<1> DEFINE new == RemoveAt(list, i)
<1>10. /\ new \in Seq(Items)
       /\ Len(new) = Len(list) - 1
       /\ \A j \in 1 .. Len(list) - 1 :
            new[j] = IF j < i THEN list[j] ELSE list[j + 1]
  BY <1>5, RemoveAtSeq
<1>11. over2 \in [Buckets -> Seq(Items)] /\ over2[h] = new
       /\ \A g \in Buckets : g # h => over2[g] = BufferOverFlow[g]
  BY <1>3, <1>4, <1>8, <1>10
<1>12. bb2 \in [Buffers -> Blocks \cup {NoBlock}] /\ bb2[bp] = NoBlock
       /\ \A b \in Buffers : b # bp => bb2[b] = buffer_block[b]
  BY <1>4
<1>13. num2 \in [Buckets -> Nat] /\ num2[h] = Len(new)
       /\ \A g \in Buckets : g # h => num2[g] = BufferHashNum[g]
  <2>1. num2 = [BufferHashNum EXCEPT ![h] = (BufferHashNum[h] - 1) % UintRange]
    BY <1>1, <1>2 DEF FreedHashNum
  <2>2. BufferHashNum[h] = Len(list) BY <1>3, <1>4 DEF Counted
  <2>3. Len(new) \in 0 .. UintRange - 1
    <3>1. Len(list) \in 0 .. UintRange - 1 BY <1>3, <1>4, <2>2
    <3>2. UintRange \in Nat BY SizesAssumption
    <3> HIDE DEF new
    <3> QED BY <1>5, <1>10, <3>1, <3>2
  <2>4. BufferHashNum[h] - 1 = Len(new) BY <1>10, <2>2
  <2>5. UintRange \in Nat \ {0} BY SizesAssumption
  <2>6. Len(new) % UintRange = Len(new) BY <2>3, <2>5, ModSmall
  <2>7. num2 = [BufferHashNum EXCEPT ![h] = Len(new)] BY <2>1, <2>4, <2>6
  <2> HIDE DEF new, num2
  <2> QED BY <1>3, <1>4, <2>3, <2>5, <2>7
<1> HIDE DEF new, bb2, over2, num2
\* Every element of the new list is one of the old list, other than the i-th.
<1>14. ASSUME NEW j \in 1 .. Len(new)
       PROVE  LET k == IF j < i THEN j ELSE j + 1
              IN  k \in 1 .. Len(list) /\ k # i /\ new[j] = list[k]
  <2>1. j \in Int /\ i \in Int /\ j \in 1 .. Len(list) - 1 BY <1>5, <1>10
  <2>2. CASE j < i BY <1>5, <1>10, <2>1, <2>2
  <2>3. CASE ~ (j < i) BY <1>5, <1>10, <2>1, <2>3
  <2> QED BY <2>2, <2>3
<1>15. ASSUME NEW j \in 1 .. Len(new)
       PROVE  new[j].RealBuffer \in Buffers /\ new[j].RealBuffer # bp
  <2>1. PICK k \in 1 .. Len(list) : k # i /\ new[j] = list[k] BY <1>14
  <2>2. list[k].RealBuffer # list[i].RealBuffer
    BY <1>3, <1>4, <2>1 DEF Distinct
  <2>3. new[j] \in Items BY <1>10
  <2> QED BY <1>9, <2>1, <2>2, <2>3 DEF Items
<1>16. Entries(bb2, over2)
  <2> SUFFICES ASSUME NEW g \in Buckets, NEW j \in 1 .. Len(over2[g])
               PROVE  LET b == bb2[over2[g][j].RealBuffer]
                      IN  /\ b # NoBlock
                          /\ Bucket(b) = g
                          /\ over2[g][j].relOid = b.rid
                          /\ over2[g][j].divider = Divider(b)
    BY DEF Entries
  <2>1. CASE g = h
    <3>1. over2[g] = new /\ j \in 1 .. Len(new) BY <1>11, <2>1
    <3>2. PICK k \in 1 .. Len(list) : k # i /\ new[j] = list[k] BY <1>14, <3>1
    <3>3. bb2[new[j].RealBuffer] = buffer_block[list[k].RealBuffer]
      BY <1>12, <1>15, <3>1, <3>2
    <3>4. LET b == buffer_block[list[k].RealBuffer]
          IN  /\ b # NoBlock
              /\ Bucket(b) = h
              /\ list[k].relOid = b.rid
              /\ list[k].divider = Divider(b)
      BY <1>3, <1>4 DEF Entries
    <3> QED BY <2>1, <3>1, <3>2, <3>3, <3>4
  <2>2. CASE g # h
    <3>1. over2[g] = BufferOverFlow[g] BY <1>11, <2>2
    <3> DEFINE r == BufferOverFlow[g][j].RealBuffer
    <3>2. LET b == buffer_block[r]
          IN  /\ b # NoBlock
              /\ Bucket(b) = g
              /\ BufferOverFlow[g][j].relOid = b.rid
              /\ BufferOverFlow[g][j].divider = Divider(b)
      BY <1>4, <3>1 DEF Entries
    <3>3. r \in Buffers
      <4>1. BufferOverFlow[g][j] \in Items BY <1>4, <3>1
      <4> QED BY <4>1 DEF Items
    <3>4. r # bp BY <2>2, <3>2
    <3>5. bb2[r] = buffer_block[r] BY <1>12, <3>3, <3>4
    <3> QED BY <3>1, <3>2, <3>5
  <2> QED BY <2>1, <2>2
<1>17. Distinct(over2)
  <2> SUFFICES ASSUME NEW g \in Buckets, NEW j \in 1 .. Len(over2[g]),
                      NEW k \in 1 .. Len(over2[g]),
                      over2[g][j].RealBuffer = over2[g][k].RealBuffer
               PROVE  j = k
    BY DEF Distinct
  <2>1. CASE g # h BY <1>4, <1>11, <2>1 DEF Distinct
  <2>2. CASE g = h
    <3> DEFINE p == IF j < i THEN j ELSE j + 1
               q == IF k < i THEN k ELSE k + 1
    <3>1. j \in 1 .. Len(new) /\ k \in 1 .. Len(new)
          /\ new[j].RealBuffer = new[k].RealBuffer
      BY <1>11, <2>2
    <3>2. p \in 1 .. Len(list) /\ new[j] = list[p] BY <1>14, <3>1
    <3>3. q \in 1 .. Len(list) /\ new[k] = list[q] BY <1>14, <3>1
    <3>4. p = q
      <4> HIDE DEF p, q
      <4> QED BY <1>3, <1>4, <3>1, <3>2, <3>3 DEF Distinct
    <3>5. j \in Int /\ k \in Int /\ i \in Int BY <1>5, <1>10, <3>1
    <3> QED BY <3>4, <3>5
  <2> QED BY <2>1, <2>2
<1>18. Counted(num2, over2) BY <1>4, <1>11, <1>13 DEF Counted
<1>19. Listed(bb2, over2)
  <2> SUFFICES ASSUME NEW b \in Buffers, bb2[b] # NoBlock
               PROVE  \E j \in 1 .. Len(over2[Bucket(bb2[b])]) :
                        over2[Bucket(bb2[b])][j].RealBuffer = b
    BY DEF Listed
  <2>1. b # bp /\ bb2[b] = buffer_block[b] /\ buffer_block[b] \in Blocks
    BY <1>4, <1>12
  <2>2. PICK k \in 1 .. Len(BufferOverFlow[Bucket(buffer_block[b])]) :
          BufferOverFlow[Bucket(buffer_block[b])][k].RealBuffer = b
    BY <1>4, <2>1 DEF Listed
  <2>3. Bucket(buffer_block[b]) \in Buckets BY <2>1, OidType
  <2>4. CASE Bucket(buffer_block[b]) # h BY <1>11, <2>1, <2>2, <2>3, <2>4
  <2>5. CASE Bucket(buffer_block[b]) = h
    <3>1. k \in 1 .. Len(list) /\ list[k].RealBuffer = b BY <2>2, <2>5
    <3>2. k # i BY <1>9, <2>1, <3>1
    <3>3. k \in Int /\ i \in Int BY <1>5, <3>1
    <3> DEFINE j == IF k < i THEN k ELSE k - 1
    <3>4. j \in 1 .. Len(list) - 1 BY <1>5, <3>1, <3>2, <3>3
    <3>5. (IF j < i THEN j ELSE j + 1) = k BY <3>2, <3>3
    <3> HIDE DEF j
    <3>6. j \in 1 .. Len(new) BY <1>10, <3>4
    <3>7. new[j] = list[k] BY <1>14, <3>5, <3>6
    <3> QED BY <1>11, <2>1, <2>5, <3>1, <3>6, <3>7
  <2> QED BY <2>4, <2>5
<1>20. SingleCopy(bb2) BY <1>4, <1>12 DEF SingleCopy
<1>21. HashGood(bb2, num2, over2)
  BY <1>11, <1>12, <1>13, <1>16, <1>17, <1>18, <1>19, <1>20 DEF HashGood
<1> QED BY <1>21 DEF bb2, num2, over2

-----------------------------------------------------------------------------
\* Where the hash can be trusted, a load finds or enters its block and keeps the
\* hash good.

\* In file 0 a block's oid is its number.
LEMMA OidOfFileZero ==
  ASSUME NEW blk \in Blocks, blk.rid = 0
  PROVE  BLK_GetBlockOid(blk) = blk.bnum
<1>1. blk.bnum \in 0 .. UintRange - 1 BY BlockFields, SizesAssumption
<1>2. UintRange \in Nat \ {0} BY SizesAssumption
<1>3. BLK_GetBlockOid(blk) = (blk.bnum + 0) % UintRange
  <2>1. blk.rid * MaxFileNumforRelation = 0 BY SizesAssumption
  <2>2. 0 * INValidBlockNumber = 0 BY SizesAssumption
  <2> QED BY <2>1, <2>2 DEF BLK_GetBlockOid
<1>4. blk.bnum + 0 = blk.bnum BY <1>1
<1>5. blk.bnum % UintRange = blk.bnum BY <1>1, <1>2, ModSmall
<1> QED BY <1>3, <1>4, <1>5

LEMMA MissNotResident ==
  ASSUME TypeOK, HashInv, NEW blk \in Blocks,
         BFM_SearchExistBuffer(blk) = INVALID_BUFFER
  PROVE  \A bp \in Buffers : buffer_block[bp] # blk
<1>1. \A bp \in Buffers : bp # INVALID_BUFFER
  BY SizesAssumption DEF Buffers, INVALID_BUFFER
<1> QED BY <1>1, LookupFromHash DEF LookupExact

\* When all blocks fit and no buffer is free, every block is in a buffer.
LEMMA FullPoolHoldsAll ==
  ASSUME TypeInv, HashInv, freeBufferCount = 0,
         IsFiniteSet(Blocks), Cardinality(Blocks) <= BUFFER_MAX_COUNT,
         NEW blk \in Blocks
  PROVE  \E bp \in Buffers : buffer_block[bp] = blk
<1>1. BUFFER_MAX_COUNT \in Nat BY SizesAssumption
<1>2. \A bp \in Buffers : buffer_block[bp] # NoBlock
  <2>1. FreeBufferTop = BUFFER_MAX_COUNT BY <1>1 DEF FreeBufferTop
  <2>2. \A bp \in Buffers : ~ (bp >= BUFFER_MAX_COUNT) BY <1>1 DEF Buffers
  <2> QED BY <2>1, <2>2 DEF TypeInv, FreeUnbound
<1>3. buffer_block \in [Buffers -> Blocks]
  BY <1>2 DEF TypeInv, TypeOK
<1>4. buffer_block \in Injection(Buffers, Blocks)
  BY <1>2, <1>3 DEF HashInv, HashGood, SingleCopy, Injection, IsInjective
<1>5. Cardinality(Buffers) = BUFFER_MAX_COUNT BY <1>1, CardinalityBelow DEF Buffers
<1>6. /\ Cardinality(Buffers) <= Cardinality(Blocks)
      /\ Cardinality(Buffers) = Cardinality(Blocks)
           <=> buffer_block \in Surjection(Buffers, Blocks)
  BY <1>4, FS_Injection
<1>7. Cardinality(Blocks) \in Nat BY FS_CardinalityType
<1>8. Cardinality(Buffers) = Cardinality(Blocks) BY <1>1, <1>5, <1>6, <1>7
<1> QED BY <1>6, <1>8 DEF Surjection

\* What a replacement starts from.
LEMMA ReplaceFacts ==
  ASSUME HashSafe, TypeInv, HashInv, NEW blk \in Blocks,
         NEW flag \in [Buffers -> SUBSET Flags],
         \A bp \in Buffers : flag[bp] \subseteq BufferFlag[bp],
         NEW mark, LoadReplace(blk, flag, mark)
  PROVE  LET bp == Victim(flag)
         IN  /\ bp \in Buffers /\ Unpinned(flag, bp)
             /\ LoadTarget(blk, flag) = bp
             /\ buffer_block[bp] \in Blocks
             /\ BLK_GetBlockOid(buffer_block[bp]) = buffer_block[bp].bnum
             /\ \A b \in Buffers : buffer_block[b] # blk
<1> DEFINE bp == Victim(flag)
<1>1. TypeOK /\ FreeUnbound BY DEF TypeInv
<1>2. BFM_SearchExistBuffer(blk) = INVALID_BUFFER /\ freeBufferCount = 0
  BY DEF LoadReplace
<1>3. \E b \in Buffers : Unpinned(flag, b) BY StillUnpinned
<1>4. bp \in Buffers /\ Unpinned(flag, bp)
  BY <1>1, <1>3, VictimUnpinned DEF TypeOK
<1>5. \A b \in Buffers : buffer_block[b] # blk BY <1>1, <1>2, MissNotResident
<1> HIDE DEF bp
<1>6. buffer_block[bp] # NoBlock
  <2>1. BUFFER_MAX_COUNT \in Nat BY SizesAssumption
  <2>2. ~ (bp >= FreeBufferTop) BY <1>2, <1>4, <2>1 DEF FreeBufferTop, Buffers
  <2> QED BY <1>1, <1>4, <2>2 DEF FreeUnbound
<1>7. buffer_block[bp] \in Blocks BY <1>1, <1>4, <1>6 DEF TypeOK
<1>8. Rels \subseteq {0} BY <1>2, <1>5, FullPoolHoldsAll DEF HashSafe
<1>9. buffer_block[bp].rid = 0 BY <1>7, <1>8, BlockFields
<1>10. BLK_GetBlockOid(buffer_block[bp]) = buffer_block[bp].bnum
  BY <1>7, <1>9, OidOfFileZero
<1> QED BY <1>2, <1>4, <1>5, <1>7, <1>10 DEF LoadTarget, bp

\* What a free buffer is like.
LEMMA FreeFacts ==
  ASSUME TypeInv, HashInv, NEW blk \in Blocks, NEW flag, NEW mark,
         LoadFree(blk, flag, mark)
  PROVE  /\ FreeBufferTop \in Buffers
         /\ LoadTarget(blk, flag) = FreeBufferTop
         /\ buffer_block[FreeBufferTop] = NoBlock
         /\ \A b \in Buffers : buffer_block[b] # blk
<1>1. TypeOK /\ FreeUnbound BY DEF TypeInv
<1>2. BFM_SearchExistBuffer(blk) = INVALID_BUFFER /\ freeBufferCount > 0
  BY DEF LoadFree
<1>3. freeBufferCount \in 0 .. BUFFER_MAX_COUNT /\ BUFFER_MAX_COUNT \in Nat
  BY <1>1, SizesAssumption DEF TypeOK
<1>4. FreeBufferTop \in Buffers BY <1>2, <1>3 DEF FreeBufferTop, Buffers
<1>5. FreeBufferTop >= FreeBufferTop BY <1>3 DEF FreeBufferTop
<1> QED BY <1>1, <1>2, <1>4, <1>5, MissNotResident DEF LoadTarget, FreeUnbound

\* What a hit is like.
LEMMA HitFacts ==
  ASSUME TypeOK, HashInv, NEW blk \in Blocks, NEW flag, NEW mark,
         LoadHit(blk, flag, mark)
  PROVE  /\ LoadTarget(blk, flag) \in Buffers
         /\ LoadTarget(blk, flag) = BFM_SearchExistBuffer(blk)
         /\ buffer_block[LoadTarget(blk, flag)] = blk
<1>1. BFM_SearchExistBuffer(blk) # INVALID_BUFFER BY DEF LoadHit
<1>2. BFM_SearchExistBuffer(blk) \in Buffers BY <1>1, SearchType
<1>3. LoadTarget(blk, flag) = BFM_SearchExistBuffer(blk) BY <1>1 DEF LoadTarget
<1> QED BY <1>2, <1>3, LookupFromHash DEF LookupExact

LEMMA LoadKeepsHash ==
  ASSUME HashSafe, TypeInv, HashInv, NEW blk \in Blocks,
         NEW flag \in [Buffers -> SUBSET Flags],
         \A bp \in Buffers : flag[bp] \subseteq BufferFlag[bp],
         NEW mark, Load(blk, flag, mark)
  PROVE  HashInv'
<1>1. TypeOK BY DEF TypeInv
<1>2. CASE LoadHit(blk, flag, mark)
  BY <1>2 DEF LoadHit, HashInv
<1> DEFINE h == Bucket(blk)
           item(bp) == [relOid |-> blk.rid, divider |-> Divider(blk), RealBuffer |-> bp]
<1>3. CASE LoadFree(blk, flag, mark)
  <2>1. FreeBufferTop \in Buffers /\ buffer_block[FreeBufferTop] = NoBlock
        /\ \A b \in Buffers : buffer_block[b] # blk
    BY <1>3, FreeFacts
  <2>2. /\ buffer_block' = [buffer_block EXCEPT ![FreeBufferTop] = blk]
        /\ BufferHashNum' = [BufferHashNum EXCEPT ![h] = (@ + 1) % UintRange]
        /\ BufferOverFlow' =
             [BufferOverFlow EXCEPT ![h] = <<item(FreeBufferTop)>> \o @]
    BY <1>3 DEF LoadFree, BindAndRead
  <2>3. HashGood([buffer_block EXCEPT ![FreeBufferTop] = blk],
                 [BufferHashNum EXCEPT ![h] = (@ + 1) % UintRange],
                 [BufferOverFlow EXCEPT ![h] = <<item(FreeBufferTop)>> \o @])
    BY <2>1, EnterKeepsHash DEF HashInv
  <2> QED BY <2>2, <2>3 DEF HashInv
<1>4. CASE LoadReplace(blk, flag, mark)
  <2> DEFINE bp == Victim(flag)
             bb == [buffer_block EXCEPT ![bp] = NoBlock]
  <2>1. /\ bp \in Buffers /\ buffer_block[bp] \in Blocks
        /\ BLK_GetBlockOid(buffer_block[bp]) = buffer_block[bp].bnum
        /\ \A b \in Buffers : buffer_block[b] # blk
    BY <1>4, ReplaceFacts
  <2>2. /\ buffer_block' = [buffer_block EXCEPT ![bp] = blk]
        /\ BufferHashNum' = [FreedHashNum(bp) EXCEPT ![h] = (@ + 1) % UintRange]
        /\ BufferOverFlow' = [FreedOverFlow(bp) EXCEPT ![h] = <<item(bp)>> \o @]
    BY <1>4 DEF LoadReplace, BindAndRead
  <2>3. buffer_block[bp] # NoBlock BY <2>1, NoBlockNotBlock
  <2>4. buffer_block \in [Buffers -> Blocks \cup {NoBlock}] BY <1>1 DEF TypeOK
  <2> HIDE DEF bp
  <2>5. HashGood(bb, FreedHashNum(bp), FreedOverFlow(bp))
    BY <1>1, <2>1, <2>3, LeaveKeepsHash
  <2>6. bb[bp] = NoBlock /\ \A b \in Buffers : bb[b] # blk
    BY <2>1, <2>4, NoBlockNotBlock
  <2>7. [bb EXCEPT ![bp] = blk] = [buffer_block EXCEPT ![bp] = blk]
    BY <2>1, <2>4
  <2> HIDE DEF bb
  <2>8. HashGood([bb EXCEPT ![bp] = blk],
                 [FreedHashNum(bp) EXCEPT ![h] = (@ + 1) % UintRange],
                 [FreedOverFlow(bp) EXCEPT ![h] = <<item(bp)>> \o @])
    BY <2>1, <2>5, <2>6, EnterKeepsHash
  <2> QED BY <2>2, <2>7, <2>8 DEF HashInv
<1> QED BY <1>2, <1>3, <1>4 DEF Load

-----------------------------------------------------------------------------
\* The inductive invariant.

\* A scan's buffer is pinned and bound to its block, one of its own relation.
CursorsHold ==
  OwnRelations => \A s \in Scans : cursor[s] # NoHandle =>
    /\ buffer_block[cursor[s].buf] = cursor[s].blk
    /\ "Pin" \in BufferFlag[cursor[s].buf]
    /\ cursor[s].blk.rid = ScanRel[s]

\* No load intervenes while the caller uses its buffer.
HandHolds == hand # NoHandle => buffer_block[hand.buf] = hand.blk

\* The block an insert appended is in no buffer until it is loaded, and in one
\* that nobody has marked afterwards.
FallbackHolds ==
  /\ fallback.buf \in Buffers => /\ buffer_block[fallback.buf] = fallback.blk
                                /\ "Dirty" \notin BufferFlag[fallback.buf]
  /\ fallback # NoHandle /\ fallback.buf \notin Buffers
       => \A bp \in Buffers : buffer_block[bp] # fallback.blk

\* The history variable tells what it should.
UnmarkedClean ==
  \A bp \in unmarked : "Dirty" \notin BufferFlag[bp] /\ buffer_block[bp] # NoBlock

\* A block in a buffer exists in its file, and both hold contents.
BoundExists ==
  \A bp \in Buffers : buffer_block[bp] # NoBlock
    => buffers[bp] # Zeroed /\ disk[buffer_block[bp]] # Zeroed

SafeInv ==
  /\ TypeInv /\ HashInv
  /\ CursorsHold /\ HandHolds /\ FallbackHolds
  /\ UnmarkedClean /\ CleanBuffersOnDisk /\ BoundExists

\* The content of a block clients read.
ValueOf(blk) ==
  IF Resident(blk)
  THEN buffers[CHOOSE bp \in Buffers : buffer_block[bp] = blk]
  ELSE disk[blk]

LEMMA ValueInBuffer ==
  ASSUME HashInv, NEW bp \in Buffers, buffer_block[bp] # NoBlock
  PROVE  ValueOf(buffer_block[bp]) = buffers[bp]
<1> DEFINE bq == CHOOSE b \in Buffers : buffer_block[b] = buffer_block[bp]
<1>1. bq \in Buffers /\ buffer_block[bq] = buffer_block[bp] OBVIOUS
<1>2. bq = bp
  <2> HIDE DEF bq
  <2> QED BY <1>1 DEF HashInv, HashGood, SingleCopy
<1>3. Resident(buffer_block[bp]) BY DEF Resident
<1> QED BY <1>2, <1>3 DEF ValueOf

LEMMA ValueOnDisk ==
  ASSUME NEW blk, \A bp \in Buffers : buffer_block[bp] # blk
  PROVE  ValueOf(blk) = disk[blk]
  BY DEF ValueOf, Resident

LEMMA ValueInBufferNext ==
  ASSUME HashInv', NEW bp \in Buffers, buffer_block'[bp] # NoBlock
  PROVE  ValueOf(buffer_block[bp])' = buffers'[bp]
<1> DEFINE bq == CHOOSE b \in Buffers : buffer_block'[b] = buffer_block'[bp]
<1>1. bq \in Buffers /\ buffer_block'[bq] = buffer_block'[bp] OBVIOUS
<1>2. bq = bp
  <2> HIDE DEF bq
  <2> QED BY <1>1 DEF HashInv, HashGood, SingleCopy
<1>3. Resident(buffer_block[bp])' BY DEF Resident
<1> QED BY <1>2, <1>3 DEF ValueOf

-----------------------------------------------------------------------------
\* What a load does, whichever way it finds its buffer.

\* What the clients rely on: the block is in the buffer returned, a pinned buffer
\* keeps block, content and pin, no content changes but that of a loose block
\* which leaves, and only the current content of a block is written to its file.
LoadEffect(blk, flag, mark) ==
  /\ LoadTarget(blk, flag) \in Buffers
  /\ buffer_block'[LoadTarget(blk, flag)] = blk
  /\ "Pin" \in mark => "Pin" \in BufferFlag'[LoadTarget(blk, flag)]
  /\ (\A bp \in Buffers : buffer_block[bp] # blk)
       => "Dirty" \notin BufferFlag'[LoadTarget(blk, flag)]
  /\ \A bp \in Buffers : bp # LoadTarget(blk, flag) =>
       buffer_block'[bp] = buffer_block[bp] /\ buffers'[bp] = buffers[bp]
  /\ \A bp \in Buffers : "Pin" \in flag[bp] /\ buffer_block[bp] # NoBlock =>
       /\ buffer_block'[bp] = buffer_block[bp]
       /\ buffers'[bp] = buffers[bp]
       /\ "Pin" \in BufferFlag'[bp]
  /\ UnmarkedClean' /\ CleanBuffersOnDisk' /\ BoundExists'
  /\ Loose' \subseteq Loose
  /\ \A c \in Blocks : ValueOf(c)' = IF c \in Loose \ Loose' THEN disk[c]
                                                        ELSE ValueOf(c)
  /\ \A c \in Blocks : disk'[c] \in {disk[c], ValueOf(c)'}

\* The flags a load works on differ from the buffers' only in a pin taken off.
FlagsOf(flag) ==
  /\ flag \in [Buffers -> SUBSET Flags]
  /\ \A bp \in Buffers : flag[bp] \subseteq BufferFlag[bp]
  /\ \A bp \in Buffers : BufferFlag[bp] \ {"Pin"} \subseteq flag[bp]

LEMMA HitEffect ==
  ASSUME SafeInv, NEW blk \in Blocks, Exists(blk), NEW flag, FlagsOf(flag),
         NEW mark \in SUBSET {"Pin"}, LoadHit(blk, flag, mark)
  PROVE  LoadEffect(blk, flag, mark)
<1> DEFINE bp == LoadTarget(blk, flag)
<1>1. bp \in Buffers /\ bp = BFM_SearchExistBuffer(blk) /\ buffer_block[bp] = blk
  BY HitFacts DEF SafeInv, TypeInv
<1>2. /\ BufferFlag' = [flag EXCEPT ![bp] = flag[bp] \cup {"Access"} \cup mark]
      /\ UNCHANGED <<buffer_block, buffers, disk, unmarked>>
  BY <1>1 DEF LoadHit
<1> HIDE DEF bp
<1>3. \A b \in Buffers : flag[b] \subseteq BufferFlag'[b]
  BY <1>1, <1>2 DEF FlagsOf
<1>4. \A b \in Buffers : "Dirty" \in BufferFlag[b] => "Dirty" \in BufferFlag'[b]
  BY <1>3 DEF FlagsOf
<1>5. CleanBuffersOnDisk' /\ BoundExists'
  BY <1>2, <1>4 DEF SafeInv, CleanBuffersOnDisk, BoundExists
<1>6. Loose' = Loose /\ \A c \in Blocks : ValueOf(c)' = ValueOf(c)
  BY <1>2 DEF ValueOf, Resident, Loose
<1>7. "Pin" \in mark => "Pin" \in BufferFlag'[bp]
  BY <1>1, <1>2 DEF FlagsOf
<1>8. \A b \in Buffers : "Dirty" \in BufferFlag'[b] => "Dirty" \in BufferFlag[b]
  BY <1>1, <1>2 DEF FlagsOf
<1>9. unmarked \in SUBSET Buffers BY DEF SafeInv, TypeInv, TypeOK
<1>10. UnmarkedClean' BY <1>2, <1>8, <1>9 DEF SafeInv, UnmarkedClean
<1> QED BY <1>1, <1>2, <1>3, <1>5, <1>6, <1>7, <1>10 DEF LoadEffect, bp

\* Binding a block that is not resident to a buffer bp, with the files at d.
LEMMA BindEffect ==
  ASSUME SafeInv, HashInv', NEW blk \in Blocks, Exists(blk),
         NEW flag, FlagsOf(flag), NEW mark \in SUBSET {"Pin"},
         NEW bp \in Buffers, bp = LoadTarget(blk, flag),
         \A b \in Buffers : buffer_block[b] # blk,
         buffer_block[bp] # NoBlock => "Pin" \notin flag[bp],
         buffer_block' = [buffer_block EXCEPT ![bp] = blk],
         buffers' = [buffers EXCEPT ![bp] = disk'[blk]],
         BufferFlag'[bp] = mark,
         \A b \in Buffers : b # bp => /\ flag[b] \ {"Access"} \subseteq BufferFlag'[b]
                                      /\ BufferFlag'[b] \subseteq flag[b],
         unmarked' = unmarked \ {bp},
         \A c \in Blocks : disk'[c] = IF c = buffer_block[bp] /\ bp \notin unmarked
                                      THEN buffers[bp] ELSE disk[c]
  PROVE  LoadEffect(blk, flag, mark)
<1>1. /\ buffer_block \in [Buffers -> Blocks \cup {NoBlock}]
      /\ buffers \in [Buffers -> Contents]
      /\ unmarked \in SUBSET Buffers
      /\ SingleCopy(buffer_block)
  BY DEF SafeInv, TypeInv, TypeOK, HashInv, HashGood
<1>2. buffer_block'[bp] = blk /\ buffers'[bp] = disk'[blk]
      /\ \A b \in Buffers : b # bp =>
           buffer_block'[b] = buffer_block[b] /\ buffers'[b] = buffers[b]
  BY <1>1
<1>3. disk'[blk] = disk[blk] /\ disk[blk] # Zeroed BY DEF Exists
<1>4. \A b \in Buffers : b # bp /\ "Dirty" \in BufferFlag[b] => "Dirty" \in BufferFlag'[b]
  BY DEF FlagsOf
<1>a. \A b \in Buffers : b # bp /\ "Dirty" \in BufferFlag'[b] => "Dirty" \in flag[b]
  OBVIOUS
<1>b. UnmarkedClean'
  <2> SUFFICES ASSUME NEW b \in unmarked'
               PROVE  "Dirty" \notin BufferFlag'[b] /\ buffer_block'[b] # NoBlock
    BY DEF UnmarkedClean
  <2>1. b \in unmarked /\ b # bp /\ b \in Buffers BY <1>1
  <2>2. "Dirty" \notin BufferFlag[b] /\ buffer_block[b] # NoBlock
    BY <2>1 DEF SafeInv, UnmarkedClean
  <2> QED BY <1>2, <1>a, <2>1, <2>2 DEF FlagsOf
\* No other buffer holds the block that leaves.
<1>5. ASSUME NEW b \in Buffers, b # bp, buffer_block[b] # NoBlock
      PROVE  /\ buffer_block[b] \in Blocks
             /\ disk'[buffer_block[b]] = disk[buffer_block[b]]
  <2>1. buffer_block[b] # buffer_block[bp] BY <1>1, <1>5 DEF SingleCopy
  <2> QED BY <1>1, <1>5, <2>1
<1>6. CleanBuffersOnDisk'
  <2> SUFFICES ASSUME NEW b \in Buffers, b \notin unmarked',
                      buffer_block'[b] # NoBlock, "Dirty" \notin BufferFlag'[b]
               PROVE  buffers'[b] = disk'[buffer_block'[b]]
    BY DEF CleanBuffersOnDisk
  <2>1. CASE b = bp BY <1>2, <2>1
  <2>2. CASE b # bp
    <3>1. "Dirty" \notin BufferFlag[b] BY <1>4, <2>2
    <3>2. buffers[b] = disk[buffer_block[b]]
      BY <1>2, <2>2, <3>1 DEF SafeInv, CleanBuffersOnDisk
    <3> QED BY <1>2, <1>5, <2>2, <3>2
  <2> QED BY <2>1, <2>2
<1>7. BoundExists'
  <2> SUFFICES ASSUME NEW b \in Buffers, buffer_block'[b] # NoBlock
               PROVE  buffers'[b] # Zeroed /\ disk'[buffer_block'[b]] # Zeroed
    BY DEF BoundExists
  <2>1. CASE b = bp BY <1>2, <1>3, <2>1
  <2>2. CASE b # bp BY <1>2, <1>5, <2>2 DEF SafeInv, BoundExists
  <2> QED BY <2>1, <2>2
\* A block in another buffer is as loose as it was.
<1>c. ASSUME NEW c \in Blocks, c # buffer_block[bp]
      PROVE  c \in Loose <=> c \in Loose'
  <2>1. ASSUME NEW b \in unmarked, buffer_block[b] = c
        PROVE  b \in unmarked' /\ buffer_block'[b] = c
    BY <1>1, <1>2, <1>c, <2>1
  <2>2. ASSUME NEW b \in unmarked', buffer_block'[b] = c
        PROVE  b \in unmarked /\ buffer_block[b] = c
    BY <1>1, <1>2, <2>2
  <2> QED BY <2>1, <2>2 DEF Loose
<1>8. ASSUME NEW c \in Blocks
      PROVE  /\ ValueOf(c)' = IF c \in Loose \ Loose' THEN disk[c] ELSE ValueOf(c)
             /\ disk'[c] \in {disk[c], ValueOf(c)'}
             /\ c \in Loose' => c \in Loose
  <2>1. c # NoBlock BY NoBlockNotBlock
  <2>2. CASE c = blk
    <3>1. ValueOf(c)' = disk'[blk]
      BY <1>2, <2>1, <2>2, ValueInBufferNext
    <3>2. ValueOf(c) = disk[blk] BY <2>2, ValueOnDisk
    <3>3. c \in Loose <=> c \in Loose' BY <1>c, <2>2
    <3> QED BY <1>3, <2>2, <3>1, <3>2, <3>3
  <2>3. CASE c # blk /\ c = buffer_block[bp]
    <3>1. ValueOf(c) = buffers[bp] BY <2>1, <2>3, ValueInBuffer DEF SafeInv
    <3>2. \A b \in Buffers : buffer_block'[b] # c
      BY <1>1, <1>2, <2>1, <2>3 DEF SingleCopy
    <3>3. ValueOf(c)' = disk'[c] BY <3>2 DEF ValueOf, Resident
    <3>4. c \notin Loose' BY <1>1, <3>2 DEF Loose
    <3>5. c \in Loose <=> bp \in unmarked
      <4>1. \A b \in Buffers : buffer_block[b] = c => b = bp
        BY <1>1, <2>1, <2>3 DEF SingleCopy
      <4> QED BY <1>1, <2>3, <4>1 DEF Loose
    <3> QED BY <2>3, <3>1, <3>3, <3>4, <3>5
  <2>4. CASE c # blk /\ \E b \in Buffers : b # bp /\ buffer_block[b] = c
    <3>1. PICK b \in Buffers : b # bp /\ buffer_block[b] = c BY <2>4
    <3>2. ValueOf(c) = buffers[b] BY <2>1, <3>1, ValueInBuffer DEF SafeInv
    <3>3. buffer_block'[b] = c /\ buffers'[b] = buffers[b] BY <1>2, <3>1
    <3>4. ValueOf(c)' = buffers'[b] BY <2>1, <3>3, ValueInBufferNext
    <3>5. disk'[c] = disk[c] BY <1>5, <2>1, <3>1
    <3>6. c \in Loose <=> c \in Loose'
      BY <1>1, <1>c, <2>1, <3>1 DEF SingleCopy
    <3> QED BY <3>2, <3>3, <3>4, <3>5, <3>6
  <2>5. CASE c # blk /\ \A b \in Buffers : buffer_block[b] # c
    <3>1. ValueOf(c) = disk[c] BY <2>5, ValueOnDisk
    <3>2. \A b \in Buffers : buffer_block'[b] # c BY <1>2, <2>5
    <3>3. ValueOf(c)' = disk'[c] BY <3>2 DEF ValueOf, Resident
    <3>4. disk'[c] = disk[c] BY <2>5
    <3>5. c \in Loose <=> c \in Loose' BY <1>c, <2>5
    <3> QED BY <3>1, <3>3, <3>4, <3>5
  <2> QED BY <2>2, <2>3, <2>4, <2>5
<1>9. ASSUME NEW b \in Buffers, "Pin" \in flag[b], buffer_block[b] # NoBlock
      PROVE  /\ buffer_block'[b] = buffer_block[b] /\ buffers'[b] = buffers[b]
             /\ "Pin" \in BufferFlag'[b]
  <2>1. b # bp BY <1>9
  <2> QED BY <1>2, <1>9, <2>1
<1>10. Loose' \subseteq Loose
  <2>1. \A c \in Loose' : c \in Blocks BY DEF Loose
  <2> QED BY <1>8, <2>1
<1>11. "Dirty" \notin BufferFlag'[bp] OBVIOUS
<1> QED BY <1>2, <1>6, <1>7, <1>8, <1>9, <1>10, <1>11, <1>b DEF LoadEffect

LEMMA LoadHasEffect ==
  ASSUME HashSafe, SafeInv, NEW blk \in Blocks, NEW flag, FlagsOf(flag),
         NEW mark \in SUBSET {"Pin"}, Load(blk, flag, mark)
  PROVE  LoadEffect(blk, flag, mark) /\ HashInv'
<1>1. TypeInv /\ TypeOK /\ HashInv BY DEF SafeInv, TypeInv
<1>2. flag \in [Buffers -> SUBSET Flags]
      /\ \A bp \in Buffers : flag[bp] \subseteq BufferFlag[bp]
  BY DEF FlagsOf
<1>3. HashInv' BY <1>1, <1>2, LoadKeepsHash
<1>4. Exists(blk) BY DEF Load
<1>5. CASE LoadHit(blk, flag, mark) BY <1>3, <1>4, <1>5, HitEffect
<1>6. CASE LoadFree(blk, flag, mark)
  <2> DEFINE bp == FreeBufferTop
  <2>1. bp \in Buffers /\ LoadTarget(blk, flag) = bp
        /\ buffer_block[bp] = NoBlock
        /\ \A b \in Buffers : buffer_block[b] # blk
    BY <1>1, <1>6, FreeFacts
  <2>a. bp \notin unmarked BY <2>1 DEF SafeInv, UnmarkedClean
  <2>2. /\ BufferFlag' = [flag EXCEPT ![bp] = mark]
        /\ disk' = disk /\ unmarked' = unmarked \ {bp}
        /\ buffer_block' = [buffer_block EXCEPT ![bp] = blk]
        /\ buffers' = [buffers EXCEPT ![bp] = disk'[blk]]
    BY <1>6, <2>a DEF LoadFree, BindAndRead
  <2> HIDE DEF bp
  <2>3. BufferFlag'[bp] = mark
        /\ \A b \in Buffers : b # bp => /\ flag[b] \ {"Access"} \subseteq BufferFlag'[b]
                                        /\ BufferFlag'[b] \subseteq flag[b]
    BY <1>2, <2>1, <2>2
  <2>4. \A c \in Blocks : disk'[c] = IF c = buffer_block[bp] /\ bp \notin unmarked
                                      THEN buffers[bp] ELSE disk[c]
    BY <2>1, <2>2, NoBlockNotBlock
  <2> QED BY <1>3, <1>4, <2>1, <2>2, <2>3, <2>4, BindEffect
<1>7. CASE LoadReplace(blk, flag, mark)
  <2> DEFINE bp == Victim(flag)
  <2>1. bp \in Buffers /\ Unpinned(flag, bp) /\ LoadTarget(blk, flag) = bp
        /\ buffer_block[bp] \in Blocks
        /\ \A b \in Buffers : buffer_block[b] # blk
    BY <1>1, <1>2, <1>7, ReplaceFacts
  <2>2. /\ BufferFlag' = [ClockFlags(flag) EXCEPT ![bp] = mark]
        /\ disk' = FlushedDisk(bp) /\ unmarked' = unmarked \ {bp}
        /\ buffer_block' = [buffer_block EXCEPT ![bp] = blk]
        /\ buffers' = [buffers EXCEPT ![bp] = disk'[blk]]
    BY <1>7 DEF LoadReplace, BindAndRead
  <2> HIDE DEF bp
  <2>3. "Pin" \notin flag[bp] BY <2>1 DEF Unpinned
  <2>4. BufferFlag'[bp] = mark
        /\ \A b \in Buffers : b # bp => /\ flag[b] \ {"Access"} \subseteq BufferFlag'[b]
                                        /\ BufferFlag'[b] \subseteq flag[b]
    BY <2>1, <2>2 DEF ClockFlags
  <2>5. \A c \in Blocks : disk'[c] = IF c = buffer_block[bp] /\ bp \notin unmarked
                                      THEN buffers[bp] ELSE disk[c]
    <3>1. buffer_block[bp] # NoBlock BY <2>1, NoBlockNotBlock
    <3>2. disk \in [Blocks -> Contents] BY <1>1 DEF TypeOK
    <3>3. CASE "Dirty" \in BufferFlag[bp]
      <4>1. disk' = [disk EXCEPT ![buffer_block[bp]] = buffers[bp]]
        BY <2>2, <3>1, <3>3 DEF FlushedDisk
      <4>2. bp \notin unmarked BY <3>3 DEF SafeInv, UnmarkedClean
      <4> QED BY <2>1, <3>2, <4>1, <4>2
    <3>4. CASE "Dirty" \notin BufferFlag[bp]
      <4>1. disk' = disk BY <2>2, <3>4 DEF FlushedDisk
      <4>2. bp \notin unmarked => buffers[bp] = disk[buffer_block[bp]]
        BY <2>1, <3>1, <3>4 DEF SafeInv, CleanBuffersOnDisk
      <4> QED BY <4>1, <4>2
    <3> QED BY <3>3, <3>4
  <2> QED BY <1>3, <1>4, <2>1, <2>2, <2>3, <2>4, <2>5, BindEffect
<1> QED BY <1>3, <1>5, <1>6, <1>7 DEF Load

\* Unaltered flags, and flags with a scan's own pin taken off.
LEMMA AllFlags == TypeOK => FlagsOf(BufferFlag)
  BY DEF TypeOK, FlagsOf

LEMMA FlagsWithoutOwnPin ==
  ASSUME TypeOK, NEW b
  PROVE  FlagsOf([BufferFlag EXCEPT ![b] = @ \ {"Pin"}])
  BY OwnFlags DEF TypeOK, FlagsOf

-----------------------------------------------------------------------------
\* The invariant is inductive.

LEMMA EmptyPoolSafe ==
  ASSUME buffer_block = [bp \in Buffers |-> NoBlock],
         BufferHashNum = [h \in Buckets |-> 0],
         BufferOverFlow = [h \in Buckets |-> <<>>],
         hand = NoHandle, fallback = NoHandle,
         cursor = [s \in Scans |-> NoHandle], unmarked = {},
         TypeInv
  PROVE  SafeInv
<1>1. HashInv BY DEF HashInv, HashGood, Entries, Distinct, Counted, Listed, SingleCopy
<1>2. CursorsHold /\ HandHolds BY DEF CursorsHold, HandHolds
<1>3. CleanBuffersOnDisk /\ BoundExists BY DEF CleanBuffersOnDisk, BoundExists
<1>4. FallbackHolds /\ UnmarkedClean
  BY SizesAssumption DEF FallbackHolds, UnmarkedClean, NoHandle, Buffers, INVALID_BUFFER
<1> QED BY <1>1, <1>2, <1>3, <1>4 DEF SafeInv

LEMMA EmptyPoolSafeNext ==
  ASSUME LosePool, TypeInv' PROVE SafeInv'
<1>1. /\ buffer_block' = [bp \in Buffers |-> NoBlock]
      /\ BufferHashNum' = [h \in Buckets |-> 0]
      /\ BufferOverFlow' = [h \in Buckets |-> <<>>]
      /\ hand' = NoHandle /\ fallback' = NoHandle /\ unmarked' = {}
      /\ cursor' = [s \in Scans |-> NoHandle]
  BY DEF LosePool
<1>2. HashInv'
  BY <1>1 DEF HashInv, HashGood, Entries, Distinct, Counted, Listed, SingleCopy
<1>3. CursorsHold' /\ HandHolds' BY <1>1 DEF CursorsHold, HandHolds
<1>4. CleanBuffersOnDisk' /\ BoundExists'
  BY <1>1 DEF CleanBuffersOnDisk, BoundExists
<1>5. FallbackHolds' /\ UnmarkedClean'
  BY <1>1, SizesAssumption
     DEF FallbackHolds, UnmarkedClean, NoHandle, Buffers, INVALID_BUFFER
<1> QED BY <1>2, <1>3, <1>4, <1>5 DEF SafeInv

LEMMA SafeInvInit == Init => SafeInv
  BY TypeInvInit, EmptyPoolSafe DEF Init

\* Outside a fallback there is nothing to say of it.
LEMMA NoFallback == fallback = NoHandle => FallbackHolds
  BY SizesAssumption DEF FallbackHolds, NoHandle, Buffers, INVALID_BUFFER

LEMMA NoFallbackNext == fallback' = NoHandle => FallbackHolds'
  BY SizesAssumption DEF FallbackHolds, NoHandle, Buffers, INVALID_BUFFER

\* A load that is not a scan's leaves the scans' buffers alone.
LEMMA LoadKeepsCursors ==
  ASSUME SafeInv, NEW blk \in Blocks, LoadEffect(blk, BufferFlag, {}),
         cursor' = cursor
  PROVE  CursorsHold'
<1> SUFFICES ASSUME OwnRelations, NEW t \in Scans, cursor[t] # NoHandle
             PROVE  /\ buffer_block'[cursor[t].buf] = cursor[t].blk
                    /\ "Pin" \in BufferFlag'[cursor[t].buf]
                    /\ cursor[t].blk.rid = ScanRel[t]
  BY DEF CursorsHold
<1>1. cursor[t] \in Handles BY DEF SafeInv, TypeInv, TypeOK
<1>2. cursor[t].buf \in Buffers /\ cursor[t].blk \in Blocks BY <1>1 DEF Handles
<1>3. buffer_block[cursor[t].buf] = cursor[t].blk
      /\ "Pin" \in BufferFlag[cursor[t].buf]
      /\ cursor[t].blk.rid = ScanRel[t]
  BY DEF SafeInv, CursorsHold
<1>4. buffer_block[cursor[t].buf] # NoBlock BY <1>2, <1>3, NoBlockNotBlock
<1> QED BY <1>2, <1>3, <1>4 DEF LoadEffect

\* A load for scan s: its cursor moves, every other scan's buffer is left alone.
LEMMA ScanLoadSafe ==
  ASSUME HashSafe, SafeInv, TypeInv', NEW s \in Scans, NEW blk \in Blocks,
         blk.rid = ScanRel[s], NEW flag, FlagsOf(flag),
         OwnRelations => \A t \in Scans : t # s /\ cursor[t] # NoHandle
                                            => "Pin" \in flag[cursor[t].buf],
         Load(blk, flag, {"Pin"}), hand' = NoHandle, fallback' = NoHandle,
         cursor' = [cursor EXCEPT ![s] = [buf |-> LoadTarget(blk, flag), blk |-> blk]]
  PROVE  SafeInv'
<1>1. LoadEffect(blk, flag, {"Pin"}) /\ HashInv' BY LoadHasEffect
<1>2. HandHolds' /\ FallbackHolds' BY NoFallbackNext DEF HandHolds
<1>3. cursor \in [Scans -> Handles \cup {NoHandle}] BY DEF SafeInv, TypeInv, TypeOK
<1>4. CursorsHold'
  <2> SUFFICES ASSUME OwnRelations, NEW t \in Scans, cursor'[t] # NoHandle
               PROVE  /\ buffer_block'[cursor'[t].buf] = cursor'[t].blk
                      /\ "Pin" \in BufferFlag'[cursor'[t].buf]
                      /\ cursor'[t].blk.rid = ScanRel[t]
    BY DEF CursorsHold
  <2>1. CASE t = s
    <3>1. cursor'[t] = [buf |-> LoadTarget(blk, flag), blk |-> blk]
      BY <1>3, <2>1
    <3> QED BY <1>1, <2>1, <3>1 DEF LoadEffect
  <2>2. CASE t # s
    <3>1. cursor'[t] = cursor[t] BY <1>3, <2>2
    <3>2. cursor[t] \in Handles BY <1>3, <3>1
    <3>3. cursor[t].buf \in Buffers /\ cursor[t].blk \in Blocks
      BY <3>2 DEF Handles
    <3>4. buffer_block[cursor[t].buf] = cursor[t].blk
          /\ cursor[t].blk.rid = ScanRel[t]
      BY <3>1 DEF SafeInv, CursorsHold
    <3>5. buffer_block[cursor[t].buf] # NoBlock BY <3>3, <3>4, NoBlockNotBlock
    <3>6. "Pin" \in flag[cursor[t].buf] BY <2>2, <3>1
    <3> QED BY <1>1, <3>1, <3>3, <3>4, <3>5, <3>6 DEF LoadEffect
  <2> QED BY <2>1, <2>2
<1> QED BY <1>1, <1>2, <1>4 DEF SafeInv, LoadEffect

\* Advancing its own scan takes the pin from no other scan's buffer: their
\* blocks belong to other relations.
LEMMA OtherScansPinned ==
  ASSUME SafeInv, OwnRelations, NEW s \in Scans, cursor[s] # NoHandle,
         NEW t \in Scans, t # s, cursor[t] # NoHandle
  PROVE  "Pin" \in [BufferFlag EXCEPT ![cursor[s].buf] = @ \ {"Pin"}][cursor[t].buf]
<1>1. cursor \in [Scans -> Handles \cup {NoHandle}]
      /\ BufferFlag \in [Buffers -> SUBSET Flags]
  BY DEF SafeInv, TypeInv, TypeOK
<1>2. cursor[t].buf \in Buffers BY <1>1 DEF Handles
<1>3. /\ buffer_block[cursor[s].buf] = cursor[s].blk
      /\ buffer_block[cursor[t].buf] = cursor[t].blk
      /\ "Pin" \in BufferFlag[cursor[t].buf]
      /\ cursor[s].blk.rid = ScanRel[s] /\ cursor[t].blk.rid = ScanRel[t]
  BY DEF SafeInv, CursorsHold
<1>4. ScanRel[s] # ScanRel[t] BY DEF OwnRelations
<1>5. cursor[t].buf # cursor[s].buf BY <1>3, <1>4
<1> QED BY <1>1, <1>2, <1>3, <1>5

LEMMA SafeInvNext ==
  ASSUME HashSafe, SafeInv, [Next]_vars PROVE SafeInv'
<1>a. TypeInv /\ TypeOK /\ HashInv BY DEF SafeInv, TypeInv
<1>b. TypeInv' BY <1>a, TypeInvNext
<1>c. /\ buffer_block \in [Buffers -> Blocks \cup {NoBlock}]
      /\ buffers \in [Buffers -> Contents] /\ disk \in [Blocks -> Contents]
      /\ BufferFlag \in [Buffers -> SUBSET Flags]
      /\ unmarked \in SUBSET Buffers
      /\ cursor \in [Scans -> Handles \cup {NoHandle}]
  BY <1>a DEF TypeOK
<1>1. CASE UNCHANGED <<pool, disk, hand, fallback, cursor, unmarked>>
  BY <1>b, <1>1 DEF pool, SafeInv, HashInv, CursorsHold, HandHolds,
                    FallbackHolds, UnmarkedClean, CleanBuffersOnDisk, BoundExists
<1>2. ASSUME NEW blk \in Blocks, LoadBlock(blk) PROVE SafeInv'
  <2>1. Load(blk, BufferFlag, {}) /\ cursor' = cursor /\ fallback' = NoHandle
        /\ hand' = [buf |-> LoadTarget(blk, BufferFlag), blk |-> blk]
    BY <1>2 DEF LoadBlock, Between
  <2>2. LoadEffect(blk, BufferFlag, {}) /\ HashInv'
    BY <1>a, <2>1, LoadHasEffect, AllFlags
  <2>3. HandHolds' BY <2>1, <2>2 DEF HandHolds, LoadEffect
  <2>4. CursorsHold' BY <2>1, <2>2, LoadKeepsCursors
  <2> QED BY <1>b, <2>1, <2>2, <2>3, <2>4, NoFallbackNext DEF SafeInv, LoadEffect
<1>3. ASSUME NEW v \in Vals \ {Fresh}, ModifyBlock(v) PROVE SafeInv'
  <2>1. hand \in Handles /\ hand # NoHandle
        /\ buffers' = [buffers EXCEPT ![hand.buf] = v]
        /\ BufferFlag' = [BufferFlag EXCEPT ![hand.buf] = @ \cup {"Dirty"}]
        /\ unmarked' = unmarked \ {hand.buf} /\ fallback' = NoHandle
        /\ UNCHANGED <<buffer_block, BufferHashNum, BufferOverFlow, disk, hand, cursor>>
    BY <1>a, <1>3 DEF ModifyBlock, Between, TypeOK
  <2>2. hand.buf \in Buffers BY <2>1 DEF Handles
  <2>3. HashInv' /\ HandHolds' BY <2>1 DEF SafeInv, HashInv, HandHolds
  <2>4. \A b \in Buffers : BufferFlag[b] \subseteq BufferFlag'[b] BY <1>c, <2>1
  <2>5. CursorsHold' BY <1>c, <2>1, <2>4 DEF SafeInv, CursorsHold, Handles
  <2>6. "Dirty" \in BufferFlag'[hand.buf]
        /\ \A b \in Buffers : b # hand.buf => /\ buffers'[b] = buffers[b]
                                              /\ BufferFlag'[b] = BufferFlag[b]
    BY <1>c, <2>1, <2>2
  <2>7. CleanBuffersOnDisk'
    BY <2>1, <2>4, <2>6 DEF SafeInv, CleanBuffersOnDisk
  <2>8. v # Zeroed BY ContentsAssumption
  <2>9. BoundExists' BY <1>c, <2>1, <2>2, <2>8 DEF SafeInv, BoundExists
  <2>10. UnmarkedClean' BY <1>c, <2>1, <2>6 DEF SafeInv, UnmarkedClean
  <2> QED BY <1>b, <2>1, <2>3, <2>5, <2>7, <2>9, <2>10, NoFallbackNext DEF SafeInv
<1>4. CASE BFM_vFlushBuffer
  <2> DEFINE bp == hand.buf
  <2>1. hand \in Handles /\ hand # NoHandle
        /\ disk' = FlushedDisk(bp) /\ hand' = NoHandle
        /\ BufferFlag' = [BufferFlag EXCEPT ![bp] = @ \ {"Dirty"}]
        /\ fallback' = NoHandle
        /\ UNCHANGED <<buffer_block, buffers, BufferHashNum, BufferOverFlow, cursor,
                       unmarked>>
    BY <1>a, <1>4 DEF BFM_vFlushBuffer, Between, TypeOK
  <2>2. bp \in Buffers /\ hand.blk \in Blocks BY <2>1 DEF Handles
  <2>3. buffer_block[bp] = hand.blk BY <2>1 DEF SafeInv, HandHolds
  <2>4. buffer_block[bp] # NoBlock BY <2>2, <2>3, NoBlockNotBlock
  <2> HIDE DEF bp
  <2>5. HashInv' /\ HandHolds' BY <2>1 DEF SafeInv, HashInv, HandHolds
  <2>6. \A b \in Buffers : "Pin" \in BufferFlag[b] => "Pin" \in BufferFlag'[b]
    BY <1>c, <2>1
  <2>7. CursorsHold' BY <1>c, <2>1, <2>6 DEF SafeInv, CursorsHold, Handles
  <2>8. /\ disk'[buffer_block[bp]] \in {disk[buffer_block[bp]], buffers[bp]}
        /\ bp \notin unmarked => disk'[buffer_block[bp]] = buffers[bp]
        /\ \A c \in Blocks : c # buffer_block[bp] => disk'[c] = disk[c]
    <3>1. CASE "Dirty" \in BufferFlag[bp]
      BY <1>c, <2>1, <2>2, <2>3, <2>4, <3>1 DEF FlushedDisk
    <3>2. CASE "Dirty" \notin BufferFlag[bp]
      BY <2>1, <2>2, <2>4, <3>2 DEF FlushedDisk, SafeInv, CleanBuffersOnDisk
    <3> QED BY <3>1, <3>2
  <2>9. ASSUME NEW b \in Buffers, b # bp, buffer_block[b] # NoBlock
        PROVE  /\ BufferFlag'[b] = BufferFlag[b]
               /\ disk'[buffer_block[b]] = disk[buffer_block[b]]
    <3>1. buffer_block[b] # buffer_block[bp] /\ buffer_block[b] \in Blocks
      BY <1>a, <1>c, <2>2, <2>9 DEF HashInv, HashGood, SingleCopy
    <3> QED BY <1>c, <2>1, <2>8, <2>9, <3>1
  <2>10. CleanBuffersOnDisk'
    BY <2>1, <2>8, <2>9 DEF SafeInv, CleanBuffersOnDisk
  <2>11. BoundExists' BY <2>1, <2>2, <2>8, <2>9 DEF SafeInv, BoundExists
  <2>12. \A b \in Buffers : BufferFlag'[b] \subseteq BufferFlag[b] BY <1>c, <2>1
  <2>13. UnmarkedClean' BY <1>c, <2>1, <2>12 DEF SafeInv, UnmarkedClean
  <2> QED BY <1>b, <2>1, <2>5, <2>7, <2>10, <2>11, <2>13, NoFallbackNext DEF SafeInv
<1>5. ASSUME NEW blk \in Blocks, AppendNewBlock(blk) PROVE SafeInv'
  <2>1. disk' = [disk EXCEPT ![blk] = Fresh]
        /\ UNCHANGED <<pool, hand, cursor, unmarked>>
        /\ disk[blk] = Zeroed
        /\ fallback' \in {NoHandle, [buf |-> INVALID_BUFFER, blk |-> blk]}
    BY <1>5 DEF AppendNewBlock, Between, Exists
  <2>a. \A b \in Buffers : buffer_block[b] # blk
    BY <2>1, NoBlockNotBlock DEF SafeInv, BoundExists
  <2>2. \A b \in Buffers : buffer_block[b] # NoBlock
          => disk'[buffer_block[b]] = disk[buffer_block[b]]
    BY <1>c, <2>1, <2>a
  <2>3. CleanBuffersOnDisk' /\ BoundExists'
    BY <2>1, <2>2 DEF pool, SafeInv, CleanBuffersOnDisk, BoundExists
  <2>4. HashInv' /\ HandHolds' /\ CursorsHold'
    BY <2>1 DEF pool, SafeInv, HashInv, HandHolds, CursorsHold
  <2>5. FallbackHolds'
    <3>1. INVALID_BUFFER \notin Buffers
      BY SizesAssumption DEF INVALID_BUFFER, Buffers
    <3>2. CASE fallback' = NoHandle BY <3>2, NoFallbackNext
    <3>3. CASE fallback' = [buf |-> INVALID_BUFFER, blk |-> blk]
      BY <2>1, <2>a, <3>1, <3>3 DEF FallbackHolds, pool
    <3> QED BY <2>1, <3>2, <3>3
  <2>6. UnmarkedClean' BY <2>1 DEF pool, SafeInv, UnmarkedClean
  <2> QED BY <1>b, <2>3, <2>4, <2>5, <2>6 DEF SafeInv
<1>6. ASSUME NEW s \in Scans, ScanOpen(s) PROVE SafeInv'
  <2> DEFINE blk == [rid |-> ScanRel[s], bnum |-> 0]
  <2>1. blk \in Blocks /\ blk.rid = ScanRel[s]
    BY ScansAssumption, SizesAssumption DEF Blocks
  <2>2. Load(blk, BufferFlag, {"Pin"}) /\ hand' = NoHandle /\ fallback' = NoHandle
        /\ cursor' = [cursor EXCEPT ![s] =
                        [buf |-> LoadTarget(blk, BufferFlag), blk |-> blk]]
    BY <1>6 DEF ScanOpen, Between
  <2> HIDE DEF blk
  <2>3. OwnRelations => \A t \in Scans : t # s /\ cursor[t] # NoHandle
          => "Pin" \in BufferFlag[cursor[t].buf]
    BY DEF SafeInv, CursorsHold
  <2>4. FlagsOf(BufferFlag) BY <1>a, AllFlags
  <2> QED BY <1>b, <2>1, <2>2, <2>3, <2>4, ScanLoadSafe
<1>7. ASSUME NEW s \in Scans, ScanAdvance(s) PROVE SafeInv'
  <2> DEFINE blk == [rid |-> ScanRel[s], bnum |-> cursor[s].blk.bnum + 1]
             flag == [BufferFlag EXCEPT ![cursor[s].buf] = @ \ {"Pin"}]
  <2>1. blk \in Blocks /\ blk.rid = ScanRel[s] BY <1>7 DEF ScanAdvance
  <2>2. Load(blk, flag, {"Pin"}) /\ hand' = NoHandle /\ cursor[s] # NoHandle
        /\ fallback' = NoHandle
        /\ cursor' = [cursor EXCEPT ![s] = [buf |-> LoadTarget(blk, flag), blk |-> blk]]
    BY <1>7 DEF ScanAdvance, Between
  <2>3. FlagsOf(flag) BY <1>a, FlagsWithoutOwnPin
  <2>4. OwnRelations => \A t \in Scans : t # s /\ cursor[t] # NoHandle
          => "Pin" \in flag[cursor[t].buf]
    BY <2>2, OtherScansPinned
  <2> HIDE DEF blk, flag
  <2> QED BY <1>b, <2>1, <2>2, <2>3, <2>4, ScanLoadSafe
<1>8. CASE LosePool BY <1>b, <1>8, EmptyPoolSafeNext
<1>9. CASE LoadFallback
  <2> DEFINE blk == fallback.blk
             new == [buf |-> LoadTarget(blk, BufferFlag), blk |-> blk]
  <2>1. Load(blk, BufferFlag, {}) /\ cursor' = cursor
        /\ fallback # NoHandle /\ fallback.buf = INVALID_BUFFER
        /\ fallback' = new
        /\ hand' = IF new.buf = hand.buf THEN new ELSE hand
    BY <1>9 DEF LoadFallback
  <2>2. blk \in Blocks BY <1>a, <2>1 DEF TypeOK, Handles
  <2>3. \A bp \in Buffers : buffer_block[bp] # blk
    <3>1. INVALID_BUFFER \notin Buffers
      BY SizesAssumption DEF INVALID_BUFFER, Buffers
    <3> QED BY <2>1, <3>1 DEF SafeInv, FallbackHolds
  <2> HIDE DEF blk
  <2>4. LoadEffect(blk, BufferFlag, {}) /\ HashInv'
    BY <1>a, <2>1, <2>2, LoadHasEffect, AllFlags
  <2>5. CursorsHold' BY <2>1, <2>2, <2>4, LoadKeepsCursors
  <2>6. hand \in Handles BY <1>a, <2>1 DEF TypeInv, TypeOK, HandHeld
  <2>7. HandHolds'
    <3>1. CASE new.buf = hand.buf BY <2>1, <2>4, <3>1 DEF HandHolds, LoadEffect
    <3>2. CASE new.buf # hand.buf
      <4>1. hand' = hand /\ hand.buf \in Buffers BY <2>1, <2>6, <3>2 DEF Handles
      <4>2. buffer_block'[hand.buf] = buffer_block[hand.buf]
        BY <2>4, <3>2, <4>1 DEF LoadEffect
      <4> QED BY <4>1, <4>2 DEF SafeInv, HandHolds
    <3> QED BY <3>1, <3>2
  <2>8. FallbackHolds' BY <2>1, <2>3, <2>4 DEF FallbackHolds, LoadEffect
  <2> QED BY <1>b, <2>4, <2>5, <2>7, <2>8 DEF SafeInv, LoadEffect
<1>10. ASSUME NEW v \in Vals \ {Fresh}, InsertElsewhere(v) PROVE SafeInv'
  <2>1. /\ fallback # NoHandle /\ fallback.buf # INVALID_BUFFER
        /\ buffers' = [buffers EXCEPT ![fallback.buf] = v]
        /\ BufferFlag' = [BufferFlag EXCEPT ![hand.buf] = @ \cup {"Dirty"}]
        /\ unmarked' = (unmarked \cup {fallback.buf}) \ {hand.buf}
        /\ fallback' = NoHandle
        /\ UNCHANGED <<buffer_block, BufferHashNum, BufferOverFlow, disk, hand, cursor>>
    BY <1>10 DEF InsertElsewhere
  <2>2. fallback.buf \in Buffers /\ fallback.blk \in Blocks
    BY <1>a, <2>1 DEF TypeOK, Handles
  <2>3. hand \in Handles BY <1>a, <2>1 DEF TypeInv, TypeOK, HandHeld
  <2>4. hand.buf \in Buffers BY <2>3 DEF Handles
  <2>5. buffer_block[fallback.buf] = fallback.blk
        /\ "Dirty" \notin BufferFlag[fallback.buf]
    BY <2>2 DEF SafeInv, FallbackHolds
  <2>6. HashInv' /\ HandHolds' BY <2>1 DEF SafeInv, HashInv, HandHolds
  <2>7. /\ \A b \in Buffers : BufferFlag[b] \subseteq BufferFlag'[b]
        /\ \A b \in Buffers : b # hand.buf => BufferFlag'[b] = BufferFlag[b]
        /\ "Dirty" \in BufferFlag'[hand.buf]
        /\ \A b \in Buffers : b # fallback.buf => buffers'[b] = buffers[b]
    BY <1>c, <2>1, <2>4
  <2>8. CursorsHold' BY <1>c, <2>1, <2>7 DEF SafeInv, CursorsHold, Handles
  <2>9. UnmarkedClean'
    <3> SUFFICES ASSUME NEW b \in unmarked'
                 PROVE  "Dirty" \notin BufferFlag'[b] /\ buffer_block'[b] # NoBlock
      BY DEF UnmarkedClean
    <3>1. b # hand.buf /\ b \in Buffers BY <1>c, <2>1, <2>2
    <3>2. CASE b = fallback.buf
      BY <2>1, <2>2, <2>5, <2>7, <3>1, <3>2, NoBlockNotBlock
    <3>3. CASE b \in unmarked
      BY <2>1, <2>7, <3>1, <3>3 DEF SafeInv, UnmarkedClean
    <3> QED BY <2>1, <3>2, <3>3
  <2>10. CleanBuffersOnDisk'
    <3> SUFFICES ASSUME NEW b \in Buffers, b \notin unmarked',
                        buffer_block[b] # NoBlock, "Dirty" \notin BufferFlag'[b]
                 PROVE  buffers'[b] = disk[buffer_block[b]]
      BY <2>1 DEF CleanBuffersOnDisk
    <3>1. b # hand.buf BY <2>7
    <3>2. b # fallback.buf /\ b \notin unmarked BY <2>1, <3>1
    <3> QED BY <2>7, <3>1, <3>2 DEF SafeInv, CleanBuffersOnDisk
  <2>11. v # Zeroed BY ContentsAssumption
  <2>12. BoundExists' BY <1>c, <2>1, <2>2, <2>11 DEF SafeInv, BoundExists
  <2> QED BY <1>b, <2>1, <2>6, <2>8, <2>9, <2>10, <2>12, NoFallbackNext DEF SafeInv
<1> QED BY <1>1, <1>2, <1>3, <1>4, <1>5, <1>6, <1>7, <1>8, <1>9, <1>10
    DEF Next, BFM_CreateBufferManager, BFM_vDestoryBufferManager, Crash, vars

LEMMA SafeInvAlways == ASSUME HashSafe PROVE Spec => []SafeInv
  BY SafeInvInit, SafeInvNext, PTL DEF Spec

\* Of a block that is loose no buffer is written.
LEMMA LooseBuffer ==
  ASSUME HashInv, NEW bp \in Buffers, buffer_block[bp] \in Blocks,
         unmarked \in SUBSET Buffers
  PROVE  buffer_block[bp] \in Loose <=> bp \in unmarked
<1>1. \A b \in Buffers : buffer_block[b] = buffer_block[bp] => b = bp
  BY NoBlockNotBlock DEF HashInv, HashGood, SingleCopy
<1> QED BY <1>1 DEF Loose

\* At an orderly end the file of every block gets what clients saw, unless it is
\* loose.
LEMMA EndSaves ==
  ASSUME SafeInv, BFM_vDestoryBufferManager, NEW c \in Blocks
  PROVE  disk'[c] = IF c \in Loose THEN disk[c] ELSE ValueOf(c)
<1>0. HashInv /\ unmarked \in SUBSET Buffers BY DEF SafeInv, TypeInv, TypeOK
<1>1. disk'[c] = IF DirtyBuffersOf(c) = {} THEN disk[c]
                 ELSE buffers[Max(DirtyBuffersOf(c))]
  BY DEF BFM_vDestoryBufferManager
<1>2. c # NoBlock BY NoBlockNotBlock
<1>3. CASE DirtyBuffersOf(c) # {}
  <2>1. DirtyBuffersOf(c) \in SUBSET (0 .. BUFFER_MAX_COUNT - 1)
        /\ BUFFER_MAX_COUNT \in Nat
    BY SizesAssumption DEF DirtyBuffersOf, Buffers
  <2>2. Max(DirtyBuffersOf(c)) \in DirtyBuffersOf(c) BY <1>3, <2>1, MaxInterval
  <2>3. Max(DirtyBuffersOf(c)) \in Buffers
        /\ buffer_block[Max(DirtyBuffersOf(c))] = c
        /\ Max(DirtyBuffersOf(c)) \notin unmarked
    BY <2>2 DEF DirtyBuffersOf, SafeInv, UnmarkedClean
  <2>4. c \notin Loose BY <1>0, <2>3, LooseBuffer
  <2> QED BY <1>0, <1>1, <1>2, <1>3, <2>3, <2>4, ValueInBuffer
<1>4. CASE DirtyBuffersOf(c) = {}
  <2>1. CASE \E b \in Buffers : buffer_block[b] = c
    <3>1. PICK b \in Buffers : buffer_block[b] = c BY <2>1
    <3>2. "Dirty" \notin BufferFlag[b] BY <1>4, <3>1 DEF DirtyBuffersOf
    <3>3. c \notin Loose => buffers[b] = disk[c]
      BY <1>0, <1>2, <3>1, <3>2, LooseBuffer DEF SafeInv, CleanBuffersOnDisk
    <3> QED BY <1>0, <1>1, <1>2, <1>4, <3>1, <3>3, ValueInBuffer
  <2>2. CASE \A b \in Buffers : buffer_block[b] # c
    <3>1. ValueOf(c) = disk[c] BY <2>2, ValueOnDisk
    <3> QED BY <1>1, <1>4, <3>1
  <2> QED BY <2>1, <2>2
<1> QED BY <1>3, <1>4

\* Where the hash can be trusted, the lookup of buffer.c:250-279 finds a block
\* exactly where it is.
THEOREM LookupCorrect == ASSUME HashSafe PROVE Spec => []LookupExact
<1>1. SafeInv => LookupExact BY LookupFromHash DEF SafeInv, TypeInv
<1> QED BY <1>1, SafeInvAlways, PTL

\* There, a buffer that is not dirty may be dropped without a write, but for the
\* inserts that went to another block than their caller loaded.
THEOREM CleanCorrect == ASSUME HashSafe PROVE Spec => []CleanBuffersOnDisk
<1>1. SafeInv => CleanBuffersOnDisk BY DEF SafeInv
<1> QED BY <1>1, SafeInvAlways, PTL

\* There, the buffer index a caller keeps stays bound to its block, and so does a
\* scan's if no two scans read one relation.
THEOREM HandlesCorrect == ASSUME HashSafe PROVE Spec => []HandlesStayBound
<1>1. ASSUME SafeInv PROVE HandlesStayBound
  <2>1. hand \in Handles \cup {NoHandle} BY <1>1 DEF SafeInv, TypeInv, TypeOK
  <2>2. hand.buf \in Buffers => hand # NoHandle
    BY SizesAssumption DEF NoHandle, Buffers, INVALID_BUFFER
  <2>3. hand.buf \in Buffers => buffer_block[hand.buf] = hand.blk
    BY <1>1, <2>2 DEF SafeInv, HandHolds
  <2>4. fallback.buf \in Buffers => buffer_block[fallback.buf] = fallback.blk
    BY <1>1 DEF SafeInv, FallbackHolds
  <2>5. OwnRelations => CursorsStayBound
    BY <1>1 DEF SafeInv, CursorsHold, CursorsStayBound
  <2> QED BY <2>3, <2>4, <2>5 DEF HandlesStayBound
<1> QED BY <1>1, SafeInvAlways, PTL

\* There, an orderly end loses nothing of what the buffers hold, except what an
\* insert put into a buffer that nobody marked.
THEOREM EndCorrect == ASSUME HashSafe PROVE Spec => ShutdownSaves
<1>1. ASSUME SafeInv, BFM_vDestoryBufferManager, NEW blk \in Blocks,
             NEW bp \in Buffers, bp \notin unmarked, buffer_block[bp] = blk
      PROVE  disk'[blk] = buffers[bp]
  <2>1. blk # NoBlock /\ HashInv /\ unmarked \in SUBSET Buffers
    BY <1>1, NoBlockNotBlock DEF SafeInv, TypeInv, TypeOK
  <2>2. ValueOf(buffer_block[bp]) = buffers[bp] BY <1>1, <2>1, ValueInBuffer
  <2>3. blk \notin Loose BY <1>1, <2>1, LooseBuffer
  <2> QED BY <1>1, <2>2, <2>3, EndSaves
<1>2. SafeInv => (BFM_vDestoryBufferManager =>
        \A blk \in Blocks : \A bp \in Buffers \ unmarked :
          buffer_block[bp] = blk => disk'[blk] = buffers[bp])
  BY <1>1
<1> QED BY <1>2, SafeInvAlways, PTL DEF ShutdownSaves

-----------------------------------------------------------------------------
\* Where the hash can be trusted, the buffer manager implements BlockStore.

\* The abstract state: what each variable of BlockStore is here.
HandView == IF hand = NoHandle THEN {} ELSE {<<hand.blk, buffers[hand.buf]>>}
ScanView == [s \in Watched |-> IF cursor[s] = NoHandle THEN {}
                               ELSE {<<cursor[s].blk, buffers[cursor[s].buf]>>}]
ValueView == [blk \in Blocks |-> ValueOf(blk)]

LEMMA WatchedScans == Watched \subseteq Scans /\ (Watched # {} => OwnRelations)
  BY DEF Watched

LEMMA StoreInit == Init => Store!Init
<1> SUFFICES ASSUME Init PROVE Store!Init
  OBVIOUS
<1>1. \A blk \in Blocks : ValueOf(blk) = Zeroed
  BY NoBlockNotBlock DEF Init, ValueOf, Resident
<1>2. ValueView = [blk \in Blocks |-> Zeroed] BY <1>1 DEF ValueView
<1>3. HandView = {} /\ ScanView = [s \in Watched |-> {}]
  BY WatchedScans DEF Init, HandView, ScanView
<1>4. disk = [blk \in Blocks |-> Zeroed] /\ Loose = {} BY DEF Init, Loose
<1> QED BY <1>2, <1>3, <1>4
    DEF Store!Init, ValueView, ValueOf, HandView, ScanView

\* Each action of BlockStore, in the views.
LEMMA StoreBringIn ==
  ASSUME NEW blk, NEW flag, NEW mark, LoadEffect(blk, flag, mark), TypeOK'
  PROVE  Store!BringIn
<1>1. ValueView' = [c \in Blocks |-> IF c \in Loose \ Loose' THEN disk[c]
                                     ELSE ValueView[c]]
  BY DEF LoadEffect, ValueView
<1>2. \A c \in Blocks : disk'[c] \in {disk[c], ValueView'[c]}
  BY DEF LoadEffect, ValueView
<1>3. DOMAIN disk' = Blocks /\ Loose' \subseteq Loose BY DEF TypeOK, LoadEffect
<1> QED BY <1>1, <1>2, <1>3 DEF Store!BringIn, ValueView, ValueOf

LEMMA StoreOpen ==
  ASSUME Store!BringIn, NEW blk \in Blocks, ValueOf(blk) # Zeroed,
         HandView' = {<<blk, ValueOf(blk)'>>}, ScanView' = ScanView
  PROVE  Store!Open(blk)
<1>1. ValueView[blk] = ValueOf(blk) /\ ValueView'[blk] = ValueOf(blk)'
  BY DEF ValueView
<1> QED BY <1>1 DEF Store!Open, ValueView, ValueOf, HandView, ScanView

LEMMA StorePass ==
  ASSUME Store!BringIn, HandView' \in {HandView, {}}, ScanView' = ScanView
  PROVE  Store!Pass
  BY DEF Store!Pass, HandView, ScanView

LEMMA StoreScanTo ==
  ASSUME Store!BringIn, NEW s, NEW blk \in Blocks, ValueOf(blk) # Zeroed,
         ScanView' = [ScanView EXCEPT ![s] = {<<blk, ValueOf(blk)'>>}],
         HandView' = {}
  PROVE  Store!ScanTo(s, blk)
<1>1. ValueView[blk] = ValueOf(blk) /\ ValueView'[blk] = ValueOf(blk)'
  BY DEF ValueView
<1> QED BY <1>1 DEF Store!ScanTo, ValueView, ValueOf, HandView, ScanView

LEMMA StorePut ==
  ASSUME NEW blk \in Blocks, NEW v,
         ValueView' = [ValueView EXCEPT ![blk] = v],
         ScanView' = [s \in Watched |-> IF ScanView[s] = {<<blk, ValueOf(blk)>>}
                                        THEN {<<blk, v>>} ELSE ScanView[s]],
         disk' = disk
  PROVE  Store!Put(blk, v)
<1>1. ValueView[blk] = ValueOf(blk) BY DEF ValueView
<1> QED BY <1>1 DEF Store!Put, Store!Sees, ValueView, ValueOf, HandView, ScanView

LEMMA StoreWrite ==
  ASSUME NEW blk \in Blocks, NEW v, Store!Put(blk, v),
         HandView = {<<blk, ValueOf(blk)>>}, HandView' = {<<blk, v>>},
         Loose' = Loose \ {blk}
  PROVE  Store!Write(blk, v)
<1>1. ValueView[blk] = ValueOf(blk) BY DEF ValueView
<1> QED BY <1>1 DEF Store!Write, Store!Sees, ValueView, ValueOf, HandView

LEMMA StoreSpill ==
  ASSUME NEW full \in Blocks, NEW blk \in Blocks, NEW v, Store!Put(blk, v),
         full # blk, HandView = {<<full, ValueOf(full)>>}, HandView' = HandView,
         Loose' = (Loose \cup {blk}) \ {full}
  PROVE  Store!Spill(full, blk, v)
<1>1. ValueView[full] = ValueOf(full) BY DEF ValueView
<1> QED BY <1>1 DEF Store!Spill, Store!Sees, ValueView, ValueOf, HandView

LEMMA StoreSync ==
  ASSUME NEW blk \in Blocks,
         HandView = {<<blk, ValueOf(blk)>>}, HandView' = {},
         ValueView' = ValueView, ScanView' = ScanView, Loose' = Loose,
         disk' = [disk EXCEPT ![blk] = IF blk \in Loose THEN disk[blk]
                                                        ELSE ValueOf(blk)]
  PROVE  Store!Sync(blk)
<1>1. ValueView[blk] = ValueOf(blk) BY DEF ValueView
<1> QED BY <1>1 DEF Store!Sync, Store!Sees, ValueView, ValueOf, HandView, ScanView

LEMMA StoreAdd ==
  ASSUME NEW blk \in Blocks, ValueOf(blk) = Zeroed,
         HandView' = HandView, ScanView' = ScanView, Loose' = Loose,
         ValueView' = [ValueView EXCEPT ![blk] = Fresh],
         disk' = [disk EXCEPT ![blk] = Fresh]
  PROVE  Store!Add(blk)
<1>1. ValueView[blk] = ValueOf(blk) BY DEF ValueView
<1> QED BY <1>1 DEF Store!Add, ValueView, ValueOf, HandView, ScanView

LEMMA StoreClose ==
  ASSUME disk' = [c \in Blocks |-> IF c \in Loose THEN disk[c] ELSE ValueView[c]],
         ValueView' = disk', Loose' = {},
         HandView' = {}, ScanView' = [s \in Watched |-> {}]
  PROVE  Store!Close
  BY DEF Store!Close, Store!Forget, ValueView, ValueOf, HandView, ScanView

LEMMA StoreCrash ==
  ASSUME disk' = disk, ValueView' = disk', Loose' = {},
         HandView' = {}, ScanView' = [s \in Watched |-> {}]
  PROVE  Store!Crash
  BY DEF Store!Crash, Store!Forget, ValueView, ValueOf, HandView, ScanView

LEMMA StoreStutter ==
  ASSUME disk' = disk, ValueView' = ValueView, HandView' = HandView,
         ScanView' = ScanView, Loose' = Loose
  PROVE  UNCHANGED Store!storeVars
  BY DEF Store!storeVars, ValueView, ValueOf, HandView, ScanView

\* What a client sees through its buffer is the content of its block.
LEMMA HandSeesValue ==
  ASSUME SafeInv, hand # NoHandle
  PROVE  /\ hand.buf \in Buffers /\ hand.blk \in Blocks
         /\ buffer_block[hand.buf] = hand.blk
         /\ buffers[hand.buf] = ValueOf(hand.blk)
         /\ HandView = {<<hand.blk, ValueOf(hand.blk)>>}
<1>1. hand \in Handles BY DEF SafeInv, TypeInv, TypeOK
<1>2. hand.buf \in Buffers /\ hand.blk \in Blocks BY <1>1 DEF Handles
<1>3. buffer_block[hand.buf] = hand.blk BY DEF SafeInv, HandHolds
<1>4. ValueOf(hand.blk) = buffers[hand.buf]
  BY <1>2, <1>3, NoBlockNotBlock, ValueInBuffer DEF SafeInv
<1> QED BY <1>2, <1>3, <1>4 DEF HandView

LEMMA ScanSeesValue ==
  ASSUME SafeInv, NEW s \in Watched, cursor[s] # NoHandle
  PROVE  /\ cursor[s].buf \in Buffers /\ cursor[s].blk \in Blocks
         /\ buffer_block[cursor[s].buf] = cursor[s].blk
         /\ buffer_block[cursor[s].buf] # NoBlock
         /\ "Pin" \in BufferFlag[cursor[s].buf]
         /\ buffers[cursor[s].buf] = ValueOf(cursor[s].blk)
         /\ ScanView[s] = {<<cursor[s].blk, ValueOf(cursor[s].blk)>>}
<1>0. s \in Scans /\ OwnRelations BY WatchedScans
<1>1. cursor[s] \in Handles BY <1>0 DEF SafeInv, TypeInv, TypeOK
<1>2. cursor[s].buf \in Buffers /\ cursor[s].blk \in Blocks BY <1>1 DEF Handles
<1>3. buffer_block[cursor[s].buf] = cursor[s].blk
      /\ "Pin" \in BufferFlag[cursor[s].buf]
  BY <1>0 DEF SafeInv, CursorsHold
<1>4. ValueOf(cursor[s].blk) = buffers[cursor[s].buf]
  BY <1>2, <1>3, NoBlockNotBlock, ValueInBuffer DEF SafeInv
<1> QED BY <1>2, <1>3, <1>4, NoBlockNotBlock DEF ScanView

LEMMA ExistingValue ==
  ASSUME SafeInv, NEW blk \in Blocks, Exists(blk)
  PROVE  ValueOf(blk) # Zeroed
<1>1. CASE \E bp \in Buffers : buffer_block[bp] = blk
  <2>1. PICK bp \in Buffers : buffer_block[bp] = blk BY <1>1
  <2> QED BY <2>1, NoBlockNotBlock, ValueInBuffer DEF SafeInv, BoundExists
<1>2. CASE \A bp \in Buffers : buffer_block[bp] # blk
  BY <1>2, ValueOnDisk DEF Exists
<1> QED BY <1>1, <1>2

\* After a load the client sees its block's content, and the scans whose buffers
\* are pinned see what they saw.
LEMMA LoadView ==
  ASSUME SafeInv, HashInv', NEW blk \in Blocks, NEW flag, NEW mark,
         LoadEffect(blk, flag, mark)
  PROVE  /\ buffers'[LoadTarget(blk, flag)] = ValueOf(blk)'
         /\ \A s \in Watched : cursor[s] # NoHandle /\ "Pin" \in flag[cursor[s].buf]
              => buffers'[cursor[s].buf] = buffers[cursor[s].buf]
<1>1. LoadTarget(blk, flag) \in Buffers
      /\ buffer_block'[LoadTarget(blk, flag)] = blk
  BY DEF LoadEffect
<1>2. buffers'[LoadTarget(blk, flag)] = ValueOf(blk)'
  BY <1>1, NoBlockNotBlock, ValueInBufferNext
<1>3. \A s \in Watched : cursor[s] # NoHandle /\ "Pin" \in flag[cursor[s].buf]
        => buffers'[cursor[s].buf] = buffers[cursor[s].buf]
  BY ScanSeesValue DEF LoadEffect
<1> QED BY <1>2, <1>3

\* A load that is not a scan's.
LEMMA LoadShowsScans ==
  ASSUME SafeInv, HashInv', NEW blk \in Blocks, LoadEffect(blk, BufferFlag, {}),
         cursor' = cursor
  PROVE  ScanView' = ScanView
<1>1. \A s \in Watched : cursor[s] # NoHandle
        => buffers'[cursor[s].buf] = buffers[cursor[s].buf]
  BY LoadView, ScanSeesValue
<1> QED BY <1>1 DEF ScanView, Watched, OwnRelations

\* A load for scan s moves that scan; where two scans share a relation the store
\* promises nothing of scans, and the load is one more that passes.
LEMMA ScanLoadRefines ==
  ASSUME HashSafe, SafeInv, TypeInv', NEW s \in Scans, NEW blk \in Blocks,
         NEW flag, FlagsOf(flag),
         OwnRelations => \A t \in Scans : t # s /\ cursor[t] # NoHandle
                                            => "Pin" \in flag[cursor[t].buf],
         Load(blk, flag, {"Pin"}), hand' = NoHandle,
         cursor' = [cursor EXCEPT ![s] = [buf |-> LoadTarget(blk, flag), blk |-> blk]]
  PROVE  Store!Next
<1>1. LoadEffect(blk, flag, {"Pin"}) /\ HashInv' BY LoadHasEffect
<1>2. ValueOf(blk) # Zeroed BY ExistingValue DEF Load
<1>3. cursor \in [Scans -> Handles \cup {NoHandle}] BY DEF SafeInv, TypeInv, TypeOK
<1>4. LoadTarget(blk, flag) \in Buffers /\ LoadTarget(blk, flag) # INVALID_BUFFER
  BY <1>1, SizesAssumption DEF LoadEffect, Buffers, INVALID_BUFFER
<1>5. Store!BringIn BY <1>1, StoreBringIn DEF TypeInv
<1>6. HandView' = {} BY DEF HandView
<1>7. CASE OwnRelations
  <2>0. Watched = Scans BY <1>7 DEF Watched
  <2>1. ASSUME NEW t \in Watched
        PROVE  (IF cursor'[t] = NoHandle THEN {}
                ELSE {<<cursor'[t].blk, buffers'[cursor'[t].buf]>>})
               = IF t = s THEN {<<blk, ValueOf(blk)'>>} ELSE ScanView[t]
    <3>2. CASE t = s
      <4>1. cursor'[t] = [buf |-> LoadTarget(blk, flag), blk |-> blk]
        BY <1>3, <3>2
      <4>2. cursor'[t] # NoHandle BY <1>4, <4>1 DEF NoHandle
      <4>3. buffers'[LoadTarget(blk, flag)] = ValueOf(blk)' BY <1>1, LoadView
      <4> QED BY <3>2, <4>1, <4>2, <4>3
    <3>3. CASE t # s
      <4>1. cursor'[t] = cursor[t] BY <1>3, <2>0, <3>3
      <4>2. cursor[t] # NoHandle => buffers'[cursor[t].buf] = buffers[cursor[t].buf]
        BY <1>1, <1>7, <2>0, <3>3, LoadView
      <4> QED BY <3>3, <4>1, <4>2 DEF ScanView
    <3> QED BY <3>2, <3>3
  <2>2. ScanView' = [t \in Watched |-> IF t = s THEN {<<blk, ValueOf(blk)'>>}
                                       ELSE ScanView[t]]
    BY <2>1 DEF ScanView, Watched, OwnRelations
  <2>3. ScanView' = [ScanView EXCEPT ![s] = {<<blk, ValueOf(blk)'>>}]
    BY <2>2 DEF ScanView
  <2>4. Store!ScanTo(s, blk) BY <1>2, <1>5, <1>6, <2>3, StoreScanTo
  <2> QED BY <2>0, <2>4 DEF Store!Next
<1>8. CASE ~ OwnRelations
  <2>1. Watched = {} BY <1>8 DEF Watched
  <2>2. ScanView' = ScanView BY <2>1 DEF ScanView, Watched, OwnRelations
  <2>3. Store!Pass BY <1>5, <1>6, <2>2, StorePass
  <2> QED BY <2>3 DEF Store!Next
<1> QED BY <1>7, <1>8

\* A buffer bp that holds block blk gets the content v.
LEMMA ChangeRefines ==
  ASSUME SafeInv, HashInv', NEW bp \in Buffers, NEW blk \in Blocks, NEW v,
         buffer_block[bp] = blk, buffers' = [buffers EXCEPT ![bp] = v],
         UNCHANGED <<buffer_block, disk, cursor>>
  PROVE  /\ Store!Put(blk, v) /\ buffers'[bp] = v
         /\ \A b \in Buffers : b # bp => buffers'[b] = buffers[b]
<1>1. HashInv /\ buffers \in [Buffers -> Contents] BY DEF SafeInv, TypeInv, TypeOK
<1>2. buffers[bp] = ValueOf(blk) /\ blk # NoBlock
  BY <1>1, NoBlockNotBlock, ValueInBuffer
<1>3. \A b \in Buffers : b # bp => buffers'[b] = buffers[b] BY <1>1
<1>4. buffers'[bp] = v BY <1>1
<1>5. ValueView' = [ValueView EXCEPT ![blk] = v]
  <2>1. ASSUME NEW c \in Blocks
        PROVE  ValueOf(c)' = IF c = blk THEN v ELSE ValueOf(c)
    <3>1. CASE c = blk BY <1>2, <1>4, <3>1, ValueInBufferNext
    <3>2. CASE c # blk /\ \E b \in Buffers : buffer_block[b] = c
      <4>1. PICK b \in Buffers : buffer_block[b] = c BY <3>2
      <4>2. b # bp /\ c # NoBlock BY <3>2, <4>1, NoBlockNotBlock
      <4>3. ValueOf(c) = buffers[b] BY <1>1, <4>1, <4>2, ValueInBuffer
      <4>4. ValueOf(c)' = buffers'[b] BY <4>1, <4>2, ValueInBufferNext
      <4> QED BY <1>3, <3>2, <4>2, <4>3, <4>4
    <3>3. CASE c # blk /\ \A b \in Buffers : buffer_block[b] # c
      BY <3>3 DEF ValueOf, Resident
    <3> QED BY <3>1, <3>2, <3>3
  <2> QED BY <2>1 DEF ValueView
<1>6. ScanView' = [s \in Watched |-> IF ScanView[s] = {<<blk, ValueOf(blk)>>}
                                     THEN {<<blk, v>>} ELSE ScanView[s]]
  <2>1. ASSUME NEW s \in Watched
        PROVE  (IF cursor[s] = NoHandle THEN {}
                ELSE {<<cursor[s].blk, buffers'[cursor[s].buf]>>})
               = IF ScanView[s] = {<<blk, ValueOf(blk)>>}
                 THEN {<<blk, v>>} ELSE ScanView[s]
    <3>1. CASE cursor[s] = NoHandle BY <3>1 DEF ScanView
    <3>2. CASE cursor[s] # NoHandle
      <4>1. /\ cursor[s].buf \in Buffers
            /\ buffer_block[cursor[s].buf] = cursor[s].blk
            /\ buffers[cursor[s].buf] = ValueOf(cursor[s].blk)
            /\ ScanView[s] = {<<cursor[s].blk, ValueOf(cursor[s].blk)>>}
        BY <3>2, ScanSeesValue
      <4>2. CASE cursor[s].blk = blk
        <5>1. cursor[s].buf = bp
          BY <1>1, <1>2, <4>1, <4>2 DEF HashInv, HashGood, SingleCopy
        <5> QED BY <1>4, <3>2, <4>1, <4>2, <5>1
      <4>3. CASE cursor[s].blk # blk
        <5>1. cursor[s].buf # bp BY <4>1, <4>3
        <5>2. ScanView[s] # {<<blk, ValueOf(blk)>>}
          <6>1. SUFFICES ASSUME {<<cursor[s].blk, ValueOf(cursor[s].blk)>>} =
                                {<<blk, ValueOf(blk)>>}
                         PROVE  FALSE
            BY <4>1
          <6>2. <<cursor[s].blk, ValueOf(cursor[s].blk)>> = <<blk, ValueOf(blk)>>
            BY <6>1, Zenon
          <6> QED BY <4>3, <6>2
        <5>3. buffers'[cursor[s].buf] = ValueOf(cursor[s].blk)
          BY <1>3, <4>1, <5>1
        <5> QED BY <3>2, <4>1, <5>2, <5>3
      <4> QED BY <4>2, <4>3
    <3> QED BY <3>1, <3>2
  <2> QED BY <2>1 DEF ScanView, Watched, OwnRelations
<1>7. Store!Put(blk, v) BY <1>5, <1>6, StorePut
<1> QED BY <1>3, <1>4, <1>7

\* The blocks that are loose follow the buffers that are unmarked.
LEMMA LooseLess ==
  ASSUME SafeInv, NEW bp \in Buffers, buffer_block[bp] \in Blocks,
         buffer_block' = buffer_block, unmarked' = unmarked \ {bp}
  PROVE  Loose' = Loose \ {buffer_block[bp]}
<1>1. unmarked \in SUBSET Buffers
      /\ \A b \in Buffers : buffer_block[b] = buffer_block[bp] => b = bp
  BY NoBlockNotBlock
     DEF SafeInv, TypeInv, TypeOK, HashInv, HashGood, SingleCopy
<1> QED BY <1>1 DEF Loose

LEMMA LooseMore ==
  ASSUME SafeInv, NEW bp \in Buffers, buffer_block[bp] \in Blocks,
         NEW other \in Buffers, other # bp, buffer_block[other] \in Blocks,
         buffer_block' = buffer_block,
         unmarked' = (unmarked \cup {bp}) \ {other}
  PROVE  Loose' = (Loose \cup {buffer_block[bp]}) \ {buffer_block[other]}
<1>1. unmarked \in SUBSET Buffers
      /\ buffer_block[bp] # buffer_block[other]
      /\ \A b \in Buffers : buffer_block[b] = buffer_block[other] => b = other
  BY NoBlockNotBlock
     DEF SafeInv, TypeInv, TypeOK, HashInv, HashGood, SingleCopy
<1> QED BY <1>1 DEF Loose

LEMMA StoreStep ==
  ASSUME HashSafe, SafeInv, SafeInv', [Next]_vars
  PROVE  [Store!Next]_(Store!storeVars)
<1>a. TypeInv /\ TypeOK /\ HashInv BY DEF SafeInv, TypeInv
<1>b. TypeInv' /\ TypeOK' /\ HashInv' BY DEF SafeInv, TypeInv
<1>c. /\ buffer_block \in [Buffers -> Blocks \cup {NoBlock}]
      /\ buffers \in [Buffers -> Contents] /\ disk \in [Blocks -> Contents]
      /\ BufferFlag \in [Buffers -> SUBSET Flags]
      /\ cursor \in [Scans -> Handles \cup {NoHandle}]
  BY <1>a DEF TypeOK
<1>1. CASE UNCHANGED <<pool, disk, hand, cursor, unmarked>>
  <2>1. UNCHANGED <<buffer_block, buffers, disk, hand, cursor, unmarked>>
    BY <1>1 DEF pool
  <2>2. ValueView' = ValueView /\ HandView' = HandView /\ ScanView' = ScanView
        /\ Loose' = Loose
    BY <2>1 DEF ValueView, ValueOf, Resident, HandView, ScanView, Loose, Watched,
                OwnRelations
  <2> QED BY <2>1, <2>2, StoreStutter
<1>2. ASSUME NEW blk \in Blocks, LoadBlock(blk) PROVE Store!Open(blk)
  <2>1. Load(blk, BufferFlag, {}) /\ cursor' = cursor
        /\ hand' = [buf |-> LoadTarget(blk, BufferFlag), blk |-> blk]
    BY <1>2 DEF LoadBlock
  <2>2. LoadEffect(blk, BufferFlag, {})
    BY <1>a, <2>1, LoadHasEffect, AllFlags
  <2>3. ScanView' = ScanView BY <1>b, <2>1, <2>2, LoadShowsScans
  <2>4. HandView' = {<<blk, ValueOf(blk)'>>}
    <3>1. hand' # NoHandle
      <4>1. LoadTarget(blk, BufferFlag) # INVALID_BUFFER
        BY <2>2, SizesAssumption DEF LoadEffect, Buffers, INVALID_BUFFER
      <4> QED BY <2>1, <4>1 DEF NoHandle
    <3>2. buffers'[LoadTarget(blk, BufferFlag)] = ValueOf(blk)'
      BY <1>b, <2>2, LoadView
    <3> QED BY <2>1, <3>1, <3>2 DEF HandView
  <2>5. ValueOf(blk) # Zeroed BY <2>1, ExistingValue DEF Load
  <2> QED BY <1>b, <2>2, <2>3, <2>4, <2>5, StoreBringIn, StoreOpen
<1>3. ASSUME NEW v \in Vals \ {Fresh}, ModifyBlock(v)
      PROVE  \E blk \in Blocks : Store!Write(blk, v)
  <2>a. hand # NoHandle /\ hand.buf \in Buffers /\ hand.blk \in Blocks
    BY <1>3, HandSeesValue DEF ModifyBlock
  <2>b. PICK bp \in Buffers, blk \in Blocks : bp = hand.buf /\ blk = hand.blk
    BY <2>a
  <2>1. /\ buffers' = [buffers EXCEPT ![bp] = v]
        /\ unmarked' = unmarked \ {bp}
        /\ UNCHANGED <<buffer_block, disk, hand, cursor>>
    BY <1>3, <2>b DEF ModifyBlock
  <2>2. buffer_block[bp] = blk /\ HandView = {<<blk, ValueOf(blk)>>}
    BY <2>a, <2>b, HandSeesValue
  <2>3. Store!Put(blk, v) /\ buffers'[bp] = v
    BY <1>b, <2>1, <2>2, ChangeRefines
  <2>4. HandView' = {<<blk, v>>} BY <2>a, <2>b, <2>1, <2>3 DEF HandView
  <2>5. Loose' = Loose \ {blk} BY <2>1, <2>2, LooseLess
  <2>6. Store!Write(blk, v) BY <2>2, <2>3, <2>4, <2>5, StoreWrite
  <2> QED BY <2>6
<1>4. CASE BFM_vFlushBuffer
  <2>1. hand # NoHandle /\ disk' = FlushedDisk(hand.buf) /\ hand' = NoHandle
        /\ UNCHANGED <<buffer_block, buffers, cursor, unmarked>>
    BY <1>4 DEF BFM_vFlushBuffer
  <2>a. hand.buf \in Buffers /\ hand.blk \in Blocks BY <2>1, HandSeesValue
  <2>b. PICK bp \in Buffers, blk \in Blocks : bp = hand.buf /\ blk = hand.blk
    BY <2>a
  <2>2. buffer_block[bp] = blk
        /\ buffers[bp] = ValueOf(blk) /\ HandView = {<<blk, ValueOf(blk)>>}
    BY <2>b, <2>1, HandSeesValue
  <2>3. HandView' = {} /\ ScanView' = ScanView /\ Loose' = Loose
    BY <2>1 DEF HandView, ScanView, Loose, Watched, OwnRelations
  <2>4. blk # NoBlock /\ (blk \in Loose <=> bp \in unmarked)
    BY <1>a, <2>2, NoBlockNotBlock, LooseBuffer DEF TypeOK
  <2>5. disk' = [disk EXCEPT ![blk] = IF blk \in Loose THEN disk[blk]
                                                       ELSE ValueOf(blk)]
    <3>1. CASE "Dirty" \in BufferFlag[bp]
      <4>1. bp \notin unmarked BY <3>1 DEF SafeInv, UnmarkedClean
      <4> QED BY <2>1, <2>b, <2>2, <2>4, <3>1, <4>1 DEF FlushedDisk
    <3>2. CASE "Dirty" \notin BufferFlag[bp]
      <4>1. disk' = disk BY <2>1, <2>b, <3>2 DEF FlushedDisk
      <4>2. bp \notin unmarked => disk[blk] = ValueOf(blk)
        BY <2>2, <2>4, <3>2 DEF SafeInv, CleanBuffersOnDisk
      <4> QED BY <1>c, <2>4, <4>1, <4>2
    <3> QED BY <3>1, <3>2
  <2>6. ValueView' = ValueView
    <3>1. ASSUME NEW c \in Blocks PROVE ValueOf(c)' = ValueOf(c)
      <4>1. CASE \E b \in Buffers : buffer_block[b] = c
        BY <2>1, <4>1 DEF ValueOf, Resident
      <4>2. CASE \A b \in Buffers : buffer_block[b] # c
        <5>1. c # blk BY <2>2, <4>2
        <5>2. disk'[c] = disk[c] BY <1>c, <2>5, <5>1
        <5> QED BY <2>1, <4>2, <5>2 DEF ValueOf, Resident
      <4> QED BY <4>1, <4>2
    <3> QED BY <3>1 DEF ValueView
  <2>7. Store!Sync(blk) BY <2>2, <2>3, <2>5, <2>6, StoreSync
  <2> QED BY <2>7 DEF Store!Next
<1>5. ASSUME NEW blk \in Blocks, AppendNewBlock(blk) PROVE Store!Add(blk)
  <2>1. disk' = [disk EXCEPT ![blk] = Fresh]
        /\ UNCHANGED <<buffer_block, buffers, hand, cursor, unmarked>>
        /\ disk[blk] = Zeroed
    BY <1>5 DEF AppendNewBlock, Exists, pool
  <2>a. \A b \in Buffers : buffer_block[b] # blk
    BY <2>1, NoBlockNotBlock DEF SafeInv, BoundExists
  <2>2. ValueOf(blk) = Zeroed BY <2>1, <2>a, ValueOnDisk
  <2>3. HandView' = HandView /\ ScanView' = ScanView /\ Loose' = Loose
    BY <2>1 DEF HandView, ScanView, Loose, Watched, OwnRelations
  <2>4. ASSUME NEW c \in Blocks
        PROVE  ValueOf(c)' = IF c = blk THEN Fresh ELSE ValueOf(c)
    <3>1. CASE c = blk BY <1>c, <2>1, <2>a, <3>1 DEF ValueOf, Resident
    <3>2. CASE c # blk
      <4>1. disk'[c] = disk[c] BY <1>c, <2>1, <3>2
      <4> QED BY <2>1, <3>2, <4>1 DEF ValueOf, Resident
    <3> QED BY <3>1, <3>2
  <2>5. ValueView' = [ValueView EXCEPT ![blk] = Fresh] BY <2>4 DEF ValueView
  <2> QED BY <2>1, <2>2, <2>3, <2>5, StoreAdd
\* If the clock takes the caller's buffer for the fallback, that is what the
\* caller sees from then on.
<1>13. CASE LoadFallback
  <2>a. fallback \in Handles \cup [buf : {INVALID_BUFFER}, blk : Blocks]
    BY <1>a, <1>13 DEF LoadFallback, TypeOK
  <2>b. fallback.blk \in Blocks BY <2>a DEF Handles
  <2>c. PICK blk \in Blocks : blk = fallback.blk BY <2>b
  <2> DEFINE bp == LoadTarget(blk, BufferFlag)
             new == [buf |-> bp, blk |-> blk]
  <2>1. Load(blk, BufferFlag, {}) /\ cursor' = cursor
        /\ hand' = (IF bp = hand.buf THEN new ELSE hand)
        /\ fallback # NoHandle
    BY <1>13, <2>c DEF LoadFallback
  <2> HIDE DEF bp
  <2>2. LoadEffect(blk, BufferFlag, {}) BY <1>a, <2>1, LoadHasEffect, AllFlags
  <2>3. ScanView' = ScanView BY <1>b, <2>1, <2>2, LoadShowsScans
  <2>4. Store!BringIn BY <1>b, <2>2, StoreBringIn
  <2>5. hand # NoHandle BY <1>a, <2>1 DEF TypeInv, HandHeld
  <2>6. bp \in Buffers /\ bp # INVALID_BUFFER
    BY <2>2, SizesAssumption DEF LoadEffect, Buffers, INVALID_BUFFER, bp
  <2>7. CASE bp = hand.buf
    <3>1. hand' = new /\ new # NoHandle BY <2>1, <2>6, <2>7 DEF NoHandle
    <3>2. buffers'[bp] = ValueOf(blk)' BY <1>b, <2>2, LoadView DEF bp
    <3>3. HandView' = {<<blk, ValueOf(blk)'>>} BY <3>1, <3>2 DEF HandView
    <3>4. ValueOf(blk) # Zeroed BY <2>1, ExistingValue DEF Load
    <3>5. Store!Open(blk) BY <2>3, <2>4, <3>3, <3>4, StoreOpen
    <3> QED BY <3>5 DEF Store!Next
  <2>8. CASE bp # hand.buf
    <3>1. hand' = hand BY <2>1, <2>8
    <3>2. hand.buf \in Buffers BY <2>5, HandSeesValue
    <3>3. buffers'[hand.buf] = buffers[hand.buf] BY <2>2, <2>8, <3>2 DEF LoadEffect, bp
    <3>4. HandView' = HandView BY <3>1, <3>3 DEF HandView
    <3>5. Store!Pass BY <2>3, <2>4, <3>4, StorePass
    <3> QED BY <3>5 DEF Store!Next
  <2> QED BY <2>7, <2>8
<1>14. ASSUME NEW v \in Vals \ {Fresh}, InsertElsewhere(v) PROVE Store!Next
  <2>a. fallback # NoHandle /\ fallback.buf # INVALID_BUFFER
    BY <1>14 DEF InsertElsewhere
  <2>b. fallback \in Handles BY <1>a, <2>a DEF TypeOK
  <2>c. fallback.buf \in Buffers /\ fallback.blk \in Blocks BY <2>b DEF Handles
  <2>d. hand # NoHandle BY <1>a, <2>a DEF TypeInv, HandHeld
  <2>e. hand.buf \in Buffers /\ hand.blk \in Blocks BY <2>d, HandSeesValue
  <2>f. PICK bp \in Buffers, blk \in Blocks : bp = fallback.buf /\ blk = fallback.blk
    BY <2>c
  <2>g. PICK other \in Buffers, full \in Blocks : other = hand.buf /\ full = hand.blk
    BY <2>e
  <2>1. /\ buffers' = [buffers EXCEPT ![bp] = v]
        /\ unmarked' = (unmarked \cup {bp}) \ {other}
        /\ UNCHANGED <<buffer_block, disk, hand, cursor>>
    BY <1>14, <2>f, <2>g DEF InsertElsewhere
  <2>2. buffer_block[bp] = blk BY <2>c, <2>f DEF SafeInv, FallbackHolds
  <2>3. buffer_block[other] = full /\ HandView = {<<full, ValueOf(full)>>}
    BY <2>d, <2>g, HandSeesValue
  <2>4. /\ Store!Put(blk, v) /\ buffers'[bp] = v
        /\ \A b \in Buffers : b # bp => buffers'[b] = buffers[b]
    BY <1>b, <2>1, <2>2, ChangeRefines
  <2>5. CASE bp = other
    <3>1. full = blk BY <2>2, <2>3, <2>5
    <3>2. HandView' = {<<blk, v>>} BY <2>d, <2>g, <2>1, <2>4, <2>5, <3>1 DEF HandView
    <3>3. unmarked' = unmarked \ {bp} BY <2>1, <2>5
    <3>4. Loose' = Loose \ {blk} BY <2>1, <2>2, <3>3, LooseLess
    <3>5. Store!Write(blk, v) BY <2>3, <2>4, <3>1, <3>2, <3>4, StoreWrite
    <3> QED BY <3>5 DEF Store!Next
  <2>6. CASE bp # other
    <3>1. full # blk
      BY <1>a, <2>2, <2>3, <2>6, NoBlockNotBlock DEF HashInv, HashGood, SingleCopy
    <3>2. HandView' = HandView BY <2>g, <2>1, <2>4, <2>6 DEF HandView
    <3>3. Loose' = (Loose \cup {blk}) \ {full}
      BY <2>1, <2>2, <2>3, <2>6, LooseMore
    <3>4. Store!Spill(full, blk, v)
      BY <2>3, <2>4, <3>1, <3>2, <3>3, StoreSpill
    <3> QED BY <3>4 DEF Store!Next
  <2> QED BY <2>5, <2>6
<1>6. ASSUME NEW s \in Scans, ScanOpen(s) PROVE Store!Next
  <2> DEFINE blk == [rid |-> ScanRel[s], bnum |-> 0]
  <2>1. blk \in Blocks BY ScansAssumption, SizesAssumption DEF Blocks
  <2>2. Load(blk, BufferFlag, {"Pin"}) /\ hand' = NoHandle
        /\ cursor' = [cursor EXCEPT ![s] =
                        [buf |-> LoadTarget(blk, BufferFlag), blk |-> blk]]
    BY <1>6 DEF ScanOpen
  <2> HIDE DEF blk
  <2>3. OwnRelations => \A t \in Scans : t # s /\ cursor[t] # NoHandle
          => "Pin" \in BufferFlag[cursor[t].buf]
    BY DEF SafeInv, CursorsHold
  <2>4. FlagsOf(BufferFlag) BY <1>a, AllFlags
  <2> QED BY <1>b, <2>1, <2>2, <2>3, <2>4, ScanLoadRefines
<1>7. ASSUME NEW s \in Scans, ScanAdvance(s) PROVE Store!Next
  <2> DEFINE next == [rid |-> ScanRel[s], bnum |-> cursor[s].blk.bnum + 1]
  <2>a. next \in Blocks
        /\ FlagsOf([BufferFlag EXCEPT ![cursor[s].buf] = @ \ {"Pin"}])
    BY <1>a, <1>7, FlagsWithoutOwnPin DEF ScanAdvance
  <2>b. PICK blk \in Blocks : blk = next BY <2>a
  <2>c. PICK flag : flag = [BufferFlag EXCEPT ![cursor[s].buf] = @ \ {"Pin"}]
    OBVIOUS
  <2>1. Load(blk, flag, {"Pin"}) /\ hand' = NoHandle /\ cursor[s] # NoHandle
        /\ cursor' = [cursor EXCEPT ![s] = [buf |-> LoadTarget(blk, flag), blk |-> blk]]
    BY <1>7, <2>b, <2>c DEF ScanAdvance
  <2>2. FlagsOf(flag) BY <2>a, <2>c
  <2>3. OwnRelations => \A t \in Scans : t # s /\ cursor[t] # NoHandle
          => "Pin" \in flag[cursor[t].buf]
    BY <2>1, <2>c, OtherScansPinned
  <2> QED BY <1>b, <2>1, <2>2, <2>3, ScanLoadRefines
<1>8. ASSUME LosePool
      PROVE  /\ HandView' = {} /\ ScanView' = [s \in Watched |-> {}]
             /\ ValueView' = disk' /\ Loose' = {}
  <2>1. buffer_block' = [bp \in Buffers |-> NoBlock] /\ unmarked' = {}
        /\ hand' = NoHandle /\ cursor' = [s \in Scans |-> NoHandle]
    BY <1>8 DEF LosePool
  <2>2. \A c \in Blocks : ValueOf(c)' = disk'[c]
    BY <2>1, NoBlockNotBlock DEF ValueOf, Resident
  <2>3. ValueView' = [c \in Blocks |-> disk'[c]] BY <2>2 DEF ValueView
  <2>4. disk' \in [Blocks -> Contents] BY <1>b DEF TypeOK
  <2>5. ScanView' = [s \in Watched |-> {}]
    BY <2>1, WatchedScans DEF ScanView, Watched, OwnRelations
  <2> QED BY <2>1, <2>3, <2>4, <2>5 DEF HandView, Loose
<1>9. CASE BFM_vDestoryBufferManager
  <2>1. \A c \in Blocks : disk'[c] = IF c \in Loose THEN disk[c] ELSE ValueOf(c)
    BY <1>9, EndSaves
  <2>2. disk' = [c \in Blocks |-> IF c \in Loose THEN disk[c] ELSE ValueView[c]]
    <3>1. disk' \in [Blocks -> Contents] BY <1>b DEF TypeOK
    <3> QED BY <2>1, <3>1 DEF ValueView
  <2>3. Store!Close
    BY <1>8, <1>9, <2>2, StoreClose DEF BFM_vDestoryBufferManager
  <2> QED BY <2>3 DEF Store!Next
<1>10. CASE Crash
  <2>1. LosePool /\ disk' = disk BY <1>10 DEF Crash
  <2>2. Store!Crash BY <1>8, <2>1, StoreCrash
  <2> QED BY <2>2 DEF Store!Next
<1>11. ASSUME NEW v \in Vals \ {Fresh}, ModifyBlock(v) PROVE Store!Next
  <2>1. PICK blk \in Blocks : Store!Write(blk, v) BY <1>3, <1>11
  <2> QED BY <2>1 DEF Store!Next
<1>12. Store!Next \/ UNCHANGED Store!storeVars
  BY <1>1, <1>2, <1>4, <1>5, <1>6, <1>7, <1>9, <1>10, <1>11, <1>13, <1>14
     DEF Next, BFM_CreateBufferManager, vars, Store!Next
<1> QED BY <1>12

\* Where the hash can be trusted, clients of the buffer manager see one store of
\* blocks: block.c:65-68, a load yields the content of the given block, through
\* evictions, flushes, restarts and (for what was flushed) crashes, except that
\* what an insert spilled (block.c:154-165) may be forgotten.
THEOREM Refinement == ASSUME HashSafe PROVE Spec => StoreSpec
<1>1. ASSUME SafeInv, SafeInv', [Next]_vars PROVE [Store!Next]_(Store!storeVars)
  BY <1>1, StoreStep
<1> QED BY <1>1, StoreInit, SafeInvAlways, PTL DEF Spec, StoreSpec, Store!Spec
=============================================================================
