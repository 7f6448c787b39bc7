------------------------------ MODULE JoinProofs ------------------------------
(***************************************************************************)
(* Proofs about the nested loop join and about the temporary file that     *)
(* keeps its outer rows.                                                   *)
(*                                                                         *)
(* The join returns the pairs it should, keeps its outer rows and asks no  *)
(* child again that has ended, for every number of rows and every size of  *)
(* the inner array. Where the join stands, at an outer row and a position  *)
(* in the array, is a number of pairs of the list that the loops go        *)
(* through; it has returned the selected ones of those pairs.              *)
(*                                                                         *)
(* The temporary file has its types, and implements ByteFile, for every    *)
(* size of the buffer.                                                     *)
(***************************************************************************)
EXTENDS NestLoopJoin, TempFile, InductionFacts, SequenceTheorems, TLAPS

Inner == 1 .. MaxInner
Outer == 1 .. MaxOuter
Children(S) == [left : Seq(S), ended : BOOLEAN, again : BOOLEAN]
States == [outerTuple : Outer \cup {NULL}, isFirstLoop : BOOLEAN, isLastLoop : BOOLEAN,
           innerArray : Seq(Inner), innerPos : Nat, tmf : Seq(Outer \cup {NULL}),
           projected : BOOLEAN, bytes : Outer \cup {NULL},
           inner : Children(Inner), outer : Children(Outer)]

\* What holds of a join j whose outer rows are given as rows.
Keeps(j, rows) ==
  /\ j \in States
  /\ ~j.projected => j.tmf \o j.outer.left = rows
  /\ ~j.inner.again /\ ~j.outer.again
  /\ j.inner.ended => j.isLastLoop

\* An open join can still ask for outer rows, and before the first one it can
\* ask for inner rows.
CanAsk(j) ==
  /\ ~j.outer.ended
  /\ j.outerTuple = NULL => ~j.inner.ended

JoinInv == Keeps(nestloop, given.outer) /\ (status = "open" => CanAsk(nestloop))

-----------------------------------------------------------------------------
\* Taking the first element of a sequence and appending it to another leaves
\* their concatenation as it is.
LEMMA MoveHead ==
  ASSUME NEW S, NEW s \in Seq(S), NEW t \in Seq(S), t # <<>>
  PROVE  /\ Head(t) \in S
         /\ SubSeq(t, 2, Len(t)) \in Seq(S)
         /\ Append(s, Head(t)) \in Seq(S)
         /\ Append(s, Head(t)) \o SubSeq(t, 2, Len(t)) = s \o t
<1> DEFINE u == SubSeq(t, 2, Len(t))
<1>1. Len(t) \in Nat \ {0} /\ t[1] \in S BY EmptySeq
<1>2. 1 \in 1 .. Len(t) /\ Len(t) \in 1 .. Len(t) BY <1>1
<1>3. SubSeq(t, 1, Len(t)) = <<t[1]>> \o SubSeq(t, 1 + 1, Len(t))
  BY <1>2, SubSeqRecursiveFirst
<1>4. t = <<t[1]>> \o u
  <2>1. SubSeq(t, 1, Len(t)) = t BY SubSeqFull
  <2>2. 1 + 1 = 2 OBVIOUS
  <2> QED BY <1>3, <2>1, <2>2
<1>5. Head(t) = t[1] BY <1>1
<1>6. u \in Seq(S) /\ <<t[1]>> \in Seq(S) BY <1>1
<1>7. Append(s, t[1]) \in Seq(S) /\ Append(s, t[1]) = s \o <<t[1]>>
  BY <1>1, AppendProperties, AppendIsConcat
<1> HIDE DEF u
<1>8. (s \o <<t[1]>>) \o u = s \o (<<t[1]>> \o u) BY <1>6, ConcatAssociative
<1>9. Append(s, t[1]) \o u = s \o t
  <2>1. s \o (<<t[1]>> \o u) = s \o t BY <1>4
  <2> QED BY <1>7, <1>8, <2>1
<1> QED BY <1>1, <1>5, <1>6, <1>7, <1>9 DEF u

\* Fetching an outer row keeps the rows, and the child has not ended if there is one.
LEMMA OuterFetched ==
  ASSUME NEW j, NEW rows, Keeps(j, rows), ~j.outer.ended
  PROVE  LET k == NestLoop_GetOuter(j)
         IN  /\ Keeps(k, rows)
             /\ k.outerTuple # NULL => ~k.outer.ended
             /\ k.inner = j.inner /\ k.isLastLoop = j.isLastLoop
<1>1. CASE j.outer.left = <<>>
  BY <1>1 DEF NestLoop_GetOuter, Keeps, States, Children, Exhausted
<1>2. CASE j.outer.left # <<>>
  <2>1. /\ j.tmf \in Seq(Outer \cup {NULL})
        /\ j.outer.left \in Seq(Outer) /\ j.outer.left \in Seq(Outer \cup {NULL})
    BY DEF Keeps, States, Children
  <2>2. /\ Head(j.outer.left) \in Outer
        /\ SubSeq(j.outer.left, 2, Len(j.outer.left)) \in Seq(Outer)
        /\ Append(j.tmf, Head(j.outer.left)) \o SubSeq(j.outer.left, 2, Len(j.outer.left))
             = j.tmf \o j.outer.left
    BY <2>1, <1>2, MoveHead
  <2> DEFINE row  == Head(j.outer.left)
             saved == Append(j.tmf, BytesOf(j, row))
             rest == SubSeq(j.outer.left, 2, Len(j.outer.left))
             child == Took(j.outer, 1)
  <2>3. NestLoop_GetOuter(j) = [j EXCEPT !.outerTuple = row, !.outer = child, !.tmf = saved]
    BY <1>2 DEF NestLoop_GetOuter
  <2>4. child.left = rest /\ ~child.ended /\ ~child.again /\ child \in Children(Outer)
    <3>1. 1 + 1 = 2 OBVIOUS
    <3>2. child = [left |-> rest, ended |-> j.outer.ended,
                   again |-> j.outer.again \/ (j.outer.ended /\ 1 > 0)]
      BY <3>1 DEF Took
    <3>3. j.outer.ended = FALSE /\ j.outer.again = FALSE
      BY DEF Keeps, States, Children
    <3> HIDE DEF child, rest
    <3>4. rest \in Seq(Outer) BY <2>2 DEF rest
    <3>5. child = [left |-> rest, ended |-> FALSE, again |-> FALSE] BY <3>2, <3>3
    <3> QED BY <3>4, <3>5 DEF Children
  <2>5. /\ row \in Outer /\ saved \in Seq(Outer \cup {NULL})
        /\ ~j.projected => saved \o rest = j.tmf \o j.outer.left
    <3>1. row \in Outer BY <2>2
    <3>2. BytesOf(j, row) \in Outer \cup {NULL} BY <3>1 DEF BytesOf, Keeps, States
    <3>3. ~j.projected => BytesOf(j, row) = row BY DEF BytesOf
    <3>4. Append(j.tmf, row) \o rest = j.tmf \o j.outer.left BY <2>2
    <3> HIDE DEF row, rest
    <3>5. ~j.projected => saved \o rest = j.tmf \o j.outer.left BY <3>3, <3>4
    <3>6. saved \in Seq(Outer \cup {NULL}) BY <2>1, <3>2, AppendProperties
    <3> QED BY <3>1, <3>5, <3>6
  <2> HIDE DEF row, saved, rest, child
  <2>6. j \in States BY DEF Keeps
  <2> DEFINE k == NestLoop_GetOuter(j)
  <2>7. k \in States BY <2>3, <2>4, <2>5, <2>6 DEF States
  <2>8. /\ k.tmf = saved /\ k.outer = child /\ k.inner = j.inner /\ k.isLastLoop = j.isLastLoop
        /\ k.projected = j.projected
    BY <2>3, <2>6 DEF States
  <2> HIDE DEF k
  <2>9. Keeps(k, rows) BY <2>4, <2>5, <2>7, <2>8 DEF Keeps
  <2> QED BY <2>4, <2>8, <2>9 DEF k
<1> QED BY <1>1, <1>2

\* Filling the array keeps them too.
LEMMA ArrayFilled ==
  ASSUME NEW j, NEW rows, Keeps(j, rows), ~j.inner.ended
  PROVE  LET k == initNestLoopInner(j)
         IN  /\ Keeps(k, rows)
             /\ k.outerTuple = j.outerTuple /\ k.outer = j.outer
<1> DEFINE left == j.inner.left
<1>1. left \in Seq(Inner) /\ innerArraysize \in Nat \ {0}
  BY JoinAssumption DEF Keeps, States, Children
<1>2. CASE Len(left) < innerArraysize
  <2>1. initNestLoopInner(j) =
          [j EXCEPT !.innerArray = left, !.innerPos = 0, !.inner = Exhausted(@),
                    !.isLastLoop = TRUE]
    BY <1>2 DEF initNestLoopInner
  <2>2. Exhausted(j.inner) \in Children(Inner) /\ ~Exhausted(j.inner).again
    BY EmptySeq DEF Exhausted, Children, Keeps, States
  <2>3. 0 \in Nat OBVIOUS
  <2>4. j \in States BY DEF Keeps
  <2> QED BY <1>1, <2>1, <2>2, <2>3, <2>4 DEF Keeps, States
<1>3. CASE ~(Len(left) < innerArraysize)
  <2>1. SubSeq(left, 1, innerArraysize) \in Seq(Inner)
    BY <1>1, <1>3
  <2>2. SubSeq(left, innerArraysize + 1, Len(left)) \in Seq(Inner)
    BY <1>1, <1>3
  <2> QED BY <1>1, <1>3, <2>1, <2>2 DEF initNestLoopInner, Keeps, States, Children, Took
<1> QED BY <1>2, <1>3

\* The first call's fetches.
LEMMA StartKeeps ==
  ASSUME NEW j, NEW rows, Keeps(j, rows), CanAsk(j)
  PROVE  LET k == Started(j)
         IN  Keeps(k, rows) /\ (k.outerTuple # NULL => ~k.outer.ended)
<1>1. CASE j.outerTuple # NULL BY <1>1 DEF Started, CanAsk
<1>2. CASE j.outerTuple = NULL
  <2> DEFINE first == NestLoop_GetOuter(j)
  <2>1. /\ Keeps(first, rows) /\ (first.outerTuple # NULL => ~first.outer.ended)
        /\ first.inner = j.inner
    BY OuterFetched DEF CanAsk
  <2>2. ~first.inner.ended BY <2>1, <1>2 DEF CanAsk
  <2> HIDE DEF first
  <2>3. /\ Keeps(initNestLoopInner(first), rows)
        /\ initNestLoopInner(first).outerTuple = first.outerTuple
        /\ initNestLoopInner(first).outer = first.outer
    BY <2>1, <2>2, ArrayFilled
  <2> QED BY <1>2, <2>1, <2>3 DEF Started, first
<1> QED BY <1>1, <1>2

\* The fetch at the end of the array.
LEMMA AdvanceKeeps ==
  ASSUME NEW j, NEW rows, Keeps(j, rows), ~j.outer.ended, j.outerTuple # NULL
  PROVE  LET k == Advanced(j)
         IN  /\ Keeps(k, rows) /\ (k.outerTuple # NULL => ~k.outer.ended)
             /\ k.inner = j.inner /\ k.isLastLoop = j.isLastLoop
<1>1. CASE j.innerPos < Len(j.innerArray) BY <1>1 DEF Advanced
<1>2. CASE ~(j.innerPos < Len(j.innerArray))
  <2> DEFINE k == NestLoop_GetOuter(j)
  <2>1. /\ Keeps(k, rows) /\ (k.outerTuple # NULL => ~k.outer.ended)
        /\ k.inner = j.inner /\ k.isLastLoop = j.isLastLoop
    BY OuterFetched
  <2> HIDE DEF k
  <2>2. Keeps([k EXCEPT !.innerPos = 0], rows) BY <2>1 DEF Keeps, States
  <2>3. /\ [k EXCEPT !.innerPos = 0].outerTuple = k.outerTuple
        /\ [k EXCEPT !.innerPos = 0].outer = k.outer
        /\ [k EXCEPT !.innerPos = 0].inner = k.inner
        /\ [k EXCEPT !.innerPos = 0].isLastLoop = k.isLastLoop
    BY <2>1 DEF Keeps, States
  <2>4. Advanced(j) = [k EXCEPT !.innerPos = 0] BY <1>2 DEF Advanced, k
  <2> QED BY <2>1, <2>2, <2>3, <2>4
<1> QED BY <1>1, <1>2

-----------------------------------------------------------------------------
\* The invariant holds in the initial states,
LEMMA InitJoin == JoinInit => JoinInv
<1> SUFFICES ASSUME JoinInit PROVE JoinInv OBVIOUS
<1>1. PICK n \in 0 .. MaxInner, m \in 0 .. MaxOuter :
        given.inner = Rows(n) /\ given.outer = Rows(m)
  BY DEF JoinInit
<1>2. Rows(n) \in Seq(Inner) /\ Rows(m) \in Seq(Outer)
  BY JoinAssumption DEF Rows, Inner, Outer
<1>3. <<>> \o Rows(m) = Rows(m) BY <1>2
<1>4. nestloop \in States
  BY <1>1, <1>2 DEF JoinInit, States, Children, Child
<1>5. /\ nestloop.tmf = <<>> /\ nestloop.outer.left = given.outer
      /\ nestloop.outer.ended = FALSE /\ nestloop.outer.again = FALSE
      /\ nestloop.inner.ended = FALSE /\ nestloop.inner.again = FALSE
  BY DEF JoinInit, Child
<1> QED BY <1>1, <1>3, <1>4, <1>5 DEF JoinInv, Keeps, CanAsk

\* and every step keeps it.
LEMMA StepJoin == JoinInv /\ [JoinNext]_joinVars => JoinInv'
<1> SUFFICES ASSUME JoinInv, [JoinNext]_joinVars PROVE JoinInv' OBVIOUS
<1> DEFINE j == Started(nestloop)
           k == Advanced(j)
<1>0. Keeps(nestloop, given.outer) /\ (status = "open" => CanAsk(nestloop)) BY DEF JoinInv
<1>1. status = "open" => Keeps(j, given.outer) /\ (j.outerTuple # NULL => ~j.outer.ended)
  BY <1>0, StartKeeps
<1>2. status = "open" /\ j.outerTuple # NULL =>
        /\ Keeps(k, given.outer) /\ (k.outerTuple # NULL => ~k.outer.ended)
        /\ k.isLastLoop = j.isLastLoop /\ k.inner = j.inner
  <2> HIDE DEF j
  <2> QED BY <1>1, AdvanceKeeps
<1> HIDE DEF j, k
<1>3. CASE JoinEnds
  <2>1. given' = given /\ status' = "ended" BY <1>3 DEF JoinEnds
  <2>2. nestloop' = j \/ (j.outerTuple # NULL /\ nestloop' = k) BY <1>3 DEF JoinEnds, j, k
  <2>3. status = "open" BY <1>3 DEF JoinEnds
  <2>4. Keeps(nestloop', given.outer) BY <2>2, <2>3, <1>1, <1>2
  <2> QED BY <2>1, <2>4 DEF JoinInv, Keeps
<1>4. CASE ArrayEnds
  <2>1. given' = given /\ status' = "dead" /\ status = "open" BY <1>4 DEF ArrayEnds
  <2>2. j.outerTuple # NULL /\ ~k.isLastLoop /\ nestloop' = initNestLoopInner(k)
    BY <1>4 DEF ArrayEnds, j, k
  <2>3. Keeps(k, given.outer) BY <2>1, <2>2, <1>2
  <2>4. ~k.inner.ended BY <2>2, <2>3 DEF Keeps
  <2>5. Keeps(nestloop', given.outer) BY <2>2, <2>3, <2>4, ArrayFilled
  <2> QED BY <2>1, <2>5 DEF JoinInv, Keeps
<1>5. CASE tupleJoin
  <2>1. given' = given /\ status = "open" BY <1>5 DEF tupleJoin
  <2>2. j.outerTuple # NULL /\ k.outerTuple # NULL /\ nestloop' = Joined(k)
    BY <1>5 DEF tupleJoin, j, k
  <2>3. Keeps(k, given.outer) /\ ~k.outer.ended BY <2>1, <2>2, <1>2
  <2>4. Keeps(Joined(k), given.outer)
    <3>1. k \in States BY <2>3 DEF Keeps
    <3>2. k.innerPos + 1 \in Nat BY <3>1 DEF States
    <3> DEFINE pos == k.innerPos + 1
    <3>3. Joined(k) = [k EXCEPT !.innerPos = pos, !.bytes = k.outerTuple] BY DEF Joined
    <3> HIDE DEF pos
    <3>4. pos \in Nat BY <3>2 DEF pos
    <3> QED BY <2>3, <3>1, <3>3, <3>4 DEF Keeps, States
  <2>5. CanAsk(Joined(k)) BY <2>2, <2>3 DEF CanAsk, Joined, Keeps, States
  <2> QED BY <2>1, <2>2, <2>4, <2>5 DEF JoinInv, Keeps, CanAsk
<1>6. CASE UNCHANGED joinVars BY <1>6 DEF joinVars, JoinInv, Keeps, CanAsk
<1> QED BY <1>3, <1>4, <1>5, <1>6 DEF JoinNext

\* Whatever the numbers of rows, no child of the join is asked again after it
\* returned NULL (execJoin.c:30-60).
THEOREM ChildrenEndOnce == JoinSpec => []EndOnce
<1>1. JoinInv => EndOnce BY DEF JoinInv, Keeps, EndOnce
<1> QED BY InitJoin, StepJoin, <1>1, PTL DEF JoinSpec

\* Whatever the numbers of rows, the temporary file and the outer child together have
\* all outer rows if the child is a scan or a join, whose rows come as bytes; the rows
\* of a projection are saved before they are bytes (execJoin.c:114-144).
THEOREM OuterKept == JoinSpec => []OuterSaved
<1>1. JoinInv => OuterSaved BY DEF JoinInv, Keeps, OuterSaved
<1> QED BY InitJoin, StepJoin, <1>1, PTL DEF JoinSpec

-----------------------------------------------------------------------------
\* The pairs, as a list

\* A row of the list, and the list: m rows of A pairs.
RowOf(A, o) == [i \in 1 .. A |-> <<i, o>>]
PairsOf(s, A, m) ==
  /\ s \in Seq(Nat \X Nat) /\ Len(s) = m * A
  /\ \A o \in 1 .. m, i \in 1 .. A : s[(o - 1) * A + i] = <<i, o>>

LEMMA Times ==
  ASSUME NEW A \in Nat, NEW m \in Nat
  PROVE  /\ m * A \in Nat /\ (m + 1) * A = m * A + A
         /\ \A o \in 1 .. m : /\ o * A \in Nat /\ (o - 1) * A \in Nat
                              /\ (o - 1) * A + A = o * A /\ o * A <= m * A
<1>1. m * A \in Nat /\ (m + 1) * A = m * A + A OBVIOUS
<1>2. ASSUME NEW o \in 1 .. m
      PROVE  /\ o * A \in Nat /\ (o - 1) * A \in Nat
             /\ (o - 1) * A + A = o * A /\ o * A <= m * A
  <2>1. o \in Nat /\ o - 1 \in Nat /\ m - o \in Nat OBVIOUS
  <2>2. o * A \in Nat /\ (o - 1) * A \in Nat /\ (m - o) * A \in Nat BY <2>1
  <2>3. (o - 1) * A + A = o * A BY <2>1
  <2>4. o * A + (m - o) * A = m * A BY <2>1
  <2> QED BY <1>1, <2>2, <2>3, <2>4
<1> QED BY <1>1, <1>2

LEMMA PairsNext ==
  ASSUME NEW A \in Nat, NEW m \in Nat, NEW s, PairsOf(s, A, m)
  PROVE  PairsOf(s \o RowOf(A, m + 1), A, m + 1)
<1> DEFINE t == RowOf(A, m + 1)
           L == m * A
           S == Nat \X Nat
<1>1. t \in Seq(S) /\ Len(t) = A /\ \A i \in 1 .. A : t[i] = <<i, m + 1>>
  BY DEF RowOf
<1>2. s \in Seq(S) /\ Len(s) = L BY DEF PairsOf
<1> HIDE DEF t
<1>3. /\ s \o t \in Seq(S) /\ Len(s \o t) = L + A
      /\ \A k \in 1 .. L + A : (s \o t)[k] = IF k <= L THEN s[k] ELSE t[k - L]
  <2> HIDE DEF L, S
  <2> QED BY <1>1, <1>2, ConcatProperties
<1>4. L \in Nat /\ (m + 1) * A = L + A BY Times
<1>5. ASSUME NEW o \in 1 .. m + 1, NEW i \in 1 .. A
      PROVE  (s \o t)[(o - 1) * A + i] = <<i, o>>
  <2>1. CASE o \in 1 .. m
    <3> DEFINE k == (o - 1) * A + i
               a == (o - 1) * A
    <3>1. a \in Nat /\ a + A <= L BY <2>1, Times
    <3>2. s[k] = <<i, o>> BY <2>1 DEF PairsOf
    <3>3. k = a + i /\ (o - 1) * A + i = k OBVIOUS
    <3> HIDE DEF k, a, L
    <3>4. k \in 1 .. L + A /\ k <= L BY <1>4, <3>1, <3>3
    <3>5. (s \o t)[k] = s[k] BY <1>3, <3>4
    <3> QED BY <3>2, <3>3, <3>5, Zenon
  <2>2. CASE o = m + 1
    <3> DEFINE k == L + i
    <3>1. (o - 1) * A + i = k BY <2>2
    <3> HIDE DEF L
    <3>2. k \in 1 .. L + A /\ ~(k <= L) /\ k - L = i BY <1>4
    <3> HIDE DEF k
    <3>3. (s \o t)[k] = t[i] BY <1>3, <3>2
    <3> QED BY <1>1, <2>2, <3>1, <3>3
  <2>3. o \in 1 .. m \/ o = m + 1 OBVIOUS
  <2> QED BY <2>1, <2>2, <2>3, Zenon
<1> QED BY <1>3, <1>4, <1>5 DEF PairsOf, t

LEMMA PairsAre ==
  ASSUME NEW A \in Nat, NEW m \in Nat
  PROVE  PairsOf(Pairs(Rows(A), Rows(m)), A, m)
<1> DEFINE seqs == [o \in 1 .. m |-> RowOf(A, o)]
           S == Nat \X Nat
           none == <<>>
<1>1. Pairs(Rows(A), Rows(m)) = FlattenSeq(seqs)
  <2>1. [o \in DOMAIN Rows(m) |-> [i \in DOMAIN Rows(A) |-> <<Rows(A)[i], Rows(m)[o]>>]] = seqs
    BY DEF Rows, RowOf
  <2> HIDE DEF seqs
  <2> QED BY <2>1 DEF Pairs
<1>2. seqs \in Seq(Seq(S)) /\ Len(seqs) = m /\ \A o \in 1 .. m : seqs[o] = RowOf(A, o)
  <2>1. \A o \in 1 .. m : RowOf(A, o) \in Seq(S) BY DEF RowOf
  <2> QED BY <2>1
<1>3. PairsOf(none, A, 0)
  <2>1. none \in Seq(S) /\ Len(none) = 0 /\ 0 * A = 0 OBVIOUS
  <2> HIDE DEF none
  <2> QED BY <2>1 DEF PairsOf
<1>4. CASE m = 0
  <2>1. FlattenSeq(seqs) = seqs
    <3> HIDE DEF seqs
    <3> QED BY <1>2, <1>4 DEF FlattenSeq
  <2>2. seqs = none BY <1>4
  <2> QED BY <1>1, <1>3, <1>4, <2>1, <2>2
<1>5. CASE m # 0
  <2> HIDE DEF seqs, S, none
  <2>1. PICK f : /\ f = [o \in 1 .. m |-> IF o = 1 THEN seqs[o] ELSE f[o - 1] \o seqs[o]]
                 /\ FlattenSeq(seqs) = f[m]
    <3>1. Len(seqs) # 0 BY <1>2, <1>5
    <3> QED BY <1>2, <3>1, FlattenIs
  <2>2. \A o \in 1 .. m : f[o] = IF o = 1 THEN seqs[o] ELSE f[o - 1] \o seqs[o]
    BY <2>1
  <2> DEFINE T == {n \in Nat : n \in 1 .. m => PairsOf(f[n], A, n)}
  <2>3. ASSUME NEW n \in 0 .. m - 1, n \in T PROVE n + 1 \in T
    <3> SUFFICES ASSUME n + 1 \in 1 .. m PROVE PairsOf(f[n + 1], A, n + 1) OBVIOUS
    <3>1. seqs[n + 1] = RowOf(A, n + 1) BY <1>2
    <3>2. CASE n = 0
      <4>1. none \o RowOf(A, 1) = RowOf(A, 1)
        <5>1. RowOf(A, 1) \in Seq(S) BY DEF RowOf, S
        <5> QED BY <5>1, ConcatEmptySeq DEF none
      <4>2. PairsOf(none \o RowOf(A, 0 + 1), A, 0 + 1)
        <5>1. 0 \in Nat OBVIOUS
        <5> QED BY <1>3, <5>1, PairsNext
      <4>3. f[1] = RowOf(A, 1)
        <5>1. 1 \in 1 .. m BY <1>5
        <5> QED BY <2>2, <3>1, <3>2, <5>1
      <4>4. 0 + 1 = 1 OBVIOUS
      <4> QED BY <3>2, <4>1, <4>2, <4>3, <4>4
    <3>3. CASE n # 0
      <4> DEFINE k == n + 1
      <4>1. n \in 1 .. m /\ k # 1 /\ k - 1 = n /\ k \in 1 .. m BY <3>3
      <4>2. PairsOf(f[n], A, n) BY <2>3, <4>1
      <4>3. PairsOf(f[n] \o RowOf(A, n + 1), A, n + 1)
        <5>1. n \in Nat OBVIOUS
        <5> HIDE DEF T
        <5> QED BY <4>2, <5>1, PairsNext
      <4> HIDE DEF k, T
      <4>4. f[k] = f[n] \o seqs[k] BY <2>2, <4>1
      <4> QED BY <3>1, <4>3, <4>4 DEF k
    <3> QED BY <3>2, <3>3
  <2>4. 0 \in T OBVIOUS
  <2>5. 0 .. m \subseteq T
    <3> HIDE DEF T
    <3> QED BY <2>3, <2>4, UpTo
  <2>6. m \in T /\ m \in 1 .. m
    <3>1. m \in 0 .. m /\ m \in 1 .. m BY <1>5
    <3> HIDE DEF T
    <3> QED BY <2>5, <3>1
  <2>7. PairsOf(f[m], A, m) BY <2>6
  <2> QED BY <1>1, <2>1, <2>7
<1> QED BY <1>4, <1>5

-----------------------------------------------------------------------------
\* The pairs for which the condition holds

\* f[n] are those of the first n pairs.
Selects(f, list, cond) ==
  /\ f[0] = <<>>
  /\ \A n \in 1 .. Len(list) :
       f[n] = IF list[n] \in cond THEN Append(f[n - 1], list[n]) ELSE f[n - 1]

LEMMA SelectedIs ==
  ASSUME NEW S, NEW list \in Seq(S), NEW cond
  PROVE  \E f : Selects(f, list, cond) /\ Selected(list, cond) = f[Len(list)]
<1> DEFINE L == Len(list)
           Sel(f) == f = [n \in 0 .. L |-> IF n = 0 THEN <<>>
                                           ELSE IF list[n] \in cond THEN Append(f[n - 1], list[n])
                                           ELSE f[n - 1]]
           s == [p \in Seq(S) \X Nat |->
                   IF p[2] \in 1 .. L /\ list[p[2]] \in cond THEN Append(p[1], list[p[2]])
                                                             ELSE p[1]]
<1>1. L \in Nat /\ \A i \in 1 .. L : list[i] \in S OBVIOUS
<1>2. <<>> \in Seq(S) OBVIOUS
<1>3. s \in [Seq(S) \X Nat -> Seq(S)]
  <2> SUFFICES ASSUME NEW p \in Seq(S) \X Nat
               PROVE  (IF p[2] \in 1 .. L /\ list[p[2]] \in cond
                       THEN Append(p[1], list[p[2]]) ELSE p[1]) \in Seq(S)
    OBVIOUS
  <2>1. p[1] \in Seq(S) OBVIOUS
  <2>2. \A x \in S : Append(p[1], x) \in Seq(S) BY <2>1
  <2> QED BY <1>1, <2>1, <2>2
<1>4. PICK g \in [0 .. L -> Seq(S)] : Iterated(g, L, <<>>, s)
  <2> HIDE DEF s, L
  <2> QED BY <1>1, <1>2, <1>3, IteratedExists
<1>5. g[0] = <<>>
  <2> HIDE DEF s, L
  <2> QED BY <1>1, <1>4 DEF Iterated
<1>6. ASSUME NEW n \in 1 .. L
      PROVE  g[n] = IF list[n] \in cond THEN Append(g[n - 1], list[n]) ELSE g[n - 1]
  <2>1. n - 1 \in 0 .. L /\ n \in 0 .. L /\ n # 0 BY <1>1
  <2>2. g[n] = s[<<g[n - 1], n>>]
    <3> HIDE DEF s, L
    <3> QED BY <1>4, <2>1 DEF Iterated
  <2> DEFINE x == <<g[n - 1], n>>
  <2>3. x \in Seq(S) \X Nat /\ x[1] = g[n - 1] /\ x[2] = n BY <2>1
  <2> HIDE DEF x
  <2>4. s[x] = IF x[2] \in 1 .. L /\ list[x[2]] \in cond THEN Append(x[1], list[x[2]]) ELSE x[1]
    BY <2>3
  <2> HIDE DEF s, L
  <2> QED BY <2>2, <2>3, <2>4 DEF x
<1>7. Sel(g)
  <2> DEFINE val(n) == IF n = 0 THEN <<>>
                       ELSE IF list[n] \in cond THEN Append(g[n - 1], list[n])
                       ELSE g[n - 1]
  <2>1. ASSUME NEW n \in 0 .. L PROVE g[n] = val(n)
    <3>1. CASE n = 0 BY <1>5, <3>1
    <3>2. CASE n # 0
      <4>1. n \in 1 .. L BY <1>1, <3>2
      <4> HIDE DEF s, L
      <4>2. g[n] = IF list[n] \in cond THEN Append(g[n - 1], list[n]) ELSE g[n - 1]
        BY <1>6, <4>1
      <4> QED BY <3>2, <4>2
    <3> QED BY <3>1, <3>2
  <2> HIDE DEF val, L, s
  <2>2. g = [n \in 0 .. L |-> val(n)] BY <2>1
  <2> QED BY <2>2 DEF val
<1>8. Sel(CHOOSE h : Sel(h))
  <2> HIDE DEF Sel
  <2> QED BY <1>7
<1> DEFINE f == CHOOSE h : Sel(h)
<1>9. Selected(list, cond) = f[L]
  BY Zenon DEF Selected
<1>10. Selects(f, list, cond)
  <2> HIDE DEF f
  <2>1. Sel(f) BY <1>8 DEF f
  <2>2. \A n \in 0 .. L : f[n] = IF n = 0 THEN <<>>
                                 ELSE IF list[n] \in cond THEN Append(f[n - 1], list[n])
                                 ELSE f[n - 1]
    <3> HIDE DEF L
    <3> QED BY <2>1
  <2> HIDE DEF Sel, L
  <2>3. 0 \in 0 .. L /\ \A n \in 1 .. L : n \in 0 .. L /\ n # 0 BY <1>1
  <2>4. f[0] = <<>> BY <2>2, <2>3
  <2>5. \A n \in 1 .. L : f[n] = IF list[n] \in cond THEN Append(f[n - 1], list[n]) ELSE f[n - 1]
    BY <2>2, <2>3
  <2> QED BY <2>4, <2>5 DEF Selects, L
<1> QED BY <1>9, <1>10

\* The beginning of a list.
Begins(s, t) == Len(s) <= Len(t) /\ \A i \in 1 .. Len(s) : s[i] = t[i]

LEMMA BeginsIsPrefix ==
  ASSUME NEW S, NEW s \in Seq(S), NEW t \in Seq(S), Begins(s, t)
  PROVE  IsPrefix(s, t)
<1> DEFINE L == Len(s)
<1>1. L \in Nat /\ Len(t) \in Nat /\ L <= Len(t) BY DEF Begins
<1>2. SubSeq(t, 1, L) \in Seq(S) /\ Len(SubSeq(t, 1, L)) = L
      /\ \A i \in 1 .. L : SubSeq(t, 1, L)[i] = t[i]
  <2>1. SubSeq(t, 1, L) = [i \in 1 .. L |-> t[i]] BY <1>1
  <2>2. \A i \in 1 .. L : t[i] \in S BY <1>1
  <2> QED BY <1>1, <2>1, <2>2
<1>3. SubSeq(s, 1, L) = s BY SubSeqFull
<1>4. SubSeq(t, 1, L) = s
  BY <1>2, SeqEqual DEF Begins
<1> QED BY <1>1, <1>3, <1>4 DEF IsPrefix

\* What is selected of the first pairs is the beginning of what is selected of all.
LEMMA SelectedBegins ==
  ASSUME NEW S, NEW list \in Seq(S), NEW cond, NEW f, Selects(f, list, cond),
         NEW n \in 0 .. Len(list)
  PROVE  IsPrefix(f[n], f[Len(list)])
<1> DEFINE L == Len(list)
<1>1. L \in Nat /\ \A i \in 1 .. L : list[i] \in S OBVIOUS
<1>2. n \in 0 .. L OBVIOUS
<1>3. /\ f[0] = <<>>
      /\ \A k \in 1 .. L : f[k] = IF list[k] \in cond THEN Append(f[k - 1], list[k]) ELSE f[k - 1]
  BY DEF Selects
<1> HIDE DEF L
<1> DEFINE T == {k \in Nat : k \in 0 .. L => f[k] \in Seq(S) /\ (n <= k => Begins(f[n], f[k]))}
<1>4. f[0] \in Seq(S)
  <2>1. <<>> \in Seq(S) OBVIOUS
  <2> QED BY <1>3, <2>1
<1>5. 0 \in T
  <2>1. n <= 0 => n = 0 BY <1>1, <1>2
  <2>2. Begins(f[0], f[0]) BY <1>4 DEF Begins
  <2>3. n <= 0 => Begins(f[n], f[0]) BY <2>1, <2>2
  <2> QED BY <1>4, <2>3
<1>6. ASSUME NEW k \in 0 .. L - 1, k \in T PROVE k + 1 \in T
  <2> DEFINE m == k + 1
  <2>1. k \in 0 .. L /\ m \in 1 .. L /\ m - 1 = k /\ m \in Nat BY <1>1
  <2>2. f[k] \in Seq(S) /\ (n <= k => Begins(f[n], f[k])) BY <1>6, <2>1
  <2>3. n <= m => n <= k \/ n = m BY <1>1, <1>2
  <2> HIDE DEF m, T
  <2>4. f[m] = IF list[m] \in cond THEN Append(f[k], list[m]) ELSE f[k] BY <1>3, <2>1
  <2>5. f[m] \in Seq(S) /\ Begins(f[k], f[m])
    <3>1. CASE f[m] = f[k] BY <2>2, <3>1 DEF Begins
    <3>2. CASE f[m] = Append(f[k], list[m])
      <4>1. list[m] \in S BY <1>1, <2>1
      <4> DEFINE a == f[k]
                 x == list[m]
                 b == f[m]
      <4>2. a \in Seq(S) /\ x \in S /\ b = Append(a, x) BY <2>2, <3>2, <4>1
      <4> HIDE DEF a, x, b
      <4>3. b \in Seq(S) /\ Begins(a, b) BY <4>2, AppendProperties DEF Begins
      <4> QED BY <4>3 DEF a, b
    <3> QED BY <2>4, <3>1, <3>2
  <2>6. n <= m => Begins(f[n], f[m])
    <3>1. CASE n <= k
      <4> DEFINE r == f[n]
                 a == f[k]
                 b == f[m]
      <4>1. Begins(r, a) /\ Begins(a, b) /\ a \in Seq(S) /\ b \in Seq(S)
        BY <2>2, <2>5, <3>1
      <4> HIDE DEF r, a, b
      <4>2. Begins(r, b)
        <5>1. Len(a) \in Nat /\ Len(b) \in Nat BY <4>1
        <5>2. Len(r) <= Len(a) /\ Len(a) <= Len(b) BY <4>1 DEF Begins
        <5> QED BY <4>1, <5>1, <5>2 DEF Begins
      <4> QED BY <4>2 DEF r, b
    <3>2. CASE n = m BY <2>5, <3>2 DEF Begins
    <3> QED BY <2>3, <3>1, <3>2
  <2>7. m \in T BY <2>1, <2>5, <2>6 DEF T
  <2> QED BY <2>7 DEF m
<1>7. 0 .. L \subseteq T
  <2> HIDE DEF T
  <2> QED BY <1>1, <1>5, <1>6, UpTo
<1>8. L \in T /\ n \in T BY <1>1, <1>2, <1>7
<1>9. f[L] \in Seq(S) /\ f[n] \in Seq(S) /\ Begins(f[n], f[L]) BY <1>1, <1>2, <1>8
<1> HIDE DEF T
<1>10. IsPrefix(f[n], f[L]) BY <1>9, BeginsIsPrefix
<1> QED BY <1>10 DEF L

-----------------------------------------------------------------------------
\* Where the join stands

\* How many of n inner rows the array has, and the outer rows behind the o-th of m.
Width(n) == IF n < innerArraysize THEN n ELSE innerArraysize
RowsFrom(o, m) == [i \in 1 .. m - o |-> o + i]

\* No row was fetched yet.
Fresh(j, n, m) ==
  /\ j.outerTuple = NULL /\ ~j.isLastLoop
  /\ j.inner.left = Rows(n) /\ j.outer.left = RowsFrom(0, m)

\* The first pos inner rows have been joined with the o-th outer row.
StandsAt(j, o, pos, n, m) ==
  /\ j.outerTuple = o /\ o \in 1 .. m /\ j.outer.left = RowsFrom(o, m)
  /\ j.innerArray = Rows(Width(n)) /\ j.innerPos = pos /\ pos \in 0 .. Width(n)
  /\ j.isLastLoop <=> n < innerArraysize

LEMMA WidthIs ==
  ASSUME NEW n \in Nat
  PROVE  /\ Width(n) \in 0 .. n /\ Width(n) \in Nat /\ (n # 0 => Width(n) # 0)
         /\ Len(Rows(n)) = n /\ DOMAIN Rows(n) = 1 .. n
         /\ Rows(n) \in Seq(Nat)
         /\ (n = 0 => Rows(n) = <<>>)
BY JoinAssumption DEF Width, Rows

LEMMA RestIs ==
  ASSUME NEW m \in Nat, NEW o \in 0 .. m
  PROVE  LET rest == RowsFrom(o, m)
         IN  /\ Len(rest) = m - o
             /\ o = m => rest = <<>>
             /\ o # m => /\ rest # <<>> /\ Head(rest) = o + 1
                         /\ SubSeq(rest, 2, Len(rest)) = RowsFrom(o + 1, m)
<1> DEFINE rest == RowsFrom(o, m)
<1>1. rest \in Seq(Nat) /\ Len(rest) = m - o /\ m - o \in Nat
      /\ \A i \in 1 .. m - o : rest[i] = o + i
  BY DEF RowsFrom
<1> HIDE DEF rest
<1>2. ASSUME o = m PROVE rest = <<>>
  BY <1>1, <1>2, EmptySeq
<1>3. ASSUME o # m
      PROVE  /\ rest # <<>> /\ Head(rest) = o + 1
             /\ SubSeq(rest, 2, Len(rest)) = RowsFrom(o + 1, m)
  <2>1. rest # <<>> BY <1>1, <1>3, EmptySeq
  <2>2. Head(rest) = rest[1] BY <1>1, <2>1
  <2>3. SubSeq(rest, 2, Len(rest)) = [i \in 1 .. Len(rest) - 1 |-> rest[i + 1]]
    BY <1>1, <1>3
  <2>4. \A i \in 1 .. m - (o + 1) : rest[i + 1] = o + 1 + i BY <1>1, <1>3
  <2>5. Len(rest) - 1 = m - (o + 1) BY <1>1
  <2>6. SubSeq(rest, 2, Len(rest)) = RowsFrom(o + 1, m)
    BY <2>3, <2>4, <2>5 DEF RowsFrom
  <2> QED BY <1>1, <1>3, <2>1, <2>2, <2>6
<1> QED BY <1>1, <1>2, <1>3 DEF rest

\* The next outer row is fetched.
LEMMA FetchedIs ==
  ASSUME NEW j \in States, NEW m \in 0 .. MaxOuter, NEW o \in 0 .. m,
         j.outer.left = RowsFrom(o, m)
  PROVE  LET k == NestLoop_GetOuter(j)
         IN  /\ o = m => k.outerTuple = NULL
             /\ o # m => k.outerTuple = o + 1 /\ k.outer.left = RowsFrom(o + 1, m)
             /\ k.inner = j.inner /\ k.innerArray = j.innerArray /\ k.isLastLoop = j.isLastLoop
             /\ k.innerPos = j.innerPos
<1> DEFINE rest == RowsFrom(o, m)
           row == Head(j.outer.left)
           child == Took(j.outer, 1)
           saved == Append(j.tmf, BytesOf(j, row))
<1>1. /\ Len(rest) = m - o /\ (o = m => rest = <<>>)
      /\ o # m => /\ rest # <<>> /\ Head(rest) = o + 1
                  /\ SubSeq(rest, 2, Len(rest)) = RowsFrom(o + 1, m)
  <2>1. m \in Nat BY JoinAssumption
  <2> HIDE DEF rest
  <2> QED BY <2>1, RestIs DEF rest
<1>2. CASE o = m
  BY <1>1, <1>2 DEF NestLoop_GetOuter, States
<1>3. CASE o # m
  <2>1. j.outer.left # <<>> /\ row = o + 1 BY <1>1, <1>3
  <2>2. child.left = RowsFrom(o + 1, m)
    <3>1. 1 + 1 = 2 OBVIOUS
    <3> QED BY <1>1, <1>3, <3>1 DEF Took
  <2> HIDE DEF row, child, saved, rest
  <2>3. NestLoop_GetOuter(j) = [j EXCEPT !.outerTuple = row, !.outer = child, !.tmf = saved]
    BY <2>1 DEF NestLoop_GetOuter, row, child, saved
  <2> QED BY <1>3, <2>1, <2>2, <2>3 DEF States
<1> QED BY <1>2, <1>3

\* The array is filled.
LEMMA FilledIs ==
  ASSUME NEW j \in States, NEW n \in Nat, j.inner.left = Rows(n), ~j.isLastLoop
  PROVE  LET k == initNestLoopInner(j)
         IN  /\ k.outerTuple = j.outerTuple /\ k.outer = j.outer
             /\ k.innerArray = Rows(Width(n)) /\ k.innerPos = 0
             /\ k.isLastLoop <=> n < innerArraysize
<1> DEFINE left == j.inner.left
<1>1. Len(left) = n BY WidthIs
<1>2. CASE n < innerArraysize
  <2> DEFINE gone == Exhausted(j.inner)
  <2>1. initNestLoopInner(j) = [j EXCEPT !.innerArray = left, !.innerPos = 0, !.inner = gone,
                                         !.isLastLoop = TRUE]
    BY <1>1, <1>2 DEF initNestLoopInner
  <2>2. Width(n) = n BY <1>2 DEF Width
  <2> HIDE DEF gone
  <2> QED BY <1>2, <2>1, <2>2 DEF States
<1>3. CASE ~(n < innerArraysize)
  <2> DEFINE child == Took(j.inner, innerArraysize)
             part == SubSeq(left, 1, innerArraysize)
  <2>1. initNestLoopInner(j) = [j EXCEPT !.innerArray = part, !.innerPos = 0, !.inner = child]
    BY <1>1, <1>3 DEF initNestLoopInner
  <2>2. part = Rows(innerArraysize)
    <3>1. innerArraysize \in 1 .. n BY <1>3, JoinAssumption
    <3>2. part = [i \in 1 .. innerArraysize |-> Rows(n)[i]] BY <3>1
    <3>3. \A i \in 1 .. innerArraysize : Rows(n)[i] = i BY <3>1 DEF Rows
    <3> QED BY <3>2, <3>3 DEF Rows
  <2>3. Width(n) = innerArraysize BY <1>3 DEF Width
  <2> HIDE DEF child, part
  <2> QED BY <1>3, <2>1, <2>2, <2>3 DEF States
<1> QED BY <1>2, <1>3

\* The first call goes to the first outer row, if there is one.
LEMMA StartIs ==
  ASSUME NEW j \in States, NEW n \in Nat, NEW m \in 0 .. MaxOuter, Fresh(j, n, m),
         NestLoop_GetOuter(j) \in States
  PROVE  /\ m = 0 => Started(j).outerTuple = NULL
         /\ m # 0 => StandsAt(Started(j), 1, 0, n, m)
<1> DEFINE first == NestLoop_GetOuter(j)
<1>1. /\ m = 0 => first.outerTuple = NULL
      /\ m # 0 => first.outerTuple = 1 /\ first.outer.left = RowsFrom(1, m)
      /\ first.inner = j.inner /\ first.isLastLoop = j.isLastLoop
  <2>1. 0 \in 0 .. m /\ 0 + 1 = 1 BY JoinAssumption
  <2>2. j.outer.left = RowsFrom(0, m) BY DEF Fresh
  <2>3. /\ 0 = m => first.outerTuple = NULL
        /\ 0 # m => first.outerTuple = 0 + 1 /\ first.outer.left = RowsFrom(0 + 1, m)
        /\ first.inner = j.inner /\ first.isLastLoop = j.isLastLoop
    BY <2>1, <2>2, FetchedIs
  <2> HIDE DEF first
  <2> QED BY <2>1, <2>3
<1>2. j.outerTuple = NULL BY DEF Fresh
<1>3. CASE m = 0
  <2> HIDE DEF first
  <2>1. Started(j) = first BY <1>1, <1>2, <1>3 DEF Started, first
  <2> QED BY <1>1, <1>3, <2>1
<1>4. CASE m # 0
  <2> HIDE DEF first
  <2>1. first.outerTuple # NULL BY <1>1, <1>4, JoinAssumption
  <2> DEFINE k == initNestLoopInner(first)
  <2>2. Started(j) = k BY <1>2, <2>1 DEF Started, first
  <2>3. first \in States /\ first.inner.left = Rows(n) /\ ~first.isLastLoop
    BY <1>1 DEF Fresh, first
  <2>4. /\ k.outerTuple = first.outerTuple /\ k.outer = first.outer
        /\ k.innerArray = Rows(Width(n)) /\ k.innerPos = 0
        /\ k.isLastLoop <=> n < innerArraysize
    BY <2>3, FilledIs
  <2> HIDE DEF k
  <2>5. 0 \in 0 .. Width(n) /\ 1 \in 1 .. m BY <1>4, WidthIs
  <2>6. StandsAt(k, 1, 0, n, m) BY <1>1, <1>4, <2>4, <2>5 DEF StandsAt
  <2> QED BY <1>4, <2>2, <2>6
<1> QED BY <1>3, <1>4

\* At the end of the array the next outer row is fetched, if there is one.
LEMMA AdvanceIs ==
  ASSUME NEW j \in States, NEW n \in Nat, NEW m \in 0 .. MaxOuter, NEW o, NEW pos,
         StandsAt(j, o, pos, n, m), NestLoop_GetOuter(j) \in States
  PROVE  /\ pos # Width(n) => Advanced(j) = j
         /\ pos = Width(n) /\ o # m => StandsAt(Advanced(j), o + 1, 0, n, m)
         /\ pos = Width(n) /\ o = m => /\ Advanced(j).outerTuple = NULL
                                       /\ Advanced(j).isLastLoop <=> n < innerArraysize
<1> DEFINE k == NestLoop_GetOuter(j)
           W == Width(n)
<1>1. /\ j.innerPos = pos /\ pos \in 0 .. W /\ o \in 1 .. m /\ j.outer.left = RowsFrom(o, m)
      /\ j.innerArray = Rows(W) /\ (j.isLastLoop <=> n < innerArraysize)
  BY DEF StandsAt
<1>2. W \in Nat /\ Len(j.innerArray) = W BY <1>1, WidthIs
<1>3. CASE pos # W
  <2> HIDE DEF W
  <2>1. j.innerPos < Len(j.innerArray) BY <1>1, <1>2, <1>3
  <2> QED BY <1>3, <2>1 DEF Advanced, W
<1>4. CASE pos = W
  <2>1. ~(j.innerPos < Len(j.innerArray)) BY <1>1, <1>2, <1>4
  <2>2. Advanced(j) = [k EXCEPT !.innerPos = 0] BY <2>1 DEF Advanced
  <2>3. /\ o = m => k.outerTuple = NULL
        /\ o # m => k.outerTuple = o + 1 /\ k.outer.left = RowsFrom(o + 1, m)
        /\ k.inner = j.inner /\ k.innerArray = j.innerArray /\ k.isLastLoop = j.isLastLoop
    <3>1. o \in 0 .. m BY <1>1
    <3> QED BY <1>1, <3>1, FetchedIs
  <2>4. k \in States OBVIOUS
  <2> HIDE DEF k
  <2> DEFINE a == [k EXCEPT !.innerPos = 0]
  <2>5. /\ a.outerTuple = k.outerTuple /\ a.outer = k.outer /\ a.innerArray = k.innerArray
        /\ a.isLastLoop = k.isLastLoop /\ a.innerPos = 0
    BY <2>4 DEF States
  <2> HIDE DEF a
  <2>6. o # m => StandsAt(a, o + 1, 0, n, m)
    <3>1. o # m => o + 1 \in 1 .. m BY <1>1, JoinAssumption
    <3>2. 0 \in 0 .. W BY <1>2
    <3> QED BY <1>1, <2>3, <2>5, <3>1, <3>2 DEF StandsAt
  <2>7. o = m => a.outerTuple = NULL /\ (a.isLastLoop <=> n < innerArraysize)
    BY <1>1, <2>3, <2>5
  <2> QED BY <1>4, <2>2, <2>6, <2>7 DEF a, W
<1> QED BY <1>3, <1>4

-----------------------------------------------------------------------------
\* What has been returned where the join stands

GivenOK(g) ==
  /\ Len(g.inner) \in 0 .. MaxInner /\ Len(g.outer) \in 0 .. MaxOuter
  /\ g.inner = Rows(Len(g.inner)) /\ g.outer = Rows(Len(g.outer))

\* The pairs, and those for which the condition holds.
Wide(g) == Width(Len(g.inner))
High(g) == Len(g.outer)
List(g) == Pairs(Rows(Wide(g)), Rows(High(g)))
All(g) == Selected(List(g), g.cond)

\* How many pairs were joined, and the selected ones of them.
Spot(g, o, pos) == (o - 1) * Wide(g) + pos
Chosen(g) == CHOOSE f : Selects(f, List(g), g.cond) /\ All(g) = f[Len(List(g))]
SoFar(g, o, pos) == Chosen(g)[Spot(g, o, pos)]

LEMMA SpotIs ==
  ASSUME NEW g, GivenOK(g)
  PROVE  /\ List(g) \in Seq(Nat \X Nat) /\ Len(List(g)) \in Nat
         /\ High(g) = 0 => Len(List(g)) = 0
         /\ High(g) # 0 => Spot(g, 1, 0) = 0 /\ Spot(g, High(g), Wide(g)) = Len(List(g))
         /\ \A o \in 1 .. High(g) :
              /\ Spot(g, o, Wide(g)) = Spot(g, o + 1, 0)
              /\ \A pos \in 0 .. Wide(g) : Spot(g, o, pos) \in 0 .. Len(List(g))
              /\ \A pos \in 0 .. Wide(g) : pos # Wide(g) =>
                   /\ Spot(g, o, pos + 1) \in 1 .. Len(List(g))
                   /\ Spot(g, o, pos + 1) - 1 = Spot(g, o, pos)
                   /\ List(g)[Spot(g, o, pos + 1)] = <<pos + 1, o>>
<1> DEFINE A == Wide(g)
           m == High(g)
           L == Len(List(g))
<1>1. A \in Nat /\ m \in Nat
  <2>1. Len(g.inner) \in Nat /\ Len(g.outer) \in Nat BY JoinAssumption DEF GivenOK
  <2>2. Width(Len(g.inner)) \in Nat BY <2>1, WidthIs
  <2> QED BY <2>1, <2>2 DEF Wide, High
<1>2. PairsOf(List(g), A, m)
  <2> HIDE DEF A, m
  <2>1. PairsOf(Pairs(Rows(A), Rows(m)), A, m) BY <1>1, PairsAre
  <2> QED BY <2>1 DEF List, A, m
<1>3. \A o, pos : Spot(g, o, pos) = (o - 1) * A + pos BY DEF Spot
<1>4. List(g) \in Seq(Nat \X Nat) /\ L = m * A BY <1>2 DEF PairsOf
<1>5. \A o \in 1 .. m, i \in 1 .. A : List(g)[Spot(g, o, i)] = <<i, o>>
  BY <1>2, <1>3 DEF PairsOf
<1> HIDE DEF A, m, L
<1>6. L \in Nat /\ (m = 0 => L = 0) BY <1>1, <1>4
<1>7. ASSUME NEW o \in 1 .. m
      PROVE  /\ Spot(g, o, A) = Spot(g, o + 1, 0) /\ (o = 1 => Spot(g, o, 0) = 0)
             /\ o = m => Spot(g, o, A) = L
             /\ \A pos \in 0 .. A : Spot(g, o, pos) \in 0 .. L
             /\ \A pos \in 0 .. A : pos # A =>
                  /\ Spot(g, o, pos + 1) \in 1 .. L
                  /\ Spot(g, o, pos + 1) - 1 = Spot(g, o, pos)
                  /\ List(g)[Spot(g, o, pos + 1)] = <<pos + 1, o>>
  <2> DEFINE a == (o - 1) * A
  <2>1. /\ o * A \in Nat /\ a \in Nat /\ a + A = o * A /\ o * A <= m * A
    BY <1>1, Times
  <2>2. o = 1 => a = 0 BY <1>1
  <2>3. o + 1 - 1 = o OBVIOUS
  <2>4. Spot(g, o + 1, 0) = o * A BY <1>3, <2>1, <2>3
  <2>5. \A pos : Spot(g, o, pos) = a + pos BY <1>3
  <2> HIDE DEF a
  <2>6. o = m => a + A = L BY <1>4, <2>1
  <2>7. a + A <= L BY <1>4, <1>6, <2>1
  <2>8. \A pos \in 0 .. A : pos # A => pos + 1 \in 1 .. A BY <1>1
  <2>9. Spot(g, o, A) = Spot(g, o + 1, 0) BY <2>1, <2>4, <2>5
  <2>10. \A pos \in 0 .. A : Spot(g, o, pos) \in 0 .. L BY <1>1, <1>6, <2>1, <2>5, <2>7
  <2>11. \A pos \in 0 .. A : pos # A => /\ Spot(g, o, pos + 1) \in 1 .. L
                                        /\ Spot(g, o, pos + 1) - 1 = Spot(g, o, pos)
    BY <1>1, <1>6, <2>1, <2>5, <2>7
  <2>12. \A pos \in 0 .. A : pos # A => List(g)[Spot(g, o, pos + 1)] = <<pos + 1, o>>
    BY <1>5, <2>8
  <2>13. o = 1 => Spot(g, o, 0) = 0 BY <2>2, <2>5
  <2>14. o = m => Spot(g, o, A) = L BY <2>5, <2>6
  <2> QED BY <2>9, <2>10, <2>11, <2>12, <2>13, <2>14
<1>8. m # 0 => 1 \in 1 .. m /\ m \in 1 .. m BY <1>1
<1> QED BY <1>4, <1>6, <1>7, <1>8 DEF A, m, L

Progress(g) ==
  /\ High(g) = 0 => All(g) = <<>>
  /\ High(g) # 0 => SoFar(g, 1, 0) = <<>> /\ SoFar(g, High(g), Wide(g)) = All(g)
  /\ \A o \in 1 .. High(g) : SoFar(g, o, Wide(g)) = SoFar(g, o + 1, 0)
  /\ \A o \in 1 .. High(g), pos \in 0 .. Wide(g) :
       /\ IsPrefix(SoFar(g, o, pos), All(g))
       /\ pos # Wide(g) =>
            SoFar(g, o, pos + 1) = IF <<pos + 1, o>> \in g.cond
                                   THEN Append(SoFar(g, o, pos), <<pos + 1, o>>)
                                   ELSE SoFar(g, o, pos)

LEMMA SoFarIs ==
  ASSUME NEW g, GivenOK(g)
  PROVE  Progress(g)
<1> DEFINE f == Chosen(g)
           L == Len(List(g))
<1>1. /\ List(g) \in Seq(Nat \X Nat) /\ L \in Nat
      /\ High(g) = 0 => L = 0
      /\ High(g) # 0 => Spot(g, 1, 0) = 0 /\ Spot(g, High(g), Wide(g)) = L
      /\ \A o \in 1 .. High(g) :
           /\ Spot(g, o, Wide(g)) = Spot(g, o + 1, 0)
           /\ \A pos \in 0 .. Wide(g) : Spot(g, o, pos) \in 0 .. L
           /\ \A pos \in 0 .. Wide(g) : pos # Wide(g) =>
                /\ Spot(g, o, pos + 1) \in 1 .. L
                /\ Spot(g, o, pos + 1) - 1 = Spot(g, o, pos)
                /\ List(g)[Spot(g, o, pos + 1)] = <<pos + 1, o>>
  BY SpotIs
<1>2. Selects(f, List(g), g.cond) /\ All(g) = f[L]
  <2>1. \E h : Selects(h, List(g), g.cond) /\ All(g) = h[Len(List(g))]
    BY <1>1, SelectedIs DEF All
  <2> QED BY <2>1 DEF Chosen
<1>3. \A o, pos : SoFar(g, o, pos) = f[Spot(g, o, pos)] BY DEF SoFar
<1>4. /\ f[0] = <<>>
      /\ \A n \in 1 .. L : f[n] = IF List(g)[n] \in g.cond THEN Append(f[n - 1], List(g)[n])
                                                           ELSE f[n - 1]
  BY <1>2 DEF Selects
<1>5. \A n \in 0 .. L : IsPrefix(f[n], f[L])
  <2> HIDE DEF f
  <2> QED BY <1>1, <1>2, SelectedBegins
<1> HIDE DEF f, L
<1>6. High(g) = 0 => All(g) = <<>> BY <1>1, <1>2, <1>4
<1>7. High(g) # 0 => SoFar(g, 1, 0) = <<>> /\ SoFar(g, High(g), Wide(g)) = All(g)
  BY <1>1, <1>2, <1>3, <1>4
<1>8. \A o \in 1 .. High(g) : SoFar(g, o, Wide(g)) = SoFar(g, o + 1, 0) BY <1>1, <1>3
<1>9. ASSUME NEW o \in 1 .. High(g), NEW pos \in 0 .. Wide(g)
      PROVE  /\ IsPrefix(SoFar(g, o, pos), All(g))
             /\ pos # Wide(g) =>
                  SoFar(g, o, pos + 1) = IF <<pos + 1, o>> \in g.cond
                                         THEN Append(SoFar(g, o, pos), <<pos + 1, o>>)
                                         ELSE SoFar(g, o, pos)
  <2>1. IsPrefix(SoFar(g, o, pos), All(g)) BY <1>1, <1>2, <1>3, <1>5
  <2>2. ASSUME pos # Wide(g)
        PROVE  SoFar(g, o, pos + 1) = IF <<pos + 1, o>> \in g.cond
                                      THEN Append(SoFar(g, o, pos), <<pos + 1, o>>)
                                      ELSE SoFar(g, o, pos)
    <3> DEFINE k == Spot(g, o, pos + 1)
               i == pos + 1
    <3>1. k \in 1 .. L /\ k - 1 = Spot(g, o, pos) /\ List(g)[k] = <<i, o>>
      BY <1>1, <2>2
    <3>2. SoFar(g, o, i) = f[k] /\ SoFar(g, o, pos) = f[k - 1] BY <1>3, <3>1
    <3> HIDE DEF k, i
    <3>3. SoFar(g, o, i) = IF <<i, o>> \in g.cond THEN Append(SoFar(g, o, pos), <<i, o>>)
                                                  ELSE SoFar(g, o, pos)
      BY <1>4, <3>1, <3>2
    <3> QED BY <3>3 DEF i
  <2> QED BY <2>1, <2>2
<1> QED BY <1>6, <1>7, <1>8, <1>9 DEF Progress

-----------------------------------------------------------------------------
\* An open join has returned the selected ones of the pairs it has joined. A
\* join that ended has returned all, one that died the first of them.
Standing(j, r, g, o, pos) ==
  StandsAt(j, o, pos, Len(g.inner), Len(g.outer)) /\ r = SoFar(g, o, pos)
Reached(j, r, g) ==
  \/ Fresh(j, Len(g.inner), Len(g.outer)) /\ r = <<>>
  \/ \E o, pos : Standing(j, r, g, o, pos)
Finished(r, g) ==
  /\ r = All(g)
  /\ High(g) # 0 => Len(g.inner) < innerArraysize

PairsInv ==
  /\ GivenOK(given) /\ status \in {"open", "ended", "dead"}
  /\ Len(given.inner) # 0 =>
       /\ status = "open" => Reached(nestloop, returned, given)
       /\ status = "ended" => Finished(returned, given)
       /\ status = "dead" => IsPrefix(returned, All(given))

\* The first call's fetches leave the join at a row, if there is one.
LEMMA ReachedStart ==
  ASSUME NEW j \in States, NestLoop_GetOuter(j) \in States, NEW g, GivenOK(g), NEW r,
         Reached(j, r, g)
  PROVE  LET k == Started(j)
         IN  /\ k.outerTuple = NULL => High(g) = 0 /\ r = <<>>
             /\ k.outerTuple # NULL => \E o, pos : Standing(k, r, g, o, pos)
<1> DEFINE n == Len(g.inner)
           m == Len(g.outer)
           k == Started(j)
<1>1. n \in Nat /\ m \in 0 .. MaxOuter BY JoinAssumption DEF GivenOK
<1>2. \A o \in 1 .. m : o # NULL BY <1>1, JoinAssumption
<1>3. Progress(g) BY SoFarIs
<1>4. CASE Fresh(j, n, m) /\ r = <<>>
  <2>1. /\ m = 0 => k.outerTuple = NULL
        /\ m # 0 => StandsAt(k, 1, 0, n, m)
    <3> HIDE DEF n, m
    <3> QED BY <1>1, <1>4, StartIs
  <2> HIDE DEF k
  <2>2. m # 0 => k.outerTuple # NULL /\ Standing(k, r, g, 1, 0)
    <3>1. m # 0 => r = SoFar(g, 1, 0) BY <1>3, <1>4 DEF Progress, High
    <3>2. m # 0 => k.outerTuple # NULL BY <2>1, <1>2 DEF StandsAt
    <3> QED BY <2>1, <3>1, <3>2 DEF Standing
  <2> QED BY <2>1, <2>2, <1>4 DEF High, k
<1>5. CASE \E o, pos : Standing(j, r, g, o, pos)
  <2>1. j.outerTuple # NULL BY <1>5, <1>2 DEF Standing, StandsAt
  <2>2. k = j BY <2>1 DEF Started
  <2> QED BY <1>5, <2>1, <2>2
<1> QED BY <1>4, <1>5 DEF Reached

\* The fetch at the end of the array goes on to a row, or all rows are done.
LEMMA ReachedAdvance ==
  ASSUME NEW j \in States, NestLoop_GetOuter(j) \in States, NEW g, GivenOK(g), NEW r,
         Len(g.inner) # 0, \E o, pos : Standing(j, r, g, o, pos)
  PROVE  LET k == Advanced(j)
         IN  /\ k.outerTuple = NULL =>
                  /\ r = All(g)
                  /\ k.isLastLoop <=> Len(g.inner) < innerArraysize
             /\ k.outerTuple # NULL =>
                  \E o, pos : Standing(k, r, g, o, pos) /\ pos # Wide(g)
<1> DEFINE n == Len(g.inner)
           m == Len(g.outer)
           k == Advanced(j)
<1>1. n \in Nat /\ m \in 0 .. MaxOuter BY JoinAssumption DEF GivenOK
<1>2. \A o \in 1 .. m : o # NULL BY <1>1, JoinAssumption
<1>3. Progress(g) BY SoFarIs
<1>4. PICK o, pos : StandsAt(j, o, pos, n, m) /\ r = SoFar(g, o, pos) BY DEF Standing
<1>5. o \in 1 .. m /\ pos \in 0 .. Wide(g) /\ j.outerTuple = o
  BY <1>4 DEF StandsAt, Wide
<1>6. /\ pos # Width(n) => k = j
      /\ pos = Width(n) /\ o # m => StandsAt(k, o + 1, 0, n, m)
      /\ pos = Width(n) /\ o = m => /\ k.outerTuple = NULL
                                    /\ k.isLastLoop <=> n < innerArraysize
  <2> HIDE DEF n, m
  <2> QED BY <1>1, <1>4, AdvanceIs
<1>7. Wide(g) = Width(n) /\ High(g) = m BY DEF Wide, High
<1> HIDE DEF k
<1>8. CASE pos # Width(n)
  <2>1. Standing(k, r, g, o, pos) BY <1>4, <1>6, <1>8 DEF Standing
  <2>2. k.outerTuple # NULL BY <1>2, <1>5, <1>6, <1>8
  <2> QED BY <1>7, <1>8, <2>1, <2>2 DEF k
<1>9. CASE pos = Width(n) /\ o # m
  <2> DEFINE p == o + 1
  <2>1. StandsAt(k, p, 0, n, m) BY <1>6, <1>9
  <2>2. r = SoFar(g, p, 0) BY <1>3, <1>4, <1>5, <1>7, <1>9 DEF Progress
  <2> HIDE DEF p
  <2>3. Standing(k, r, g, p, 0) BY <2>1, <2>2 DEF Standing
  <2>4. k.outerTuple # NULL BY <1>2, <2>1 DEF StandsAt
  <2>5. 0 # Wide(g)
    <3>1. n # 0 OBVIOUS
    <3> QED BY <1>1, <1>7, <3>1, WidthIs
  <2> QED BY <2>3, <2>4, <2>5 DEF k
<1>10. CASE pos = Width(n) /\ o = m
  <2>1. r = All(g) BY <1>3, <1>4, <1>5, <1>7, <1>10 DEF Progress
  <2> QED BY <1>6, <1>10, <2>1 DEF k
<1> QED BY <1>8, <1>9, <1>10

\* A pair is joined.
LEMMA StandsJoined ==
  ASSUME NEW j \in States, NEW n \in Nat, NEW m, NEW o, NEW pos,
         StandsAt(j, o, pos, n, m), pos # Width(n)
  PROVE  /\ j.innerArray # <<>> /\ j.innerArray[j.innerPos + 1] = pos + 1
         /\ pos + 1 \in 1 .. n
         /\ StandsAt(Joined(j), o, pos + 1, n, m)
<1> DEFINE W == Width(n)
           p == pos + 1
<1>1. /\ j.innerPos = pos /\ pos \in 0 .. W /\ j.innerArray = Rows(W)
      /\ j.outerTuple = o /\ o \in 1 .. m /\ j.outer.left = RowsFrom(o, m)
      /\ j.isLastLoop <=> n < innerArraysize
  BY DEF StandsAt
<1>2. W \in 0 .. n BY WidthIs
<1>3. p \in 1 .. W /\ p \in 0 .. W
  <2>1. pos # W OBVIOUS
  <2> HIDE DEF W
  <2>2. pos \in 0 .. W /\ W \in Nat BY <1>1, <1>2
  <2> QED BY <2>1, <2>2
<1>4. p \in 1 .. n
  <2> HIDE DEF W, p
  <2> QED BY <1>2, <1>3
<1>5. j.innerArray[p] = p BY <1>1, <1>3 DEF Rows
<1>6. j.innerArray # <<>>
  <2> HIDE DEF W, p
  <2>1. Rows(W) # <<>>
    <3>1. W \in Nat /\ W # 0 BY <1>2, <1>3
    <3>2. Len(Rows(W)) = W BY <3>1, WidthIs
    <3> QED BY <3>1, <3>2
  <2> QED BY <1>1, <2>1
<1>7. Joined(j) = [j EXCEPT !.innerPos = p, !.bytes = j.outerTuple] BY <1>1 DEF Joined
<1> DEFINE k == Joined(j)
<1> HIDE DEF W, p
<1>8. /\ k.innerPos = p /\ k.innerArray = j.innerArray /\ k.outerTuple = j.outerTuple
      /\ k.outer = j.outer /\ k.isLastLoop = j.isLastLoop
  BY <1>7 DEF States
<1> HIDE DEF k
<1>9. StandsAt(k, o, p, n, m) BY <1>1, <1>3, <1>8 DEF StandsAt, W
<1> QED BY <1>1, <1>4, <1>5, <1>6, <1>9 DEF p, k

LEMMA ReachedJoined ==
  ASSUME NEW j \in States, NEW g, GivenOK(g), NEW r,
         \E o, pos : Standing(j, r, g, o, pos) /\ pos # Wide(g),
         NEW pair, pair = <<IF j.innerArray = <<>> THEN Cleared ELSE j.innerArray[j.innerPos + 1],
                            j.outerTuple>>
  PROVE  /\ pair[1] # Cleared
         /\ Reached(Joined(j), IF pair \in g.cond THEN Append(r, pair) ELSE r, g)
<1> DEFINE n == Len(g.inner)
           m == Len(g.outer)
<1>1. n \in Nat /\ n <= MaxInner /\ MaxInner \in Nat BY JoinAssumption DEF GivenOK
<1>2. PICK o, pos : StandsAt(j, o, pos, n, m) /\ r = SoFar(g, o, pos) /\ pos # Wide(g)
  BY DEF Standing
<1>3. Width(n) = Wide(g) /\ High(g) = m BY DEF Wide, High
<1>4. /\ j.innerArray # <<>> /\ j.innerArray[j.innerPos + 1] = pos + 1
      /\ pos + 1 \in 1 .. n
      /\ StandsAt(Joined(j), o, pos + 1, n, m)
  <2> HIDE DEF n, m
  <2> QED BY <1>1, <1>2, <1>3, StandsJoined
<1>5. o \in 1 .. High(g) /\ pos \in 0 .. Wide(g) /\ j.outerTuple = o
  BY <1>2, <1>3 DEF StandsAt
<1> DEFINE p == pos + 1
<1>6. pair = <<p, o>> BY <1>4, <1>5
<1>7. p # Cleared BY <1>1, <1>4, JoinAssumption
<1>8. SoFar(g, o, p) = IF <<p, o>> \in g.cond THEN Append(r, <<p, o>>) ELSE r
  <2>1. Progress(g) BY SoFarIs
  <2> QED BY <2>1, <1>2, <1>5 DEF Progress
<1>9. StandsAt(Joined(j), o, p, n, m) BY <1>4
<1> HIDE DEF p, n, m
<1>10. Standing(Joined(j), IF pair \in g.cond THEN Append(r, pair) ELSE r, g, o, p)
  BY <1>6, <1>8, <1>9 DEF Standing, n, m
<1>11. pair[1] # Cleared BY <1>6, <1>7
<1> QED BY <1>10, <1>11 DEF Reached

\* What an open join has returned begins the whole.
LEMMA ReachedBegins ==
  ASSUME NEW j, NEW g, GivenOK(g), NEW r, Reached(j, r, g)
  PROVE  IsPrefix(r, All(g))
<1>1. Progress(g) BY SoFarIs
<1>2. CASE r = <<>>
  <2>1. Len(r) = 0 BY <1>2
  <2>2. CASE High(g) = 0
    <3>1. All(g) = r BY <1>1, <1>2, <2>2 DEF Progress
    <3>2. r = <<>> /\ All(g) = <<>> BY <1>2, <3>1
    <3>3. IsPrefix(<<>>, <<>>) BY DEF IsPrefix
    <3> QED BY <3>2, <3>3
  <2>3. CASE High(g) # 0
    <3>1. SoFar(g, 1, 0) = r BY <1>1, <1>2, <2>3 DEF Progress
    <3>2. 1 \in 1 .. High(g) /\ 0 \in 0 .. Wide(g)
      <4>1. Len(g.inner) \in Nat /\ High(g) \in Nat BY JoinAssumption DEF GivenOK, High
      <4>2. Wide(g) \in Nat BY <4>1, WidthIs DEF Wide
      <4> QED BY <2>3, <4>1, <4>2
    <3>3. IsPrefix(SoFar(g, 1, 0), All(g)) BY <1>1, <3>2 DEF Progress
    <3> QED BY <3>1, <3>3
  <2> QED BY <2>2, <2>3
<1>3. ASSUME NEW o, NEW pos, Standing(j, r, g, o, pos) PROVE IsPrefix(r, All(g))
  <2>1. o \in 1 .. High(g) /\ pos \in 0 .. Wide(g) /\ r = SoFar(g, o, pos)
    BY <1>3 DEF Standing, StandsAt, High, Wide
  <2> QED BY <1>1, <2>1 DEF Progress
<1> QED BY <1>2, <1>3 DEF Reached

\* What the join should return is what it counts its way through.
LEMMA WantedIs == GivenOK(given) => Wanted = All(given)
<1> SUFFICES ASSUME GivenOK(given) PROVE Wanted = All(given) OBVIOUS
<1> DEFINE n == Len(given.inner)
           array == Restrict(given.inner, DOMAIN given.inner \cap 1 .. innerArraysize)
<1>1. n \in Nat /\ given.inner = Rows(n) /\ given.outer = Rows(High(given))
  BY JoinAssumption DEF GivenOK, High
<1>2. array = Rows(Width(n))
  <2>1. DOMAIN given.inner \cap 1 .. innerArraysize = 1 .. Width(n)
    <3>1. DOMAIN given.inner = 1 .. n BY <1>1, WidthIs
    <3>2. 1 .. n \cap 1 .. innerArraysize = 1 .. Width(n)
      <4> HIDE DEF n
      <4> QED BY <1>1, JoinAssumption DEF Width
    <3> QED BY <3>1, <3>2
  <2>2. \A i \in 1 .. Width(n) : given.inner[i] = i
    <3>1. 1 .. Width(n) \subseteq 1 .. n
      <4> HIDE DEF n
      <4> QED BY <1>1, WidthIs
    <3>2. given.inner = [i \in 1 .. n |-> i] BY <1>1 DEF Rows
    <3> HIDE DEF n
    <3> QED BY <3>1, <3>2
  <2> QED BY <2>1, <2>2 DEF Restrict, Rows
<1> HIDE DEF array
<1>3. Pairs(array, given.outer) = List(given) BY <1>1, <1>2 DEF List, Wide
<1> QED BY <1>3 DEF Wanted, All, array

LEMMA InitPairs == JoinInit => PairsInv
<1> SUFFICES ASSUME JoinInit PROVE PairsInv OBVIOUS
<1>1. PICK n \in 0 .. MaxInner, m \in 0 .. MaxOuter :
        given.inner = Rows(n) /\ given.outer = Rows(m)
  BY DEF JoinInit
<1>2. Len(given.inner) = n /\ Len(given.outer) = m
  <2>1. n \in Nat /\ m \in Nat BY JoinAssumption
  <2> QED BY <1>1, <2>1, WidthIs
<1>3. GivenOK(given)
  <2>1. given.inner = Rows(Len(given.inner)) /\ given.outer = Rows(Len(given.outer))
    BY <1>1, <1>2
  <2>2. Len(given.inner) \in 0 .. MaxInner /\ Len(given.outer) \in 0 .. MaxOuter BY <1>2
  <2> QED BY <2>1, <2>2 DEF GivenOK
<1>4. Rows(m) = RowsFrom(0, m)
  <2>1. m \in Nat BY JoinAssumption
  <2>2. m - 0 = m BY <2>1
  <2>3. \A i \in 1 .. m : 0 + i = i BY <2>1
  <2> QED BY <2>2, <2>3 DEF Rows, RowsFrom
<1>5. /\ nestloop.outerTuple = NULL /\ ~nestloop.isLastLoop
      /\ nestloop.inner.left = given.inner /\ nestloop.outer.left = given.outer
      /\ status = "open" /\ returned = <<>>
  BY DEF JoinInit, Child
<1>6. Fresh(nestloop, n, m) BY <1>1, <1>4, <1>5 DEF Fresh
<1>7. Reached(nestloop, returned, given) BY <1>2, <1>5, <1>6 DEF Reached
<1> QED BY <1>3, <1>5, <1>7 DEF PairsInv

\* Every step goes on by one pair, or the list is through.
LEMMA StepPairs == JoinInv /\ PairsInv /\ [JoinNext]_joinVars => PairsInv'
<1> SUFFICES ASSUME JoinInv, PairsInv, [JoinNext]_joinVars PROVE PairsInv' OBVIOUS
<1> DEFINE j == Started(nestloop)
           k == Advanced(j)
<1>0. GivenOK(given) /\ Keeps(nestloop, given.outer) /\ (status = "open" => CanAsk(nestloop))
  BY DEF PairsInv, JoinInv
<1>1. ASSUME status = "open", Len(given.inner) # 0
      PROVE  /\ j.outerTuple = NULL => High(given) = 0 /\ returned = <<>>
             /\ j.outerTuple # NULL =>
                  /\ \E o, pos : Standing(j, returned, given, o, pos)
                  /\ k \in States
                  /\ k.outerTuple = NULL =>
                       /\ returned = All(given)
                       /\ k.isLastLoop <=> Len(given.inner) < innerArraysize
                  /\ k.outerTuple # NULL =>
                       \E o, pos : Standing(k, returned, given, o, pos) /\ pos # Wide(given)
  <2>1. Reached(nestloop, returned, given) BY <1>1 DEF PairsInv
  <2>2. nestloop \in States /\ NestLoop_GetOuter(nestloop) \in States
    <3>1. Keeps(NestLoop_GetOuter(nestloop), given.outer)
      BY <1>0, <1>1, OuterFetched DEF CanAsk
    <3> QED BY <1>0, <3>1 DEF Keeps
  <2>3. /\ j.outerTuple = NULL => High(given) = 0 /\ returned = <<>>
        /\ j.outerTuple # NULL => \E o, pos : Standing(j, returned, given, o, pos)
    BY <1>0, <2>1, <2>2, ReachedStart
  <2>4. Keeps(j, given.outer) /\ (j.outerTuple # NULL => ~j.outer.ended)
    BY <1>0, <1>1, StartKeeps
  <2> HIDE DEF j
  <2>5. ASSUME j.outerTuple # NULL
        PROVE  /\ k \in States
               /\ k.outerTuple = NULL =>
                    /\ returned = All(given)
                    /\ k.isLastLoop <=> Len(given.inner) < innerArraysize
               /\ k.outerTuple # NULL =>
                    \E o, pos : Standing(k, returned, given, o, pos) /\ pos # Wide(given)
    <3>1. Keeps(k, given.outer) BY <2>4, <2>5, AdvanceKeeps
    <3>2. Keeps(NestLoop_GetOuter(j), given.outer) BY <2>4, <2>5, OuterFetched
    <3>3. j \in States /\ NestLoop_GetOuter(j) \in States /\ k \in States
      <4> HIDE DEF k
      <4> QED BY <2>4, <3>1, <3>2 DEF Keeps
    <3>4. \E o, pos : Standing(j, returned, given, o, pos) BY <2>3, <2>5
    <3> QED BY <1>0, <1>1, <3>3, <3>4, ReachedAdvance
  <2> HIDE DEF k
  <2> QED BY <2>3, <2>5
<1> HIDE DEF j, k
<1>2. CASE JoinEnds
  <2>1. given' = given /\ returned' = returned /\ status' = "ended" /\ status = "open"
    BY <1>2 DEF JoinEnds
  <2>2. j.outerTuple = NULL \/ (j.outerTuple # NULL /\ k.outerTuple = NULL /\ k.isLastLoop)
    BY <1>2 DEF JoinEnds, j, k
  <2>3. Len(given.inner) # 0 => Finished(returned, given)
    <3>1. High(given) = 0 => All(given) = <<>> BY <1>0, SoFarIs DEF Progress
    <3> QED BY <1>1, <2>1, <2>2, <3>1 DEF Finished
  <2> QED BY <1>0, <2>1, <2>3 DEF PairsInv
<1>3. CASE ArrayEnds
  <2>1. given' = given /\ returned' = returned /\ status' = "dead" /\ status = "open"
    BY <1>3 DEF ArrayEnds
  <2>2. Len(given.inner) # 0 => IsPrefix(returned, All(given))
    <3>1. Len(given.inner) # 0 => Reached(nestloop, returned, given) BY <2>1 DEF PairsInv
    <3> QED BY <1>0, <3>1, ReachedBegins
  <2> QED BY <1>0, <2>1, <2>2 DEF PairsInv
<1>4. CASE tupleJoin
  <2> DEFINE inner == IF k.innerArray = <<>> THEN Cleared ELSE k.innerArray[k.innerPos + 1]
             pair == <<inner, k.outerTuple>>
  <2>1. given' = given /\ status = "open" BY <1>4 DEF tupleJoin
  <2>2. j.outerTuple # NULL /\ k.outerTuple # NULL /\ nestloop' = Joined(k)
    BY <1>4 DEF tupleJoin, j, k
  <2>3. \/ /\ returned' = IF pair \in given.cond THEN Append(returned, pair) ELSE returned
           /\ status' = status
        \/ pair[1] = Cleared /\ status' = "dead"
    BY <1>4 DEF tupleJoin, j, k
  <2>4. Len(given.inner) # 0 =>
          /\ pair[1] # Cleared
          /\ Reached(Joined(k), IF pair \in given.cond THEN Append(returned, pair) ELSE returned,
                     given)
    BY <1>0, <1>1, <2>1, <2>2, ReachedJoined
  <2> HIDE DEF pair
  <2>5. Len(given.inner) # 0 => status' = status /\ Reached(nestloop', returned', given)
    BY <2>2, <2>3, <2>4
  <2>6. status' \in {"open", "ended", "dead"} BY <2>1, <2>3
  <2> QED BY <1>0, <2>1, <2>5, <2>6 DEF PairsInv
<1>5. CASE UNCHANGED joinVars BY <1>5 DEF joinVars, PairsInv
<1> QED BY <1>2, <1>3, <1>4, <1>5 DEF JoinNext

\* Whatever the numbers of rows, the size of the array and the condition: if there
\* are inner rows, the join has returned the first of the pairs for which the
\* condition holds, each once and in the order of the loops, and all of them when
\* it ends, which it does only if the inner rows fit in one array
\* (execJoin.c:30-60).
THEOREM PairsAreExact == JoinSpec => []PairsExact
<1>1. PairsInv => PairsExact
  <2> SUFFICES ASSUME PairsInv, given.inner # <<>> PROVE
        /\ IsPrefix(returned, Wanted)
        /\ status = "ended" => returned = Wanted
        /\ status = "ended" /\ given.outer # <<>> => Len(given.inner) < innerArraysize
    BY DEF PairsExact
  <2>1. GivenOK(given) BY DEF PairsInv
  <2>2. Wanted = All(given) BY <2>1, WantedIs
  <2>3. Len(given.inner) # 0 /\ (given.outer # <<>> => High(given) # 0)
    <3>1. Len(given.inner) \in Nat /\ Len(given.outer) \in Nat
      BY <2>1, JoinAssumption DEF GivenOK
    <3>2. Len(given.inner) = 0 => given.inner = <<>>
      <4>1. 0 \in Nat OBVIOUS
      <4>2. Rows(0) = <<>> BY <4>1, WidthIs
      <4> QED BY <2>1, <4>2 DEF GivenOK
    <3>3. Len(given.outer) = 0 => given.outer = <<>>
      <4>1. 0 \in Nat OBVIOUS
      <4>2. Rows(0) = <<>> BY <4>1, WidthIs
      <4> QED BY <2>1, <4>2 DEF GivenOK
    <3> QED BY <3>2, <3>3 DEF High
  <2>4. status = "ended" => Finished(returned, given) BY <2>3 DEF PairsInv
  <2>5. IsPrefix(returned, All(given))
    <3>1. CASE status = "open"
      <4>1. Reached(nestloop, returned, given) BY <2>3, <3>1 DEF PairsInv
      <4> QED BY <2>1, <4>1, ReachedBegins
    <3>2. CASE status = "dead" BY <2>3, <3>2 DEF PairsInv
    <3>3. CASE status = "ended"
      <4>1. returned = All(given) BY <2>4, <3>3 DEF Finished
      <4>2. IsPrefix(All(given), All(given)) BY DEF IsPrefix
      <4> QED BY <4>1, <4>2
    <3> QED BY <3>1, <3>2, <3>3 DEF PairsInv
  <2> QED BY <2>2, <2>3, <2>4, <2>5 DEF Finished
<1> QED BY InitJoin, StepJoin, InitPairs, StepPairs, <1>1, PTL DEF JoinSpec

-----------------------------------------------------------------------------
\* Bytes written over bytes.

LEMMA WrittenType ==
  ASSUME NEW S, NEW f \in Seq(S), NEW s \in Seq(S), NEW p \in 0 .. Len(f)
  PROVE  /\ Written(f, p, s) \in Seq(S)
         /\ Len(Written(f, p, s)) = Longer(Len(f), p + Len(s))
         /\ p + Len(s) \in 0 .. Len(Written(f, p, s))
         /\ Len(f) <= Len(Written(f, p, s))
<1> DEFINE n == Longer(Len(f), p + Len(s))
<1>1. Len(f) \in Nat /\ Len(s) \in Nat /\ p \in Nat OBVIOUS
<1>2. n \in Nat /\ n >= Len(f) /\ n >= p + Len(s) BY <1>1 DEF Longer
<1>3. ASSUME NEW i \in 1 .. n
      PROVE  (IF i \in p + 1 .. p + Len(s) THEN s[i - p] ELSE f[i]) \in S
  <2>1. CASE i \in p + 1 .. p + Len(s)
    <3>1. i - p \in 1 .. Len(s) BY <1>1, <2>1
    <3> QED BY <2>1, <3>1
  <2>2. CASE i \notin p + 1 .. p + Len(s)
    <3>1. i \in 1 .. Len(f) BY <1>1, <2>2 DEF Longer
    <3> QED BY <2>2, <3>1
  <2> QED BY <2>1, <2>2
<1>4. Written(f, p, s) \in [1 .. n -> S] BY <1>3 DEF Written
<1>5. Written(f, p, s) \in Seq(S) /\ Len(Written(f, p, s)) = n
  <2> HIDE DEF n
  <2> QED BY <1>2, <1>4
<1> QED BY <1>1, <1>2, <1>5

LEMMA WrittenNothing ==
  ASSUME NEW S, NEW f \in Seq(S), NEW p \in 0 .. Len(f)
  PROVE  Written(f, p, <<>>) = f
<1>1. Len(f) \in Nat /\ p \in Nat OBVIOUS
<1>2. Longer(Len(f), p + 0) = Len(f) BY <1>1 DEF Longer
<1>3. \A i : i \notin p + 1 .. p + 0 BY <1>1
<1>4. Written(f, p, <<>>) = [i \in 1 .. Len(f) |-> f[i]]
  BY <1>2, <1>3 DEF Written
<1> QED BY <1>4

\* One after the other is the same as both at once.
LEMMA WrittenTwice ==
  ASSUME NEW f \in Seq(Bytes), NEW s \in Seq(Bytes), NEW t \in Seq(Bytes),
         NEW p \in 0 .. Len(f)
  PROVE  Written(Written(f, p, s), p + Len(s), t) = Written(f, p, s \o t)
<1> DEFINE u == s \o t
<1>0. /\ Len(u) = Len(s) + Len(t)
      /\ \A i \in 1 .. Len(s) : u[i] = s[i]
      /\ \A i \in 1 .. Len(t) : u[Len(s) + i] = t[i]
  OBVIOUS
<1> HIDE DEF u
<1> DEFINE g == Written(f, p, s)
           m == Longer(Len(g), p + Len(s) + Len(t))
           n == Longer(Len(f), p + Len(u))
<1>1. Len(f) \in Nat /\ Len(s) \in Nat /\ Len(t) \in Nat /\ p \in Nat OBVIOUS
<1>2. g \in Seq(Bytes) /\ Len(g) = Longer(Len(f), p + Len(s)) BY WrittenType
<1>3. m = n
  <2> DEFINE a == Len(f)
             b == Len(s)
             c == Len(t)
  <2>1. a \in Nat /\ b \in Nat /\ c \in Nat /\ p \in Nat BY <1>1
  <2>2. Longer(Longer(a, p + b), p + b + c) = Longer(a, p + (b + c))
    <3> HIDE DEF a, b, c
    <3>1. CASE a < p + b BY <2>1, <3>1 DEF Longer
    <3>2. CASE ~(a < p + b) BY <2>1, <3>2 DEF Longer
    <3> QED BY <3>1, <3>2
  <2>3. n = Longer(Len(f), p + (Len(s) + Len(t))) BY <1>0
  <2>4. m = Longer(Longer(Len(f), p + Len(s)), p + Len(s) + Len(t)) BY <1>2
  <2> QED BY <2>2, <2>3, <2>4
<1>4. ASSUME NEW i \in 1 .. n
      PROVE  Written(g, p + Len(s), t)[i] = Written(f, p, u)[i]
  <2>1. Written(g, p + Len(s), t)[i]
          = IF i \in p + Len(s) + 1 .. p + Len(s) + Len(t) THEN t[i - (p + Len(s))] ELSE g[i]
    <3> HIDE DEF g
    <3> QED BY <1>3 DEF Written
  <2>2. Written(f, p, u)[i] = IF i \in p + 1 .. p + Len(u) THEN u[i - p] ELSE f[i]
    BY DEF Written
  <2>3. CASE i \in p + Len(s) + 1 .. p + Len(s) + Len(t)
    <3>1. i - (p + Len(s)) \in 1 .. Len(t) BY <1>1, <2>3
    <3>2. u[Len(s) + (i - (p + Len(s)))] = t[i - (p + Len(s))] BY <1>0, <3>1
    <3>3. Len(s) + (i - (p + Len(s))) = i - p BY <1>1
    <3>4. i \in p + 1 .. p + Len(u) BY <1>0, <1>1, <2>3
    <3> QED BY <2>1, <2>2, <2>3, <3>2, <3>3, <3>4
  <2>4. CASE i \in p + 1 .. p + Len(s)
    <3>1. i - p \in 1 .. Len(s) BY <1>1, <2>4
    <3>2. u[i - p] = s[i - p] BY <1>0, <3>1
    <3>3. i \in p + 1 .. p + Len(u) /\ i \notin p + Len(s) + 1 .. p + Len(s) + Len(t)
      BY <1>0, <1>1, <2>4
    <3>4. i \in 1 .. Longer(Len(f), p + Len(s)) BY <1>1, <2>4 DEF Longer
    <3>5. g[i] = s[i - p] BY <2>4, <3>4 DEF Written
    <3> QED BY <2>1, <2>2, <3>2, <3>3, <3>5
  <2>5. CASE i \notin p + 1 .. p + Len(u)
    <3>1. /\ i \notin p + 1 .. p + Len(s)
          /\ i \notin p + Len(s) + 1 .. p + Len(s) + Len(t)
      BY <1>0, <1>1, <2>5
    <3>2. i \in 1 .. Longer(Len(f), p + Len(s)) BY <1>0, <1>1, <2>5 DEF Longer
    <3>3. g[i] = f[i] BY <3>1, <3>2 DEF Written
    <3> QED BY <2>1, <2>2, <2>5, <3>1, <3>3
  <2>6. i \in p + Len(s) + 1 .. p + Len(s) + Len(t) \/ i \in p + 1 .. p + Len(s)
          \/ i \notin p + 1 .. p + Len(u)
    BY <1>0, <1>1
  <2> QED BY <2>3, <2>4, <2>5, <2>6
<1>5. /\ Written(g, p + Len(s), t) = [i \in 1 .. m |-> Written(g, p + Len(s), t)[i]]
      /\ Written(f, p, u) = [i \in 1 .. n |-> Written(f, p, u)[i]]
  <2> HIDE DEF g
  <2> QED BY DEF Written
<1> QED BY <1>3, <1>4, <1>5 DEF u

LEMMA SameSeq ==
  ASSUME NEW S, NEW a \in Seq(S), NEW b \in Seq(S), Len(a) = Len(b),
         \A i \in 1 .. Len(a) : a[i] = b[i]
  PROVE  a = b
  OBVIOUS

LEMMA JoinedSeq ==
  ASSUME NEW a \in Seq(Bytes), NEW b \in Seq(Bytes), NEW w \in Seq(Bytes),
         Len(w) = Len(a) + Len(b),
         \A i \in 1 .. Len(a) : w[i] = a[i],
         \A i \in 1 .. Len(b) : w[Len(a) + i] = b[i]
  PROVE  w = a \o b
<1>1. ASSUME NEW i \in 1 .. Len(w) PROVE w[i] = (a \o b)[i]
  <2>1. CASE i <= Len(a) BY <2>1
  <2>2. CASE i > Len(a)
    <3>1. i - Len(a) \in 1 .. Len(b) /\ Len(a) + (i - Len(a)) = i BY <2>2
    <3>2. w[Len(a) + (i - Len(a))] = b[i - Len(a)] BY <3>1
    <3> QED BY <2>2, <3>1, <3>2
  <2> QED BY <2>1, <2>2
<1> QED BY <1>1

LEMMA OverlayIsWritten == \A f, p, s : Bytewise!Overlay(f, p, s) = Written(f, p, s)
  BY DEF Bytewise!Overlay, Bytewise!Longer, Written, Longer
-----------------------------------------------------------------------------
\* The buffer.

LEMMA CopiedType ==
  ASSUME NEW buf \in [1 .. TMF_BUFFERSIZE -> Bytes], NEW s \in Seq(Bytes),
         NEW p \in Nat, p + Len(s) <= TMF_BUFFERSIZE
  PROVE  /\ Copied(buf, p, s) \in [1 .. TMF_BUFFERSIZE -> Bytes]
         /\ \A i \in 1 .. p : Copied(buf, p, s)[i] = buf[i]
         /\ \A i \in 1 .. Len(s) : Copied(buf, p, s)[p + i] = s[i]
<1>1. Len(s) \in Nat /\ TMF_BUFFERSIZE \in Nat BY TempFileAssumption
<1>2. ASSUME NEW i \in 1 .. TMF_BUFFERSIZE
      PROVE  Copied(buf, p, s)[i] = IF i \in p + 1 .. p + Len(s) THEN s[i - p] ELSE buf[i]
  BY DEF Copied
<1>3. ASSUME NEW i \in 1 .. TMF_BUFFERSIZE PROVE Copied(buf, p, s)[i] \in Bytes
  <2>1. CASE i \in p + 1 .. p + Len(s)
    <3>1. i - p \in 1 .. Len(s) BY <1>1, <2>1
    <3> QED BY <1>2, <2>1, <3>1
  <2>2. CASE i \notin p + 1 .. p + Len(s) BY <1>2, <2>2
  <2> QED BY <2>1, <2>2
<1>4. ASSUME NEW i \in 1 .. p PROVE Copied(buf, p, s)[i] = buf[i]
  <2>1. i \in 1 .. TMF_BUFFERSIZE /\ i \notin p + 1 .. p + Len(s) BY <1>1
  <2> QED BY <1>2, <2>1
<1>5. ASSUME NEW i \in 1 .. Len(s) PROVE Copied(buf, p, s)[p + i] = s[i]
  <2>1. p + i \in 1 .. TMF_BUFFERSIZE /\ p + i \in p + 1 .. p + Len(s) /\ (p + i) - p = i BY <1>1
  <2> QED BY <1>2, <2>1
<1>6. DOMAIN Copied(buf, p, s) = 1 .. TMF_BUFFERSIZE BY DEF Copied
<1>7. Copied(buf, p, s) = [i \in 1 .. TMF_BUFFERSIZE |-> Copied(buf, p, s)[i]] BY DEF Copied
<1> QED BY <1>3, <1>4, <1>5, <1>7

LEMMA PieceType ==
  ASSUME NEW S, NEW s \in Seq(S), NEW m \in 1 .. Len(s) + 1, NEW n \in 0 .. Len(s), m <= n + 1
  PROVE  /\ SubSeq(s, m, n) \in Seq(S)
         /\ Len(SubSeq(s, m, n)) = n - m + 1
         /\ \A i \in 1 .. n - m + 1 : SubSeq(s, m, n)[i] = s[m + i - 1]
  OBVIOUS

\* A function on 1 .. n is a sequence.
LEMMA BufferSeq ==
  ASSUME NEW n \in Nat, NEW S, NEW buf \in [1 .. n -> S]
  PROVE  buf \in Seq(S) /\ Len(buf) = n
  OBVIOUS

LEMMA CopiedFromType ==
  ASSUME NEW buf \in [1 .. TMF_BUFFERSIZE -> Bytes], NEW p \in Nat, NEW k \in Nat
  PROVE  /\ CopiedFrom(buf, p, k) \in Seq(Bytes \cup {Junk})
         /\ Len(CopiedFrom(buf, p, k)) = k
         /\ p + k <= TMF_BUFFERSIZE => \A i \in 1 .. k : CopiedFrom(buf, p, k)[i] = buf[p + i]
<1>1. DOMAIN buf = 1 .. TMF_BUFFERSIZE OBVIOUS
<1>2. CopiedFrom(buf, p, k) \in [1 .. k -> Bytes \cup {Junk}] BY <1>1 DEF CopiedFrom
<1>3. ASSUME p + k <= TMF_BUFFERSIZE, NEW i \in 1 .. k
      PROVE  CopiedFrom(buf, p, k)[i] = buf[p + i]
  <2>1. p + i \in 1 .. TMF_BUFFERSIZE BY <1>3, TempFileAssumption
  <2> QED BY <1>1, <2>1 DEF CopiedFrom
<1> QED BY <1>2, <1>3, BufferSeq

LEMMA Remainder ==
  ASSUME NEW n \in Nat \ {0}, NEW a \in Int
  PROVE  a % n \in 0 .. n - 1 /\ (a \in 0 .. n - 1 => a % n = a)
  OBVIOUS

LEMMA ShorterType ==
  ASSUME NEW m \in Nat, NEW n \in Nat
  PROVE  Shorter(m, n) \in Nat /\ Shorter(m, n) <= m /\ Shorter(m, n) <= n
  BY DEF Shorter

-----------------------------------------------------------------------------
\* The inductive invariant. While a reader is in the first buffer, the buffer
\* has the file's first bytes, as many as there are or fill it.

ReadWindow ==
  state = "read" =>
    /\ filePos = 0 => bufferLen = 0 /\ curPos = 0
    /\ bufferLen = filePos /\ curPos <= bufferLen =>
         /\ bufferLen \in {0, Shorter(TMF_BUFFERSIZE, Len(file))}
         /\ \A i \in 1 .. bufferLen : buffer[i] = file[i]

IInv == TypeOK /\ ReadWindow

LEMMA InitIInv == Init => IInv
<1> SUFFICES ASSUME Init PROVE IInv OBVIOUS
<1>1. file \in Seq(Bytes)
  <2>1. PICK m \in 0 .. MaxLeft : file \in [1 .. m -> Bytes]
    BY DEF Init, TMF_CreateFile, BoundedSeq, SeqOf
  <2> QED BY <2>1, TempFileAssumption, BufferSeq
<1>2. TypeOK
  BY <1>1, TempFileAssumption DEF Init, TMF_CreateFile, NoCall, TypeOK
<1> QED BY <1>2 DEF IInv, ReadWindow, Init, TMF_CreateFile

\* What TMF_BufFlush makes of the file.
LEMMA FlushType ==
  ASSUME TypeOK
  PROVE  /\ TMF_BufFlush \in Seq(Bytes)
         /\ Put \in Seq(Bytes)
         /\ Len(Put) = (IF state = "write" THEN curPos ELSE 0)
         /\ Written(file, filePos, Put) = TMF_BufFlush
<1>1. buffer \in Seq(Bytes) /\ Len(buffer) = TMF_BUFFERSIZE
  BY TempFileAssumption, BufferSeq DEF TypeOK
<1>2. CASE state = "write"
  <2>1. curPos \in 0 .. Len(buffer) BY <1>1, <1>2, TempFileAssumption DEF TypeOK
  <2>2. /\ SubSeq(buffer, 1, curPos) \in Seq(Bytes)
        /\ Len(SubSeq(buffer, 1, curPos)) = curPos
    BY <1>1, <2>1
  <2>3. Written(file, filePos, SubSeq(buffer, 1, curPos)) \in Seq(Bytes)
    BY <2>2, WrittenType DEF TypeOK
  <2> QED BY <1>2, <2>2, <2>3 DEF TMF_BufFlush, Put
<1>3. CASE state # "write"
  <2>1. Written(file, filePos, <<>>) = file BY WrittenNothing DEF TypeOK
  <2> QED BY <1>3, <2>1 DEF TMF_BufFlush, Put, TypeOK
<1> QED BY <1>2, <1>3

LEMMA TurnedIInv ==
  ASSUME IInv, NEW to \in {"write", "read"}, Turned(to), call.op = "none",
         call' \in [op : {to}, data : Seq(Bytes), need : Nat, got : Seq(Bytes \cup {Junk})],
         to = "write" => call'.need = 0, to = "read" => call'.data = <<>>
  PROVE  IInv'
<1>1. TMF_BufFlush \in Seq(Bytes) BY FlushType DEF IInv
<1>2. CASE state = to
  BY <1>2 DEF IInv, TypeOK, ReadWindow, Turned
<1>3. CASE state # to
  <2>1. /\ file' = TMF_BufFlush /\ filePos' = 0 /\ curPos' = 0 /\ bufferLen' = 0
        /\ buffer' = buffer /\ state' = to
    BY <1>3 DEF Turned, ResetPos
  <2>2. TypeOK' BY <1>1, <2>1, TempFileAssumption DEF IInv, TypeOK
  <2> QED BY <2>1, <2>2 DEF IInv, ReadWindow
<1> QED BY <1>2, <1>3

\* What an iteration of TMF_Write puts where.
LEMMA WriteFacts ==
  ASSUME TypeOK, WritePiece
  PROVE  LET n == Shorter(Room, Len(call.data))
             piece == SubSeq(call.data, 1, n)
             filled == Copied(buffer, curPos, piece)
         IN  /\ n \in 0 .. Len(call.data) /\ curPos + n <= TMF_BUFFERSIZE
             /\ curPos \in Nat
             /\ piece \in Seq(Bytes) /\ Len(piece) = n
             /\ filled \in [1 .. TMF_BUFFERSIZE -> Bytes]
             /\ SubSeq(filled, 1, curPos + n) \in Seq(Bytes)
             /\ Len(SubSeq(filled, 1, curPos + n)) = curPos + n
             /\ \A i \in 1 .. curPos : SubSeq(filled, 1, curPos + n)[i] = buffer[i]
             /\ \A i \in 1 .. n : SubSeq(filled, 1, curPos + n)[curPos + i] = piece[i]
             /\ call'.data \in Seq(Bytes)
             /\ Len(call'.data) = Len(call.data) - n
<1> DEFINE n == Shorter(Room, Len(call.data))
           piece == SubSeq(call.data, 1, n)
           filled == Copied(buffer, curPos, piece)
<1>1. state = "write" /\ curPos \in 0 .. TMF_BUFFERSIZE /\ TMF_BUFFERSIZE \in Nat
  BY TempFileAssumption DEF WritePiece, TypeOK
<1>2. call.data \in Seq(Bytes) /\ Len(call.data) \in Nat BY DEF TypeOK
<1>3. n \in 0 .. Len(call.data) /\ curPos + n <= TMF_BUFFERSIZE
  BY <1>1, <1>2 DEF Shorter, Room
<1> HIDE DEF n
<1>4. piece \in Seq(Bytes) /\ Len(piece) = n BY <1>2, <1>3
<1> HIDE DEF piece
<1>5. /\ filled \in [1 .. TMF_BUFFERSIZE -> Bytes]
      /\ \A i \in 1 .. curPos : filled[i] = buffer[i]
      /\ \A i \in 1 .. n : filled[curPos + i] = piece[i]
  <2>1. buffer \in [1 .. TMF_BUFFERSIZE -> Bytes] BY DEF TypeOK
  <2>2. curPos \in Nat /\ curPos + Len(piece) <= TMF_BUFFERSIZE BY <1>1, <1>3, <1>4
  <2>3. /\ Copied(buffer, curPos, piece) \in [1 .. TMF_BUFFERSIZE -> Bytes]
        /\ \A i \in 1 .. curPos : Copied(buffer, curPos, piece)[i] = buffer[i]
        /\ \A i \in 1 .. Len(piece) : Copied(buffer, curPos, piece)[curPos + i] = piece[i]
    BY <1>1, <1>4, <2>1, <2>2, CopiedType
  <2> QED BY <1>4, <2>3
<1> HIDE DEF filled
<1>6. filled \in Seq(Bytes) /\ Len(filled) = TMF_BUFFERSIZE BY <1>1, <1>5, BufferSeq
<1>7. curPos + n \in 0 .. Len(filled) BY <1>1, <1>3, <1>6
<1>8. /\ SubSeq(filled, 1, curPos + n) \in Seq(Bytes)
      /\ Len(SubSeq(filled, 1, curPos + n)) = curPos + n
      /\ \A i \in 1 .. curPos + n : SubSeq(filled, 1, curPos + n)[i] = filled[i]
  BY <1>6, <1>7
<1>9. /\ \A i \in 1 .. curPos : SubSeq(filled, 1, curPos + n)[i] = buffer[i]
      /\ \A i \in 1 .. n : SubSeq(filled, 1, curPos + n)[curPos + i] = piece[i]
  <2>1. \A i \in 1 .. curPos : i \in 1 .. curPos + n BY <1>1, <1>3
  <2>2. \A i \in 1 .. n : curPos + i \in 1 .. curPos + n BY <1>1, <1>3
  <2> QED BY <1>5, <1>8, <2>1, <2>2
<1>10. call'.data = SubSeq(call.data, n + 1, Len(call.data))
  BY DEF WritePiece, Rest, n, TypeOK
<1>11. call'.data \in Seq(Bytes) /\ Len(call'.data) = Len(call.data) - n
  BY <1>2, <1>3, <1>10
<1> QED BY <1>1, <1>3, <1>4, <1>5, <1>8, <1>9, <1>11 DEF n, piece, filled

LEMMA WriteIInv == IInv /\ WritePiece => IInv'
<1> SUFFICES ASSUME IInv, WritePiece PROVE IInv' OBVIOUS
<1> DEFINE n == Shorter(Room, Len(call.data))
           filled == Copied(buffer, curPos, SubSeq(call.data, 1, n))
           whole == SubSeq(filled, 1, curPos + n)
<1>1. TypeOK BY DEF IInv
<1>2. /\ n \in Nat /\ curPos + n <= TMF_BUFFERSIZE /\ curPos \in Nat
      /\ filled \in [1 .. TMF_BUFFERSIZE -> Bytes]
      /\ whole \in Seq(Bytes) /\ Len(whole) = curPos + n
      /\ call'.data \in Seq(Bytes)
  BY <1>1, WriteFacts
<1>3. /\ buffer' = filled /\ state' = state /\ state = "write"
      /\ bufferLen' = (bufferLen + n) % UintRange
      /\ \/ file' = Written(file, filePos, whole) /\ filePos' = filePos + (curPos + n) /\ curPos' = 0
         \/ file' = file /\ filePos' = filePos /\ curPos' = curPos + n
      /\ call' = [call EXCEPT !.data = call'.data]
  BY <1>1 DEF WritePiece, TypeOK, Rest
<1> HIDE DEF n, filled, whole
<1>4. /\ Written(file, filePos, whole) \in Seq(Bytes)
      /\ filePos + (curPos + n) \in 0 .. Len(Written(file, filePos, whole))
  BY <1>1, <1>2, WrittenType DEF TypeOK
<1>5. file' \in Seq(Bytes) /\ filePos' \in 0 .. Len(file') BY <1>1, <1>3, <1>4 DEF TypeOK
<1>6. bufferLen' \in 0 .. UintRange - 1
  <2>1. bufferLen + n \in Int BY <1>1, <1>2 DEF TypeOK
  <2>2. UintRange \in Nat \ {0} BY TempFileAssumption
  <2> QED BY <1>3, <2>1, <2>2, Remainder
<1>7. curPos' \in Nat /\ curPos' <= TMF_BUFFERSIZE BY <1>2, <1>3, TempFileAssumption
<1>8. /\ call' \in [op : {"none", "write", "read"}, data : Seq(Bytes), need : Nat,
                     got : Seq(Bytes \cup {Junk})]
      /\ call'.op = "write" /\ call'.need = 0
  BY <1>1, <1>2, <1>3 DEF TypeOK, WritePiece
<1>9. TypeOK' BY <1>2, <1>3, <1>5, <1>6, <1>7, <1>8 DEF TypeOK
<1> QED BY <1>3, <1>9 DEF IInv, ReadWindow

\* What an iteration of TMF_Read gets from where.
LEMMA ReadFacts ==
  ASSUME TypeOK, ReadPiece
  PROVE  LET more == Shorter(TMF_BUFFERSIZE, Len(file) - filePos)
             refill == curPos >= bufferLen
             buf == IF refill THEN Copied(buffer, 0, SubSeq(file, filePos + 1, filePos + more))
                    ELSE buffer
             len == IF refill THEN more ELSE bufferLen
             n == Shorter((len - curPos) % UintRange, call.need)
         IN  /\ more \in Nat /\ filePos + more <= Len(file) /\ more <= TMF_BUFFERSIZE
             /\ buf \in [1 .. TMF_BUFFERSIZE -> Bytes]
             /\ refill => \A i \in 1 .. more : buf[i] = file[filePos + i]
             /\ len \in 0 .. UintRange - 1
             /\ n \in 0 .. call.need
             /\ curPos <= len => n = Shorter(len - curPos, call.need)
             /\ CopiedFrom(buf, curPos, n) \in Seq(Bytes \cup {Junk})
             /\ Len(CopiedFrom(buf, curPos, n)) = n
             /\ curPos + n <= TMF_BUFFERSIZE =>
                  \A i \in 1 .. n : CopiedFrom(buf, curPos, n)[i] = buf[curPos + i]
<1> DEFINE more == Shorter(TMF_BUFFERSIZE, Len(file) - filePos)
           refill == curPos >= bufferLen
           piece == SubSeq(file, filePos + 1, filePos + more)
           buf == IF refill THEN Copied(buffer, 0, piece) ELSE buffer
           len == IF refill THEN more ELSE bufferLen
           n == Shorter((len - curPos) % UintRange, call.need)
<1>1. /\ file \in Seq(Bytes) /\ Len(file) \in Nat /\ filePos \in 0 .. Len(file)
      /\ curPos \in Nat /\ bufferLen \in 0 .. UintRange - 1 /\ call.need \in Nat
      /\ TMF_BUFFERSIZE \in Nat /\ UintRange \in Nat /\ TMF_BUFFERSIZE < UintRange
      /\ buffer \in [1 .. TMF_BUFFERSIZE -> Bytes]
  BY TempFileAssumption DEF TypeOK
<1>2. more \in Nat /\ filePos + more <= Len(file) /\ more <= TMF_BUFFERSIZE
  BY <1>1 DEF Shorter
<1> HIDE DEF more
<1>3. /\ piece \in Seq(Bytes) /\ Len(piece) = more
      /\ \A i \in 1 .. more : piece[i] = file[filePos + i]
  <2>1. filePos + 1 \in 1 .. Len(file) + 1 /\ filePos + more \in 0 .. Len(file)
    BY <1>1, <1>2
  <2>2. filePos + 1 <= (filePos + more) + 1 /\ (filePos + more) - (filePos + 1) + 1 = more
    BY <1>1, <1>2
  <2>3. /\ piece \in Seq(Bytes) /\ Len(piece) = (filePos + more) - (filePos + 1) + 1
        /\ \A i \in 1 .. (filePos + more) - (filePos + 1) + 1 :
             piece[i] = file[(filePos + 1) + i - 1]
    BY <1>1, <2>1, <2>2, PieceType
  <2>4. \A i \in 1 .. more : (filePos + 1) + i - 1 = filePos + i BY <1>1, <1>2
  <2> QED BY <2>2, <2>3, <2>4
<1> HIDE DEF piece
<1>4. /\ buf \in [1 .. TMF_BUFFERSIZE -> Bytes]
      /\ refill => \A i \in 1 .. more : buf[i] = file[filePos + i]
  <2>1. 0 + Len(piece) <= TMF_BUFFERSIZE /\ 0 \in Nat BY <1>2, <1>3
  <2>2. /\ Copied(buffer, 0, piece) \in [1 .. TMF_BUFFERSIZE -> Bytes]
        /\ \A i \in 1 .. Len(piece) : Copied(buffer, 0, piece)[0 + i] = piece[i]
    BY <1>1, <1>3, <2>1, CopiedType
  <2>3. \A i \in 1 .. more : 0 + i = i OBVIOUS
  <2> QED BY <1>1, <1>3, <2>2, <2>3
<1> HIDE DEF buf
<1>5. len \in 0 .. UintRange - 1 BY <1>1, <1>2
<1> HIDE DEF len
<1>6. /\ (len - curPos) % UintRange \in 0 .. UintRange - 1
      /\ curPos <= len => (len - curPos) % UintRange = len - curPos
  <2>1. UintRange \in Nat \ {0} /\ len - curPos \in Int BY <1>1, <1>5
  <2>2. curPos <= len => len - curPos \in 0 .. UintRange - 1 BY <1>1, <1>5
  <2> QED BY <2>1, <2>2, Remainder
<1>7. n \in 0 .. call.need /\ (curPos <= len => n = Shorter(len - curPos, call.need))
  <2>1. (len - curPos) % UintRange \in Nat BY <1>6
  <2>2. n \in Nat /\ n <= call.need BY <1>1, <2>1, ShorterType
  <2> QED BY <1>6, <2>2
<1> HIDE DEF n
<1>8. /\ CopiedFrom(buf, curPos, n) \in Seq(Bytes \cup {Junk})
      /\ Len(CopiedFrom(buf, curPos, n)) = n
      /\ curPos + n <= TMF_BUFFERSIZE =>
           \A i \in 1 .. n : CopiedFrom(buf, curPos, n)[i] = buf[curPos + i]
  <2>1. n \in Nat /\ curPos \in Nat /\ TMF_BUFFERSIZE \in Nat BY <1>1, <1>7
  <2>2. buf \in [1 .. TMF_BUFFERSIZE -> Bytes] BY <1>4
  <2> QED BY <2>1, <2>2, CopiedFromType
<1> QED BY <1>2, <1>4, <1>5, <1>7, <1>8 DEF more, piece, buf, len, n

LEMMA ReadIInv == IInv /\ ReadPiece => IInv'
<1> SUFFICES ASSUME IInv, ReadPiece PROVE IInv' OBVIOUS
<1> DEFINE more == Shorter(TMF_BUFFERSIZE, Len(file) - filePos)
           refill == curPos >= bufferLen
           buf == IF refill THEN Copied(buffer, 0, SubSeq(file, filePos + 1, filePos + more))
                  ELSE buffer
           len == IF refill THEN more ELSE bufferLen
           n == Shorter((len - curPos) % UintRange, call.need)
           new == CopiedFrom(buf, curPos, n)
<1>1. TypeOK BY DEF IInv
<1>2. /\ more \in Nat /\ filePos + more <= Len(file) /\ more <= TMF_BUFFERSIZE
      /\ buf \in [1 .. TMF_BUFFERSIZE -> Bytes]
      /\ refill => \A i \in 1 .. more : buf[i] = file[filePos + i]
      /\ len \in 0 .. UintRange - 1
      /\ n \in 0 .. call.need
      /\ curPos <= len => n = Shorter(len - curPos, call.need)
      /\ new \in Seq(Bytes \cup {Junk})
  BY <1>1, ReadFacts
<1>3. /\ buffer' = buf /\ bufferLen' = len /\ curPos' = curPos + n
      /\ filePos' = (IF refill THEN filePos + more ELSE filePos)
      /\ call' = [call EXCEPT !.need = @ - n, !.got = @ \o new]
      /\ file' = file /\ state' = state /\ state = "read" /\ call.op = "read"
  BY <1>1 DEF ReadPiece, TypeOK
<1>4. /\ file \in Seq(Bytes) /\ Len(file) \in Nat /\ filePos \in 0 .. Len(file)
      /\ curPos \in Nat /\ bufferLen \in 0 .. UintRange - 1 /\ call.need \in Nat
      /\ TMF_BUFFERSIZE \in Nat
      /\ call \in [op : {"none", "write", "read"}, data : Seq(Bytes), need : Nat,
                    got : Seq(Bytes \cup {Junk})]
      /\ call.data = <<>>
  BY <1>1, <1>3, TempFileAssumption DEF TypeOK
<1>5. more = Shorter(TMF_BUFFERSIZE, Len(file) - filePos) OBVIOUS
<1>6. refill => len = more OBVIOUS
<1>7. ~refill => len = bufferLen /\ buf = buffer OBVIOUS
<1> HIDE DEF more, buf, len, n, new
<1>8. TypeOK'
  <2>1. n \in Nat /\ call.need - n \in Nat BY <1>2, <1>4
  <2>2. filePos' \in 0 .. Len(file) BY <1>2, <1>3, <1>4
  <2>3. curPos' \in Nat BY <1>3, <1>4, <2>1
  <2>4. call.got \o new \in Seq(Bytes \cup {Junk}) BY <1>2, <1>4
  <2>5. /\ call' \in [op : {"none", "write", "read"}, data : Seq(Bytes), need : Nat,
                       got : Seq(Bytes \cup {Junk})]
        /\ call'.op = "read" /\ call'.data = <<>>
    BY <1>3, <1>4, <2>1, <2>4
  <2> QED BY <1>2, <1>3, <1>4, <2>2, <2>3, <2>5 DEF TypeOK
<1>9. ReadWindow'
  <2>1. /\ filePos = 0 => bufferLen = 0 /\ curPos = 0
        /\ bufferLen = filePos /\ curPos <= bufferLen =>
             /\ bufferLen \in {0, Shorter(TMF_BUFFERSIZE, Len(file))}
             /\ \A i \in 1 .. bufferLen : buffer[i] = file[i]
    BY <1>3 DEF IInv, ReadWindow
  <2>2. CASE refill
    <3>1. filePos' = filePos + more /\ bufferLen' = more /\ len = more
      BY <1>3, <1>6, <2>2
    <3>2. filePos' = 0 => bufferLen' = 0 /\ curPos' = 0
      <4>1. SUFFICES ASSUME filePos' = 0 PROVE bufferLen' = 0 /\ curPos' = 0 OBVIOUS
      <4>2. filePos = 0 /\ more = 0 BY <1>2, <1>4, <3>1, <4>1
      <4>3. curPos = 0 BY <2>1, <4>2
      <4>4. n = Shorter(0 - 0, call.need) BY <1>2, <3>1, <4>2, <4>3
      <4>5. n = 0 BY <1>4, <4>4 DEF Shorter
      <4> QED BY <1>3, <3>1, <4>2, <4>3, <4>5
    <3>3. ASSUME bufferLen' = filePos', curPos' <= bufferLen'
          PROVE  /\ bufferLen' \in {0, Shorter(TMF_BUFFERSIZE, Len(file'))}
                 /\ \A i \in 1 .. bufferLen' : buffer'[i] = file'[i]
      <4>1. filePos = 0 BY <1>2, <1>4, <3>1, <3>3
      <4>2. more = Shorter(TMF_BUFFERSIZE, Len(file)) BY <1>4, <1>5, <4>1
      <4>3. \A i \in 1 .. more : buf[i] = file[i]
        <5>1. \A i \in 1 .. more : filePos + i = i BY <1>2, <4>1
        <5> QED BY <1>2, <2>2, <5>1
      <4> QED BY <1>3, <3>1, <4>2, <4>3
    <3> QED BY <3>2, <3>3 DEF ReadWindow
  <2>3. CASE ~refill
    <3>1. filePos' = filePos /\ bufferLen' = bufferLen /\ buffer' = buffer /\ file' = file
      BY <1>3, <1>7, <2>3
    <3>2. curPos < bufferLen BY <1>4, <2>3
    <3>3. filePos' # 0 BY <1>4, <2>1, <3>1, <3>2
    <3>4. bufferLen' = filePos' => /\ bufferLen' \in {0, Shorter(TMF_BUFFERSIZE, Len(file'))}
                                   /\ \A i \in 1 .. bufferLen' : buffer'[i] = file'[i]
      BY <1>4, <2>1, <3>1, <3>2
    <3> QED BY <3>3, <3>4 DEF ReadWindow
  <2> QED BY <2>2, <2>3
<1> QED BY <1>8, <1>9 DEF IInv

LEMMA NextIInv == IInv /\ [Next]_tempVars => IInv'
<1> SUFFICES ASSUME IInv, [Next]_tempVars PROVE IInv' OBVIOUS
<1>1. ASSUME NEW data \in BoundedSeq(Bytes, MaxLen), TMF_Write(data) PROVE IInv'
  <2>1. data \in Seq(Bytes)
    <3>1. PICK m \in 0 .. MaxLen : data \in [1 .. m -> Bytes] BY DEF BoundedSeq, SeqOf
    <3> QED BY <3>1, TempFileAssumption, BufferSeq
  <2>2. /\ call' \in [op : {"write"}, data : Seq(Bytes), need : Nat, got : Seq(Bytes \cup {Junk})]
        /\ call'.op = "write" /\ call'.need = 0
    <3>1. call' = [op |-> "write", data |-> data, need |-> 0, got |-> <<>>]
      BY <1>1 DEF TMF_Write, NoCall
    <3>2. <<>> \in Seq(Bytes \cup {Junk}) OBVIOUS
    <3> QED BY <2>1, <3>1, <3>2
  <2> QED BY <1>1, <2>2, TurnedIInv DEF TMF_Write
<1>2. ASSUME NEW len \in 0 .. MaxLen, TMF_Read(len) PROVE IInv'
  <2>1. /\ call' \in [op : {"read"}, data : Seq(Bytes), need : Nat, got : Seq(Bytes \cup {Junk})]
        /\ call'.op = "read" /\ call'.data = <<>>
    <3>1. call' = [op |-> "read", data |-> <<>>, need |-> len, got |-> <<>>]
      BY <1>2 DEF TMF_Read, NoCall
    <3>2. <<>> \in Seq(Bytes \cup {Junk}) /\ <<>> \in Seq(Bytes) OBVIOUS
    <3>3. len \in Nat BY TempFileAssumption
    <3> QED BY <3>1, <3>2, <3>3
  <2> QED BY <1>2, <2>1, TurnedIInv DEF TMF_Read
<1>3. CASE TMF_Reset
  <2>1. TMF_BufFlush \in Seq(Bytes) BY FlushType DEF IInv
  <2> QED BY <1>3, <2>1, TempFileAssumption DEF IInv, TypeOK, ReadWindow, TMF_Reset, ResetPos
<1>4. CASE WritePiece BY <1>4, WriteIInv
<1>5. CASE ReadPiece BY <1>5, ReadIInv
<1>6. CASE Return BY <1>6 DEF IInv, TypeOK, ReadWindow, Return
<1>7. CASE UNCHANGED tempVars BY <1>7 DEF IInv, TypeOK, ReadWindow, tempVars
<1> QED BY <1>1, <1>2, <1>3, <1>4, <1>5, <1>6, <1>7 DEF Next, Calls, Loop

\* The fields have their types; in particular the positions stay inside the
\* buffer while it is written, whatever the lengths of the pieces (tempFile.c:66).
THEOREM FileTypeCorrect == Spec => []TypeOK
<1>1. Init => IInv BY InitIInv
<1>2. IInv /\ [Next]_tempVars => IInv' BY NextIInv
<1>3. IInv => TypeOK BY DEF IInv
<1> QED BY <1>1, <1>2, <1>3, PTL DEF Spec

-----------------------------------------------------------------------------
\* Refinement, one lemma for each kind of step.

\* The mapping of INSTANCE, by name.
Content == Written(file, filePos, Put)
Place == IF state = "write" THEN filePos + curPos ELSE curPos
Sound == state = "read" => bufferLen = filePos /\ curPos <= bufferLen

\* A turn leaves the bytes and goes back to the start.
LEMMA TurnMaps ==
  ASSUME IInv, NEW to \in {"write", "read"}, Turned(to)
  PROVE  /\ Content' = Content
         /\ state' = to
         /\ IF state = to THEN UNCHANGED <<Place, Sound>> ELSE Place' = 0 /\ Sound' = TRUE
<1>1. CASE state = to
  <2>1. UNCHANGED <<file, filePos, buffer, curPos, bufferLen, state>>
    BY <1>1 DEF Turned
  <2> QED BY <1>1, <2>1 DEF Content, Put, Place, Sound
<1>2. CASE state # to
  <2>1. /\ file' = TMF_BufFlush /\ filePos' = 0 /\ curPos' = 0 /\ bufferLen' = 0
        /\ buffer' = buffer /\ state' = to
    BY <1>2 DEF Turned, ResetPos
  <2>2. TypeOK /\ TMF_BufFlush \in Seq(Bytes) /\ Content = TMF_BufFlush
    BY FlushType DEF IInv, Content
  <2>3. Put' = <<>> /\ file' \in Seq(Bytes)
    <3>1. SubSeq(buffer, 1, 0) = <<>>
      <4>1. buffer \in Seq(Bytes) BY <2>2, TempFileAssumption, BufferSeq DEF TypeOK
      <4> QED BY <4>1
    <3> QED BY <2>1, <2>2, <3>1 DEF Put
  <2>4. Content' = Content
    <3>1. Written(file', 0, <<>>) = file' BY <2>3, WrittenNothing
    <3> QED BY <2>1, <2>2, <2>3, <3>1 DEF Content
  <2> QED BY <1>2, <2>1, <2>4 DEF Place, Sound
<1> QED BY <1>1, <1>2

LEMMA WriteMaps ==
  IInv /\ WritePiece =>
    \/ UNCHANGED <<Content, Place, call.data, call.need, call.got, Sound>>
    \/ \E n \in 1 .. Len(call.data) :
         /\ Content' = Written(Content, Place, SubSeq(call.data, 1, n))
         /\ Place' = Place + n
         /\ call'.data = SubSeq(call.data, n + 1, Len(call.data))
         /\ call'.need = call.need /\ call'.got = call.got /\ Sound' = Sound
<1> SUFFICES ASSUME IInv, WritePiece
             PROVE  \/ UNCHANGED <<Content, Place, call.data, call.need, call.got, Sound>>
                    \/ \E n \in 1 .. Len(call.data) :
                         /\ Content' = Written(Content, Place, SubSeq(call.data, 1, n))
                         /\ Place' = Place + n
                         /\ call'.data = SubSeq(call.data, n + 1, Len(call.data))
                         /\ call'.need = call.need /\ call'.got = call.got /\ Sound' = Sound
  OBVIOUS
<1> DEFINE n == Shorter(Room, Len(call.data))
           piece == SubSeq(call.data, 1, n)
           filled == Copied(buffer, curPos, piece)
           whole == SubSeq(filled, 1, curPos + n)
<1>1. TypeOK BY DEF IInv
<1>2. /\ n \in 0 .. Len(call.data) /\ curPos + n <= TMF_BUFFERSIZE /\ curPos \in Nat
      /\ piece \in Seq(Bytes) /\ Len(piece) = n
      /\ filled \in [1 .. TMF_BUFFERSIZE -> Bytes]
      /\ whole \in Seq(Bytes) /\ Len(whole) = curPos + n
      /\ \A i \in 1 .. curPos : whole[i] = buffer[i]
      /\ \A i \in 1 .. n : whole[curPos + i] = piece[i]
  BY <1>1, WriteFacts
<1>3. /\ buffer' = filled /\ state' = "write" /\ state = "write"
      /\ \/ file' = Written(file, filePos, whole) /\ filePos' = filePos + (curPos + n) /\ curPos' = 0
         \/ file' = file /\ filePos' = filePos /\ curPos' = curPos + n
      /\ call'.data = SubSeq(call.data, n + 1, Len(call.data))
      /\ call'.need = call.need /\ call'.got = call.got
  BY <1>1 DEF WritePiece, TypeOK, Rest
<1>4. /\ file \in Seq(Bytes) /\ filePos \in 0 .. Len(file) /\ Len(file) \in Nat
      /\ call.data \in Seq(Bytes) /\ Len(call.data) \in Nat
      /\ buffer \in Seq(Bytes) /\ Len(buffer) = TMF_BUFFERSIZE /\ TMF_BUFFERSIZE \in Nat
      /\ curPos \in 0 .. TMF_BUFFERSIZE
  BY <1>1, <1>3, TempFileAssumption, BufferSeq DEF TypeOK
<1>5. Put = SubSeq(buffer, 1, curPos) BY <1>3 DEF Put
<1>6. /\ Put \in Seq(Bytes) /\ Len(Put) = curPos
      /\ \A i \in 1 .. curPos : Put[i] = buffer[i]
  BY <1>4, <1>5
<1>7. Content' = Written(file, filePos, whole)
  <2>1. Written(file, filePos, whole) \in Seq(Bytes)
        /\ filePos + (curPos + n) \in 0 .. Len(Written(file, filePos, whole))
    BY <1>2, <1>4, WrittenType
  <2>2. CASE file' = Written(file, filePos, whole) /\ filePos' = filePos + (curPos + n) /\ curPos' = 0
    <3>1. Put' = <<>>
      <4>1. filled \in Seq(Bytes) BY <1>2, <1>4, BufferSeq
      <4>2. SubSeq(filled, 1, 0) = <<>>
        <5> HIDE DEF filled
        <5> QED BY <4>1
      <4> QED BY <1>3, <2>2, <4>2 DEF Put
    <3>2. Written(file', filePos', <<>>) = file' BY <2>1, <2>2, WrittenNothing
    <3> QED BY <2>2, <3>1, <3>2 DEF Content
  <2>3. CASE file' = file /\ filePos' = filePos /\ curPos' = curPos + n
    <3>1. Put' = whole BY <1>3, <2>3 DEF Put
    <3> QED BY <2>3, <3>1 DEF Content
  <2> QED BY <1>3, <2>2, <2>3
<1>8. Place = filePos + curPos /\ Place' = Place + n
  BY <1>2, <1>3, <1>4 DEF Place
<1>9. Sound' = Sound BY <1>3 DEF Sound
<1> HIDE DEF n, piece, filled, whole
<1>10. Written(Content, Place, piece) = Written(file, filePos, whole)
  <2>1. whole = Put \o piece
    <3>1. Len(whole) = Len(Put) + Len(piece) BY <1>2, <1>6
    <3>2. \A i \in 1 .. Len(Put) : whole[i] = Put[i] BY <1>2, <1>6
    <3>3. \A i \in 1 .. Len(piece) : whole[Len(Put) + i] = piece[i] BY <1>2, <1>6
    <3>4. Put \in Seq(Bytes) /\ piece \in Seq(Bytes) /\ whole \in Seq(Bytes) BY <1>2, <1>6
    <3> HIDE DEF Put
    <3> QED BY <3>1, <3>2, <3>3, <3>4, JoinedSeq
  <2>2. Put \in Seq(Bytes) /\ piece \in Seq(Bytes) BY <1>2, <1>6
  <2>3. file \in Seq(Bytes) /\ filePos \in 0 .. Len(file) BY <1>4
  <2>4. Written(Written(file, filePos, Put), filePos + Len(Put), piece)
          = Written(file, filePos, Put \o piece)
    BY <2>2, <2>3, WrittenTwice
  <2> QED BY <1>6, <1>8, <2>1, <2>4 DEF Content
<1>11. CASE n = 0
  <2>1. piece = <<>> BY <1>2, <1>11
  <2>2. Content \in Seq(Bytes) /\ Place \in 0 .. Len(Content)
    <3>1. /\ Written(file, filePos, Put) \in Seq(Bytes)
          /\ filePos + Len(Put) \in 0 .. Len(Written(file, filePos, Put))
      BY <1>4, <1>6, WrittenType
    <3> QED BY <1>6, <1>8, <3>1 DEF Content
  <2>3. Content' = Content BY <1>7, <1>10, <2>1, <2>2, WrittenNothing
  <2>4. call'.data = call.data BY <1>3, <1>4, <1>11
  <2>5. Place' = Place BY <1>4, <1>8, <1>11
  <2> QED BY <1>3, <1>9, <2>3, <2>4, <2>5
<1>12. CASE n # 0
  <2>1. n \in 1 .. Len(call.data) BY <1>2, <1>12
  <2>2. Content' = Written(Content, Place, SubSeq(call.data, 1, n)) BY <1>7, <1>10 DEF piece
  <2> QED BY <1>3, <1>8, <1>9, <2>1, <2>2
<1> QED BY <1>11, <1>12

GetStep(n) ==
  /\ Sound /\ Place + n <= TMF_BUFFERSIZE /\ Place + n <= Len(Content)
  /\ call'.got = call.got \o SubSeq(Content, Place + 1, Place + n)
  /\ Place' = Place + n /\ call'.need = call.need - n
  /\ Content' = Content /\ call'.data = call.data /\ Sound' = Sound

OverreachStep ==
  /\ Sound => Place + call.need > TMF_BUFFERSIZE \/ Place + call.need > Len(Content)
  /\ Sound' = FALSE
  /\ Content' = Content /\ call'.data = call.data

LEMMA ReadMaps ==
  IInv /\ ReadPiece =>
    \/ UNCHANGED <<Content, Place, call.data, call.need, call.got, Sound>>
    \/ \E n \in 1 .. call.need : GetStep(n)
    \/ OverreachStep
<1> SUFFICES ASSUME IInv, ReadPiece
             PROVE  \/ UNCHANGED <<Content, Place, call.data, call.need, call.got, Sound>>
                    \/ \E n \in 1 .. call.need : GetStep(n)
                    \/ OverreachStep
  OBVIOUS
<1> DEFINE more == Shorter(TMF_BUFFERSIZE, Len(file) - filePos)
           refill == curPos >= bufferLen
           buf == IF refill THEN Copied(buffer, 0, SubSeq(file, filePos + 1, filePos + more))
                  ELSE buffer
           len == IF refill THEN more ELSE bufferLen
           n == Shorter((len - curPos) % UintRange, call.need)
           new == CopiedFrom(buf, curPos, n)
<1>1. TypeOK BY DEF IInv
<1>2. /\ more \in Nat /\ filePos + more <= Len(file) /\ more <= TMF_BUFFERSIZE
      /\ refill => \A i \in 1 .. more : buf[i] = file[filePos + i]
      /\ len \in 0 .. UintRange - 1
      /\ n \in 0 .. call.need
      /\ curPos <= len => n = Shorter(len - curPos, call.need)
      /\ new \in Seq(Bytes \cup {Junk}) /\ Len(new) = n
      /\ curPos + n <= TMF_BUFFERSIZE => \A i \in 1 .. n : new[i] = buf[curPos + i]
  BY <1>1, ReadFacts
<1>3. /\ buffer' = buf /\ bufferLen' = len /\ curPos' = curPos + n
      /\ filePos' = (IF refill THEN filePos + more ELSE filePos)
      /\ call'.need = call.need - n /\ call'.got = call.got \o new /\ call'.data = call.data
      /\ file' = file /\ state' = state /\ state = "read" /\ call.need > 0
  <2>1. call' = [call EXCEPT !.need = @ - n, !.got = @ \o new] BY DEF ReadPiece
  <2>2. call \in [op : {"none", "write", "read"}, data : Seq(Bytes), need : Nat,
                  got : Seq(Bytes \cup {Junk})]
    BY <1>1 DEF TypeOK
  <2>3. call'.need = call.need - n /\ call'.got = call.got \o new /\ call'.data = call.data
    <3> HIDE DEF n, new
    <3> QED BY <2>1, <2>2
  <2> QED BY <1>1, <2>3 DEF ReadPiece, TypeOK
<1>4. /\ file \in Seq(Bytes) /\ Len(file) \in Nat /\ filePos \in 0 .. Len(file)
      /\ curPos \in Nat /\ bufferLen \in 0 .. UintRange - 1 /\ call.need \in Nat
      /\ TMF_BUFFERSIZE \in Nat \ {0} /\ call.got \in Seq(Bytes \cup {Junk})
  BY <1>1, TempFileAssumption DEF TypeOK
<1>5. more = Shorter(TMF_BUFFERSIZE, Len(file) - filePos) OBVIOUS
<1>6. refill => len = more OBVIOUS
<1>7. ~refill => len = bufferLen /\ buf = buffer OBVIOUS
<1> HIDE DEF more, buf, len, n, new
<1>8. Content = file /\ Content' = file /\ Place = curPos /\ Place' = curPos + n
  <2>1. Written(file, filePos, <<>>) = file BY <1>4, WrittenNothing
  <2>2. filePos' \in 0 .. Len(file) BY <1>2, <1>3, <1>4
  <2>3. Written(file, filePos', <<>>) = file BY <1>4, <2>2, WrittenNothing
  <2> QED BY <1>3, <2>1, <2>3 DEF Content, Put, Place
<1>9. /\ filePos = 0 => bufferLen = 0 /\ curPos = 0
      /\ bufferLen = filePos /\ curPos <= bufferLen =>
           /\ bufferLen \in {0, Shorter(TMF_BUFFERSIZE, Len(file))}
           /\ \A i \in 1 .. bufferLen : buffer[i] = file[i]
  BY <1>3 DEF IInv, ReadWindow
<1>10. /\ Sound <=> bufferLen = filePos /\ curPos <= bufferLen
       /\ Sound' <=> bufferLen' = filePos' /\ curPos' <= bufferLen'
  BY <1>3 DEF Sound
<1>11. Sound \in BOOLEAN /\ Sound' \in BOOLEAN BY DEF Sound
\* What is left of the first buffer is given, or as much as is asked for.
<1>12. ASSUME len <= TMF_BUFFERSIZE, len <= Len(file), curPos <= len, Sound, Sound', n # 0,
              \A i \in 1 .. len : buf[i] = file[i]
       PROVE  \E k \in 1 .. call.need : GetStep(k)
  <2>1. n \in 1 .. call.need /\ curPos + n <= len
    BY <1>2, <1>4, <1>12 DEF Shorter
  <2>2. curPos + n <= TMF_BUFFERSIZE /\ curPos + n <= Len(file)
    BY <1>2, <1>4, <1>12, <2>1
  <2>3. SubSeq(file, curPos + 1, curPos + n) \in Seq(Bytes)
        /\ Len(SubSeq(file, curPos + 1, curPos + n)) = n
        /\ \A i \in 1 .. n : SubSeq(file, curPos + 1, curPos + n)[i] = file[curPos + i]
    BY <1>2, <1>4, <2>1, <2>2
  <2>4. \A i \in 1 .. n : new[i] = file[curPos + i]
    <3>1. \A i \in 1 .. n : curPos + i \in 1 .. len BY <1>2, <1>4, <2>1
    <3> QED BY <1>2, <1>12, <2>2, <3>1
  <2>5. new = SubSeq(file, curPos + 1, curPos + n)
    <3> DEFINE old == SubSeq(file, curPos + 1, curPos + n)
    <3>1. Len(new) = Len(old) /\ \A i \in 1 .. Len(new) : new[i] = old[i]
      BY <1>2, <2>3, <2>4
    <3>2. old \in Seq(Bytes \cup {Junk}) /\ new \in Seq(Bytes \cup {Junk}) BY <1>2, <2>3
    <3> HIDE DEF old
    <3>3. new = old BY <3>1, <3>2, SameSeq
    <3> QED BY <3>3 DEF old
  <2>6. GetStep(n) BY <1>3, <1>8, <1>11, <1>12, <2>2, <2>5 DEF GetStep
  <2> QED BY <2>1, <2>6
<1>13. CASE Sound /\ bufferLen = 0
  <2>1. refill /\ filePos = 0 /\ curPos = 0 /\ len = more
    BY <1>4, <1>6, <1>10, <1>13
  <2>2. more = Shorter(TMF_BUFFERSIZE, Len(file)) BY <1>4, <1>5, <2>1
  <2>3. n = Shorter(more, call.need)
    <3>1. more - 0 = more BY <1>2
    <3> QED BY <1>2, <2>1, <3>1
  <2>4. Sound'
    <3>1. bufferLen' = more /\ filePos' = more /\ curPos' = n BY <1>2, <1>3, <1>4, <2>1
    <3>2. n <= more BY <1>2, <1>4, <2>3 DEF Shorter
    <3> QED BY <1>10, <3>1, <3>2
  <2>5. CASE n = 0
    <3>1. call'.need = call.need /\ Place' = Place BY <1>3, <1>4, <1>8, <2>5
    <3>2. call'.got = call.got
      <4>1. new = <<>> BY <1>2, <2>5
      <4> QED BY <1>3, <1>4, <4>1
    <3>3. Sound' = Sound BY <1>11, <1>13, <2>4
    <3> QED BY <1>3, <1>8, <3>1, <3>2, <3>3
  <2>6. CASE n # 0
    <3>1. \A i \in 1 .. more : buf[i] = file[i]
      <4>1. \A i \in 1 .. more : filePos + i = i BY <1>2, <2>1
      <4> QED BY <1>2, <2>1, <4>1
    <3>2. len <= TMF_BUFFERSIZE /\ len <= Len(file) /\ curPos <= len
      BY <1>2, <1>4, <2>1
    <3> QED BY <1>12, <1>13, <2>1, <2>4, <2>6, <3>1, <3>2
  <2> QED BY <2>5, <2>6
<1>14. CASE Sound /\ bufferLen # 0 /\ refill
  <2>1. curPos = bufferLen /\ bufferLen = filePos /\ bufferLen = Shorter(TMF_BUFFERSIZE, Len(file))
    BY <1>4, <1>9, <1>10, <1>14
  <2>2. Place + call.need > TMF_BUFFERSIZE \/ Place + call.need > Len(Content)
    BY <1>3, <1>4, <1>8, <2>1 DEF Shorter
  <2>3. ~Sound'
    <3>1. bufferLen' = more /\ filePos' = filePos + more BY <1>3, <1>6, <1>14
    <3>2. filePos + more # more BY <1>2, <1>4, <1>14, <2>1
    <3> QED BY <1>10, <3>1, <3>2
  <2> QED BY <1>3, <1>8, <1>11, <2>2, <2>3 DEF OverreachStep
<1>15. CASE Sound /\ ~refill
  <2>1. /\ len = bufferLen /\ buf = buffer /\ curPos < bufferLen /\ bufferLen = filePos
        /\ bufferLen = Shorter(TMF_BUFFERSIZE, Len(file))
        /\ \A i \in 1 .. bufferLen : buffer[i] = file[i]
    BY <1>4, <1>7, <1>9, <1>10, <1>15
  <2>2. len <= TMF_BUFFERSIZE /\ len <= Len(file) /\ curPos <= len
    BY <1>4, <2>1 DEF Shorter
  <2>3. n = Shorter(len - curPos, call.need) BY <1>2, <2>2
  <2>4. n # 0 /\ curPos + n <= len BY <1>3, <1>4, <2>1, <2>3 DEF Shorter
  <2>5. Sound' BY <1>3, <1>10, <1>15, <2>1, <2>4
  <2> QED BY <1>12, <1>15, <2>1, <2>2, <2>4, <2>5
<1>16. CASE ~Sound
  <2>1. filePos # 0 BY <1>9, <1>10, <1>16
  <2>2. ~Sound'
    <3>1. CASE refill
      <4>1. bufferLen' = more /\ filePos' = filePos + more BY <1>3, <1>6, <3>1
      <4>2. filePos + more # more BY <1>2, <1>4, <2>1
      <4> QED BY <1>10, <4>1, <4>2
    <3>2. CASE ~refill
      <4>1. bufferLen' = bufferLen /\ filePos' = filePos /\ curPos < bufferLen
        BY <1>3, <1>4, <1>7, <3>2
      <4>2. bufferLen # filePos BY <1>4, <1>10, <1>16, <4>1
      <4> QED BY <1>10, <4>1, <4>2
    <3> QED BY <3>1, <3>2
  <2> QED BY <1>3, <1>8, <1>11, <1>16, <2>2 DEF OverreachStep
<1> QED BY <1>13, <1>14, <1>15, <1>16

LEMMA ReturnMaps ==
  IInv /\ (Return \/ UNCHANGED tempVars) =>
    UNCHANGED <<Content, Place, state, call.data, call.need, call.got, Sound>>
<1> SUFFICES ASSUME IInv, Return \/ UNCHANGED tempVars
             PROVE  UNCHANGED <<Content, Place, state, call.data, call.need, call.got, Sound>>
  OBVIOUS
<1>1. UNCHANGED <<file, filePos, buffer, curPos, bufferLen, state>>
  BY DEF Return, tempVars
<1>2. UNCHANGED <<call.data, call.need, call.got>>
  BY DEF IInv, TypeOK, Return, tempVars
<1> QED BY <1>1, <1>2 DEF Content, Place, Put, Sound

LEMMA NextMaps == IInv /\ [Next]_tempVars => [Bytewise!Next]_(Bytewise!byteVars)
<1> SUFFICES ASSUME IInv, [Next]_tempVars PROVE [Bytewise!Next]_(Bytewise!byteVars)
  OBVIOUS
<1> USE OverlayIsWritten
<1>1. ASSUME NEW data \in BoundedSeq(Bytes, MaxLen), TMF_Write(data) PROVE Bytewise!Write
  <2>1. data \in Seq(Bytes)
    <3>1. PICK m \in 0 .. MaxLen : data \in [1 .. m -> Bytes] BY DEF BoundedSeq, SeqOf
    <3> QED BY <3>1, TempFileAssumption, BufferSeq
  <2>2. /\ call.data = <<>> /\ call.need = 0
        /\ call'.data = data /\ call'.need = 0 /\ call'.got = <<>>
    BY <1>1 DEF TMF_Write, NoCall, IInv, TypeOK
  <2>3. /\ Content' = Content /\ state' = "write"
        /\ IF state = "write" THEN UNCHANGED <<Place, Sound>> ELSE Place' = 0 /\ Sound' = TRUE
    BY <1>1, TurnMaps DEF TMF_Write
  <2> QED BY <2>1, <2>2, <2>3 DEF Bytewise!Write, Bytewise!Turned, Content, Place, Sound
<1>2. ASSUME NEW len \in 0 .. MaxLen, TMF_Read(len) PROVE Bytewise!Read
  <2>1. len \in Nat BY TempFileAssumption
  <2>2. /\ call.data = <<>> /\ call.need = 0
        /\ call'.data = <<>> /\ call'.need = len /\ call'.got = <<>>
    BY <1>2 DEF TMF_Read, NoCall, IInv, TypeOK
  <2>3. /\ Content' = Content /\ state' = "read"
        /\ IF state = "read" THEN UNCHANGED <<Place, Sound>> ELSE Place' = 0 /\ Sound' = TRUE
    BY <1>2, TurnMaps DEF TMF_Read
  <2> QED BY <2>1, <2>2, <2>3 DEF Bytewise!Read, Bytewise!Turned, Content, Place, Sound
<1>3. CASE TMF_Reset
  <2>1. /\ file' = TMF_BufFlush /\ filePos' = 0 /\ curPos' = 0
        /\ state' = "nothing" /\ call' = call /\ call.data = <<>> /\ call.need = 0
    BY <1>3 DEF TMF_Reset, ResetPos, IInv, TypeOK
  <2>2. TMF_BufFlush \in Seq(Bytes) /\ Content = TMF_BufFlush
    BY FlushType DEF IInv, Content
  <2>3. Content' = Content
    <3>1. Written(file', 0, <<>>) = file' BY <2>1, <2>2, WrittenNothing
    <3>2. Put' = <<>> BY <2>1 DEF Put
    <3> QED BY <2>1, <2>2, <3>1, <3>2 DEF Content
  <2>4. Place' = 0 /\ Sound' = TRUE BY <2>1 DEF Place, Sound
  <2>5. Bytewise!Rewind
    BY <2>1, <2>3, <2>4 DEF Bytewise!Rewind, Content, Place, Sound
  <2> QED BY <2>5 DEF Bytewise!Next
<1>4. CASE WritePiece
  <2>0. state' = state BY <1>4 DEF WritePiece
  <2>1. \/ UNCHANGED <<Content, Place, call.data, call.need, call.got, Sound>>
        \/ \E n \in 1 .. Len(call.data) :
             /\ Content' = Written(Content, Place, SubSeq(call.data, 1, n))
             /\ Place' = Place + n
             /\ call'.data = SubSeq(call.data, n + 1, Len(call.data))
             /\ call'.need = call.need /\ call'.got = call.got /\ Sound' = Sound
    BY <1>4, WriteMaps
  <2>2. CASE UNCHANGED <<Content, Place, call.data, call.need, call.got, Sound>>
    BY <2>0, <2>2 DEF Bytewise!byteVars, Content, Place, Sound
  <2>3. CASE \E n \in 1 .. Len(call.data) :
               /\ Content' = Written(Content, Place, SubSeq(call.data, 1, n))
               /\ Place' = Place + n
               /\ call'.data = SubSeq(call.data, n + 1, Len(call.data))
               /\ call'.need = call.need /\ call'.got = call.got /\ Sound' = Sound
    <3>1. Bytewise!Put BY <2>0, <2>3 DEF Bytewise!Put, Content, Place, Sound
    <3> QED BY <3>1 DEF Bytewise!Next
  <2> QED BY <2>1, <2>2, <2>3
<1>5. CASE ReadPiece
  <2>0. state' = state BY <1>5 DEF ReadPiece
  <2>1. CASE UNCHANGED <<Content, Place, call.data, call.need, call.got, Sound>>
    BY <2>0, <2>1 DEF Bytewise!byteVars, Content, Place, Sound
  <2>2. CASE \E n \in 1 .. call.need : GetStep(n)
    <3>1. Bytewise!Get BY <2>0, <2>2 DEF GetStep, Bytewise!Get, Content, Place, Sound
    <3> QED BY <3>1 DEF Bytewise!Next
  <2>3. CASE OverreachStep
    <3>1. Bytewise!Overreach
      BY <2>0, <2>3 DEF OverreachStep, Bytewise!Overreach, Content, Place, Sound
    <3> QED BY <3>1 DEF Bytewise!Next
  <2>4. \/ UNCHANGED <<Content, Place, call.data, call.need, call.got, Sound>>
        \/ \E n \in 1 .. call.need : GetStep(n)
        \/ OverreachStep
    BY <1>5, ReadMaps
  <2> QED BY <2>1, <2>2, <2>3, <2>4
<1>6. CASE Return \/ UNCHANGED tempVars
  BY <1>6, ReturnMaps DEF Bytewise!byteVars, Content, Place, Sound
<1> QED BY <1>1, <1>2, <1>3, <1>4, <1>5, <1>6 DEF Next, Calls, Loop, Bytewise!Next

LEMMA InitMaps == Init => Bytewise!Init
<1> SUFFICES ASSUME Init PROVE Bytewise!Init OBVIOUS
<1>1. TypeOK BY InitIInv DEF IInv
<1>2. Written(file, filePos, Put) \in Seq(Bytes) BY <1>1, FlushType
<1> QED BY <1>2 DEF Init, TMF_CreateFile, NoCall, Bytewise!Init

\* Whatever the size of the buffer and the lengths of the calls, what is written
\* is in the file or the buffer, in order, and reads within the first buffer give
\* just that: FileSpec for every value of the constants (tempFile.c:54-98).
THEOREM FileRefinement == Spec => FileSpec
<1>1. Init => IInv /\ Bytewise!Init BY InitIInv, InitMaps
<1>2. IInv /\ [Next]_tempVars => IInv' BY NextIInv
<1>3. IInv /\ [Next]_tempVars => [Bytewise!Next]_(Bytewise!byteVars) BY NextMaps
<1> QED BY <1>1, <1>2, <1>3, PTL DEF Spec, FileSpec, Bytewise!Spec
=============================================================================
