--------------------------- MODULE FreeSpaceProofs ---------------------------
(***************************************************************************)
(* Proofs about the free space heap and the block allocation of a          *)
(* relation, for relations and heaps of any size. First the heap of        *)
(* FSMHeap: sifting restores the order and moves items only, and the walk  *)
(* finds room where it says so. Then FreeSpace.                            *)
(***************************************************************************)
EXTENDS FreeSpace, InductionFacts, SequenceTheorems

-----------------------------------------------------------------------------
\* Heaps, and what exchanging two nodes does to them.

Cells == [freeSpaceSize : Int, blockNum : Int]

Heaps ==
  {h \in [FSH_heap : Seq(Cells), FSH_length : Nat, FSH_HeapSize : Nat, FSH_maxBlockNum : Int] :
     /\ h.FSH_HeapSize = Len(h.FSH_heap) + 1
     /\ h.FSH_length + 2 <= h.FSH_HeapSize}

LEMMA HeapFields ==
  ASSUME NEW h \in Heaps
  PROVE  /\ h = [FSH_heap |-> h.FSH_heap, FSH_length |-> h.FSH_length,
                 FSH_HeapSize |-> h.FSH_HeapSize, FSH_maxBlockNum |-> h.FSH_maxBlockNum]
         /\ h.FSH_length \in Nat /\ h.FSH_HeapSize \in Nat /\ h.FSH_maxBlockNum \in Int
         /\ h.FSH_length + 2 <= h.FSH_HeapSize
         /\ h.FSH_heap \in Seq(Cells) /\ Len(h.FSH_heap) = h.FSH_HeapSize - 1
         /\ DOMAIN h.FSH_heap = Slots(h)
         /\ Nodes(h) \subseteq Slots(h) /\ Nodes(h) \subseteq Nat
         /\ Slots(h) \subseteq Nat \ {0}
         /\ \A i \in Slots(h) : h.FSH_heap[i] \in Cells /\ Size(h, i) \in Int
                                /\ h.FSH_heap[i].blockNum \in Int
<1>1. /\ h.FSH_length \in Nat /\ h.FSH_HeapSize \in Nat /\ h.FSH_maxBlockNum \in Int
      /\ h.FSH_length + 2 <= h.FSH_HeapSize
      /\ h.FSH_heap \in Seq(Cells) /\ h.FSH_HeapSize = Len(h.FSH_heap) + 1
  BY DEF Heaps
<1>2. DOMAIN h.FSH_heap = 1 .. Len(h.FSH_heap) BY <1>1
<1>3. Len(h.FSH_heap) \in Nat BY <1>1
<1>4. ASSUME NEW i \in Slots(h)
      PROVE  /\ h.FSH_heap[i] \in Cells /\ Size(h, i) \in Int
             /\ h.FSH_heap[i].blockNum \in Int
  <2>1. i \in 1 .. Len(h.FSH_heap) BY <1>1, <1>3 DEF Slots
  <2>2. h.FSH_heap[i] \in Cells BY <1>1, <2>1
  <2> QED BY <2>2 DEF Size, Cells
<1>5. h = [FSH_heap |-> h.FSH_heap, FSH_length |-> h.FSH_length,
           FSH_HeapSize |-> h.FSH_HeapSize, FSH_maxBlockNum |-> h.FSH_maxBlockNum]
  BY DEF Heaps
<1>6. DOMAIN h.FSH_heap = Slots(h) BY <1>1, <1>2, <1>3 DEF Slots
<1>7. Nodes(h) \subseteq Slots(h) /\ Nodes(h) \subseteq Nat /\ Slots(h) \subseteq Nat \ {0}
  BY <1>1 DEF Nodes, Slots
<1> QED BY <1>1, <1>3, <1>4, <1>5, <1>6, <1>7

\* A heap is given by its fields.
LEMMA HeapIs ==
  ASSUME NEW a \in Seq(Cells), NEW length \in Nat, NEW max \in Int, length + 1 <= Len(a)
  PROVE  [FSH_heap |-> a, FSH_length |-> length, FSH_HeapSize |-> Len(a) + 1,
          FSH_maxBlockNum |-> max] \in Heaps
<1>1. Len(a) \in Nat OBVIOUS
<1> QED BY <1>1 DEF Heaps

\* Every slot holds what some slot held; the fields but the array are the same.
SameFields(g, h) ==
  /\ g.FSH_length = h.FSH_length /\ g.FSH_HeapSize = h.FSH_HeapSize
  /\ g.FSH_maxBlockNum = h.FSH_maxBlockNum

Contents(h) == {h.FSH_heap[i] : i \in Slots(h)}

LEMMA SwapIs ==
  ASSUME NEW h \in Heaps, NEW i \in Slots(h), NEW j \in Slots(h)
  PROVE  /\ Swap(h, i, j) \in Heaps
         /\ SameFields(Swap(h, i, j), h)
         /\ Nodes(Swap(h, i, j)) = Nodes(h) /\ Slots(Swap(h, i, j)) = Slots(h)
         /\ \A k \in Slots(h) : Swap(h, i, j).FSH_heap[k] =
              IF k = j THEN h.FSH_heap[i] ELSE IF k = i THEN h.FSH_heap[j] ELSE h.FSH_heap[k]
<1> DEFINE a == [[h.FSH_heap EXCEPT ![i] = h.FSH_heap[j]] EXCEPT ![j] = h.FSH_heap[i]]
<1>1. Swap(h, i, j) = [h EXCEPT !.FSH_heap = a]
  BY HeapFields DEF Swap
<1>2. Swap(h, i, j) = [FSH_heap |-> a, FSH_length |-> h.FSH_length,
                       FSH_HeapSize |-> h.FSH_HeapSize, FSH_maxBlockNum |-> h.FSH_maxBlockNum]
  BY <1>1, HeapFields
<1>3. /\ h.FSH_heap \in Seq(Cells) /\ DOMAIN h.FSH_heap = Slots(h)
      /\ h.FSH_heap[i] \in Cells /\ h.FSH_heap[j] \in Cells
  BY HeapFields
<1>4. a \in Seq(Cells) /\ Len(a) = Len(h.FSH_heap)
  BY <1>3, ExceptSeq
<1>5. \A k \in Slots(h) : a[k] =
        IF k = j THEN h.FSH_heap[i] ELSE IF k = i THEN h.FSH_heap[j] ELSE h.FSH_heap[k]
  BY <1>3
<1>6. Swap(h, i, j) \in Heaps
  <2>1. Len(a) + 1 = h.FSH_HeapSize /\ h.FSH_length + 1 <= Len(a) BY <1>4, HeapFields
  <2>2. h.FSH_length \in Nat /\ h.FSH_maxBlockNum \in Int BY HeapFields
  <2> HIDE DEF a
  <2> QED BY <1>2, <1>4, <2>1, <2>2, HeapIs
<1>7. SameFields(Swap(h, i, j), h) /\ Swap(h, i, j).FSH_heap = a
  BY <1>2 DEF SameFields
<1> QED BY <1>5, <1>6, <1>7 DEF SameFields, Nodes, Slots

LEMMA SwapSelf ==
  ASSUME NEW h \in Heaps, NEW i \in Slots(h)
  PROVE  Swap(h, i, i) = h
<1> DEFINE a == [[h.FSH_heap EXCEPT ![i] = h.FSH_heap[i]] EXCEPT ![i] = h.FSH_heap[i]]
<1>1. a = h.FSH_heap
  <2>1. h.FSH_heap \in [1 .. Len(h.FSH_heap) -> Cells] BY HeapFields
  <2> QED BY <2>1
<1>2. Swap(h, i, i) = [h EXCEPT !.FSH_heap = a]
  BY HeapFields DEF Swap
<1> QED BY <1>1, <1>2, HeapFields

-----------------------------------------------------------------------------
\* The steps of a descent and of a climb.

LEMMA LargestIs ==
  ASSUME NEW h \in Heaps, NEW p \in Slots(h)
  PROVE  /\ Largest(h, p) \in Slots(h)
         /\ Largest(h, p) # p =>
              /\ Largest(h, p) \in {2 * p, 2 * p + 1} \cap Nodes(h)
              /\ Size(h, p) < Size(h, Largest(h, p))
         /\ \A j \in {2 * p, 2 * p + 1} \cap Nodes(h) : Size(h, j) <= Size(h, Largest(h, p))
<1> DEFINE family == {p} \cup ({2 * p, 2 * p + 1} \cap Nodes(h))
           best == {k \in family : \A j \in family : Size(h, k) >= Size(h, j)}
           k == Largest(h, p)
<1>1. family \subseteq Slots(h) /\ \A j \in family : Size(h, j) \in Int
  BY HeapFields
<1>2. family \subseteq Nat /\ p \in Nat \ {0}
  BY HeapFields
<1>3. best # {}
  <2>1. CASE 2 * p \notin Nodes(h) /\ 2 * p + 1 \notin Nodes(h)
    <3>1. family = {p} BY <2>1
    <3>2. p \in best BY <1>1, <3>1
    <3> QED BY <3>2
  <2>2. CASE 2 * p \in Nodes(h) /\ 2 * p + 1 \notin Nodes(h)
    <3>1. family = {p, 2 * p} BY <2>2
    <3>2. IF Size(h, p) >= Size(h, 2 * p) THEN p \in best ELSE 2 * p \in best
      BY <1>1, <3>1
    <3> QED BY <3>2
  <2>3. CASE 2 * p + 1 \in Nodes(h)
    <3>1. 2 * p \in Nodes(h) BY <2>3, <1>2, HeapFields DEF Nodes
    <3>2. family = {p, 2 * p, 2 * p + 1} BY <2>3, <3>1
    <3>3. \/ \A j \in family : Size(h, p) >= Size(h, j)
          \/ \A j \in family : Size(h, 2 * p) >= Size(h, j)
          \/ \A j \in family : Size(h, 2 * p + 1) >= Size(h, j)
      BY <1>1, <3>2
    <3>4. p \in best \/ 2 * p \in best \/ 2 * p + 1 \in best BY <3>2, <3>3
    <3> QED BY <3>4
  <2> QED BY <2>1, <2>2, <2>3
<1>4. k = Min(best) BY Zenon DEF Largest
<1>5. k \in best /\ \A y \in best : k <= y
  <2>1. best \in SUBSET Nat BY <1>2
  <2>2. \E x \in best : \A y \in best : x <= y BY <1>3, <2>1, LeastOf, Zenon
  <2> QED BY <1>4, <2>2, Zenon DEF Min
<1>6. k \in family /\ \A j \in family : Size(h, k) >= Size(h, j)
  BY <1>5
<1>7. ASSUME k # p PROVE Size(h, p) < Size(h, k)
  <2>1. p < k BY <1>2, <1>6, <1>7
  <2>2. p \notin best BY <1>2, <1>5, <2>1
  <2>3. PICK j \in family : ~(Size(h, p) >= Size(h, j)) BY <2>2
  <2>4. Size(h, k) >= Size(h, j) BY <1>6
  <2> QED BY <1>1, <1>6, <2>3, <2>4
<1>8. k # p => k \in {2 * p, 2 * p + 1} \cap Nodes(h) BY <1>6
<1>9. \A j \in {2 * p, 2 * p + 1} \cap Nodes(h) : Size(h, j) <= Size(h, k) BY <1>1, <1>6
<1> QED BY <1>1, <1>6, <1>7, <1>8, <1>9

Sifts == {m \in [heap : Heaps, pos : Nat] : m.pos \in Slots(m.heap)}

DownStep(m) ==
  [heap |-> Swap(m.heap, m.pos, Largest(m.heap, m.pos)), pos |-> Largest(m.heap, m.pos)]

UpStep(m) ==
  IF m.pos \div 2 # 0 /\ Size(m.heap, m.pos \div 2) < Size(m.heap, m.pos)
  THEN [heap |-> Swap(m.heap, m.pos, m.pos \div 2), pos |-> m.pos \div 2]
  ELSE m

LEMMA DownStepType ==
  ASSUME NEW m \in Sifts
  PROVE  DownStep(m) \in Sifts
<1>1. m.heap \in Heaps /\ m.pos \in Slots(m.heap) BY DEF Sifts
<1>2. Largest(m.heap, m.pos) \in Slots(m.heap) BY <1>1, LargestIs
<1>3. /\ Swap(m.heap, m.pos, Largest(m.heap, m.pos)) \in Heaps
      /\ Slots(Swap(m.heap, m.pos, Largest(m.heap, m.pos))) = Slots(m.heap)
  BY <1>1, <1>2, SwapIs
<1>4. Largest(m.heap, m.pos) \in Nat BY <1>1, <1>2, HeapFields
<1> QED BY <1>2, <1>3, <1>4 DEF DownStep, Sifts

LEMMA UpStepType ==
  ASSUME NEW m \in Sifts
  PROVE  UpStep(m) \in Sifts
<1>1. m.heap \in Heaps /\ m.pos \in Slots(m.heap) BY DEF Sifts
<1> DEFINE q == m.pos \div 2
<1>2. CASE q # 0
  <2>1. q \in Slots(m.heap) /\ q \in Nat
    <3>1. m.heap.FSH_HeapSize \in Nat /\ m.pos \in Nat BY <1>1, HeapFields
    <3> QED BY <1>1, <1>2, <3>1 DEF Slots
  <2>2. Swap(m.heap, m.pos, q) \in Heaps /\ Slots(Swap(m.heap, m.pos, q)) = Slots(m.heap)
    BY <1>1, <2>1, SwapIs
  <2> QED BY <2>1, <2>2 DEF UpStep, Sifts
<1>3. CASE q = 0 BY <1>3 DEF UpStep
<1> QED BY <1>2, <1>3

\* The loops, step by step.
LEMMA DownRun ==
  ASSUME NEW h \in Heaps, NEW iPos \in Slots(h)
  PROVE  \E f \in [0 .. h.FSH_length -> Sifts] :
           /\ f[0] = [heap |-> h, pos |-> iPos]
           /\ \A n \in 1 .. h.FSH_length : f[n] = DownStep(f[n - 1])
           /\ vMaxHeapDown(h, iPos) = f[h.FSH_length].heap
<1> DEFINE L == h.FSH_length
           a == [heap |-> h, pos |-> iPos]
           s == [mn \in Sifts \X Nat |-> DownStep(mn[1])]
           Is(g) == g = [n \in 0 .. h.FSH_length |->
                           IF n = 0 THEN [heap |-> h, pos |-> iPos]
                           ELSE LET m == g[n - 1]
                                    k == Largest(m.heap, m.pos)
                                IN  [heap |-> Swap(m.heap, m.pos, k), pos |-> k]]
           f == CHOOSE g : Is(g)
<1>1. L \in Nat /\ iPos \in Nat BY HeapFields
<1>2. a \in Sifts BY <1>1 DEF Sifts
<1>3. s \in [Sifts \X Nat -> Sifts] BY DownStepType
<1>4. PICK g \in [0 .. L -> Sifts] : Iterated(g, L, a, s)
  <2> HIDE DEF L, a, s
  <2> QED BY <1>1, <1>2, <1>3, IteratedExists
<1>5. Is(g)
  <2>1. \A n \in 0 .. L : n # 0 => g[n - 1] \in Sifts /\ n \in Nat
    <3> HIDE DEF L, a, s, f, Is
    <3>1. \A n \in 0 .. L : n # 0 => n - 1 \in 0 .. L /\ n \in Nat BY <1>1
    <3> QED BY <1>4, <3>1
  <2>2. \A n \in 0 .. L : n # 0 => s[<<g[n - 1], n>>] = DownStep(g[n - 1]) BY <2>1
  <2>3. g = [n \in 0 .. L |-> IF n = 0 THEN a ELSE DownStep(g[n - 1])]
    <3> HIDE DEF s, a, L
    <3> QED BY <1>4, <2>2 DEF Iterated
  <2> QED BY <2>3, Zenon DEF DownStep
<1>6. Is(f) BY <1>5, Zenon
<1>7. f = [n \in 0 .. L |-> IF n = 0 THEN a ELSE DownStep(f[n - 1])]
  <2> HIDE DEF f
  <2> QED BY <1>6, Zenon DEF DownStep
<1>8. vMaxHeapDown(h, iPos) = f[L].heap BY Zenon DEF vMaxHeapDown
<1> HIDE DEF f, Is
<1>9. f[0] = a /\ \A n \in 1 .. L : f[n] = DownStep(f[n - 1])
  <2> HIDE DEF a, L
  <2> QED BY <1>1, <1>7
<1>10. \A n \in 0 .. L : f[n] \in Sifts
  <2> DEFINE T == {n \in 0 .. L : f[n] \in Sifts}
  <2>1. 0 \in T BY <1>1, <1>2, <1>9
  <2>2. ASSUME NEW n \in 0 .. L - 1, n \in T PROVE n + 1 \in T
    <3>1. n + 1 \in 1 .. L /\ n + 1 - 1 = n BY <1>1
    <3>2. f[n + 1] = DownStep(f[n]) BY <1>9, <3>1
    <3> QED BY <2>2, <3>1, <3>2, DownStepType
  <2>3. 0 .. L \subseteq T
    <3> HIDE DEF T, L
    <3> QED BY <1>1, <2>1, <2>2, UpTo
  <2> QED BY <2>3
<1>11. f \in [0 .. L -> Sifts]
  <2> HIDE DEF a, L
  <2> QED BY <1>7, <1>10
<1> QED BY <1>8, <1>9, <1>11

LEMMA UpRun ==
  ASSUME NEW h \in Heaps, NEW iPos \in Slots(h)
  PROVE  \E f \in [0 .. h.FSH_length -> Sifts] :
           /\ f[0] = [heap |-> h, pos |-> iPos]
           /\ \A n \in 1 .. h.FSH_length : f[n] = UpStep(f[n - 1])
           /\ vMaxHeapUp(h, iPos) = f[h.FSH_length].heap
<1> DEFINE L == h.FSH_length
           a == [heap |-> h, pos |-> iPos]
           s == [mn \in Sifts \X Nat |-> UpStep(mn[1])]
           Is(g) == g = [n \in 0 .. h.FSH_length |->
                           IF n = 0 THEN [heap |-> h, pos |-> iPos]
                           ELSE LET m == g[n - 1]
                                    parent == m.pos \div 2
                                IN  IF parent # 0 /\ Size(m.heap, parent) < Size(m.heap, m.pos)
                                    THEN [heap |-> Swap(m.heap, m.pos, parent), pos |-> parent]
                                    ELSE m]
           f == CHOOSE g : Is(g)
<1>1. L \in Nat /\ iPos \in Nat BY HeapFields
<1>2. a \in Sifts BY <1>1 DEF Sifts
<1>3. s \in [Sifts \X Nat -> Sifts] BY UpStepType
<1>4. PICK g \in [0 .. L -> Sifts] : Iterated(g, L, a, s)
  <2> HIDE DEF L, a, s
  <2> QED BY <1>1, <1>2, <1>3, IteratedExists
<1>5. Is(g)
  <2>1. \A n \in 0 .. L : n # 0 => g[n - 1] \in Sifts /\ n \in Nat
    <3> HIDE DEF L, a, s, f, Is
    <3>1. \A n \in 0 .. L : n # 0 => n - 1 \in 0 .. L /\ n \in Nat BY <1>1
    <3> QED BY <1>4, <3>1
  <2>2. \A n \in 0 .. L : n # 0 => s[<<g[n - 1], n>>] = UpStep(g[n - 1]) BY <2>1
  <2>3. g = [n \in 0 .. L |-> IF n = 0 THEN a ELSE UpStep(g[n - 1])]
    <3> HIDE DEF s, a, L
    <3> QED BY <1>4, <2>2 DEF Iterated
  <2> QED BY <2>3, Zenon DEF UpStep
<1>6. Is(f) BY <1>5, Zenon
<1>7. f = [n \in 0 .. L |-> IF n = 0 THEN a ELSE UpStep(f[n - 1])]
  <2> HIDE DEF f
  <2> QED BY <1>6, Zenon DEF UpStep
<1>8. vMaxHeapUp(h, iPos) = f[L].heap BY Zenon DEF vMaxHeapUp
<1> HIDE DEF f, Is
<1>9. f[0] = a /\ \A n \in 1 .. L : f[n] = UpStep(f[n - 1])
  <2> HIDE DEF a, L
  <2> QED BY <1>1, <1>7
<1>10. \A n \in 0 .. L : f[n] \in Sifts
  <2> DEFINE T == {n \in 0 .. L : f[n] \in Sifts}
  <2>1. 0 \in T BY <1>1, <1>2, <1>9
  <2>2. ASSUME NEW n \in 0 .. L - 1, n \in T PROVE n + 1 \in T
    <3>1. n + 1 \in 1 .. L /\ n + 1 - 1 = n BY <1>1
    <3>2. f[n + 1] = UpStep(f[n]) BY <1>9, <3>1
    <3> QED BY <2>2, <3>1, <3>2, UpStepType
  <2>3. 0 .. L \subseteq T
    <3> HIDE DEF T, L
    <3> QED BY <1>1, <2>1, <2>2, UpTo
  <2> QED BY <2>3
<1>11. f \in [0 .. L -> Sifts]
  <2> HIDE DEF a, L
  <2> QED BY <1>7, <1>10
<1> QED BY <1>8, <1>9, <1>11

-----------------------------------------------------------------------------
\* Sifting moves items among the nodes only.

\* No two nodes list the same block.
Distinct(h) ==
  \A i, j \in Nodes(h) : h.FSH_heap[i].blockNum = h.FSH_heap[j].blockNum => i = j

\* g has the items of h, maybe in another order.
Moved(g, h) ==
  /\ g \in Heaps /\ SameFields(g, h)
  /\ Listed(g) = Listed(h)
  /\ Contents(g) \subseteq Contents(h)
  /\ Distinct(h) => Distinct(g)

LEMMA MovedSelf ==
  ASSUME NEW h \in Heaps PROVE Moved(h, h)
BY DEF Moved, SameFields

LEMMA MovedOn ==
  ASSUME NEW f, NEW g, NEW h, Moved(f, g), Moved(g, h)
  PROVE  Moved(f, h)
BY DEF Moved, SameFields

LEMMA SwapMoves ==
  ASSUME NEW h \in Heaps, NEW i \in Nodes(h), NEW j \in Nodes(h)
  PROVE  Moved(Swap(h, i, j), h)
<1> DEFINE g == Swap(h, i, j)
<1>1. Nodes(h) \subseteq Slots(h) BY HeapFields
<1>2. /\ g \in Heaps /\ SameFields(g, h)
      /\ Nodes(g) = Nodes(h) /\ Slots(g) = Slots(h)
      /\ \A k \in Slots(h) : g.FSH_heap[k] =
           IF k = j THEN h.FSH_heap[i] ELSE IF k = i THEN h.FSH_heap[j] ELSE h.FSH_heap[k]
  BY <1>1, SwapIs
<1> HIDE DEF g
<1>3. Listed(g) = Listed(h)
  <2>1. ASSUME NEW k \in Nodes(h) PROVE g.FSH_heap[k] \in Listed(h)
    BY <1>1, <1>2 DEF Listed
  <2>2. ASSUME NEW k \in Nodes(h) PROVE h.FSH_heap[k] \in Listed(g)
    <3> DEFINE q == IF k = j THEN i ELSE IF k = i THEN j ELSE k
    <3>1. q \in Nodes(h) OBVIOUS
    <3>2. g.FSH_heap[q] = h.FSH_heap[k] BY <1>1, <1>2
    <3>3. q \in Nodes(g) BY <3>1, <1>2
    <3> HIDE DEF q
    <3> QED BY <3>2, <3>3, Zenon DEF Listed
  <2>3. Listed(g) = {g.FSH_heap[k] : k \in Nodes(h)} BY <1>2, Zenon DEF Listed
  <2>4. Listed(h) = {h.FSH_heap[k] : k \in Nodes(h)} BY Zenon DEF Listed
  <2> QED BY <2>1, <2>2, <2>3, <2>4
<1>4. Contents(g) \subseteq Contents(h)
  BY <1>1, <1>2 DEF Contents
<1>5. Distinct(h) => Distinct(g)
  <2> SUFFICES ASSUME Distinct(h), NEW k \in Nodes(h), NEW l \in Nodes(h),
                      g.FSH_heap[k].blockNum = g.FSH_heap[l].blockNum
               PROVE  k = l
    BY <1>2 DEF Distinct
  <2>1. \A p, q \in Nodes(h) : h.FSH_heap[p].blockNum = h.FSH_heap[q].blockNum => p = q
    BY DEF Distinct
  <2>2. k \in Slots(h) /\ l \in Slots(h) BY <1>1
  <2> DEFINE from(q) == IF q = j THEN i ELSE IF q = i THEN j ELSE q
  <2>3. /\ g.FSH_heap[k] = h.FSH_heap[from(k)] /\ g.FSH_heap[l] = h.FSH_heap[from(l)]
        /\ from(k) \in Nodes(h) /\ from(l) \in Nodes(h)
    BY <1>2, <2>2
  <2>4. from(k) = from(l)
    <3> HIDE DEF from
    <3> QED BY <2>1, <2>3
  <2> QED BY <2>4
<1>6. Moved(g, h) BY <1>2, <1>3, <1>4, <1>5 DEF Moved
<1> QED BY <1>6 DEF g

-----------------------------------------------------------------------------
\* The order. While an item is sifted it is broken at its node p only.

Edge(h, j) == j # 1 => Size(h, j \div 2) >= Size(h, j)
Ordered(h) == \A j \in Nodes(h) : Edge(h, j)

\* All is in order but into p and out of p; and p's children are below p's parent.
Hole(h, p) ==
  /\ \A j \in Nodes(h) : j # p /\ j \div 2 # p => Edge(h, j)
  /\ p # 1 => \A j \in Nodes(h) : j \div 2 = p => Size(h, p \div 2) >= Size(h, j)

OutOf(h, p) == \A j \in Nodes(h) : j # 1 /\ j \div 2 = p => Edge(h, j)

LEMMA Parent ==
  ASSUME NEW h \in Heaps, NEW j \in Nodes(h), j # 1
  PROVE  /\ j \div 2 \in Nodes(h) /\ j \div 2 \in Slots(h)
         /\ j \div 2 < j /\ j \in {2 * (j \div 2), 2 * (j \div 2) + 1}
<1>1. h.FSH_length \in Nat /\ Nodes(h) \subseteq Slots(h) BY HeapFields
<1>2. j \in Nat /\ 1 <= j /\ j <= h.FSH_length BY <1>1 DEF Nodes
<1>3. j \div 2 \in Nat /\ 1 <= j \div 2 /\ j \div 2 < j BY <1>2
<1>4. j \in {2 * (j \div 2), 2 * (j \div 2) + 1} BY <1>2
<1> QED BY <1>1, <1>2, <1>3, <1>4 DEF Nodes

LEMMA Child ==
  ASSUME NEW h \in Heaps, NEW p \in Slots(h), NEW j \in {2 * p, 2 * p + 1} \cap Nodes(h)
  PROVE  /\ j # 1 /\ j \div 2 = p /\ p \in Nodes(h) /\ p < j
<1>1. h.FSH_length \in Nat /\ p \in Nat \ {0} BY HeapFields
<1>2. j \in Nat /\ 1 <= j /\ j <= h.FSH_length BY <1>1 DEF Nodes
<1>3. j # 1 /\ j \div 2 = p /\ p < j BY <1>1, <1>2
<1> QED BY <1>1, <1>2, <1>3 DEF Nodes

LEMMA SizesInt ==
  ASSUME NEW h \in Heaps
  PROVE  \A j \in Nodes(h) : Size(h, j) \in Int
BY HeapFields

LEMMA SwapSizes ==
  ASSUME NEW h \in Heaps, NEW p \in Nodes(h), NEW q \in Nodes(h)
  PROVE  \A j \in Nodes(h) : Size(Swap(h, p, q), j) =
           IF j = q THEN Size(h, p) ELSE IF j = p THEN Size(h, q) ELSE Size(h, j)
<1>1. Nodes(h) \subseteq Slots(h) BY HeapFields
<1>2. \A k \in Slots(h) : Swap(h, p, q).FSH_heap[k] =
        IF k = q THEN h.FSH_heap[p] ELSE IF k = p THEN h.FSH_heap[q] ELSE h.FSH_heap[k]
  BY <1>1, SwapIs
<1> QED BY <1>1, <1>2 DEF Size

\* One move down.
LEMMA HoleDown ==
  ASSUME NEW h \in Heaps, NEW p \in Nodes(h), Hole(h, p), Largest(h, p) # p
  PROVE  LET k == Largest(h, p)
             g == Swap(h, p, k)
         IN  /\ k \in Nodes(h) /\ p < k /\ Moved(g, h)
             /\ Hole(g, k) /\ Edge(g, k)
<1> DEFINE k == Largest(h, p)
           g == Swap(h, p, k)
<1>1. p \in Slots(h) BY HeapFields
<1>2. /\ k \in {2 * p, 2 * p + 1} \cap Nodes(h) /\ Size(h, p) < Size(h, k)
      /\ \A j \in {2 * p, 2 * p + 1} \cap Nodes(h) : Size(h, j) <= Size(h, k)
  BY <1>1, LargestIs
<1> HIDE DEF k
<1>3. k \in Nodes(h) /\ k # 1 /\ k \div 2 = p /\ p < k BY <1>1, <1>2, Child
<1>4. Moved(g, h) BY <1>3, SwapMoves
<1>5. g \in Heaps /\ Nodes(g) = Nodes(h) BY <1>1, <1>3, SwapIs, HeapFields
<1>6. \A j \in Nodes(h) : Size(g, j) =
        IF j = k THEN Size(h, p) ELSE IF j = p THEN Size(h, k) ELSE Size(h, j)
  BY <1>3, SwapSizes
<1> HIDE DEF g
<1>7. \A j \in Nodes(h) : Size(h, j) \in Int BY SizesInt
<1>8. Edge(g, k) BY <1>2, <1>3, <1>6, <1>7 DEF Edge
<1>9. ASSUME NEW j \in Nodes(h), j # k, j \div 2 # k PROVE Edge(g, j)
  <2> SUFFICES ASSUME j # 1 PROVE Size(g, j \div 2) >= Size(g, j) BY DEF Edge
  <2>1. /\ j \div 2 \in Nodes(h) /\ j \div 2 < j
        /\ j \in {2 * (j \div 2), 2 * (j \div 2) + 1}
    BY Parent
  <2>2. CASE j = p
    <3>1. Size(h, p \div 2) >= Size(h, k) BY <1>3, <2>2 DEF Hole
    <3>2. j \div 2 # j BY <2>1, HeapFields
    <3>3. Size(g, j) = Size(h, k) /\ Size(g, j \div 2) = Size(h, p \div 2)
      BY <1>3, <1>6, <1>9, <2>1, <2>2, <3>2
    <3> QED BY <3>1, <3>3
  <2>3. CASE j # p /\ j \div 2 = p
    <3>1. Size(h, j) <= Size(h, k) BY <1>2, <2>1, <2>3
    <3>2. Size(g, j) = Size(h, j) /\ Size(g, j \div 2) = Size(h, k)
      BY <1>3, <1>6, <1>9, <2>3
    <3> QED BY <1>3, <1>7, <3>1, <3>2
  <2>4. CASE j # p /\ j \div 2 # p
    <3>1. Size(h, j \div 2) >= Size(h, j) BY <2>4 DEF Hole, Edge
    <3>2. Size(g, j) = Size(h, j) /\ Size(g, j \div 2) = Size(h, j \div 2)
      BY <1>6, <1>9, <2>1, <2>4
    <3> QED BY <3>1, <3>2
  <2> QED BY <2>2, <2>3, <2>4
<1>10. ASSUME NEW j \in Nodes(h), j \div 2 = k PROVE Size(g, k \div 2) >= Size(g, j)
  <2>1. j # 1 /\ k < j
    <3>1. j \in Nat /\ k \in Nat /\ k >= 1 BY <1>3, HeapFields DEF Nodes
    <3> QED BY <1>10, <3>1
  <2>2. j # p /\ j # k /\ k # p
    <3>1. j \in Nat /\ k \in Nat /\ p \in Nat BY <1>3, HeapFields
    <3> QED BY <1>3, <2>1, <3>1
  <2>3. Size(h, k) >= Size(h, j) BY <1>10, <2>1, <2>2 DEF Hole, Edge
  <2>4. Size(g, p) = Size(h, k) /\ Size(g, j) = Size(h, j) BY <1>6, <2>2
  <2> QED BY <1>3, <2>3, <2>4
<1>11. Hole(g, k) BY <1>5, <1>9, <1>10 DEF Hole
<1> QED BY <1>3, <1>4, <1>8, <1>11 DEF g, k

\* Where the descent ends nothing below is out of order.
LEMMA HoleAtRest ==
  ASSUME NEW h \in Heaps, NEW p \in Nodes(h), Largest(h, p) = p
  PROVE  OutOf(h, p)
<1> SUFFICES ASSUME NEW j \in Nodes(h), j # 1, j \div 2 = p
             PROVE  Size(h, p) >= Size(h, j)
  BY DEF OutOf, Edge
<1>1. p \in Slots(h) /\ \A i \in Nodes(h) : Size(h, i) \in Int BY HeapFields
<1>2. j \in {2 * p, 2 * p + 1} BY Parent
<1>3. Size(h, j) <= Size(h, Largest(h, p)) BY <1>1, <1>2, LargestIs
<1> QED BY <1>1, <1>3

LEMMA InOrder ==
  ASSUME NEW h \in Heaps, NEW p \in Nodes(h), Hole(h, p), OutOf(h, p), Edge(h, p)
  PROVE  Ordered(h)
<1> SUFFICES ASSUME NEW j \in Nodes(h) PROVE Edge(h, j) BY DEF Ordered
<1> QED BY DEF Hole, OutOf, Edge

\* One move up.
LEMMA HoleUp ==
  ASSUME NEW h \in Heaps, NEW p \in Nodes(h), Hole(h, p), OutOf(h, p),
         p \div 2 # 0, Size(h, p \div 2) < Size(h, p)
  PROVE  LET q == p \div 2
             g == Swap(h, p, q)
         IN  q \in Nodes(h) /\ q < p /\ Moved(g, h) /\ Hole(g, q) /\ OutOf(g, q)
<1> DEFINE q == p \div 2
           g == Swap(h, p, q)
<1>0. p \in Nat /\ p # 1 BY HeapFields
<1>1. q \in Nodes(h) /\ q < p BY <1>0, Parent
<1>2. Moved(g, h) BY <1>1, SwapMoves
<1>3. g \in Heaps /\ Nodes(g) = Nodes(h) BY <1>1, SwapIs, HeapFields
<1>4. \A j \in Nodes(h) : Size(g, j) =
        IF j = q THEN Size(h, p) ELSE IF j = p THEN Size(h, q) ELSE Size(h, j)
  BY <1>1, SwapSizes
<1> HIDE DEF g
<1>5. \A j \in Nodes(h) : Size(h, j) \in Int /\ j \in Nat BY SizesInt, HeapFields
<1>6. Size(h, q) < Size(h, p) /\ q # p BY <1>0, <1>1, <1>5
<1>7. \A j \in Nodes(h) : j # 1 /\ j # p => Size(h, j \div 2) >= Size(h, j)
  BY DEF Hole, OutOf, Edge
<1> HIDE DEF q
<1>8. ASSUME NEW j \in Nodes(h), j # 1, j \div 2 = p
      PROVE  Size(h, q) >= Size(h, j)
  BY <1>0, <1>8 DEF Hole, q
<1>9. ASSUME NEW j \in Nodes(h), j # q, j # 1 PROVE Size(g, j \div 2) >= Size(g, j)
  <2>1. j \div 2 \in Nodes(h) /\ j \div 2 < j BY <1>9, Parent
  <2>2. j \div 2 # j BY <1>5, <2>1
  <2>3. CASE j = p
    <3>1. Size(g, j) = Size(h, q) /\ Size(g, j \div 2) = Size(h, p)
      BY <1>1, <1>4, <1>6, <2>3 DEF q
    <3> QED BY <1>1, <1>5, <1>6, <3>1
  <2>4. CASE j # p /\ j \div 2 = p
    <3>1. Size(g, j) = Size(h, j) /\ Size(g, j \div 2) = Size(h, q)
      BY <1>4, <1>6, <1>9, <2>4
    <3> QED BY <1>8, <1>9, <2>4, <3>1
  <2>5. CASE j # p /\ j \div 2 = q
    <3>1. Size(g, j) = Size(h, j) /\ Size(g, j \div 2) = Size(h, p)
      BY <1>4, <1>6, <1>9, <2>1, <2>5
    <3>2. Size(h, q) >= Size(h, j) BY <1>7, <1>9, <2>5
    <3> QED BY <1>1, <1>5, <1>6, <3>1, <3>2
  <2>6. CASE j # p /\ j \div 2 # p /\ j \div 2 # q
    <3>1. Size(g, j) = Size(h, j) /\ Size(g, j \div 2) = Size(h, j \div 2)
      BY <1>4, <1>9, <2>1, <2>6
    <3> QED BY <1>7, <1>9, <2>6, <3>1
  <2> QED BY <2>3, <2>4, <2>5, <2>6
<1>10. ASSUME q # 1, NEW j \in Nodes(h), j \div 2 = q
       PROVE  Size(g, q \div 2) >= Size(g, j)
  <2>1. q \div 2 \in Nodes(h) /\ q \div 2 < q BY <1>1, <1>10, Parent
  <2>2. q \div 2 # q /\ q \div 2 # p BY <1>1, <1>5, <2>1
  <2>3. Size(g, q \div 2) = Size(h, q \div 2) BY <1>4, <2>1, <2>2
  <2>4. Size(h, q \div 2) >= Size(h, q) BY <1>1, <1>6, <1>7, <1>10
  <2>5. Size(h, q) >= Size(g, j)
    <3>0. j # q /\ j # 1
      <4>1. j \in Nat /\ q \in Nat /\ q >= 1 BY <1>1, <1>5 DEF Nodes
      <4> QED BY <1>10, <4>1
    <3>1. CASE j = p BY <1>1, <1>4, <1>5, <1>6, <3>1
    <3>2. CASE j # p
      <4>1. Size(g, j) = Size(h, j) BY <1>4, <3>0, <3>2
      <4>2. Size(h, q) >= Size(h, j) BY <1>7, <1>10, <3>0, <3>2
      <4> QED BY <4>1, <4>2
    <3> QED BY <3>1, <3>2
  <2>6. Size(g, j) \in Int BY <1>1, <1>4, <1>5
  <2> QED BY <1>1, <1>5, <2>1, <2>3, <2>4, <2>5, <2>6
<1>11. Hole(g, q) BY <1>3, <1>9, <1>10 DEF Hole, Edge
<1>12. OutOf(g, q)
  <2>1. q \in Nat /\ q >= 1 BY <1>1, <1>5 DEF Nodes
  <2>2. \A j \in Nodes(h) : j \div 2 = q => j # q BY <1>5, <2>1
  <2> QED BY <1>3, <1>9, <2>2 DEF OutOf, Edge
<1> QED BY <1>1, <1>2, <1>11, <1>12 DEF g, q

\* The descent leaves the heap in order, or as it was, if the item at iPos is not
\* below its children.
LEMMA DownOrders ==
  ASSUME NEW h \in Heaps, NEW iPos \in Nodes(h), Hole(h, iPos)
  PROVE  LET g == vMaxHeapDown(h, iPos)
         IN  Moved(g, h) /\ (Ordered(g) \/ (g = h /\ OutOf(h, iPos)))
<1> DEFINE L == h.FSH_length
<1>0. L \in Nat /\ iPos \in Slots(h) /\ iPos \in Nat /\ Nodes(h) = 1 .. L
  BY HeapFields DEF Nodes
<1>1. PICK f \in [0 .. L -> Sifts] :
        /\ f[0] = [heap |-> h, pos |-> iPos]
        /\ \A n \in 1 .. L : f[n] = DownStep(f[n - 1])
        /\ vMaxHeapDown(h, iPos) = f[L].heap
  BY <1>0, DownRun
<1> DEFINE
  Sifting(m) ==
    /\ m \in Sifts /\ Moved(m.heap, h) /\ m.pos \in Nodes(h) /\ Hole(m.heap, m.pos)
    /\ (m.heap = h /\ m.pos = iPos) \/ Edge(m.heap, m.pos)
  Rests(m) == Largest(m.heap, m.pos) = m.pos
  T == {n \in 0 .. L : Sifting(f[n]) /\ (n < f[n].pos \/ Rests(f[n]))}
<1>2. 0 \in T BY <1>0, <1>1, MovedSelf DEF Nodes, Sifts
<1>3. ASSUME NEW m, Sifting(m)
      PROVE  /\ m.heap \in Heaps /\ Nodes(m.heap) = Nodes(h)
             /\ m.pos \in Slots(m.heap) /\ m.pos \in Nat
             /\ Rests(m) => DownStep(m) = m
             /\ ~Rests(m) => Sifting(DownStep(m)) /\ m.pos < DownStep(m).pos
                             /\ DownStep(m).pos \in Nat
  <2>1. m \in Sifts /\ m.heap \in Heaps /\ m.pos \in Slots(m.heap)
    BY <1>3 DEF Sifts
  <2>2. Nodes(m.heap) = Nodes(h) BY <1>3 DEF Moved, SameFields, Nodes
  <2>3. m.pos \in Nodes(m.heap) /\ Nodes(m.heap) \subseteq Nat BY <1>3, <2>1, <2>2, HeapFields
  <2>4. ASSUME Rests(m) PROVE DownStep(m) = m
    <3>1. m = [heap |-> m.heap, pos |-> m.pos] BY <2>1 DEF Sifts
    <3> QED BY <2>1, <2>4, <3>1, SwapSelf DEF DownStep
  <2>5. ASSUME ~Rests(m)
        PROVE  Sifting(DownStep(m)) /\ m.pos < DownStep(m).pos /\ DownStep(m).pos \in Nat
    <3> DEFINE k == Largest(m.heap, m.pos)
               g == Swap(m.heap, m.pos, k)
    <3>1. /\ k \in Nodes(m.heap) /\ m.pos < k /\ Moved(g, m.heap)
          /\ Hole(g, k) /\ Edge(g, k)
      BY <1>3, <2>1, <2>3, <2>5, HoleDown
    <3>2. DownStep(m).heap = g /\ DownStep(m).pos = k BY DEF DownStep
    <3>3. DownStep(m) \in Sifts BY <2>1, DownStepType
    <3>4. Moved(g, h) BY <1>3, <3>1, MovedOn
    <3> HIDE DEF k, g
    <3> QED BY <2>2, <2>3, <3>1, <3>2, <3>3, <3>4
  <2> QED BY <2>1, <2>2, <2>3, <2>4, <2>5
<1>4. ASSUME NEW n \in 0 .. L - 1, n \in T PROVE n + 1 \in T
  <2>1. n + 1 \in 1 .. L /\ n + 1 - 1 = n /\ n \in Nat BY <1>0
  <2>2. f[n + 1] = DownStep(f[n]) BY <1>1, <2>1
  <2>3. Sifting(f[n]) /\ (n < f[n].pos \/ Rests(f[n])) BY <1>4
  <2>4. CASE Rests(f[n])
    <3>1. DownStep(f[n]) = f[n] BY <1>3, <2>3, <2>4
    <3> QED BY <2>1, <2>2, <2>3, <2>4, <3>1
  <2>5. CASE ~Rests(f[n])
    <3>1. /\ Sifting(DownStep(f[n])) /\ f[n].pos < DownStep(f[n]).pos
          /\ DownStep(f[n]).pos \in Nat /\ f[n].pos \in Nat
      BY <1>3, <2>3, <2>5
    <3>2. n + 1 < DownStep(f[n]).pos BY <2>1, <2>3, <2>5, <3>1
    <3> HIDE DEF Sifting, Rests
    <3> QED BY <2>1, <2>2, <3>1, <3>2
  <2> QED BY <2>4, <2>5
<1>5. L \in T
  <2> HIDE DEF T, L
  <2>1. 0 .. L \subseteq T BY <1>0, <1>2, <1>4, UpTo
  <2> QED BY <1>0, <2>1
<1> DEFINE m == f[L]
<1>6. Sifting(m) /\ (L < m.pos \/ Rests(m)) BY <1>5
<1>7. /\ m.heap \in Heaps /\ Nodes(m.heap) = Nodes(h) /\ m.pos \in Nodes(m.heap)
      /\ Rests(m)
  <2> HIDE DEF m
  <2>1. m.heap \in Heaps /\ Nodes(m.heap) = Nodes(h) /\ m.pos \in Nat BY <1>3, <1>6
  <2>2. m.pos \in Nodes(h) BY <1>6
  <2>3. m.pos <= L BY <1>0, <2>2
  <2> QED BY <1>0, <1>6, <2>1, <2>2, <2>3
<1>8. OutOf(m.heap, m.pos) BY <1>7, HoleAtRest
<1>9. Edge(m.heap, m.pos) => Ordered(m.heap) BY <1>6, <1>7, <1>8, InOrder
<1>10. Moved(m.heap, h) /\ ((m.heap = h /\ m.pos = iPos) \/ Edge(m.heap, m.pos)) BY <1>6
<1>11. vMaxHeapDown(h, iPos) = m.heap BY <1>1
<1> HIDE DEF m
<1> QED BY <1>8, <1>9, <1>10, <1>11

\* The climb restores the order.
LEMMA UpOrders ==
  ASSUME NEW h \in Heaps, NEW iPos \in Nodes(h), Hole(h, iPos), OutOf(h, iPos)
  PROVE  Moved(vMaxHeapUp(h, iPos), h) /\ Ordered(vMaxHeapUp(h, iPos))
<1> DEFINE L == h.FSH_length
<1>0. L \in Nat /\ iPos \in Slots(h) /\ iPos \in Nat /\ Nodes(h) = 1 .. L
  BY HeapFields DEF Nodes
<1>1. PICK f \in [0 .. L -> Sifts] :
        /\ f[0] = [heap |-> h, pos |-> iPos]
        /\ \A n \in 1 .. L : f[n] = UpStep(f[n - 1])
        /\ vMaxHeapUp(h, iPos) = f[L].heap
  BY <1>0, UpRun
<1> DEFINE
  Sifting(m) ==
    /\ m \in Sifts /\ Moved(m.heap, h) /\ m.pos \in Nodes(h)
    /\ Hole(m.heap, m.pos) /\ OutOf(m.heap, m.pos)
  Rests(m) == Edge(m.heap, m.pos)
  T == {n \in 0 .. L : Sifting(f[n]) /\ (f[n].pos + n <= L \/ Rests(f[n]))}
<1>2. 0 \in T
  <2>1. Sifting(f[0]) BY <1>0, <1>1, MovedSelf DEF Sifts
  <2>2. f[0].pos + 0 <= L BY <1>0, <1>1
  <2> QED BY <1>0, <2>1, <2>2
<1>3. ASSUME NEW m, Sifting(m)
      PROVE  /\ m.heap \in Heaps /\ Nodes(m.heap) = Nodes(h)
             /\ m.pos \in Nodes(m.heap) /\ m.pos \in Nat /\ m.pos >= 1
             /\ Rests(m) => UpStep(m) = m
             /\ ~Rests(m) => Sifting(UpStep(m)) /\ UpStep(m).pos < m.pos
                             /\ UpStep(m).pos \in Nat
  <2>1. m \in Sifts /\ m.heap \in Heaps /\ m.pos \in Slots(m.heap)
    BY <1>3 DEF Sifts
  <2>2. Nodes(m.heap) = Nodes(h) BY <1>3 DEF Moved, SameFields, Nodes
  <2>3. m.pos \in Nodes(m.heap) /\ m.pos \in Nat /\ m.pos >= 1 BY <1>0, <1>3, <2>2
  <2>4. \A j \in Nodes(m.heap) : Size(m.heap, j) \in Int BY <2>1, SizesInt
  <2>5. ASSUME Rests(m) PROVE UpStep(m) = m
    <3>1. CASE m.pos = 1 BY <3>1 DEF UpStep
    <3>2. CASE m.pos # 1
      <4>1. Size(m.heap, m.pos \div 2) >= Size(m.heap, m.pos) BY <2>5, <3>2 DEF Edge
      <4>2. m.pos \div 2 \in Nodes(m.heap) BY <2>1, <2>3, <3>2, Parent
      <4>3. ~(Size(m.heap, m.pos \div 2) < Size(m.heap, m.pos)) BY <2>3, <2>4, <4>1, <4>2
      <4> QED BY <4>3 DEF UpStep
    <3> QED BY <3>1, <3>2
  <2>6. ASSUME ~Rests(m)
        PROVE  Sifting(UpStep(m)) /\ UpStep(m).pos < m.pos /\ UpStep(m).pos \in Nat
    <3> DEFINE q == m.pos \div 2
               g == Swap(m.heap, m.pos, q)
    <3>1. m.pos # 1 BY <2>6 DEF Edge
    <3>2. q \in Nodes(m.heap) /\ q # 0 BY <2>1, <2>3, <3>1, Parent
    <3>3. Size(m.heap, q) < Size(m.heap, m.pos)
      <4>1. ~(Size(m.heap, q) >= Size(m.heap, m.pos)) BY <2>6 DEF Edge
      <4> QED BY <2>3, <2>4, <3>2, <4>1
    <3>4. q < m.pos /\ Moved(g, m.heap) /\ Hole(g, q) /\ OutOf(g, q)
      BY <1>3, <2>1, <2>3, <3>2, <3>3, HoleUp
    <3>5. UpStep(m).heap = g /\ UpStep(m).pos = q BY <3>2, <3>3 DEF UpStep
    <3>6. UpStep(m) \in Sifts BY <2>1, UpStepType
    <3>7. Moved(g, h) BY <1>3, <3>4, MovedOn
    <3>8. q \in Nat BY <1>0, <2>2, <3>2
    <3> HIDE DEF q, g
    <3> QED BY <2>2, <3>2, <3>4, <3>5, <3>6, <3>7, <3>8
  <2> QED BY <2>1, <2>2, <2>3, <2>5, <2>6
<1>4. ASSUME NEW n \in 0 .. L - 1, n \in T PROVE n + 1 \in T
  <2>1. n + 1 \in 1 .. L /\ n + 1 - 1 = n /\ n \in Nat BY <1>0
  <2>2. f[n + 1] = UpStep(f[n]) BY <1>1, <2>1
  <2>3. Sifting(f[n]) /\ (f[n].pos + n <= L \/ Rests(f[n])) BY <1>4
  <2>4. CASE Rests(f[n])
    <3>1. UpStep(f[n]) = f[n] BY <1>3, <2>3, <2>4
    <3> QED BY <2>1, <2>2, <2>3, <2>4, <3>1
  <2>5. CASE ~Rests(f[n])
    <3>1. /\ Sifting(UpStep(f[n])) /\ UpStep(f[n]).pos < f[n].pos
          /\ UpStep(f[n]).pos \in Nat /\ f[n].pos \in Nat
      BY <1>3, <2>3, <2>5
    <3>2. UpStep(f[n]).pos + (n + 1) <= L BY <1>0, <2>1, <2>3, <2>5, <3>1
    <3> HIDE DEF Sifting, Rests
    <3> QED BY <2>1, <2>2, <3>1, <3>2
  <2> QED BY <2>4, <2>5
<1>5. L \in T
  <2> HIDE DEF T, L
  <2>1. 0 .. L \subseteq T BY <1>0, <1>2, <1>4, UpTo
  <2> QED BY <1>0, <2>1
<1> DEFINE m == f[L]
<1>6. Sifting(m) /\ (m.pos + L <= L \/ Rests(m)) BY <1>5
<1>7. /\ m.heap \in Heaps /\ Nodes(m.heap) = Nodes(h) /\ m.pos \in Nodes(m.heap)
      /\ Rests(m)
  <2> HIDE DEF m
  <2>1. /\ m.heap \in Heaps /\ Nodes(m.heap) = Nodes(h) /\ m.pos \in Nodes(m.heap)
        /\ m.pos \in Nat /\ m.pos >= 1
    BY <1>3, <1>6
  <2> QED BY <1>0, <1>6, <2>1
<1>8. Ordered(m.heap) BY <1>6, <1>7, InOrder
<1>9. Moved(m.heap, h) BY <1>6
<1>10. vMaxHeapUp(h, iPos) = m.heap BY <1>1
<1> HIDE DEF m
<1> QED BY <1>8, <1>9, <1>10

\* A slot behind the nodes is not moved.
LEMMA DownStays ==
  ASSUME NEW h \in Heaps, NEW iPos \in Slots(h), iPos \notin Nodes(h)
  PROVE  vMaxHeapDown(h, iPos) = h
<1> DEFINE L == h.FSH_length
           a == [heap |-> h, pos |-> iPos]
<1>0. L \in Nat BY HeapFields
<1>1. PICK f \in [0 .. L -> Sifts] :
        /\ f[0] = a
        /\ \A n \in 1 .. L : f[n] = DownStep(f[n - 1])
        /\ vMaxHeapDown(h, iPos) = f[L].heap
  BY DownRun
<1>2. Largest(h, iPos) = iPos
  <2> SUFFICES ASSUME Largest(h, iPos) # iPos PROVE FALSE OBVIOUS
  <2>1. Largest(h, iPos) \in {2 * iPos, 2 * iPos + 1} \cap Nodes(h) BY LargestIs
  <2> QED BY <2>1, Child
<1>3. DownStep(a) = a BY <1>2, SwapSelf DEF DownStep
<1> DEFINE T == {n \in 0 .. L : f[n] = a}
<1>4. 0 \in T BY <1>0, <1>1
<1>5. ASSUME NEW n \in 0 .. L - 1, n \in T PROVE n + 1 \in T
  <2>1. n + 1 \in 1 .. L /\ n + 1 - 1 = n BY <1>0
  <2>2. f[n + 1] = DownStep(f[n]) BY <1>1, <2>1
  <2> HIDE DEF a
  <2> QED BY <1>3, <1>5, <2>1, <2>2
<1>6. 0 .. L \subseteq T
  <2> HIDE DEF T, L
  <2> QED BY <1>0, <1>4, <1>5, UpTo
<1>7. f[L] = a BY <1>0, <1>6
<1> QED BY <1>1, <1>7

LEMMA UpStays ==
  ASSUME NEW h \in Heaps, NEW iPos \in Slots(h),
         iPos \div 2 # 0 => ~(Size(h, iPos \div 2) < Size(h, iPos))
  PROVE  vMaxHeapUp(h, iPos) = h
<1> DEFINE L == h.FSH_length
           a == [heap |-> h, pos |-> iPos]
<1>0. L \in Nat BY HeapFields
<1>1. PICK f \in [0 .. L -> Sifts] :
        /\ f[0] = a
        /\ \A n \in 1 .. L : f[n] = UpStep(f[n - 1])
        /\ vMaxHeapUp(h, iPos) = f[L].heap
  BY UpRun
<1>3. UpStep(a) = a BY DEF UpStep
<1> DEFINE T == {n \in 0 .. L : f[n] = a}
<1>4. 0 \in T BY <1>0, <1>1
<1>5. ASSUME NEW n \in 0 .. L - 1, n \in T PROVE n + 1 \in T
  <2>1. n + 1 \in 1 .. L /\ n + 1 - 1 = n BY <1>0
  <2>2. f[n + 1] = UpStep(f[n]) BY <1>1, <2>1
  <2> HIDE DEF a
  <2> QED BY <1>3, <1>5, <2>1, <2>2
<1>6. 0 .. L \subseteq T
  <2> HIDE DEF T, L
  <2> QED BY <1>0, <1>4, <1>5, UpTo
<1>7. f[L] = a BY <1>0, <1>6
<1> QED BY <1>1, <1>7

-----------------------------------------------------------------------------
\* The operations on a heap.

LEMMA DeleteNode ==
  ASSUME NEW h \in Heaps, NEW iPos \in Nodes(h), Hole(h, iPos), Edge(h, iPos)
  PROVE  LET g == FSM_vHeapDeleteNode(h, iPos)
         IN  /\ g \in Heaps /\ Ordered(g)
             /\ g.FSH_maxBlockNum = h.FSH_maxBlockNum /\ g.FSH_HeapSize = h.FSH_HeapSize
             /\ Contents(g) \subseteq Contents(h)
             /\ Distinct(h) => /\ Distinct(g)
                               /\ Listed(g) = Listed(h) \ {h.FSH_heap[iPos]}
<1> DEFINE L == h.FSH_length
           s == Swap(h, iPos, L)
           cut == [s EXCEPT !.FSH_length = @ - 1]
<1>1. /\ L \in Nat /\ L >= 1 /\ iPos \in 1 .. L /\ L \in Nodes(h)
      /\ iPos \in Slots(h) /\ L \in Slots(h) /\ Nodes(h) = 1 .. L
      /\ Nodes(h) \subseteq Slots(h) /\ iPos \in Nat
  BY HeapFields DEF Nodes
<1>2. s \in Heaps /\ SameFields(s, h) /\ Moved(s, h) BY <1>1, SwapIs, SwapMoves
<1>3. \A k \in Slots(h) : s.FSH_heap[k] =
        IF k = L THEN h.FSH_heap[iPos] ELSE IF k = iPos THEN h.FSH_heap[L] ELSE h.FSH_heap[k]
  <2> HIDE DEF L
  <2>1. L \in Slots(h) /\ iPos \in Slots(h) BY <1>1
  <2> QED BY <2>1, SwapIs
<1>3a. \A k \in Nodes(h) : Size(s, k) =
         IF k = L THEN Size(h, iPos) ELSE IF k = iPos THEN Size(h, L) ELSE Size(h, k)
  BY <1>1, SwapSizes
<1>3b. iPos = L => s = h BY <1>1, SwapSelf
<1> HIDE DEF s
<1>4. /\ cut = [FSH_heap |-> s.FSH_heap, FSH_length |-> L - 1,
                FSH_HeapSize |-> Len(s.FSH_heap) + 1, FSH_maxBlockNum |-> h.FSH_maxBlockNum]
      /\ s.FSH_heap \in Seq(Cells) /\ L - 1 + 1 <= Len(s.FSH_heap)
  <2>1. Len(s.FSH_heap) = s.FSH_HeapSize - 1 /\ s.FSH_HeapSize \in Nat
        /\ s.FSH_length + 2 <= s.FSH_HeapSize /\ s.FSH_heap \in Seq(Cells)
    BY <1>2, HeapFields
  <2>2. s = [FSH_heap |-> s.FSH_heap, FSH_length |-> L,
             FSH_HeapSize |-> Len(s.FSH_heap) + 1, FSH_maxBlockNum |-> h.FSH_maxBlockNum]
    BY <1>2, <2>1, HeapFields DEF SameFields
  <2>3. cut = [FSH_heap |-> s.FSH_heap, FSH_length |-> L - 1,
               FSH_HeapSize |-> Len(s.FSH_heap) + 1, FSH_maxBlockNum |-> h.FSH_maxBlockNum]
    BY <2>2
  <2> QED BY <1>1, <1>2, <2>1, <2>3 DEF SameFields
<1>5. cut \in Heaps
  <2>1. L - 1 \in Nat BY <1>1
  <2>2. h.FSH_maxBlockNum \in Int BY HeapFields
  <2> HIDE DEF cut, L
  <2> QED BY <1>4, <2>1, <2>2, HeapIs
<1>6. /\ cut.FSH_heap = s.FSH_heap /\ cut.FSH_length = L - 1
      /\ cut.FSH_maxBlockNum = h.FSH_maxBlockNum /\ cut.FSH_HeapSize = h.FSH_HeapSize
      /\ Nodes(cut) = 1 .. L - 1 /\ Slots(cut) = Slots(s)
  <2>1. cut.FSH_HeapSize = s.FSH_HeapSize
    <3>1. Len(s.FSH_heap) + 1 = s.FSH_HeapSize BY <1>2, HeapFields
    <3> QED BY <1>4, <3>1
  <2> QED BY <1>2, <1>4, <2>1 DEF Nodes, Slots, SameFields
<1> HIDE DEF cut
<1>7. \A k \in Nodes(cut) : k \in Nodes(h) /\ k # L /\ k \in Nat BY <1>1, <1>6
<1>8. Contents(cut) \subseteq Contents(h)
  BY <1>2, <1>6 DEF Moved, Contents
<1>9. Distinct(h) => /\ Distinct(cut)
                     /\ Listed(cut) = Listed(h) \ {h.FSH_heap[iPos]}
  <2> SUFFICES ASSUME Distinct(h)
               PROVE  Distinct(cut) /\ Listed(cut) = Listed(h) \ {h.FSH_heap[iPos]}
    OBVIOUS
  <2>1. /\ \A i, j \in Nodes(h) : s.FSH_heap[i].blockNum = s.FSH_heap[j].blockNum => i = j
        /\ Listed(s) = Listed(h) /\ Nodes(s) = Nodes(h)
    BY <1>2 DEF Moved, Distinct, SameFields, Nodes
  <2>2. Distinct(cut) BY <1>6, <1>7, <2>1 DEF Distinct
  <2>3. s.FSH_heap[L] = h.FSH_heap[iPos] BY <1>1, <1>3
  <2>4. \A k \in Nodes(cut) : s.FSH_heap[k] # s.FSH_heap[L] BY <1>1, <1>7, <2>1
  <2>5. \A k \in Nodes(h) : k # L => k \in Nodes(cut) BY <1>1, <1>6
  <2>6. Listed(cut) = {s.FSH_heap[k] : k \in Nodes(cut)} BY <1>6 DEF Listed
  <2>7. Listed(h) = {s.FSH_heap[k] : k \in Nodes(h)} BY <2>1 DEF Listed
  <2> QED BY <1>7, <2>2, <2>3, <2>4, <2>5, <2>6, <2>7
<1> DEFINE d == vMaxHeapDown(cut, iPos)
           u == vMaxHeapUp(d, iPos)
<1>10. FSM_vHeapDeleteNode(h, iPos) = u
  BY DEF FSM_vHeapDeleteNode, cut, s
<1>11. iPos \in Slots(cut)
  BY <1>1, <1>2, <1>6 DEF SameFields, Slots
<1>12. \A j \in Nodes(h) : j \div 2 \in Nat /\ j \div 2 <= j /\ (j # 1 => j \div 2 \in Nodes(h) /\ j \div 2 < j)
  <2> TAKE j \in Nodes(h)
  <2>1. j \in Nat /\ j >= 1 BY <1>1
  <2> QED BY <2>1, Parent
<1>13. Moved(u, cut) /\ Ordered(u)
  <2>1. CASE iPos = L
    <3>1. s = h BY <1>3b, <2>1
    <3>2. iPos \notin Nodes(cut) BY <1>1, <1>6, <2>1
    <3>3. d = cut BY <1>5, <1>11, <3>2, DownStays
    <3>4. \A k : Size(cut, k) = Size(h, k) BY <1>6, <3>1 DEF Size
    <3>5. iPos \div 2 # 0 => ~(Size(cut, iPos \div 2) < Size(cut, iPos))
      <4>1. iPos \div 2 # 0 => iPos # 1 OBVIOUS
      <4>2. iPos # 1 => /\ Size(h, iPos \div 2) \in Int /\ Size(h, iPos) \in Int
                        /\ Size(h, iPos \div 2) >= Size(h, iPos)
        BY <1>1, <1>12, SizesInt DEF Edge
      <4> QED BY <3>4, <4>1, <4>2
    <3>6. u = cut BY <1>5, <1>11, <3>3, <3>5, UpStays
    <3>7. ASSUME NEW j \in Nodes(cut) PROVE Edge(cut, j)
      <4>1. j # iPos /\ j \div 2 # iPos BY <1>1, <1>6, <1>7, <1>12, <2>1
      <4>2. Edge(h, j) BY <1>7, <4>1 DEF Hole
      <4> QED BY <3>4, <4>2 DEF Edge
    <3> QED BY <1>5, <3>6, <3>7, MovedSelf DEF Ordered
  <2>2. CASE iPos # L
    <3>1. iPos \in Nodes(cut) BY <1>1, <1>6, <2>2
    <3>2. \A k \in Nodes(cut) : k # iPos => Size(cut, k) = Size(h, k)
      BY <1>3a, <1>6, <1>7 DEF Size
    <3>3. ASSUME NEW j \in Nodes(cut), j # iPos, j \div 2 # iPos PROVE Edge(cut, j)
      <4> SUFFICES ASSUME j # 1 PROVE Size(cut, j \div 2) >= Size(cut, j) BY DEF Edge
      <4>1. j \div 2 \in Nodes(cut) BY <1>5, Parent
      <4>2. Size(cut, j \div 2) = Size(h, j \div 2) /\ Size(cut, j) = Size(h, j)
        BY <3>2, <3>3, <4>1
      <4>3. Size(h, j \div 2) >= Size(h, j) BY <1>7, <3>3 DEF Hole, Edge
      <4> QED BY <4>2, <4>3
    <3>4. ASSUME iPos # 1, NEW j \in Nodes(cut), j \div 2 = iPos
          PROVE  Size(cut, iPos \div 2) >= Size(cut, j)
      <4>1. iPos \div 2 \in Nodes(cut) /\ iPos \div 2 # iPos
        BY <1>1, <1>5, <3>1, <3>4, Parent
      <4>2. j # iPos BY <1>7, <1>1, <3>4
      <4>3. Size(h, iPos \div 2) >= Size(h, j) BY <1>7, <3>4 DEF Hole
      <4> QED BY <3>2, <4>1, <4>2, <4>3
    <3>5. Hole(cut, iPos) BY <3>3, <3>4 DEF Hole
    <3>6. Moved(d, cut) /\ (Ordered(d) \/ (d = cut /\ OutOf(cut, iPos)))
      BY <1>5, <3>1, <3>5, DownOrders
    <3> HIDE DEF d
    <3>7. CASE Ordered(d)
      <4>1. d \in Heaps /\ Nodes(d) = Nodes(cut) /\ Slots(d) = Slots(cut)
        BY <3>6 DEF Moved, SameFields, Nodes, Slots
      <4>2. iPos \div 2 # 0 => ~(Size(d, iPos \div 2) < Size(d, iPos))
        <5>1. iPos \div 2 # 0 => iPos # 1 OBVIOUS
        <5>2. iPos # 1 => /\ Size(d, iPos \div 2) \in Int /\ Size(d, iPos) \in Int
                          /\ Size(d, iPos \div 2) >= Size(d, iPos)
          BY <3>1, <3>7, <4>1, SizesInt, Parent DEF Ordered, Edge
        <5> QED BY <5>1, <5>2
      <4>3. u = d BY <1>11, <4>1, <4>2, UpStays
      <4> QED BY <3>6, <3>7, <4>3
    <3>8. CASE d = cut /\ OutOf(cut, iPos)
      BY <1>5, <3>1, <3>5, <3>8, UpOrders
    <3> QED BY <3>6, <3>7, <3>8
  <2> QED BY <2>1, <2>2
<1> HIDE DEF u
<1> QED BY <1>6, <1>8, <1>9, <1>10, <1>13 DEF Moved, SameFields

LEMMA JunkIsCell == Junk \in Cells
BY DEF Junk, Cells

LEMMA NewHeapIs ==
  /\ NewHeap \in Heaps /\ NewHeap.FSH_length = 0
  /\ NewHeap.FSH_maxBlockNum = INValidBlockNumber
  /\ Nodes(NewHeap) = {} /\ Listed(NewHeap) = {} /\ Contents(NewHeap) \subseteq {Junk}
  /\ Ordered(NewHeap) /\ Distinct(NewHeap)
<1> DEFINE n == HEAP_INIT_SIZE - 1
           a == [i \in 1 .. n |-> Junk]
<1>1. n \in Nat /\ 0 + 1 <= n /\ INValidBlockNumber \in Int /\ n + 1 = HEAP_INIT_SIZE
  BY HeapAssumption
<1>2. a \in Seq(Cells) /\ Len(a) = n
  <2> HIDE DEF n
  <2> QED BY <1>1, JunkIsCell
<1>3. NewHeap = [FSH_heap |-> a, FSH_length |-> 0, FSH_HeapSize |-> Len(a) + 1,
                 FSH_maxBlockNum |-> INValidBlockNumber]
  BY <1>1, <1>2 DEF NewHeap
<1>4. NewHeap \in Heaps
  <2> HIDE DEF n, a
  <2> QED BY <1>1, <1>2, <1>3, HeapIs
<1>5. Nodes(NewHeap) = {} BY <1>3 DEF Nodes
<1>6. Contents(NewHeap) \subseteq {Junk}
  <2>1. Slots(NewHeap) = 1 .. n BY <1>1, <1>2, <1>3 DEF Slots
  <2>2. NewHeap.FSH_heap = a BY <1>3
  <2> QED BY <2>1, <2>2 DEF Contents
<1> QED BY <1>3, <1>4, <1>5, <1>6 DEF Listed, Ordered, Distinct

LEMMA GrownIs ==
  ASSUME NEW h \in Heaps
  PROVE  /\ Grown(h) \in Seq(Cells) /\ h.FSH_length + 2 <= Len(Grown(h))
         /\ Len(Grown(h)) >= Len(h.FSH_heap)
         /\ \A k \in Slots(h) : Grown(h)[k] = h.FSH_heap[k]
         /\ \A k \in 1 .. Len(Grown(h)) : Grown(h)[k] \in Contents(h) \cup {Junk}
<1> DEFINE more == [i \in 1 .. HEAPINCREMENT |-> Junk]
<1>1. more \in Seq(Cells) /\ Len(more) = HEAPINCREMENT /\ HEAPINCREMENT \in Nat \ {0}
  BY HeapAssumption, JunkIsCell
<1>2. /\ h.FSH_heap \in Seq(Cells) /\ Len(h.FSH_heap) = h.FSH_HeapSize - 1
      /\ h.FSH_length \in Nat /\ h.FSH_HeapSize \in Nat
      /\ h.FSH_length + 2 <= h.FSH_HeapSize
      /\ Slots(h) = 1 .. Len(h.FSH_heap) /\ Len(h.FSH_heap) \in Nat
  BY HeapFields DEF Slots
<1>3. \A k \in Slots(h) : h.FSH_heap[k] \in Contents(h) BY DEF Contents
<1>4. CASE h.FSH_length >= h.FSH_HeapSize - 2
  <2>1. Grown(h) = h.FSH_heap \o more BY <1>4 DEF Grown
  <2> HIDE DEF more
  <2>2. /\ h.FSH_heap \o more \in Seq(Cells)
        /\ Len(h.FSH_heap \o more) = Len(h.FSH_heap) + HEAPINCREMENT
        /\ \A k \in 1 .. Len(h.FSH_heap) + HEAPINCREMENT : (h.FSH_heap \o more)[k] =
             IF k <= Len(h.FSH_heap) THEN h.FSH_heap[k] ELSE more[k - Len(h.FSH_heap)]
    BY <1>1, <1>2, ConcatProperties
  <2>3. \A k \in 1 .. HEAPINCREMENT : more[k] = Junk BY DEF more
  <2>4. ASSUME NEW k \in 1 .. Len(Grown(h)) PROVE Grown(h)[k] \in Contents(h) \cup {Junk}
    <3>1. CASE k <= Len(h.FSH_heap) BY <1>1, <1>2, <1>3, <2>1, <2>2, <3>1
    <3>2. CASE ~(k <= Len(h.FSH_heap))
      <4>1. k - Len(h.FSH_heap) \in 1 .. HEAPINCREMENT BY <1>1, <1>2, <2>1, <2>2, <3>2
      <4> QED BY <1>1, <1>2, <2>1, <2>2, <2>3, <3>2, <4>1
    <3> QED BY <3>1, <3>2
  <2>5. \A k \in Slots(h) : Grown(h)[k] = h.FSH_heap[k] BY <1>1, <1>2, <2>1, <2>2
  <2>6. /\ Grown(h) \in Seq(Cells) /\ Len(Grown(h)) = Len(h.FSH_heap) + HEAPINCREMENT
    BY <2>1, <2>2
  <2>7. h.FSH_length + 2 <= Len(Grown(h)) /\ Len(Grown(h)) >= Len(h.FSH_heap)
    BY <1>1, <1>2, <2>6
  <2> QED BY <2>4, <2>5, <2>6, <2>7, Zenon
<1>5. CASE ~(h.FSH_length >= h.FSH_HeapSize - 2)
  <2>1. Grown(h) = h.FSH_heap BY <1>5 DEF Grown
  <2> QED BY <1>2, <1>3, <1>5, <2>1
<1> QED BY <1>4, <1>5

LEMMA AddNode ==
  ASSUME NEW h \in Heaps, NEW item \in Cells, Ordered(h)
  PROVE  LET g == FSM_vAddNodeToHeap(h, item)
         IN  /\ g \in Heaps /\ h.FSH_HeapSize <= g.FSH_HeapSize
             /\ g.FSH_length = h.FSH_length + 1
             /\ g.FSH_maxBlockNum = IF \/ item.blockNum > h.FSH_maxBlockNum
                                       \/ ~IsValidBlockNumber(h.FSH_maxBlockNum)
                                    THEN item.blockNum ELSE h.FSH_maxBlockNum
             /\ Contents(g) \subseteq Contents(h) \cup {item, Junk}
             /\ Ordered(g) /\ Listed(g) = Listed(h) \cup {item}
             /\ Distinct(h) /\ (\A x \in Listed(h) : x.blockNum # item.blockNum) => Distinct(g)
<1> DEFINE l == h.FSH_length + 1
           a == [Grown(h) EXCEPT ![l] = item]
           max == IF \/ item.blockNum > h.FSH_maxBlockNum
                     \/ ~IsValidBlockNumber(h.FSH_maxBlockNum)
                  THEN item.blockNum ELSE h.FSH_maxBlockNum
           n == [FSH_heap |-> a, FSH_length |-> l, FSH_HeapSize |-> Len(Grown(h)) + 1,
                 FSH_maxBlockNum |-> max]
<1>0. FSM_vAddNodeToHeap(h, item) = vMaxHeapUp(n, l)
  BY DEF FSM_vAddNodeToHeap
<1>1. l \in Nat /\ l >= 1 /\ l + 1 <= Len(Grown(h)) /\ Len(Grown(h)) \in Nat
      /\ Nodes(h) = 1 .. l - 1 /\ l - 1 = h.FSH_length
  BY HeapFields, GrownIs DEF Nodes
<1>2. max \in Int BY HeapFields DEF Cells
<1> HIDE DEF max
<1>3. a \in Seq(Cells) /\ Len(a) = Len(Grown(h))
      /\ \A k \in 1 .. Len(Grown(h)) : a[k] = IF k = l THEN item ELSE Grown(h)[k]
  <2>1. Grown(h) \in Seq(Cells) BY GrownIs
  <2> HIDE DEF l
  <2>2. l \in 1 .. Len(Grown(h)) BY <1>1
  <2> QED BY <2>1, <2>2, ExceptSeq
<1> HIDE DEF a
<1>4. n \in Heaps
  <2> HIDE DEF l
  <2> QED BY <1>1, <1>2, <1>3, HeapIs
<1>4a. h.FSH_HeapSize <= n.FSH_HeapSize
  <2>1. Len(Grown(h)) >= Len(h.FSH_heap) /\ Len(h.FSH_heap) = h.FSH_HeapSize - 1
        /\ h.FSH_HeapSize \in Nat
    BY GrownIs, HeapFields
  <2> QED BY <1>1, <2>1
<1>5. /\ n.FSH_heap = a /\ n.FSH_length = l /\ n.FSH_maxBlockNum = max
      /\ Nodes(n) = 1 .. l /\ Slots(n) = 1 .. Len(a) /\ l \in Nodes(n) /\ l \in Slots(n)
  BY <1>1, <1>3 DEF Nodes, Slots
<1> HIDE DEF n, l
<1>6. \A k \in Nodes(h) : a[k] = h.FSH_heap[k] /\ k # l /\ k \in Nodes(n)
  <2> TAKE k \in Nodes(h)
  <2>1. k \in Slots(h) BY HeapFields
  <2>2. Grown(h)[k] = h.FSH_heap[k] BY <2>1, GrownIs
  <2>3. k \in 1 .. Len(Grown(h)) /\ k # l BY <1>1
  <2> QED BY <1>1, <1>3, <1>5, <2>2, <2>3
<1>7. a[l] = item BY <1>1, <1>3
<1>8. Contents(n) \subseteq Contents(h) \cup {item, Junk}
  BY <1>3, <1>5, GrownIs DEF Contents
<1>9. Listed(n) = Listed(h) \cup {item}
  <2>1. \A k \in Nodes(n) : k = l \/ k \in Nodes(h) BY <1>1, <1>5
  <2> QED BY <1>5, <1>6, <1>7, <2>1 DEF Listed
<1>10. Distinct(h) /\ (\A x \in Listed(h) : x.blockNum # item.blockNum) => Distinct(n)
  <2>1. \A k \in Nodes(n) : k = l \/ k \in Nodes(h) BY <1>1, <1>5
  <2>2. \A k \in Nodes(h) : h.FSH_heap[k] \in Listed(h) BY DEF Listed
  <2> QED BY <1>5, <1>6, <1>7, <2>1, <2>2 DEF Distinct
<1> DEFINE g == vMaxHeapUp(n, l)
<1>11. Moved(g, n) /\ Ordered(g)
  <2>1. \A k \in Nodes(h) : Size(n, k) = Size(h, k) BY <1>5, <1>6 DEF Size
  <2>2. ASSUME NEW j \in Nodes(n), j # l PROVE Edge(n, j)
    <3>1. j \in Nodes(h) BY <1>1, <1>5, <2>2
    <3>2. Edge(h, j) BY <3>1 DEF Ordered
    <3>3. j # 1 => j \div 2 \in Nodes(h) BY <3>1, Parent
    <3> QED BY <2>1, <3>1, <3>2, <3>3 DEF Edge
  <2>3. \A j \in Nodes(n) : j \div 2 # l BY <1>1, <1>5
  <2>4. Hole(n, l) /\ OutOf(n, l) BY <2>2, <2>3 DEF Hole, OutOf
  <2> QED BY <1>4, <1>5, <2>4, UpOrders
<1> HIDE DEF g
<1> QED BY <1>0, <1>1, <1>4a, <1>5, <1>8, <1>9, <1>10, <1>11 DEF Moved, SameFields, g, max, l

\* A block's space less `need`.
Less(item, need) == [item EXCEPT !.freeSpaceSize = @ - need]

LEMMA ReducedIs ==
  ASSUME NEW h \in Heaps, Ordered(h), NEW i \in Nodes(h), NEW need \in Nat
  PROVE  LET g == Reduced(h, i, need)
             old == h.FSH_heap[i]
         IN  /\ g \in Heaps /\ Ordered(g)
             /\ g.FSH_maxBlockNum = h.FSH_maxBlockNum /\ g.FSH_HeapSize = h.FSH_HeapSize
             /\ Contents(g) \subseteq Contents(h) \cup {Less(old, need)}
             /\ Distinct(h) =>
                  /\ Distinct(g)
                  /\ Listed(g) = (Listed(h) \ {old})
                       \cup IF old.freeSpaceSize - need <= MIN_FreeSpace THEN {}
                            ELSE {Less(old, need)}
<1> DEFINE old == h.FSH_heap[i]
           a == [h.FSH_heap EXCEPT ![i] = Less(old, need)]
           less == [h EXCEPT !.FSH_heap[i].freeSpaceSize = @ - need]
<1>0. i \in Slots(h) /\ i \in Nat /\ Nodes(h) \subseteq Slots(h) /\ i \in 1 .. Len(h.FSH_heap)
  BY HeapFields DEF Slots
<1>1. /\ old \in Cells /\ Less(old, need) \in Cells
      /\ Less(old, need).freeSpaceSize = old.freeSpaceSize - need
      /\ Less(old, need).blockNum = old.blockNum
      /\ old.freeSpaceSize \in Int
  <2>1. old \in Cells BY <1>0, HeapFields
  <2> HIDE DEF old
  <2> QED BY <2>1 DEF Cells, Less
<1>2. /\ a \in Seq(Cells) /\ Len(a) = Len(h.FSH_heap)
      /\ \A k \in 1 .. Len(h.FSH_heap) : a[k] = IF k = i THEN Less(old, need) ELSE h.FSH_heap[k]
  <2>1. h.FSH_heap \in Seq(Cells) BY HeapFields
  <2> HIDE DEF old
  <2> QED BY <1>0, <1>1, <2>1, ExceptSeq
<1>2a. Len(a) + 1 = h.FSH_HeapSize
  <2>1. Len(h.FSH_heap) = h.FSH_HeapSize - 1 /\ h.FSH_HeapSize \in Nat BY HeapFields
  <2>2. Len(a) = Len(h.FSH_heap) BY <1>2
  <2> HIDE DEF a
  <2> QED BY <2>1, <2>2
<1>3. less = [FSH_heap |-> a, FSH_length |-> h.FSH_length, FSH_HeapSize |-> Len(a) + 1,
              FSH_maxBlockNum |-> h.FSH_maxBlockNum]
  <2>1. less = [h EXCEPT !.FSH_heap = a] BY HeapFields DEF Less
  <2> HIDE DEF less, a
  <2> QED BY <1>2a, <2>1, HeapFields
<1>4. less \in Heaps
  <2>1. h.FSH_length \in Nat /\ h.FSH_maxBlockNum \in Int /\ h.FSH_length + 1 <= Len(a)
    BY <1>2, HeapFields
  <2> HIDE DEF less, a
  <2> QED BY <1>2, <1>3, <2>1, HeapIs
<1>5. /\ Nodes(less) = Nodes(h) /\ Slots(less) = Slots(h) /\ less.FSH_heap = a
      /\ less.FSH_maxBlockNum = h.FSH_maxBlockNum /\ less.FSH_HeapSize = h.FSH_HeapSize
  <2> HIDE DEF a
  <2> QED BY <1>2a, <1>3 DEF Nodes, Slots
<1>6. \A k \in Slots(h) : a[k] = IF k = i THEN Less(old, need) ELSE h.FSH_heap[k]
  BY <1>2, HeapFields DEF Slots
<1> HIDE DEF less, a, old
<1>7. /\ Size(less, i) = old.freeSpaceSize - need /\ Size(h, i) = old.freeSpaceSize
      /\ \A k \in Slots(h) : k # i => Size(less, k) = Size(h, k)
  BY <1>0, <1>1, <1>5, <1>6 DEF Size, old
<1>8. \A j \in Nodes(h) : /\ j # 1 => /\ j \div 2 \in Nodes(h) /\ j \div 2 # j
                                        /\ Size(h, j \div 2) >= Size(h, j)
                          /\ j \in Slots(h) /\ Size(h, j) \in Int
  <2> TAKE j \in Nodes(h)
  <2>1. j \in Nat /\ j \in Slots(h) /\ Size(h, j) \in Int BY HeapFields
  <2> QED BY <2>1, Parent DEF Ordered, Edge
<1>9. ASSUME NEW j \in Nodes(less), j \div 2 # i PROVE Edge(less, j)
  <2> SUFFICES ASSUME j # 1 PROVE Size(less, j \div 2) >= Size(less, j) BY DEF Edge
  <2>1. CASE j = i
    <3>1. Size(less, j \div 2) = Size(h, j \div 2) BY <1>5, <1>7, <1>8, <1>9
    <3> QED BY <1>1, <1>5, <1>7, <1>8, <2>1, <3>1
  <2>2. CASE j # i
    <3>1. Size(less, j \div 2) = Size(h, j \div 2) /\ Size(less, j) = Size(h, j)
      BY <1>5, <1>7, <1>8, <1>9, <2>2
    <3> QED BY <1>5, <1>8, <3>1
  <2> QED BY <2>1, <2>2
<1>10. ASSUME i # 1, NEW j \in Nodes(less), j \div 2 = i
       PROVE  Size(less, i \div 2) >= Size(less, j)
  <2>1. j # 1 /\ j # i
    <3>1. j \in Nat /\ j >= 1 /\ i >= 1 BY <1>5, HeapFields DEF Nodes
    <3> QED BY <1>10, <3>1
  <2>2. Size(less, i \div 2) = Size(h, i \div 2) /\ Size(less, j) = Size(h, j)
    BY <1>5, <1>7, <1>8, <1>10, <2>1
  <2>3. Size(h, i \div 2) >= Size(h, i) /\ Size(h, i) >= Size(h, j)
        /\ Size(h, i \div 2) \in Int /\ Size(h, i) \in Int /\ Size(h, j) \in Int
    BY <1>5, <1>8, <1>10, <2>1
  <2> QED BY <2>2, <2>3
<1>11. Hole(less, i) /\ Edge(less, i)
  <2>1. i \div 2 # i
    <3>1. i >= 1 BY HeapFields DEF Nodes
    <3> QED BY <1>0, <3>1
  <2> QED BY <1>5, <1>9, <1>10, <2>1 DEF Hole
<1>12. Contents(less) \subseteq Contents(h) \cup {Less(old, need)}
  BY <1>5, <1>6 DEF Contents
<1>13. Distinct(h) =>
         /\ Distinct(less)
         /\ Listed(less) = (Listed(h) \ {old}) \cup {Less(old, need)}
  <2> SUFFICES ASSUME Distinct(h)
               PROVE  Distinct(less) /\ Listed(less) = (Listed(h) \ {old}) \cup {Less(old, need)}
    OBVIOUS
  <2>1. \A k \in Nodes(h) : less.FSH_heap[k] = IF k = i THEN Less(old, need) ELSE h.FSH_heap[k]
    BY <1>0, <1>5, <1>6
  <2>2. \A k \in Nodes(h) : less.FSH_heap[k].blockNum = h.FSH_heap[k].blockNum
    BY <1>1, <2>1 DEF old
  <2>3. Distinct(less) BY <1>5, <2>2 DEF Distinct
  <2>4. \A k \in Nodes(h) : k # i => h.FSH_heap[k] # old BY DEF Distinct, old
  <2>5. Listed(less) = {less.FSH_heap[k] : k \in Nodes(h)} BY <1>5 DEF Listed
  <2>6. Listed(h) = {h.FSH_heap[k] : k \in Nodes(h)} /\ h.FSH_heap[i] = old BY DEF Listed, old
  <2> QED BY <2>1, <2>3, <2>4, <2>5, <2>6
<1>14. CASE old.freeSpaceSize - need <= MIN_FreeSpace
  <2> DEFINE g == FSM_vHeapDeleteNode(less, i)
  <2>1. Reduced(h, i, need) = g BY <1>7, <1>14 DEF Reduced, less
  <2>2. /\ g \in Heaps /\ Ordered(g)
        /\ g.FSH_maxBlockNum = less.FSH_maxBlockNum /\ g.FSH_HeapSize = less.FSH_HeapSize
        /\ Contents(g) \subseteq Contents(less)
        /\ Distinct(less) => /\ Distinct(g)
                             /\ Listed(g) = Listed(less) \ {less.FSH_heap[i]}
    BY <1>4, <1>5, <1>11, DeleteNode
  <2> HIDE DEF g
  <2>3. Distinct(h) => Listed(g) = Listed(h) \ {old}
    <3> SUFFICES ASSUME Distinct(h) PROVE Listed(g) = Listed(h) \ {old} OBVIOUS
    <3>1. less.FSH_heap[i] = Less(old, need) BY <1>0, <1>5, <1>6
    <3>2. Less(old, need) \notin Listed(h) \ {old}
      <4> SUFFICES ASSUME NEW k \in Nodes(h), h.FSH_heap[k] = Less(old, need)
                   PROVE  h.FSH_heap[k] = old
        BY DEF Listed
      <4>1. h.FSH_heap[k].blockNum = h.FSH_heap[i].blockNum BY <1>1 DEF old
      <4> QED BY <4>1 DEF Distinct, old
    <3> QED BY <1>13, <2>2, <3>1, <3>2
  <2> QED BY <1>5, <1>12, <1>13, <1>14, <2>1, <2>2, <2>3 DEF old
<1>15. CASE ~(old.freeSpaceSize - need <= MIN_FreeSpace)
  <2> DEFINE g == vMaxHeapDown(less, i)
  <2>1. Reduced(h, i, need) = g BY <1>7, <1>15 DEF Reduced, less
  <2>2. Moved(g, less) /\ (Ordered(g) \/ (g = less /\ OutOf(less, i)))
    BY <1>4, <1>5, <1>11, DownOrders
  <2> HIDE DEF g
  <2>3. Ordered(g) BY <1>4, <1>5, <1>11, <2>2, InOrder
  <2> QED BY <1>5, <1>12, <1>13, <1>15, <2>1, <2>2, <2>3 DEF old, Moved, SameFields
<1> QED BY <1>14, <1>15

\* A descent keeps the fields, and what the array holds.
Alike(g, h) == g \in Heaps /\ SameFields(g, h) /\ Contents(g) \subseteq Contents(h)

LEMMA SwapAlike ==
  ASSUME NEW h \in Heaps, NEW i \in Slots(h), NEW j \in Slots(h)
  PROVE  Alike(Swap(h, i, j), h)
<1> DEFINE g == Swap(h, i, j)
<1>1. /\ g \in Heaps /\ SameFields(g, h) /\ Slots(g) = Slots(h)
      /\ \A k \in Slots(h) : g.FSH_heap[k] =
           IF k = j THEN h.FSH_heap[i] ELSE IF k = i THEN h.FSH_heap[j] ELSE h.FSH_heap[k]
  BY SwapIs
<1> HIDE DEF g
<1>2. Contents(g) \subseteq Contents(h) BY <1>1 DEF Contents
<1> QED BY <1>1, <1>2 DEF Alike, g

LEMMA DownAlike ==
  ASSUME NEW h \in Heaps, NEW iPos \in Slots(h)
  PROVE  Alike(vMaxHeapDown(h, iPos), h)
<1> DEFINE L == h.FSH_length
<1>1. PICK f \in [0 .. L -> Sifts] :
        /\ f[0] = [heap |-> h, pos |-> iPos]
        /\ \A n \in 1 .. L : f[n] = DownStep(f[n - 1])
        /\ vMaxHeapDown(h, iPos) = f[L].heap
  BY DownRun
<1>2. L \in Nat BY HeapFields
<1> HIDE DEF L
<1> DEFINE T == {n \in 0 .. L : Alike(f[n].heap, h)}
<1>3. 0 \in T BY <1>1, <1>2 DEF Alike, SameFields
<1>4. ASSUME NEW n \in 0 .. L - 1, n \in T PROVE n + 1 \in T
  <2>1. n \in 0 .. L /\ n + 1 \in 1 .. L /\ n + 1 - 1 = n /\ n + 1 \in 0 .. L BY <1>2
  <2> DEFINE m == f[n]
  <2>2. m \in Sifts /\ Alike(m.heap, h) BY <1>4, <2>1
  <2>3. f[n + 1] = DownStep(m) BY <1>1, <2>1
  <2> HIDE DEF m
  <2>4. m.heap \in Heaps /\ m.pos \in Slots(m.heap) BY <2>2 DEF Sifts
  <2>5. Alike(Swap(m.heap, m.pos, Largest(m.heap, m.pos)), m.heap)
    BY <2>4, LargestIs, SwapAlike
  <2>6. Alike(f[n + 1].heap, m.heap) BY <2>3, <2>5 DEF DownStep
  <2>7. Alike(f[n + 1].heap, h) BY <2>2, <2>6 DEF Alike, SameFields
  <2> QED BY <2>1, <2>7
<1>5. 0 .. L \subseteq T
  <2> HIDE DEF T
  <2> QED BY <1>2, <1>3, <1>4, UpTo
<1> QED BY <1>1, <1>2, <1>5

\* Sorting leaves a heap without nodes, in the same array.
LEMMA SortIs ==
  ASSUME NEW h \in Heaps
  PROVE  LET g == FSM_uHeapSort(h)
         IN  /\ g \in Heaps /\ g.FSH_length = 0 /\ g.FSH_HeapSize = h.FSH_HeapSize
             /\ g.FSH_maxBlockNum = h.FSH_maxBlockNum /\ Contents(g) \subseteq Contents(h)
<1> DEFINE L == h.FSH_length
           cut(g) == [Swap(g, 1, g.FSH_length) EXCEPT !.FSH_length = @ - 1]
           step(g) == vMaxHeapDown(cut(g), 1)
           Is(g) == g = [n \in 0 .. h.FSH_length |->
                           IF n = 0 THEN h
                           ELSE LET k == g[n - 1]
                                IN  vMaxHeapDown([Swap(k, 1, k.FSH_length)
                                                    EXCEPT !.FSH_length = @ - 1], 1)]
           f == CHOOSE g : Is(g)
           Kept(g, n) == /\ g \in Heaps /\ g.FSH_length = L - n
                         /\ g.FSH_HeapSize = h.FSH_HeapSize
                         /\ g.FSH_maxBlockNum = h.FSH_maxBlockNum
                         /\ Contents(g) \subseteq Contents(h)
<1>1. L \in Nat BY HeapFields
<1>2. ASSUME NEW g \in Heaps, g.FSH_length # 0
      PROVE  /\ step(g) \in Heaps /\ step(g).FSH_length = g.FSH_length - 1
             /\ step(g).FSH_HeapSize = g.FSH_HeapSize
             /\ step(g).FSH_maxBlockNum = g.FSH_maxBlockNum
             /\ Contents(step(g)) \subseteq Contents(g)
  <2> DEFINE l == g.FSH_length
             s == Swap(g, 1, l)
             c == cut(g)
  <2>1. l \in Nat /\ 1 \in Slots(g) /\ l \in Slots(g) BY <1>2, HeapFields DEF Slots
  <2>2. Alike(s, g) BY <2>1, SwapAlike
  <2> HIDE DEF s
  <2>3. c = [s EXCEPT !.FSH_length = @ - 1] BY DEF s
  <2>4. /\ s = [FSH_heap |-> s.FSH_heap, FSH_length |-> s.FSH_length,
                FSH_HeapSize |-> s.FSH_HeapSize, FSH_maxBlockNum |-> s.FSH_maxBlockNum]
        /\ s.FSH_length = l /\ s.FSH_HeapSize = g.FSH_HeapSize
        /\ s.FSH_maxBlockNum = g.FSH_maxBlockNum /\ s.FSH_maxBlockNum \in Int
        /\ s.FSH_heap \in Seq(Cells) /\ Len(s.FSH_heap) = s.FSH_HeapSize - 1
        /\ s.FSH_length + 2 <= s.FSH_HeapSize /\ s.FSH_HeapSize \in Nat
    BY <2>2, HeapFields DEF Alike, SameFields
  <2> HIDE DEF c
  <2>5. /\ c = [FSH_heap |-> s.FSH_heap, FSH_length |-> l - 1,
                FSH_HeapSize |-> s.FSH_HeapSize, FSH_maxBlockNum |-> s.FSH_maxBlockNum]
    <3> HIDE DEF l
    <3> QED BY <2>3, <2>4
  <2>6. l - 1 \in Nat /\ Len(s.FSH_heap) + 1 = s.FSH_HeapSize /\ l - 1 + 1 <= Len(s.FSH_heap)
    BY <1>2, <2>1, <2>4
  <2>7. c \in Heaps
    <3> HIDE DEF l
    <3> QED BY <2>4, <2>5, <2>6, HeapIs
  <2>8. /\ c.FSH_length = l - 1 /\ c.FSH_HeapSize = g.FSH_HeapSize
        /\ c.FSH_maxBlockNum = g.FSH_maxBlockNum /\ c.FSH_heap = s.FSH_heap
    BY <2>4, <2>5
  <2>9. Slots(c) = Slots(s) /\ Contents(c) \subseteq Contents(g)
    BY <2>2, <2>4, <2>8 DEF Slots, Contents, Alike
  <2>10. 1 \in Slots(c) BY <2>1, <2>4, <2>8 DEF Slots
  <2>11. Alike(vMaxHeapDown(c, 1), c) BY <2>7, <2>10, DownAlike
  <2>12. step(g) = vMaxHeapDown(c, 1) BY DEF c
  <2> HIDE DEF step
  <2> QED BY <2>8, <2>9, <2>11, <2>12 DEF Alike, SameFields
<1> HIDE DEF step
<1> DEFINE s == [gn \in Heaps \X Nat |-> IF gn[1].FSH_length # 0 THEN step(gn[1]) ELSE gn[1]]
<1>3. s \in [Heaps \X Nat -> Heaps] BY <1>2
<1>4. PICK g \in [0 .. L -> Heaps] : Iterated(g, L, h, s)
  <2> HIDE DEF L, s
  <2> QED BY <1>1, <1>3, IteratedExists
<1> DEFINE T == {n \in 0 .. L : Kept(g[n], n)}
<1>5. ASSUME NEW n \in 0 .. L - 1, n \in T PROVE n + 1 \in T /\ g[n + 1] = step(g[n])
  <2>1. n \in 0 .. L /\ n + 1 \in 0 .. L /\ n + 1 # 0 /\ n + 1 - 1 = n /\ L - n # 0
        /\ n + 1 \in Nat /\ L - n - 1 = L - (n + 1)
    BY <1>1
  <2>2. Kept(g[n], n) BY <1>5
  <2>3. g[n + 1] = s[<<g[n], n + 1>>]
    <3> HIDE DEF s, L, T
    <3> QED BY <1>4, <2>1 DEF Iterated
  <2>4. g[n + 1] = step(g[n])
    <3> HIDE DEF T, L
    <3> QED BY <2>1, <2>2, <2>3
  <2>5. Kept(g[n + 1], n + 1)
    <3> HIDE DEF L, T
    <3> QED BY <1>2, <2>1, <2>2, <2>4
  <2> HIDE DEF Kept, L
  <2> QED BY <2>1, <2>4, <2>5
<1>6. 0 \in T
  <2>1. g[0] = h
    <3> HIDE DEF L, s
    <3> QED BY <1>1, <1>4 DEF Iterated
  <2>2. L - 0 = L BY <1>1
  <2> HIDE DEF L
  <2> QED BY <1>1, <2>1, <2>2 DEF L
<1>7. 0 .. L \subseteq T
  <2> HIDE DEF T, L
  <2> QED BY <1>1, <1>5, <1>6, UpTo
<1>8. Is(g)
  <2>1. g[0] = h
    <3> HIDE DEF L, s
    <3> QED BY <1>1, <1>4 DEF Iterated
  <2>2. ASSUME NEW n \in 0 .. L, n # 0 PROVE g[n] = step(g[n - 1])
    <3>1. n - 1 \in 0 .. L - 1 /\ n - 1 \in 0 .. L /\ n - 1 + 1 = n BY <1>1, <2>2
    <3> HIDE DEF T, L
    <3>2. n - 1 \in T BY <1>7, <3>1
    <3> QED BY <1>5, <3>1, <3>2
  <2>3. g = [n \in 0 .. L |-> IF n = 0 THEN h ELSE step(g[n - 1])]
    <3> HIDE DEF L
    <3> QED BY <1>1, <2>1, <2>2
  <2> QED BY <2>3, Zenon DEF step
<1>9. Is(f) BY <1>8, Zenon
<1>10. f = [n \in 0 .. L |-> IF n = 0 THEN h ELSE step(f[n - 1])]
  <2> HIDE DEF f
  <2> QED BY <1>9, Zenon DEF step
<1>11. FSM_uHeapSort(h) = f[L] BY Zenon DEF FSM_uHeapSort
<1> HIDE DEF f, Is
<1> DEFINE E == {n \in 0 .. L : f[n] = g[n]}
<1>12. 0 \in E
  <2>1. g[0] = h
    <3> HIDE DEF L, s
    <3> QED BY <1>1, <1>4 DEF Iterated
  <2> HIDE DEF L
  <2> QED BY <1>1, <1>10, <2>1
<1>13. ASSUME NEW n \in 0 .. L - 1, n \in E PROVE n + 1 \in E
  <2>1. n \in 0 .. L /\ n + 1 \in 0 .. L /\ n + 1 # 0 /\ n + 1 - 1 = n BY <1>1
  <2>2. g[n + 1] = step(g[n])
    <3> HIDE DEF T, L
    <3> QED BY <1>5, <1>7, <2>1
  <2> HIDE DEF L
  <2> QED BY <1>10, <1>13, <2>1, <2>2
<1>14. 0 .. L \subseteq E
  <2> HIDE DEF E, L
  <2> QED BY <1>1, <1>12, <1>13, UpTo
<1>15. L \in T /\ f[L] = g[L] /\ L - L = 0
  <2>1. L \in 0 .. L /\ L - L = 0 BY <1>1
  <2> HIDE DEF L, T
  <2> QED BY <1>7, <1>14, <2>1
<1> QED BY <1>11, <1>15

-----------------------------------------------------------------------------
\* The walk.

\* No node has more space than the root.
LEMMA RootLargest ==
  ASSUME NEW h \in Heaps, Ordered(h)
  PROVE  \A j \in Nodes(h) : 1 \in Nodes(h) /\ Size(h, 1) >= Size(h, j)
<1> DEFINE T == {j \in Nodes(h) : Size(h, 1) >= Size(h, j)}
<1>1. h.FSH_length \in Nat /\ Nodes(h) = 1 .. h.FSH_length BY HeapFields DEF Nodes
<1>2. \A j \in Nodes(h) : 1 \in Nodes(h) /\ Size(h, 1) \in Int /\ Size(h, j) \in Int
  BY <1>1, SizesInt
<1>3. ASSUME NEW n \in 1 .. h.FSH_length, \A m \in 1 .. n - 1 : m \in T
      PROVE  n \in T
  <2>1. CASE n = 1 BY <1>1, <1>2, <2>1
  <2>2. CASE n # 1
    <3>1. n \div 2 \in Nodes(h) /\ n \div 2 < n BY <1>1, <2>2, Parent
    <3>2. n \div 2 \in T BY <1>1, <1>3, <3>1
    <3>3. Size(h, n \div 2) >= Size(h, n) BY <1>1, <2>2 DEF Ordered, Edge
    <3> QED BY <1>1, <1>2, <3>1, <3>2, <3>3
  <2> QED BY <2>1, <2>2
<1>4. 1 .. h.FSH_length \subseteq T
  <2> HIDE DEF T
  <2> QED BY <1>1, <1>3, Below
<1> QED BY <1>1, <1>2, <1>4

LEMMA OnWalkHasRoom ==
  ASSUME NEW h \in Heaps, NEW need \in Int, NEW i \in Nodes(h), OnWalk(h, i, need)
  PROVE  Size(h, i) > need
<1>1. i \in Nat /\ 1 \in Nodes(h) BY HeapFields DEF Nodes
<1>2. 2 ^ (1 - 1) = 1 OBVIOUS
<1>3. i \div 2 ^ (1 - 1) = i BY <1>1, <1>2
<1>4. i \in Ancestors(h, i) BY <1>1, <1>3 DEF Ancestors
<1> QED BY <1>4 DEF OnWalk

\* The walk ends at a node with room, or without one: then no node has any, or
\* some node has exactly what is needed.
LEMMA WalkFinds ==
  ASSUME NEW h \in Heaps, Ordered(h), NEW need \in Int, NEW i \in WalkResults(h, need)
  PROVE  /\ i # 0 => i \in Nodes(h) /\ Size(h, i) > need
         /\ i = 0 => \/ \A j \in Nodes(h) : Size(h, j) <= need
                     \/ \E j \in Nodes(h) : Size(h, j) = need
<1> DEFINE ends == WalkEnds(h, need)
           doubtful == {k \in ends : PastEndRead(h, k, need)}
           more == IF doubtful = {} THEN {FALSE} ELSE PastEndMore(h, need)
<1>1. \A j \in Nodes(h) : Size(h, j) \in Int /\ j \in Nat /\ j # 0 BY HeapFields DEF Nodes
<1>2. \A k \in ends : k \in Nodes(h) /\ Size(h, k) > need
  BY OnWalkHasRoom DEF WalkEnds
<1>3. CASE h.FSH_length = 0 \/ Size(h, 1) <= need
  <2>1. i = 0 BY <1>3 DEF WalkResults
  <2>2. ASSUME NEW j \in Nodes(h) PROVE Size(h, j) <= need
    <3>1. 1 \in Nodes(h) /\ Size(h, 1) >= Size(h, j) BY RootLargest
    <3>2. h.FSH_length # 0 BY <3>1 DEF Nodes
    <3> QED BY <1>1, <1>3, <3>1, <3>2
  <2> QED BY <2>1, <2>2
<1>4. CASE ~(h.FSH_length = 0 \/ Size(h, 1) <= need)
  <2>1. WalkResults(h, need) = (ends \ doubtful) \cup (IF FALSE \in more THEN doubtful ELSE {})
                                                 \cup (IF TRUE \in more THEN {0} ELSE {})
    BY <1>4 DEF WalkResults
  <2>2. i \in ends \/ (i = 0 /\ doubtful # {})
    <3> HIDE DEF ends
    <3> QED BY <2>1
  <2>3. ASSUME NEW k \in doubtful PROVE \E j \in Nodes(h) : Size(h, j) = need
    <3>1. k \in Nodes(h) /\ 2 * k = h.FSH_length /\ Size(h, 2 * k) = need
      BY <1>2 DEF PastEndRead
    <3>2. 2 * k \in Nodes(h) BY <1>1, <3>1, HeapFields DEF Nodes
    <3> QED BY <3>1, <3>2
  <2> HIDE DEF ends, doubtful
  <2> QED BY <1>1, <1>2, <2>2, <2>3
<1> QED BY <1>3, <1>4

\* What asking a heap for a block gives, and what it leaves.
LEMMA AllocateNode ==
  ASSUME NEW h \in Heaps, Ordered(h), NEW need \in Nat,
         NEW got \in FSM_uAllocateNodeHeap(h, need)
  PROVE  \/ /\ got = [bnum |-> INValidBlockNumber, heap |-> h]
            /\ \/ \A item \in Listed(h) : item.freeSpaceSize <= need
               \/ \E item \in Listed(h) : item.freeSpaceSize = need
         \/ \E item \in Listed(h) :
              /\ item \in Cells /\ item.freeSpaceSize > need
              /\ got = [bnum |-> item.blockNum, heap |-> got.heap]
              /\ got.heap \in Heaps /\ Ordered(got.heap)
              /\ got.heap.FSH_maxBlockNum = h.FSH_maxBlockNum
              /\ got.heap.FSH_HeapSize = h.FSH_HeapSize
              /\ Contents(got.heap) \subseteq Contents(h) \cup {Less(item, need)}
              /\ Distinct(h) =>
                   /\ Distinct(got.heap)
                   /\ Listed(got.heap) = (Listed(h) \ {item})
                        \cup IF item.freeSpaceSize - need <= MIN_FreeSpace THEN {}
                             ELSE {Less(item, need)}
<1>1. PICK i \in WalkResults(h, need) :
        got = IF i = 0 THEN [bnum |-> INValidBlockNumber, heap |-> h]
              ELSE [bnum |-> h.FSH_heap[i].blockNum, heap |-> Reduced(h, i, need)]
  BY Zenon DEF FSM_uAllocateNodeHeap
<1>2. \A j \in Nodes(h) : h.FSH_heap[j] \in Listed(h) /\ h.FSH_heap[j] \in Cells
  BY HeapFields DEF Listed
<1>3. CASE i = 0
  <2>1. got = [bnum |-> INValidBlockNumber, heap |-> h] BY <1>1, <1>3
  <2>2. \/ \A j \in Nodes(h) : Size(h, j) <= need
        \/ \E j \in Nodes(h) : Size(h, j) = need
    BY <1>3, WalkFinds
  <2>3. \/ \A item \in Listed(h) : item.freeSpaceSize <= need
        \/ \E item \in Listed(h) : item.freeSpaceSize = need
    BY <1>2, <2>2 DEF Listed, Size
  <2> QED BY <2>1, <2>3
<1>4. CASE i # 0
  <2> DEFINE item == h.FSH_heap[i]
             g == Reduced(h, i, need)
  <2>1. i \in Nodes(h) /\ Size(h, i) > need BY <1>4, WalkFinds
  <2>2. got = [bnum |-> item.blockNum, heap |-> g] BY <1>1, <1>4
  <2>3. /\ g \in Heaps /\ Ordered(g)
        /\ g.FSH_maxBlockNum = h.FSH_maxBlockNum /\ g.FSH_HeapSize = h.FSH_HeapSize
        /\ Contents(g) \subseteq Contents(h) \cup {Less(item, need)}
        /\ Distinct(h) =>
             /\ Distinct(g)
             /\ Listed(g) = (Listed(h) \ {item})
                  \cup IF item.freeSpaceSize - need <= MIN_FreeSpace THEN {}
                       ELSE {Less(item, need)}
    BY <2>1, ReducedIs
  <2>4. item \in Listed(h) /\ item \in Cells /\ item.freeSpaceSize > need
    BY <1>2, <2>1 DEF Size
  <2> HIDE DEF item, g
  <2>5. got.heap = g BY <2>2
  <2> QED BY <2>2, <2>3, <2>4, <2>5
<1> QED BY <1>3, <1>4

-----------------------------------------------------------------------------
\* What a heap says.

LEMMA FreeMapIs ==
  ASSUME NEW h, Distinct(h)
  PROVE  /\ DOMAIN FreeMap(h) = {item.blockNum : item \in Listed(h)}
         /\ FreeMap(h) = [b \in DOMAIN FreeMap(h) |-> FreeMap(h)[b]]
         /\ \A item \in Listed(h) : FreeMap(h)[item.blockNum] = item.freeSpaceSize
<1>1. \A x, y \in Listed(h) : x.blockNum = y.blockNum => x = y
  BY DEF Listed, Distinct
<1>2. ASSUME NEW item \in Listed(h) PROVE FreeMap(h)[item.blockNum] = item.freeSpaceSize
  <2> DEFINE b == item.blockNum
             x == CHOOSE y \in Listed(h) : y.blockNum = b
  <2>1. x \in Listed(h) /\ x.blockNum = b OBVIOUS
  <2>2. x = item BY <1>1, <2>1
  <2>3. FreeMap(h)[b] = x.freeSpaceSize BY DEF FreeMap
  <2> QED BY <2>2, <2>3
<1> QED BY <1>2 DEF FreeMap

-----------------------------------------------------------------------------
\* The invariant. S is a set of amounts of free space that is closed under what
\* the code does to a block; Spaces is one.

Amounts(S) ==
  /\ S \subseteq Spaces /\ NewBlockSpace \in S
  /\ \A n \in S : /\ \A need \in InsertNeeds \cup AppendNeeds : need < n => n - need \in S
                  /\ \A gain \in Reclaims : n + gain \in Spaces => n + gain \in S

\* A heap, in memory or saved, of a relation with these blocks.
HeapOK(h, S, blocks) ==
  /\ h \in Heaps /\ Ordered(h) /\ Distinct(h)
  /\ Contents(h) \subseteq Entries \cup {Junk}
  /\ \A item \in Listed(h) :
       /\ item \in Entries /\ item.freeSpaceSize \in S /\ item.blockNum \in blocks
       /\ IsValidBlockNumber(h.FSH_maxBlockNum) /\ item.blockNum <= h.FSH_maxBlockNum
  /\ \/ h.FSH_maxBlockNum = INValidBlockNumber
     \/ h.FSH_maxBlockNum \in BlockNums /\ 0 .. h.FSH_maxBlockNum \subseteq blocks

RelOK(rel, S) ==
  /\ rel = [fsh |-> rel.fsh, max |-> rel.max, cur |-> rel.cur,
            space |-> rel.space, disk |-> rel.disk]
  /\ DOMAIN rel.disk \subseteq BlockNums
  /\ rel.space \in [DOMAIN rel.disk -> S] /\ rel.disk \in [DOMAIN rel.disk -> S]
  /\ HeapOK(rel.fsh, S, DOMAIN rel.disk)
  /\ rel.max = rel.fsh.FSH_maxBlockNum
  /\ rel.cur \in BlockNums \cup {INValidBlockNumber}

\* The array of a heap with the spare slot behind its nodes, whatever their order.
Bounded(h) ==
  /\ DOMAIN h.FSH_heap = Slots(h)
  /\ \A i \in Slots(h) : h.FSH_heap[i] \in Entries \cup {Junk}
  /\ h.FSH_length + 1 \in Slots(h)

\* The file after n of the writes that replace w by h.
Mixed(w, h, n) ==
  [FSH_heap |-> [i \in 1 .. h.FSH_HeapSize - 1 |-> IF i \in Slots(w) THEN w.FSH_heap[i]
                                                                     ELSE Junk],
   FSH_length |-> IF n >= 2 THEN h.FSH_length ELSE w.FSH_length,
   FSH_HeapSize |-> h.FSH_HeapSize,
   FSH_maxBlockNum |-> IF n = 3 THEN h.FSH_maxBlockNum ELSE w.FSH_maxBlockNum]

FileInv ==
  /\ Bounded(fsmFile)
  /\ ~torn /\ writes = 0 => fsmFile = whole
  /\ writes # 0 => up /\ fsmFile = Mixed(whole, Rel_fsh, writes)

VacuumInv ==
  /\ up /\ ~updating
  /\ IsValidBlockNumber(Rel_curMaxBlock) /\ packed \in 0 .. Rel_curMaxBlock
  /\ \A item \in Listed(Rel_fsh) : item.blockNum < packed

SpaceInv(S) ==
  /\ up \in BOOLEAN /\ updating \in BOOLEAN /\ torn \in BOOLEAN /\ missed \in BOOLEAN
  /\ writes \in 0 .. 3
  /\ updating => /\ up /\ IsValidBlockNumber(Rel_curMaxBlock)
                 /\ packed = NoVacuum /\ writes = 0
  /\ ~up => Rel_fsh = NewHeap /\ packed = NoVacuum /\ writes = 0
  /\ up => ~torn /\ whole.FSH_HeapSize <= Rel_fsh.FSH_HeapSize
  /\ RelOK(Relation, S)
  /\ HeapOK(whole, S, DOMAIN disk)
  /\ FileInv
  /\ packed # NoVacuum => VacuumInv

\* The heap of the process that runs, or the last one that was saved.
Current == IF up THEN Rel_fsh ELSE whole

\* It covers the data file.
Covers(h, blocks) ==
  \A b \in blocks : IsValidBlockNumber(h.FSH_maxBlockNum) /\ b <= h.FSH_maxBlockNum
CoversInv == Covers(Current, DOMAIN disk)

\* It is exact.
Exact(h, blocks) == \A item \in Listed(h) : item.freeSpaceSize = blocks[item.blockNum]
ExactInv == ~updating /\ space = disk /\ Exact(Current, disk)

-----------------------------------------------------------------------------
\* Heaps of a relation.

LEMMA Numbers ==
  /\ MaxBlk \in Nat /\ INValidBlockNumber \in Nat /\ MaxBlk < INValidBlockNumber
  /\ BlockNums \subseteq Nat /\ INValidBlockNumber \notin BlockNums
  /\ \A b \in BlockNums : IsValidBlockNumber(b) /\ \A c \in 0 .. b : c \in BlockNums
  /\ ~IsValidBlockNumber(INValidBlockNumber)
  /\ NewBlockSpace \in Nat /\ Spaces \subseteq Nat
  /\ \A need \in InsertNeeds \cup AppendNeeds : need \in Nat /\ need > 0 /\ need < NewBlockSpace
BY SpaceAssumption, HeapAssumption DEF BlockNums, Spaces, IsValidBlockNumber

LEMMA AllSpaces == Amounts(Spaces)
BY SpaceAssumption DEF Amounts, Spaces

LEMMA EntriesAreCells == Entries \subseteq Cells
<1>1. Spaces \subseteq Int /\ BlockNums \subseteq Int BY Numbers
<1> QED BY <1>1 DEF Entries, Cells

LEMMA NewHeapOK ==
  ASSUME NEW S, NEW blocks
  PROVE  HeapOK(NewHeap, S, blocks)
BY NewHeapIs DEF HeapOK

LEMMA MoreBlocks ==
  ASSUME NEW S, NEW h, NEW blocks, NEW more, HeapOK(h, S, blocks), blocks \subseteq more
  PROVE  HeapOK(h, S, more)
BY DEF HeapOK

LEMMA HeapBounded ==
  ASSUME NEW S, NEW h, NEW blocks, HeapOK(h, S, blocks)
  PROVE  Bounded(h)
<1>1. h \in Heaps /\ Contents(h) \subseteq Entries \cup {Junk} BY DEF HeapOK
<1>2. DOMAIN h.FSH_heap = Slots(h) BY <1>1, HeapFields
<1>3. h.FSH_length \in Nat /\ h.FSH_HeapSize \in Nat /\ h.FSH_length + 2 <= h.FSH_HeapSize
  BY <1>1, HeapFields
<1>4. h.FSH_length + 1 \in Slots(h) BY <1>3 DEF Slots
<1> QED BY <1>1, <1>2, <1>4 DEF Contents, Bounded

\* The size of the array is written first, so the nodes stay inside it.
LEMMA MixedBounded ==
  ASSUME NEW S, NEW blocks, NEW w, HeapOK(w, S, blocks), NEW h, HeapOK(h, S, blocks),
         w.FSH_HeapSize <= h.FSH_HeapSize, NEW n \in 1 .. 3
  PROVE  Bounded(Mixed(w, h, n))
<1> DEFINE m == Mixed(w, h, n)
<1>1. w \in Heaps /\ h \in Heaps /\ Contents(w) \subseteq Entries \cup {Junk} BY DEF HeapOK
<1>2. /\ w.FSH_length \in Nat /\ w.FSH_HeapSize \in Nat /\ w.FSH_length + 2 <= w.FSH_HeapSize
      /\ h.FSH_length \in Nat /\ h.FSH_HeapSize \in Nat /\ h.FSH_length + 2 <= h.FSH_HeapSize
  BY <1>1, HeapFields
<1>3. /\ m.FSH_heap = [i \in 1 .. h.FSH_HeapSize - 1 |->
                         IF i \in Slots(w) THEN w.FSH_heap[i] ELSE Junk]
      /\ m.FSH_length \in {w.FSH_length, h.FSH_length}
      /\ m.FSH_HeapSize = h.FSH_HeapSize
  BY DEF Mixed
<1> HIDE DEF m
<1>4. Slots(m) = 1 .. h.FSH_HeapSize - 1 BY <1>3 DEF Slots
<1>5. m.FSH_length + 1 \in Slots(m) BY <1>2, <1>3, <1>4
<1>6. \A i \in Slots(m) : m.FSH_heap[i] \in Entries \cup {Junk}
  BY <1>1, <1>3, <1>4 DEF Contents
<1> QED BY <1>3, <1>4, <1>5, <1>6 DEF Bounded, m

LEMMA WrittenIs ==
  ASSUME NEW S, SpaceInv(S), up, writes < 3
  PROVE  Written(writes + 1) = Mixed(whole, Rel_fsh, writes + 1)
<1>0. RelOK(Relation, S) /\ HeapOK(Rel_fsh, S, DOMAIN disk) /\ HeapOK(whole, S, DOMAIN disk)
  BY DEF SpaceInv, RelOK, Relation
<1>1. whole \in Heaps /\ Rel_fsh \in Heaps BY <1>0 DEF HeapOK
<1>2. whole = [FSH_heap |-> whole.FSH_heap, FSH_length |-> whole.FSH_length,
               FSH_HeapSize |-> whole.FSH_HeapSize, FSH_maxBlockNum |-> whole.FSH_maxBlockNum]
  BY <1>1, HeapFields
<1>3. writes \in 0 .. 3 /\ ~torn BY DEF SpaceInv
<1> DEFINE n == writes + 1
           size == Rel_fsh.FSH_HeapSize
           array(f) == [i \in 1 .. size - 1 |-> IF i \in Slots(f) THEN f.FSH_heap[i] ELSE Junk]
           Over(f) == [FSH_heap |-> array(f),
                       FSH_length |-> IF n >= 2 THEN Rel_fsh.FSH_length ELSE f.FSH_length,
                       FSH_HeapSize |-> size,
                       FSH_maxBlockNum |-> IF n = 3 THEN Rel_fsh.FSH_maxBlockNum
                                           ELSE f.FSH_maxBlockNum]
<1>4. Written(n) = Over(fsmFile)
  <2>1. \/ fsmFile = whole
        \/ fsmFile = Mixed(whole, Rel_fsh, writes)
    BY <1>3 DEF SpaceInv, FileInv
  <2>2. fsmFile = [FSH_heap |-> fsmFile.FSH_heap, FSH_length |-> fsmFile.FSH_length,
                   FSH_HeapSize |-> fsmFile.FSH_HeapSize,
                   FSH_maxBlockNum |-> fsmFile.FSH_maxBlockNum]
    <3>1. CASE fsmFile = whole BY <1>2, <3>1
    <3>2. CASE fsmFile = Mixed(whole, Rel_fsh, writes) BY <3>2 DEF Mixed
    <3> QED BY <2>1, <3>1, <3>2
  <2> DEFINE a == array(fsmFile)
             l == IF n >= 2 THEN Rel_fsh.FSH_length ELSE fsmFile.FSH_length
             x == IF n = 3 THEN Rel_fsh.FSH_maxBlockNum ELSE fsmFile.FSH_maxBlockNum
  <2>3. Written(n) = [fsmFile EXCEPT !.FSH_HeapSize = size, !.FSH_heap = a,
                                     !.FSH_length = l, !.FSH_maxBlockNum = x]
    BY DEF Written
  <2> HIDE DEF a, l, x, n, size
  <2>4. Written(n) = [FSH_heap |-> a, FSH_length |-> l, FSH_HeapSize |-> size,
                      FSH_maxBlockNum |-> x]
    BY <2>2, <2>3
  <2> QED BY <2>4 DEF a, l, x
<1>5. CASE writes = 0
  <2>1. fsmFile = whole BY <1>3, <1>5 DEF SpaceInv, FileInv
  <2>2. Over(whole) = Mixed(whole, Rel_fsh, n) BY DEF Mixed
  <2> QED BY <1>4, <2>1, <2>2
<1>6. CASE writes # 0
  <2>1. fsmFile = Mixed(whole, Rel_fsh, writes) BY <1>6 DEF SpaceInv, FileInv
  <2>2. Slots(fsmFile) = 1 .. size - 1 BY <2>1 DEF Mixed, Slots
  <2>3. array(fsmFile) = array(whole)
    <3>1. \A i \in 1 .. size - 1 :
            fsmFile.FSH_heap[i] = IF i \in Slots(whole) THEN whole.FSH_heap[i] ELSE Junk
      BY <2>1 DEF Mixed
    <3> HIDE DEF size
    <3> QED BY <2>2, <3>1
  <2>4. /\ fsmFile.FSH_length = IF writes >= 2 THEN Rel_fsh.FSH_length ELSE whole.FSH_length
        /\ fsmFile.FSH_maxBlockNum = whole.FSH_maxBlockNum
    <3>1. writes # 3 BY <1>3
    <3> QED BY <2>1, <3>1 DEF Mixed
  <2>5. Over(fsmFile).FSH_length = IF n >= 2 THEN Rel_fsh.FSH_length ELSE whole.FSH_length
    BY <1>3, <2>4
  <2>6. Over(fsmFile) = Mixed(whole, Rel_fsh, n)
    <3> DEFINE a == array(fsmFile)
    <3>1. a = array(whole) BY <2>3
    <3> HIDE DEF a
    <3>2. Over(fsmFile) = [FSH_heap |-> a, FSH_length |-> Over(fsmFile).FSH_length,
                           FSH_HeapSize |-> size,
                           FSH_maxBlockNum |-> IF n = 3 THEN Rel_fsh.FSH_maxBlockNum
                                               ELSE whole.FSH_maxBlockNum]
      BY <2>4 DEF a
    <3> QED BY <2>5, <3>1, <3>2 DEF Mixed
  <2> QED BY <1>4, <2>6
<1> QED BY <1>5, <1>6

LEMMA FlushedIs ==
  ASSUME NEW S, SpaceInv(S), writes = 3
  PROVE  FlushedHeap = Rel_fsh
<1>1. RelOK(Relation, S) /\ Rel_fsh \in Heaps BY DEF SpaceInv, RelOK, Relation, HeapOK
<1>2. Rel_fsh = [FSH_heap |-> Rel_fsh.FSH_heap, FSH_length |-> Rel_fsh.FSH_length,
                 FSH_HeapSize |-> Rel_fsh.FSH_HeapSize,
                 FSH_maxBlockNum |-> Rel_fsh.FSH_maxBlockNum]
  BY <1>1, HeapFields
<1>3. fsmFile = Mixed(whole, Rel_fsh, 3) BY DEF SpaceInv, FileInv
<1> QED BY <1>2, <1>3 DEF FlushedHeap, Mixed

\* A block with any number up to the last of the heap, or the next, is added.
LEMMA AddOK ==
  ASSUME NEW S, NEW h, NEW blocks, HeapOK(h, S, blocks), NEW more, blocks \subseteq more,
         NEW n \in S \cap Spaces, NEW b \in BlockNums,
         \A item \in Listed(h) : item.blockNum # b,
         \/ IsValidBlockNumber(h.FSH_maxBlockNum) /\ b <= h.FSH_maxBlockNum
         \/ IsValidBlockNumber(h.FSH_maxBlockNum) /\ b = h.FSH_maxBlockNum + 1
         \/ ~IsValidBlockNumber(h.FSH_maxBlockNum) /\ b = 0,
         b \in more
  PROVE  LET item == [freeSpaceSize |-> n, blockNum |-> b]
             g == FSM_vAddNodeToHeap(h, item)
         IN  /\ HeapOK(g, S, more) /\ h.FSH_HeapSize <= g.FSH_HeapSize
             /\ Listed(g) = Listed(h) \cup {item}
             /\ g.FSH_maxBlockNum = IF \/ b > h.FSH_maxBlockNum
                                       \/ ~IsValidBlockNumber(h.FSH_maxBlockNum)
                                    THEN b ELSE h.FSH_maxBlockNum
<1> DEFINE item == [freeSpaceSize |-> n, blockNum |-> b]
           g == FSM_vAddNodeToHeap(h, item)
<1>1. item \in Entries /\ item \in Cells /\ item.blockNum = b /\ item.freeSpaceSize = n
  BY EntriesAreCells DEF Entries
<1> HIDE DEF item
<1>2. /\ g \in Heaps /\ h.FSH_HeapSize <= g.FSH_HeapSize
      /\ g.FSH_maxBlockNum = IF \/ item.blockNum > h.FSH_maxBlockNum
                                \/ ~IsValidBlockNumber(h.FSH_maxBlockNum)
                             THEN item.blockNum ELSE h.FSH_maxBlockNum
      /\ Contents(g) \subseteq Contents(h) \cup {item, Junk}
      /\ Ordered(g) /\ Listed(g) = Listed(h) \cup {item}
      /\ Distinct(h) /\ (\A x \in Listed(h) : x.blockNum # item.blockNum) => Distinct(g)
  BY <1>1, AddNode DEF HeapOK
<1> HIDE DEF g
<1>3. /\ IsValidBlockNumber(g.FSH_maxBlockNum) /\ b <= g.FSH_maxBlockNum
      /\ g.FSH_maxBlockNum \in BlockNums /\ 0 .. g.FSH_maxBlockNum \subseteq more
      /\ IsValidBlockNumber(h.FSH_maxBlockNum) => h.FSH_maxBlockNum <= g.FSH_maxBlockNum
  <2>1. CASE IsValidBlockNumber(h.FSH_maxBlockNum)
    <3>1. h.FSH_maxBlockNum \in BlockNums /\ 0 .. h.FSH_maxBlockNum \subseteq more
      BY <2>1, Numbers DEF HeapOK
    <3>2. h.FSH_maxBlockNum \in Nat /\ b \in Nat BY <3>1, Numbers
    <3>3. 0 .. b \subseteq more BY <2>1, <3>1, <3>2
    <3> QED BY <1>1, <1>2, <2>1, <3>1, <3>2, <3>3, Numbers
  <2>2. CASE ~IsValidBlockNumber(h.FSH_maxBlockNum)
    <3>1. b = 0 /\ g.FSH_maxBlockNum = 0 BY <1>1, <1>2, <2>2
    <3> QED BY <2>2, <3>1, Numbers
  <2> QED BY <2>1, <2>2
<1>4. ASSUME NEW x \in Listed(g)
      PROVE  /\ x \in Entries /\ x.freeSpaceSize \in S /\ x.blockNum \in more
             /\ x.blockNum <= g.FSH_maxBlockNum
  <2>1. CASE x = item BY <1>1, <1>3, <2>1
  <2>2. CASE x \in Listed(h)
    <3>1. /\ x \in Entries /\ x.freeSpaceSize \in S /\ x.blockNum \in blocks
          /\ IsValidBlockNumber(h.FSH_maxBlockNum) /\ x.blockNum <= h.FSH_maxBlockNum
      BY <2>2 DEF HeapOK
    <3>2. x.blockNum \in Nat /\ h.FSH_maxBlockNum \in Nat /\ g.FSH_maxBlockNum \in Nat
      BY <1>3, <3>1, Numbers DEF HeapOK, Entries
    <3> QED BY <1>3, <3>1, <3>2
  <2> QED BY <1>2, <2>1, <2>2
<1>5. HeapOK(g, S, more) BY <1>1, <1>2, <1>3, <1>4 DEF HeapOK
<1> QED BY <1>1, <1>2, <1>5 DEF g, item

LEMMA AddListed ==
  ASSUME NEW S, NEW h, NEW blocks, HeapOK(h, S, blocks), IsValidBlockNumber(h.FSH_maxBlockNum),
         NEW n \in S \cap Spaces, NEW b \in BlockNums, b \in blocks,
         b <= h.FSH_maxBlockNum, \A item \in Listed(h) : item.blockNum # b
  PROVE  LET item == [freeSpaceSize |-> n, blockNum |-> b]
             g == FSM_vAddNodeToHeap(h, item)
         IN  /\ HeapOK(g, S, blocks) /\ h.FSH_HeapSize <= g.FSH_HeapSize
             /\ Listed(g) = Listed(h) \cup {item}
             /\ g.FSH_maxBlockNum = h.FSH_maxBlockNum
<1> DEFINE g == FSM_vAddNodeToHeap(h, [freeSpaceSize |-> n, blockNum |-> b])
<1>1. /\ HeapOK(g, S, blocks) /\ h.FSH_HeapSize <= g.FSH_HeapSize
      /\ Listed(g) = Listed(h) \cup {[freeSpaceSize |-> n, blockNum |-> b]}
      /\ g.FSH_maxBlockNum = IF \/ b > h.FSH_maxBlockNum
                                \/ ~IsValidBlockNumber(h.FSH_maxBlockNum)
                             THEN b ELSE h.FSH_maxBlockNum
  BY AddOK
<1>2. b \in Nat /\ h.FSH_maxBlockNum \in Nat BY Numbers DEF HeapOK
<1> HIDE DEF g
<1>3. g.FSH_maxBlockNum = h.FSH_maxBlockNum BY <1>1, <1>2
<1> QED BY <1>1, <1>3 DEF g

\* A block is served, whole or in part.
LEMMA ServeOK ==
  ASSUME NEW S, Amounts(S), NEW h, NEW blocks, blocks \subseteq BlockNums, HeapOK(h, S, blocks),
         NEW need \in InsertNeeds, NEW got \in FSM_uAllocateNodeHeap(h, need)
  PROVE  /\ HeapOK(got.heap, S, blocks)
         /\ got.heap.FSH_maxBlockNum = h.FSH_maxBlockNum
         /\ got.heap.FSH_HeapSize = h.FSH_HeapSize
         /\ got = [bnum |-> got.bnum, heap |-> got.heap]
         /\ \/ /\ got.bnum = INValidBlockNumber /\ got.heap = h
               /\ \/ \A item \in Listed(h) : item.freeSpaceSize <= need
                  \/ \E item \in Listed(h) : item.freeSpaceSize = need
            \/ \E item \in Listed(h) :
                 /\ item.freeSpaceSize > need /\ got.bnum = item.blockNum
                 /\ got.bnum \in blocks
                 /\ Listed(got.heap) = (Listed(h) \ {item})
                      \cup IF item.freeSpaceSize - need <= MIN_FreeSpace THEN {}
                           ELSE {Less(item, need)}
<1>1. need \in Nat /\ h \in Heaps /\ Ordered(h) /\ Distinct(h) BY Numbers DEF HeapOK
<1>2. CASE /\ got = [bnum |-> INValidBlockNumber, heap |-> h]
           /\ \/ \A item \in Listed(h) : item.freeSpaceSize <= need
              \/ \E item \in Listed(h) : item.freeSpaceSize = need
  BY <1>2
<1>3. ASSUME NEW item \in Listed(h),
             /\ item \in Cells /\ item.freeSpaceSize > need
             /\ got = [bnum |-> item.blockNum, heap |-> got.heap]
             /\ got.heap \in Heaps /\ Ordered(got.heap)
             /\ got.heap.FSH_maxBlockNum = h.FSH_maxBlockNum
             /\ got.heap.FSH_HeapSize = h.FSH_HeapSize
             /\ Contents(got.heap) \subseteq Contents(h) \cup {Less(item, need)}
             /\ Distinct(h) =>
                  /\ Distinct(got.heap)
                  /\ Listed(got.heap) = (Listed(h) \ {item})
                       \cup IF item.freeSpaceSize - need <= MIN_FreeSpace THEN {}
                            ELSE {Less(item, need)}
      PROVE  /\ HeapOK(got.heap, S, blocks)
             /\ got = [bnum |-> got.bnum, heap |-> got.heap]
             /\ got.bnum = item.blockNum /\ got.bnum \in blocks
  <2>1. /\ item \in Entries /\ item.freeSpaceSize \in S /\ item.blockNum \in blocks
        /\ IsValidBlockNumber(h.FSH_maxBlockNum) /\ item.blockNum <= h.FSH_maxBlockNum
    BY DEF HeapOK
  <2>2. /\ Less(item, need) \in Entries /\ Less(item, need).blockNum = item.blockNum
        /\ Less(item, need).freeSpaceSize \in S
    <3>1. item.freeSpaceSize - need \in S BY <1>3, <2>1 DEF Amounts
    <3>2. S \subseteq Spaces BY DEF Amounts
    <3> QED BY <2>1, <3>1, <3>2 DEF Less, Entries
  <2>3. \A x \in Listed(got.heap) : x \in Listed(h) \/ x = Less(item, need) BY <1>1, <1>3
  <2>4. HeapOK(got.heap, S, blocks)
    <3> HIDE DEF Less
    <3> QED BY <1>1, <1>3, <2>1, <2>2, <2>3 DEF HeapOK
  <2>5. got.bnum = item.blockNum BY <1>3
  <2> QED BY <1>3, <2>1, <2>4, <2>5
<1>4. \/ /\ got = [bnum |-> INValidBlockNumber, heap |-> h]
         /\ \/ \A item \in Listed(h) : item.freeSpaceSize <= need
            \/ \E item \in Listed(h) : item.freeSpaceSize = need
      \/ \E item \in Listed(h) :
           /\ item \in Cells /\ item.freeSpaceSize > need
           /\ got = [bnum |-> item.blockNum, heap |-> got.heap]
           /\ got.heap \in Heaps /\ Ordered(got.heap)
           /\ got.heap.FSH_maxBlockNum = h.FSH_maxBlockNum
           /\ got.heap.FSH_HeapSize = h.FSH_HeapSize
           /\ Contents(got.heap) \subseteq Contents(h) \cup {Less(item, need)}
           /\ Distinct(h) =>
                /\ Distinct(got.heap)
                /\ Listed(got.heap) = (Listed(h) \ {item})
                     \cup IF item.freeSpaceSize - need <= MIN_FreeSpace THEN {}
                          ELSE {Less(item, need)}
  BY <1>1, AllocateNode
<1> QED BY <1>1, <1>2, <1>3, <1>4

-----------------------------------------------------------------------------
\* The calls on an open relation.

LEMMA RelFields ==
  ASSUME NEW S, NEW rel, RelOK(rel, S)
  PROVE  /\ rel = [fsh |-> rel.fsh, max |-> rel.max, cur |-> rel.cur,
                   space |-> rel.space, disk |-> rel.disk]
         /\ DOMAIN rel.space = DOMAIN rel.disk /\ DOMAIN rel.disk \subseteq BlockNums
         /\ HeapOK(rel.fsh, S, DOMAIN rel.disk) /\ Distinct(rel.fsh)
         /\ rel.max = rel.fsh.FSH_maxBlockNum
         /\ rel.max = INValidBlockNumber \/ (rel.max \in BlockNums /\ rel.max \in DOMAIN rel.disk)
         /\ \A item \in Listed(rel.fsh) :
              /\ item \in Entries /\ item.freeSpaceSize \in S
              /\ item.blockNum \in DOMAIN rel.disk
<1>1. rel.max \in BlockNums /\ 0 .. rel.max \subseteq DOMAIN rel.disk
        => rel.max \in DOMAIN rel.disk
  <2>1. rel.max \in BlockNums => rel.max \in Nat BY Numbers
  <2>2. rel.max \in Nat => rel.max \in 0 .. rel.max OBVIOUS
  <2> QED BY <2>1, <2>2
<1> QED BY <1>1 DEF RelOK, HeapOK

LEMMA WithIs ==
  ASSUME NEW S, NEW blocks, blocks \in [DOMAIN blocks -> S], NEW b, NEW left \in S
  PROVE  /\ With(blocks, b, left) \in [DOMAIN blocks \cup {b} -> S]
         /\ DOMAIN With(blocks, b, left) = DOMAIN blocks \cup {b}
BY DEF With

\* The item of a block that was just appended.
NewItem(rel) == [freeSpaceSize |-> NewBlockSpace, blockNum |-> NextBlock(rel)]

LEMMA NextIsNew ==
  ASSUME NEW S, NEW rel, RelOK(rel, S), NextBlock(rel) \in BlockNums
  PROVE  \A item \in Listed(rel.fsh) : item.blockNum # NextBlock(rel)
<1> TAKE item \in Listed(rel.fsh)
<1>1. /\ IsValidBlockNumber(rel.max) /\ item.blockNum <= rel.max /\ item.blockNum \in BlockNums
      /\ rel.max \in BlockNums
  BY Numbers DEF RelOK, HeapOK, Entries
<1>2. item.blockNum \in Nat /\ rel.max \in Nat BY <1>1, Numbers
<1> QED BY <1>1, <1>2 DEF NextBlock

LEMMA AppendOK ==
  ASSUME NEW S, Amounts(S), NEW rel, RelOK(rel, S), NextBlock(rel) \in BlockNums
  PROVE  LET new == Rel_AppendNewBlock(rel)
         IN  /\ RelOK(new, S) /\ rel.fsh.FSH_HeapSize <= new.fsh.FSH_HeapSize
             /\ new.max = NextBlock(rel) /\ new.cur = NextBlock(rel)
             /\ Listed(new.fsh) = Listed(rel.fsh) \cup {NewItem(rel)}
             /\ new.space = With(rel.space, NextBlock(rel), NewBlockSpace)
             /\ new.disk = With(rel.disk, NextBlock(rel), NewBlockSpace)
             /\ DOMAIN new.disk = DOMAIN rel.disk \cup {NextBlock(rel)}
             /\ \A c \in DOMAIN rel.disk : c <= rel.max /\ IsValidBlockNumber(rel.max)
                                             => new.disk[c] = rel.disk[c]
<1> DEFINE bnum == NextBlock(rel)
           h == rel.fsh
           g == FSM_vAddNodeToHeap(h, NewItem(rel))
           new == Rel_AppendNewBlock(rel)
<1>1. new = [fsh |-> g, max |-> bnum, cur |-> bnum,
             space |-> With(rel.space, bnum, NewBlockSpace),
             disk |-> With(rel.disk, bnum, NewBlockSpace)]
  BY DEF Rel_AppendNewBlock, NewItem
<1>2. NewBlockSpace \in S /\ NewBlockSpace \in Spaces BY DEF Amounts
<1>3. /\ rel.space \in [DOMAIN rel.disk -> S] /\ rel.disk \in [DOMAIN rel.disk -> S]
      /\ DOMAIN rel.space = DOMAIN rel.disk
      /\ HeapOK(h, S, DOMAIN rel.disk) /\ rel.max = h.FSH_maxBlockNum
      /\ DOMAIN rel.disk \subseteq BlockNums
  BY DEF RelOK
<1>4. /\ new.space \in [DOMAIN rel.disk \cup {bnum} -> S]
      /\ new.disk \in [DOMAIN rel.disk \cup {bnum} -> S]
      /\ DOMAIN new.disk = DOMAIN rel.disk \cup {bnum}
      /\ \A c \in DOMAIN rel.disk : c # bnum => new.disk[c] = rel.disk[c]
  <2>1. /\ new.space = With(rel.space, bnum, NewBlockSpace)
        /\ new.disk = With(rel.disk, bnum, NewBlockSpace)
    BY <1>1
  <2> HIDE DEF new, bnum
  <2>2. rel.space \in [DOMAIN rel.space -> S] /\ rel.disk \in [DOMAIN rel.disk -> S]
    BY <1>3
  <2>3. With(rel.space, bnum, NewBlockSpace) \in [DOMAIN rel.space \cup {bnum} -> S]
    BY <1>2, <2>2, WithIs
  <2>4. With(rel.disk, bnum, NewBlockSpace) \in [DOMAIN rel.disk \cup {bnum} -> S]
    BY <1>2, <2>2, WithIs
  <2>5. /\ DOMAIN new.disk = DOMAIN rel.disk \cup {bnum}
        /\ \A c \in DOMAIN rel.disk : c # bnum => new.disk[c] = rel.disk[c]
    BY <2>1 DEF With
  <2> QED BY <1>3, <2>1, <2>3, <2>4, <2>5
<1>5. \/ IsValidBlockNumber(h.FSH_maxBlockNum) /\ bnum = h.FSH_maxBlockNum + 1
      \/ ~IsValidBlockNumber(h.FSH_maxBlockNum) /\ bnum = 0
  BY <1>3 DEF NextBlock
<1>6. \A item \in Listed(h) : item.blockNum # bnum BY NextIsNew
<1>7. /\ HeapOK(g, S, DOMAIN rel.disk \cup {bnum}) /\ h.FSH_HeapSize <= g.FSH_HeapSize
      /\ Listed(g) = Listed(h) \cup {NewItem(rel)}
      /\ g.FSH_maxBlockNum = IF \/ bnum > h.FSH_maxBlockNum
                                \/ ~IsValidBlockNumber(h.FSH_maxBlockNum)
                             THEN bnum ELSE h.FSH_maxBlockNum
  <2> HIDE DEF bnum, h
  <2> QED BY <1>2, <1>3, <1>5, <1>6, AddOK DEF NewItem, bnum
<1>8. g.FSH_maxBlockNum = bnum
  <2>0. h.FSH_maxBlockNum = INValidBlockNumber \/ h.FSH_maxBlockNum \in BlockNums
    BY <1>3 DEF HeapOK
  <2>1. h.FSH_maxBlockNum \in Int
    <3> HIDE DEF h
    <3>1. INValidBlockNumber \in Int /\ \A b \in BlockNums : b \in Int BY Numbers
    <3> QED BY <2>0, <3>1
  <2> QED BY <1>5, <1>7, <2>1
<1>9. \A c \in DOMAIN rel.disk : c <= rel.max /\ IsValidBlockNumber(rel.max) => c # bnum
  <2> TAKE c \in DOMAIN rel.disk
  <2> SUFFICES ASSUME c <= rel.max, IsValidBlockNumber(rel.max) PROVE c # bnum OBVIOUS
  <2>1. c \in Nat /\ rel.max \in Nat /\ bnum = rel.max + 1
    BY <1>3, <1>5, Numbers DEF HeapOK
  <2> HIDE DEF bnum
  <2> QED BY <2>1
<1>10. RelOK(new, S)
  <2>1. /\ new.fsh = g /\ new.max = bnum /\ new.cur = bnum
        /\ new = [fsh |-> new.fsh, max |-> new.max, cur |-> new.cur,
                  space |-> new.space, disk |-> new.disk]
    BY <1>1
  <2> HIDE DEF new, g, bnum
  <2>2. bnum \in BlockNums BY DEF bnum
  <2> QED BY <1>3, <1>4, <1>7, <1>8, <2>1, <2>2 DEF RelOK
<1> QED BY <1>1, <1>4, <1>7, <1>9, <1>10

LEMMA InsertedIntoOK ==
  ASSUME NEW S, Amounts(S), NEW rel, RelOK(rel, S),
         NEW need \in InsertNeeds \cup AppendNeeds, NEW bnum \in DOMAIN rel.disk,
         BLK_bCheckEnoughSpace(rel, bnum, need)
  PROVE  LET r == InsertedInto(rel, bnum, need)
         IN  /\ RelOK(r, S)
             /\ r.fsh = rel.fsh /\ r.max = rel.max /\ r.cur = rel.cur
             /\ DOMAIN r.disk = DOMAIN rel.disk
             /\ r.space[bnum] = rel.space[bnum] - need /\ r.disk[bnum] = r.space[bnum]
             /\ \A c \in DOMAIN rel.disk \ {bnum} :
                  r.space[c] = rel.space[c] /\ r.disk[c] = rel.disk[c]
<1> DEFINE left == rel.space[bnum] - need
           r == InsertedInto(rel, bnum, need)
<1>1. rel = [fsh |-> rel.fsh, max |-> rel.max, cur |-> rel.cur,
             space |-> rel.space, disk |-> rel.disk]
  BY DEF RelOK
<1>2. r = [rel EXCEPT !.space[bnum] = left, !.disk[bnum] = left]
  BY DEF InsertedInto
<1>3. left \in S
  <2>1. rel.space[bnum] \in S BY DEF RelOK
  <2> QED BY <2>1 DEF Amounts, BLK_bCheckEnoughSpace
<1> HIDE DEF r, left
<1>2a. r = [fsh |-> rel.fsh, max |-> rel.max, cur |-> rel.cur,
            space |-> [rel.space EXCEPT ![bnum] = left],
            disk |-> [rel.disk EXCEPT ![bnum] = left]]
  BY <1>1, <1>2, Zenon
<1>4. /\ r.fsh = rel.fsh /\ r.max = rel.max /\ r.cur = rel.cur
      /\ r.space = [rel.space EXCEPT ![bnum] = left]
      /\ r.disk = [rel.disk EXCEPT ![bnum] = left]
      /\ r = [fsh |-> r.fsh, max |-> r.max, cur |-> r.cur, space |-> r.space, disk |-> r.disk]
  BY <1>2a
<1>5. /\ r.space \in [DOMAIN rel.disk -> S] /\ r.disk \in [DOMAIN rel.disk -> S]
      /\ DOMAIN r.disk = DOMAIN rel.disk
  BY <1>3, <1>4 DEF RelOK
<1>6. RelOK(r, S) BY <1>4, <1>5 DEF RelOK
<1>7. DOMAIN rel.space = DOMAIN rel.disk BY DEF RelOK
<1> QED BY <1>4, <1>5, <1>6, <1>7 DEF left, r

LEMMA InNewBlockOK ==
  ASSUME NEW S, Amounts(S), NEW rel, RelOK(rel, S), NextBlock(rel) \in BlockNums,
         NEW need \in InsertNeeds \cup AppendNeeds
  PROVE  LET new == Rel_AppendNewBlock(rel)
             r == InsertedInNewBlock(rel, need)
         IN  /\ RelOK(r, S)
             /\ r.fsh = new.fsh /\ r.max = new.max /\ r.cur = new.cur /\ r.disk = new.disk
<1> DEFINE new == Rel_AppendNewBlock(rel)
           r == InsertedInNewBlock(rel, need)
<1>1. RelOK(new, S) /\ new.max = NextBlock(rel)
      /\ new.space = With(rel.space, NextBlock(rel), NewBlockSpace)
      /\ DOMAIN new.disk = DOMAIN rel.disk \cup {NextBlock(rel)}
  BY AppendOK
<1>2. new.space[new.max] = NewBlockSpace BY <1>1 DEF With
<1>3. NewBlockSpace - need \in S BY Numbers DEF Amounts
<1>4. r = [new EXCEPT !.space[new.max] = new.space[new.max] - need]
  BY DEF InsertedInNewBlock
<1> HIDE DEF new, r
<1>5. new = [fsh |-> new.fsh, max |-> new.max, cur |-> new.cur,
             space |-> new.space, disk |-> new.disk]
  BY <1>1 DEF RelOK
<1>6. r = [fsh |-> new.fsh, max |-> new.max, cur |-> new.cur,
           space |-> [new.space EXCEPT ![new.max] = NewBlockSpace - need], disk |-> new.disk]
  BY <1>2, <1>4, <1>5, Zenon
<1>7. /\ r.fsh = new.fsh /\ r.max = new.max /\ r.cur = new.cur /\ r.disk = new.disk
      /\ r = [fsh |-> r.fsh, max |-> r.max, cur |-> r.cur, space |-> r.space, disk |-> r.disk]
      /\ r.space = [new.space EXCEPT ![new.max] = NewBlockSpace - need]
  BY <1>6
<1>8. r.space \in [DOMAIN new.disk -> S] BY <1>1, <1>3, <1>7 DEF RelOK
<1> QED BY <1>1, <1>7, <1>8 DEF RelOK, new, r

LEMMA ByWrapOK ==
  ASSUME NEW S, Amounts(S), NEW rel, RelOK(rel, S), NEW need \in InsertNeeds,
         WrapBlock \in DOMAIN rel.disk, need < rel.disk[WrapBlock]
  PROVE  LET r == InsertedByWrap(rel, need)
         IN  /\ RelOK(r, S)
             /\ r.fsh = rel.fsh /\ r.max = rel.max /\ r.cur = rel.cur
             /\ DOMAIN r.disk = DOMAIN rel.disk
<1> DEFINE left == rel.disk[WrapBlock] - need
           r == InsertedByWrap(rel, need)
<1>1. rel = [fsh |-> rel.fsh, max |-> rel.max, cur |-> rel.cur,
             space |-> rel.space, disk |-> rel.disk]
  BY DEF RelOK
<1>2. r = [rel EXCEPT !.disk[WrapBlock] = left]
  BY DEF InsertedByWrap
<1>3. left \in S
  <2>1. rel.disk[WrapBlock] \in S BY DEF RelOK
  <2> QED BY <2>1 DEF Amounts
<1> HIDE DEF r, left
<1>2a. r = [fsh |-> rel.fsh, max |-> rel.max, cur |-> rel.cur, space |-> rel.space,
            disk |-> [rel.disk EXCEPT ![WrapBlock] = left]]
  BY <1>1, <1>2, Zenon
<1>4. /\ r.fsh = rel.fsh /\ r.max = rel.max /\ r.cur = rel.cur /\ r.space = rel.space
      /\ r.disk = [rel.disk EXCEPT ![WrapBlock] = left]
      /\ r = [fsh |-> r.fsh, max |-> r.max, cur |-> r.cur, space |-> r.space, disk |-> r.disk]
  BY <1>2a
<1>5. r.disk \in [DOMAIN rel.disk -> S] /\ DOMAIN r.disk = DOMAIN rel.disk
  BY <1>3, <1>4 DEF RelOK
<1> QED BY <1>4, <1>5 DEF RelOK, r

-----------------------------------------------------------------------------
\* A block to insert into.

\* r is what rel becomes when its heap is asked: it got a block, with the space
\* the heap says, or none, and why.
Served(r, rel, need) ==
  \E item \in Listed(rel.fsh) :
    /\ item.freeSpaceSize > need /\ r.cur = item.blockNum
    /\ Listed(r.fsh) = (Listed(rel.fsh) \ {item})
         \cup IF item.freeSpaceSize - need <= MIN_FreeSpace THEN {} ELSE {Less(item, need)}
Missed(r, rel, need) ==
  /\ r.cur = INValidBlockNumber /\ r.fsh = rel.fsh
  /\ \/ \A item \in Listed(rel.fsh) : item.freeSpaceSize <= need
     \/ \E item \in Listed(rel.fsh) : item.freeSpaceSize = need
Asked(r, rel, need) ==
  /\ r.max = rel.max /\ r.space = rel.space /\ r.disk = rel.disk
  /\ \/ Served(r, rel, need) /\ r.cur \in DOMAIN rel.disk /\ IsValidBlockNumber(r.cur)
     \/ Missed(r, rel, need) /\ ~IsValidBlockNumber(r.cur)

LEMMA AllocateFields ==
  ASSUME NEW rel,
         rel = [fsh |-> rel.fsh, max |-> rel.max, cur |-> rel.cur,
                space |-> rel.space, disk |-> rel.disk],
         NEW need, NEW r \in Allocate(rel, need)
  PROVE  \E got \in FSM_uAllocateNodeHeap(rel.fsh, need) :
           /\ r = [fsh |-> r.fsh, max |-> r.max, cur |-> r.cur,
                   space |-> r.space, disk |-> r.disk]
           /\ r.fsh = got.heap /\ r.max = rel.max /\ r.cur = got.bnum
           /\ r.space = rel.space /\ r.disk = rel.disk
<1>1. PICK got \in FSM_uAllocateNodeHeap(rel.fsh, need) :
        r = [rel EXCEPT !.fsh = got.heap, !.cur = got.bnum]
  BY Zenon DEF Allocate
<1>2. r = [fsh |-> got.heap, max |-> rel.max, cur |-> got.bnum,
           space |-> rel.space, disk |-> rel.disk]
  BY <1>1
<1>3. /\ r = [fsh |-> r.fsh, max |-> r.max, cur |-> r.cur, space |-> r.space, disk |-> r.disk]
      /\ r.fsh = got.heap /\ r.max = rel.max /\ r.cur = got.bnum
      /\ r.space = rel.space /\ r.disk = rel.disk
  BY <1>2
<1> QED BY <1>3

LEMMA AllocateOK ==
  ASSUME NEW S, Amounts(S), NEW rel, RelOK(rel, S),
         NEW need \in InsertNeeds, NEW r \in Allocate(rel, need)
  PROVE  RelOK(r, S) /\ Asked(r, rel, need) /\ r.fsh.FSH_HeapSize = rel.fsh.FSH_HeapSize
<1>0. rel = [fsh |-> rel.fsh, max |-> rel.max, cur |-> rel.cur,
             space |-> rel.space, disk |-> rel.disk]
  BY DEF RelOK
<1>1. PICK got \in FSM_uAllocateNodeHeap(rel.fsh, need) :
        /\ r = [fsh |-> r.fsh, max |-> r.max, cur |-> r.cur,
                space |-> r.space, disk |-> r.disk]
        /\ r.fsh = got.heap /\ r.max = rel.max /\ r.cur = got.bnum
        /\ r.space = rel.space /\ r.disk = rel.disk
  BY <1>0, AllocateFields
<1> DEFINE h == rel.fsh
           blocks == DOMAIN rel.disk
<1>2. HeapOK(h, S, blocks) /\ blocks \subseteq BlockNums BY DEF RelOK
<1>3. /\ HeapOK(got.heap, S, blocks)
      /\ got.heap.FSH_maxBlockNum = h.FSH_maxBlockNum
      /\ got.heap.FSH_HeapSize = h.FSH_HeapSize
      /\ \/ /\ got.bnum = INValidBlockNumber /\ got.heap = h
            /\ \/ \A item \in Listed(h) : item.freeSpaceSize <= need
               \/ \E item \in Listed(h) : item.freeSpaceSize = need
         \/ \E item \in Listed(h) :
              /\ item.freeSpaceSize > need /\ got.bnum = item.blockNum
              /\ got.bnum \in blocks
              /\ Listed(got.heap) = (Listed(h) \ {item})
                   \cup IF item.freeSpaceSize - need <= MIN_FreeSpace THEN {}
                        ELSE {Less(item, need)}
  <2> HIDE DEF h, blocks
  <2> QED BY <1>1, <1>2, ServeOK DEF h
<1>4. Asked(r, rel, need)
  <2>1. CASE /\ got.bnum = INValidBlockNumber /\ got.heap = h
             /\ \/ \A item \in Listed(h) : item.freeSpaceSize <= need
                \/ \E item \in Listed(h) : item.freeSpaceSize = need
    BY <1>1, <2>1, Numbers DEF Asked, Missed
  <2>2. CASE \E item \in Listed(h) :
               /\ item.freeSpaceSize > need /\ got.bnum = item.blockNum
               /\ got.bnum \in blocks
               /\ Listed(got.heap) = (Listed(h) \ {item})
                    \cup IF item.freeSpaceSize - need <= MIN_FreeSpace THEN {}
                         ELSE {Less(item, need)}
    <3>1. Served(r, rel, need) /\ r.cur \in blocks BY <1>1, <2>2 DEF Served
    <3>2. IsValidBlockNumber(r.cur) BY <1>2, <3>1, Numbers
    <3> QED BY <1>1, <3>1, <3>2 DEF Asked
  <2> QED BY <1>3, <2>1, <2>2
<1>5. r.cur \in BlockNums \cup {INValidBlockNumber}
  BY <1>2, <1>4 DEF Asked, Missed
<1>6. RelOK(r, S) BY <1>1, <1>3, <1>5 DEF RelOK
<1> QED BY <1>1, <1>3, <1>4, <1>6

\* Rel_GetBlockToInsert asks the heap once, or appends a block and asks again.
LEMMA GetBlockOK ==
  ASSUME NEW S, Amounts(S), NEW rel, RelOK(rel, S), NEW need \in InsertNeeds,
         NEW r \in Rel_GetBlockToInsert(rel, need), DOMAIN r.space \subseteq BlockNums
  PROVE  /\ RelOK(r, S) /\ rel.fsh.FSH_HeapSize <= r.fsh.FSH_HeapSize
         /\ \/ Asked(r, rel, need) /\ IsValidBlockNumber(r.cur)
            \/ /\ NextBlock(rel) \in BlockNums
               /\ RelOK(Rel_AppendNewBlock(rel), S)
               /\ Asked(r, Rel_AppendNewBlock(rel), need)
<1> DEFINE first == Allocate(rel, need)
           none == {got \in first : ~IsValidBlockNumber(got.cur)}
<1>1. \/ r \in first \ none
      \/ \E got \in none : r \in Allocate(Rel_AppendNewBlock(got), need)
  BY DEF Rel_GetBlockToInsert
<1>0. \A n \in Nat : n <= n OBVIOUS
<1>0a. rel.fsh.FSH_HeapSize \in Nat BY HeapFields DEF RelOK, HeapOK
<1>2. CASE r \in first \ none
  BY <1>0, <1>0a, <1>2, AllocateOK
<1>3. ASSUME NEW got \in none, r \in Allocate(Rel_AppendNewBlock(got), need)
      PROVE  /\ RelOK(r, S) /\ rel.fsh.FSH_HeapSize <= r.fsh.FSH_HeapSize
             /\ NextBlock(rel) \in BlockNums
             /\ RelOK(Rel_AppendNewBlock(rel), S)
             /\ Asked(r, Rel_AppendNewBlock(rel), need)
  <2> DEFINE new == Rel_AppendNewBlock(rel)
  <2>1. RelOK(got, S) /\ Asked(got, rel, need) /\ ~IsValidBlockNumber(got.cur)
    BY AllocateOK
  <2>2. got.fsh = rel.fsh /\ got.max = rel.max /\ got.space = rel.space /\ got.disk = rel.disk
    BY <2>1 DEF Asked, Missed
  <2>3. Rel_AppendNewBlock(got) = new BY <2>2 DEF Rel_AppendNewBlock, NextBlock
  <2>4. new = [fsh |-> new.fsh, max |-> new.max, cur |-> new.cur,
               space |-> new.space, disk |-> new.disk]
        /\ new.space = With(rel.space, NextBlock(rel), NewBlockSpace)
    BY DEF Rel_AppendNewBlock
  <2> HIDE DEF new
  <2>5. r \in Allocate(new, need) BY <1>3, <2>3
  <2>6. r.space = new.space BY <2>4, <2>5, AllocateFields
  <2>7. NextBlock(rel) \in BlockNums BY <2>4, <2>6 DEF With
  <2>8. RelOK(new, S) /\ rel.fsh.FSH_HeapSize <= new.fsh.FSH_HeapSize
    BY <2>7, AppendOK DEF new
  <2>9. RelOK(r, S) /\ Asked(r, new, need) /\ r.fsh.FSH_HeapSize = new.fsh.FSH_HeapSize
    BY <2>5, <2>8, AllocateOK
  <2> QED BY <2>7, <2>8, <2>9 DEF new
<1> QED BY <1>1, <1>2, <1>3

\* After a block was appended nothing is missed but by a tie.
LEMMA MissedTwice ==
  ASSUME NEW S, Amounts(S), NEW rel, RelOK(rel, S), NextBlock(rel) \in BlockNums,
         NEW need \in InsertNeeds, NEW r, Missed(r, Rel_AppendNewBlock(rel), need)
  PROVE  \E item \in Listed(rel.fsh) : item.freeSpaceSize = need
<1> DEFINE new == Rel_AppendNewBlock(rel)
<1>1. Listed(new.fsh) = Listed(rel.fsh) \cup {NewItem(rel)} BY AppendOK
<1>2. NewItem(rel).freeSpaceSize = NewBlockSpace BY DEF NewItem
<1>3. need \in Nat /\ NewBlockSpace \in Nat /\ need < NewBlockSpace BY Numbers
<1> HIDE DEF new
<1>4. ~ \A item \in Listed(new.fsh) : item.freeSpaceSize <= need BY <1>1, <1>2, <1>3
<1>5. PICK item \in Listed(new.fsh) : item.freeSpaceSize = need BY <1>4 DEF Missed, new
<1> QED BY <1>1, <1>2, <1>3, <1>5

-----------------------------------------------------------------------------
\* The steps.

\* Something is inserted in rel's blocks; a block is appended to rel.
Same(r, rel) ==
  /\ r.fsh = rel.fsh /\ r.max = rel.max /\ r.cur = rel.cur
  /\ DOMAIN r.disk = DOMAIN rel.disk
Longer(r, rel) ==
  /\ NextBlock(rel) \in BlockNums
  /\ r.fsh = Rel_AppendNewBlock(rel).fsh /\ r.max = NextBlock(rel) /\ r.cur = NextBlock(rel)
  /\ DOMAIN r.disk = DOMAIN rel.disk \cup {NextBlock(rel)}

\* The relation goes on so, or the process ends with the blocks rel has.
Works(rel, S) ==
  \E r : /\ RelOK(r, S) /\ (Same(r, rel) \/ Longer(r, rel))
         /\ Becomes(r) /\ UNCHANGED <<up, updating, packed, writes>>
Dies(rel) == Crashes /\ Closed /\ disk' = rel.disk /\ space' = rel.disk

LEMMA WorksSize ==
  ASSUME NEW S, Amounts(S), NEW rel, RelOK(rel, S), NEW r, Same(r, rel) \/ Longer(r, rel)
  PROVE  rel.fsh.FSH_HeapSize <= r.fsh.FSH_HeapSize
<1>1. rel.fsh.FSH_HeapSize \in Nat BY HeapFields DEF RelOK, HeapOK
<1>2. CASE Same(r, rel) BY <1>1, <1>2 DEF Same
<1>3. CASE Longer(r, rel)
  <2>1. NextBlock(rel) \in BlockNums /\ r.fsh = Rel_AppendNewBlock(rel).fsh BY <1>3 DEF Longer
  <2> QED BY <2>1, AppendOK
<1> QED BY <1>2, <1>3

LEMMA NoRoomOK ==
  ASSUME NEW S, Amounts(S), NEW rel, RelOK(rel, S),
         NEW need \in InsertNeeds \cup AppendNeeds, NoRoom(rel, need)
  PROVE  Works(rel, S) \/ Dies(rel)
<1>1. CASE /\ NextBlock(rel) \in BlockNums
           /\ Becomes(InsertedInNewBlock(rel, need))
           /\ UNCHANGED <<up, updating, packed, writes>>
  <2> DEFINE r == InsertedInNewBlock(rel, need)
             new == Rel_AppendNewBlock(rel)
  <2>1. /\ RelOK(r, S)
        /\ r.fsh = new.fsh /\ r.max = new.max /\ r.cur = new.cur /\ r.disk = new.disk
    BY <1>1, InNewBlockOK
  <2>2. /\ new.max = NextBlock(rel) /\ new.cur = NextBlock(rel)
        /\ DOMAIN new.disk = DOMAIN rel.disk \cup {NextBlock(rel)}
    BY <1>1, AppendOK
  <2>3. Longer(r, rel)
    <3> HIDE DEF r
    <3> QED BY <1>1, <2>1, <2>2 DEF Longer
  <2> HIDE DEF r
  <2>4. Becomes(r) /\ UNCHANGED <<up, updating, packed, writes>> BY <1>1 DEF r
  <2> QED BY <2>1, <2>3, <2>4, Zenon DEF Works
<1>2. CASE Crashes /\ Closed /\ disk' = rel.disk /\ space' = rel.disk
  BY <1>2 DEF Dies
<1> QED BY <1>1, <1>2 DEF NoRoom

LEMMA BlockInsertOK ==
  ASSUME NEW S, Amounts(S), NEW rel, RelOK(rel, S),
         NEW need \in InsertNeeds \cup AppendNeeds, NEW bnum \in DOMAIN rel.disk,
         BLK_vBlockInsert(rel, bnum, need)
  PROVE  Works(rel, S) \/ Dies(rel)
<1>1. CASE /\ BLK_bCheckEnoughSpace(rel, bnum, need)
           /\ Becomes(InsertedInto(rel, bnum, need))
           /\ UNCHANGED <<up, updating, packed, writes>>
  <2> DEFINE r == InsertedInto(rel, bnum, need)
  <2>1. RelOK(r, S) /\ Same(r, rel) BY <1>1, InsertedIntoOK DEF Same
  <2>2. Becomes(r) /\ UNCHANGED <<up, updating, packed, writes>> BY <1>1
  <2> HIDE DEF r
  <2> QED BY <2>1, <2>2, Zenon DEF Works
<1>2. CASE NoRoom(rel, need) BY <1>2, NoRoomOK
<1> QED BY <1>1, <1>2 DEF BLK_vBlockInsert

LEMMA NowhereOK ==
  ASSUME NEW S, Amounts(S), NEW rel, RelOK(rel, S), NEW need \in InsertNeeds,
         InsertNowhere(rel, need)
  PROVE  Works(rel, S) \/ Dies(rel)
<1>1. CASE /\ WrapBlock \in DOMAIN rel.disk /\ need < rel.disk[WrapBlock]
           /\ Becomes(InsertedByWrap(rel, need))
           /\ UNCHANGED <<up, updating, packed, writes>>
  <2> DEFINE r == InsertedByWrap(rel, need)
  <2>1. RelOK(r, S) /\ Same(r, rel) BY <1>1, ByWrapOK DEF Same
  <2>2. Becomes(r) /\ UNCHANGED <<up, updating, packed, writes>> BY <1>1
  <2> HIDE DEF r
  <2> QED BY <2>1, <2>2, Zenon DEF Works
<1>2. CASE NoRoom(rel, need) BY <1>2, NoRoomOK
<1> QED BY <1>1, <1>2, Zenon DEF InsertNowhere

\* What Rel_GetBlockToInsert may return.
Got(r, rel, S, need) ==
  /\ RelOK(r, S) /\ rel.fsh.FSH_HeapSize <= r.fsh.FSH_HeapSize
  /\ \/ Asked(r, rel, need) /\ IsValidBlockNumber(r.cur)
     \/ /\ NextBlock(rel) \in BlockNums
        /\ RelOK(Rel_AppendNewBlock(rel), S)
        /\ Asked(r, Rel_AppendNewBlock(rel), need)

LEMMA InsertStep ==
  ASSUME NEW S, Amounts(S), SpaceInv(S), NEW need \in InsertNeeds, Tup_vInsert(need)
  PROVE  /\ Serving /\ ~updating /\ UNCHANGED <<fsmFile, hist>>
         /\ \E r \in Rel_GetBlockToInsert(Relation, need) :
              /\ missed' = ~IsValidBlockNumber(r.cur)
              /\ Got(r, Relation, S, need)
              /\ DOMAIN disk \subseteq DOMAIN r.disk
              /\ \/ IsValidBlockNumber(r.cur) /\ r.cur \in DOMAIN r.disk
                    /\ BLK_vBlockInsert(r, r.cur, need)
                 \/ ~IsValidBlockNumber(r.cur) /\ InsertNowhere(r, need)
              /\ Works(r, S) \/ Dies(r)
<1>1. PICK r \in Rel_GetBlockToInsert(Relation, need) :
        /\ DOMAIN r.space \subseteq BlockNums
        /\ missed' = ~IsValidBlockNumber(r.cur)
        /\ \/ IsValidBlockNumber(r.cur) /\ BLK_vBlockInsert(r, r.cur, need)
           \/ ~IsValidBlockNumber(r.cur) /\ InsertNowhere(r, need)
  BY Zenon DEF Tup_vInsert
<1>2. RelOK(Relation, S) BY DEF SpaceInv
<1>3. Got(r, Relation, S, need) BY <1>1, <1>2, GetBlockOK DEF Got
<1>4. Relation.disk = disk BY DEF Relation
<1>5. /\ DOMAIN disk \subseteq DOMAIN r.disk
      /\ IsValidBlockNumber(r.cur) => r.cur \in DOMAIN r.disk
  <2>1. CASE Asked(r, Relation, need)
    <3>1. r.disk = disk BY <1>4, <2>1 DEF Asked
    <3> QED BY <1>4, <2>1, <3>1 DEF Asked
  <2>2. CASE NextBlock(Relation) \in BlockNums /\ Asked(r, Rel_AppendNewBlock(Relation), need)
    <3>1. DOMAIN Rel_AppendNewBlock(Relation).disk = DOMAIN Relation.disk \cup {NextBlock(Relation)}
      BY <1>2, <2>2, AppendOK
    <3>2. r.disk = Rel_AppendNewBlock(Relation).disk BY <2>2 DEF Asked
    <3> QED BY <1>4, <2>2, <3>1, <3>2 DEF Asked
  <2> QED BY <1>3, <2>1, <2>2 DEF Got
<1>6. Works(r, S) \/ Dies(r)
  <2>1. RelOK(r, S) BY <1>3 DEF Got
  <2>2. CASE IsValidBlockNumber(r.cur) /\ BLK_vBlockInsert(r, r.cur, need)
    BY <1>5, <2>1, <2>2, BlockInsertOK
  <2>3. CASE InsertNowhere(r, need) BY <2>1, <2>3, NowhereOK
  <2> QED BY <1>1, <2>2, <2>3
<1>7. Serving /\ ~updating /\ UNCHANGED <<fsmFile, hist>> BY DEF Tup_vInsert
<1> QED BY <1>1, <1>3, <1>5, <1>6, <1>7, Zenon

LEMMA AppendStep ==
  ASSUME NEW S, Amounts(S), SpaceInv(S), NEW need \in AppendNeeds, Tup_vAppend(need)
  PROVE  /\ Serving /\ updating /\ UNCHANGED <<fsmFile, hist>> /\ ~missed'
         /\ Works(Relation, S) \/ Dies(Relation)
<1>1. RelOK(Relation, S) /\ IsValidBlockNumber(Rel_curMaxBlock)
  BY DEF SpaceInv, Tup_vAppend
<1>2. Relation.max = Rel_curMaxBlock BY DEF Relation
<1>3. Rel_curMaxBlock \in DOMAIN Relation.disk BY <1>1, <1>2, RelFields, Numbers
<1>4. BLK_vBlockInsert(Relation, Rel_curMaxBlock, need) BY DEF Tup_vAppend
<1>5. Works(Relation, S) \/ Dies(Relation) BY <1>1, <1>3, <1>4, BlockInsertOK
<1> QED BY <1>5 DEF Tup_vAppend

LEMMA BecomesIs ==
  ASSUME NEW S, NEW r, RelOK(r, S), Becomes(r)
  PROVE  Relation' = r
<1>1. r = [fsh |-> r.fsh, max |-> r.max, cur |-> r.cur, space |-> r.space, disk |-> r.disk]
  BY DEF RelOK
<1>2. Relation' = [fsh |-> Rel_fsh', max |-> Rel_curMaxBlock', cur |-> Rel_curBlock',
                   space |-> space', disk |-> disk']
  BY DEF Relation
<1> QED BY <1>1, <1>2, Zenon DEF Becomes

-----------------------------------------------------------------------------
\* The invariant is one.

LEMMA RelationIs ==
  /\ Relation.fsh = Rel_fsh /\ Relation.max = Rel_curMaxBlock /\ Relation.cur = Rel_curBlock
  /\ Relation.space = space /\ Relation.disk = disk
BY DEF Relation

LEMMA OpenInv ==
  ASSUME NEW S, SpaceInv(S), NEW r, RelOK(r, S), DOMAIN disk \subseteq DOMAIN r.disk,
         Serving, UNCHANGED <<up, packed, writes, fsmFile, hist>>,
         updating' \in BOOLEAN, updating' => IsValidBlockNumber(r.max),
         missed' \in BOOLEAN, Rel_fsh.FSH_HeapSize <= r.fsh.FSH_HeapSize,
         Becomes(r)
  PROVE  SpaceInv(S)'
<1>1. Relation' = r BY BecomesIs
<1>2. disk' = r.disk /\ Rel_curMaxBlock' = r.max /\ Rel_fsh' = r.fsh BY DEF Becomes
<1>3. /\ up' /\ up /\ packed' = NoVacuum /\ packed = NoVacuum /\ writes' = 0 /\ writes = 0
      /\ whole' = whole /\ torn' = torn /\ ~torn /\ fsmFile' = fsmFile
  BY DEF Serving, hist, SpaceInv
<1>4. HeapOK(whole', S, DOMAIN disk') BY <1>2, <1>3, MoreBlocks DEF SpaceInv
<1>5. whole'.FSH_HeapSize <= Rel_fsh'.FSH_HeapSize
  <2>1. RelOK(Relation, S) /\ HeapOK(whole, S, DOMAIN disk)
        /\ whole.FSH_HeapSize <= Rel_fsh.FSH_HeapSize
    BY <1>3 DEF SpaceInv
  <2>2. whole \in Heaps /\ Rel_fsh \in Heaps /\ r.fsh \in Heaps
    BY <2>1, RelationIs DEF RelOK, HeapOK
  <2>3. /\ whole.FSH_HeapSize \in Nat /\ Rel_fsh.FSH_HeapSize \in Nat
        /\ r.fsh.FSH_HeapSize \in Nat
    BY <2>2, HeapFields
  <2> QED BY <1>2, <1>3, <2>1, <2>3
<1>6. FileInv'
  <2>1. FileInv BY DEF SpaceInv
  <2> QED BY <1>3, <2>1 DEF FileInv, Bounded, Slots
<1> QED BY <1>1, <1>2, <1>3, <1>4, <1>5, <1>6 DEF SpaceInv

LEMMA ClosedInv ==
  ASSUME NEW S, SpaceInv(S), NEW d, d \in [DOMAIN d -> S],
         DOMAIN d \subseteq BlockNums, Closed, disk' = d, space' = d,
         HeapOK(whole', S, DOMAIN d), Bounded(fsmFile'),
         torn' \in BOOLEAN, ~torn' => fsmFile' = whole', missed' \in BOOLEAN
  PROVE  SpaceInv(S)'
<1>1. Relation' = [fsh |-> NewHeap, max |-> INValidBlockNumber, cur |-> INValidBlockNumber,
                   space |-> d, disk |-> d]
  BY DEF Relation, Closed
<1>2. NewHeap.FSH_maxBlockNum = INValidBlockNumber BY NewHeapIs
<1>3. RelOK(Relation', S) BY <1>1, <1>2, NewHeapOK DEF RelOK
<1>4. /\ up' = FALSE /\ updating' = FALSE /\ Rel_fsh' = NewHeap /\ packed' = NoVacuum
      /\ writes' = 0
  BY DEF Closed
<1>5. FileInv' BY <1>4 DEF FileInv, Bounded, Slots
<1>6. (RelOK(Relation, S))' /\ (HeapOK(whole, S, DOMAIN disk))'
  BY <1>3 DEF RelOK
<1>7. writes' \in 0 .. 3 /\ NoVacuum = NoVacuum' BY <1>4 DEF NoVacuum
<1> QED BY <1>4, <1>5, <1>6, <1>7 DEF SpaceInv

LEMMA WorksInv ==
  ASSUME NEW S, Amounts(S), SpaceInv(S), Serving, NEW rel, RelOK(rel, S),
         DOMAIN disk \subseteq DOMAIN rel.disk, updating => IsValidBlockNumber(rel.max),
         Rel_fsh.FSH_HeapSize <= rel.fsh.FSH_HeapSize,
         Works(rel, S) \/ Dies(rel), UNCHANGED <<fsmFile, hist>>, missed' \in BOOLEAN
  PROVE  SpaceInv(S)'
<1>1. CASE Works(rel, S)
  <2>1. PICK r : /\ RelOK(r, S) /\ (Same(r, rel) \/ Longer(r, rel))
                 /\ Becomes(r) /\ UNCHANGED <<up, updating, packed, writes>>
    BY <1>1 DEF Works
  <2>2. DOMAIN disk \subseteq DOMAIN r.disk BY <2>1 DEF Same, Longer
  <2>3. updating' => IsValidBlockNumber(r.max) BY <2>1, Numbers DEF Same, Longer
  <2>4. updating' \in BOOLEAN BY <2>1 DEF SpaceInv
  <2>5. Rel_fsh.FSH_HeapSize <= r.fsh.FSH_HeapSize
    <3>1. rel.fsh.FSH_HeapSize <= r.fsh.FSH_HeapSize BY <2>1, WorksSize
    <3>2. Rel_fsh \in Heaps /\ rel.fsh \in Heaps /\ r.fsh \in Heaps
      BY <2>1, RelationIs DEF SpaceInv, RelOK, HeapOK
    <3>3. /\ Rel_fsh.FSH_HeapSize \in Nat /\ rel.fsh.FSH_HeapSize \in Nat
          /\ r.fsh.FSH_HeapSize \in Nat
      BY <3>2, HeapFields
    <3> QED BY <3>1, <3>3
  <2> QED BY <2>1, <2>2, <2>3, <2>4, <2>5, OpenInv
<1>2. CASE Dies(rel)
  <2> DEFINE d == rel.disk
  <2>1. d \in [DOMAIN d -> S] /\ DOMAIN d \subseteq BlockNums BY DEF RelOK
  <2>2. Closed /\ disk' = d /\ space' = d BY <1>2 DEF Dies
  <2>3. whole' = whole /\ torn' = torn /\ ~torn /\ writes = 0 /\ fsmFile' = fsmFile
    BY DEF hist, Serving, SpaceInv
  <2>4. HeapOK(whole', S, DOMAIN d) BY <2>3, MoreBlocks DEF SpaceInv
  <2>5. Bounded(fsmFile') /\ fsmFile' = whole' /\ torn' \in BOOLEAN
    BY <2>3 DEF SpaceInv, FileInv
  <2> HIDE DEF d
  <2> QED BY <2>1, <2>2, <2>3, <2>4, <2>5, ClosedInv
<1> QED BY <1>1, <1>2

\* A heap that was sorted has no nodes left.
LEMMA SortOK ==
  ASSUME NEW S, NEW h, NEW blocks, HeapOK(h, S, blocks)
  PROVE  LET g == FSM_uHeapSort(h)
         IN  /\ HeapOK(g, S, blocks) /\ Listed(g) = {}
             /\ g.FSH_HeapSize = h.FSH_HeapSize /\ g.FSH_maxBlockNum = h.FSH_maxBlockNum
<1> DEFINE g == FSM_uHeapSort(h)
<1>1. /\ g \in Heaps /\ g.FSH_length = 0 /\ g.FSH_HeapSize = h.FSH_HeapSize
      /\ g.FSH_maxBlockNum = h.FSH_maxBlockNum /\ Contents(g) \subseteq Contents(h)
  BY SortIs DEF HeapOK
<1> HIDE DEF g
<1>2. Nodes(g) = {} BY <1>1 DEF Nodes
<1>3. Listed(g) = {} /\ Ordered(g) /\ Distinct(g) BY <1>2 DEF Listed, Ordered, Distinct
<1>4. HeapOK(g, S, blocks) BY <1>1, <1>3 DEF HeapOK
<1> QED BY <1>1, <1>3, <1>4 DEF g

LEMMA BeginIs ==
  ASSUME NEW S, SpaceInv(S), VacuumBegin
  PROVE  /\ ~up /\ ~torn /\ fsmFile = whole /\ HeapOK(Rel_fsh', S, DOMAIN disk)
         /\ Listed(Rel_fsh') = {} /\ Rel_fsh'.FSH_HeapSize = whole.FSH_HeapSize
         /\ Rel_fsh'.FSH_maxBlockNum = whole.FSH_maxBlockNum
         /\ IsValidBlockNumber(whole.FSH_maxBlockNum)
         /\ Rel_curMaxBlock' = whole.FSH_maxBlockNum
<1>1. ~up /\ ~torn /\ writes = 0 BY DEF VacuumBegin, SpaceInv
<1>2. fsmFile = whole /\ HeapOK(whole, S, DOMAIN disk) BY <1>1 DEF SpaceInv, FileInv
<1>3. Rel_fsh' = FSM_uHeapSort(whole) BY <1>2 DEF VacuumBegin, FSM_CreateHeapFromFile
<1> QED BY <1>1, <1>2, <1>3, SortOK DEF VacuumBegin, FSM_CreateHeapFromFile

LEMMA PackIs ==
  ASSUME NEW S, Amounts(S), SpaceInv(S), NEW gain \in Reclaims, PackBlock(gain)
  PROVE  LET n == disk[packed] + gain
             item == [freeSpaceSize |-> n, blockNum |-> packed]
         IN  /\ VacuumInv /\ packed \in Nat /\ packed < Rel_curMaxBlock
             /\ packed \in DOMAIN disk /\ packed \in BlockNums /\ n \in S \cap Spaces
             /\ disk' = [disk EXCEPT ![packed] = n] /\ space' = disk'
             /\ HeapOK(Rel_fsh', S, DOMAIN disk)
             /\ Rel_fsh.FSH_HeapSize <= Rel_fsh'.FSH_HeapSize
             /\ Rel_fsh'.FSH_maxBlockNum = Rel_fsh.FSH_maxBlockNum
             /\ \A x \in Listed(Rel_fsh) : x.blockNum # packed
             /\ Listed(Rel_fsh') = Listed(Rel_fsh) \cup {item}
<1> DEFINE n == disk[packed] + gain
<1>1. VacuumInv /\ packed < Rel_curMaxBlock /\ n \in Spaces
  BY DEF PackBlock, SpaceInv
<1>2. RelOK(Relation, S) /\ HeapOK(Rel_fsh, S, DOMAIN disk)
      /\ Rel_curMaxBlock = Rel_fsh.FSH_maxBlockNum
  BY RelationIs DEF SpaceInv, RelOK
<1>3. /\ IsValidBlockNumber(Rel_curMaxBlock) /\ packed \in 0 .. Rel_curMaxBlock
      /\ \A x \in Listed(Rel_fsh) : x.blockNum < packed
  BY <1>1 DEF VacuumInv
<1>4. /\ Rel_curMaxBlock \in BlockNums /\ Rel_curMaxBlock \in Nat
      /\ 0 .. Rel_curMaxBlock \subseteq DOMAIN disk
  BY <1>2, <1>3, Numbers DEF HeapOK
<1>5. packed \in Nat /\ packed \in DOMAIN disk /\ packed \in BlockNums
  BY <1>3, <1>4, Numbers
<1>6. disk[packed] \in S BY <1>2, <1>5, RelationIs DEF RelOK
<1>7. n \in S BY <1>1, <1>6 DEF Amounts
<1>8. \A x \in Listed(Rel_fsh) : x.blockNum # packed BY <1>3, <1>5
<1>9. /\ disk' = [disk EXCEPT ![packed] = n] /\ space' = disk'
      /\ Rel_fsh' = FSM_vAddNodeToHeap(Rel_fsh, [freeSpaceSize |-> n, blockNum |-> packed])
  BY DEF PackBlock
<1> HIDE DEF n
<1>10. packed <= Rel_fsh.FSH_maxBlockNum BY <1>2, <1>3, <1>4
<1>11. /\ HeapOK(Rel_fsh', S, DOMAIN disk)
       /\ Rel_fsh.FSH_HeapSize <= Rel_fsh'.FSH_HeapSize
       /\ Listed(Rel_fsh') = Listed(Rel_fsh) \cup {[freeSpaceSize |-> n, blockNum |-> packed]}
       /\ Rel_fsh'.FSH_maxBlockNum = Rel_fsh.FSH_maxBlockNum
  BY <1>1, <1>2, <1>3, <1>5, <1>7, <1>8, <1>9, <1>10, AddListed
<1> QED BY <1>1, <1>5, <1>7, <1>8, <1>9, <1>11 DEF n

LEMMA SpaceInit ==
  ASSUME NEW S, Amounts(S), Init
  PROVE  SpaceInv(S)
<1>1. Relation = [fsh |-> NewHeap, max |-> INValidBlockNumber, cur |-> INValidBlockNumber,
                  space |-> space, disk |-> disk]
      /\ space = disk /\ DOMAIN disk = {}
  BY DEF Relation, Init
<1>2. disk \in [{} -> S] BY <1>1
<1>3. NewHeap.FSH_maxBlockNum = INValidBlockNumber BY NewHeapIs
<1>4. RelOK(Relation, S) BY <1>1, <1>2, <1>3, NewHeapOK DEF RelOK
<1>5. HeapOK(NewHeap, S, DOMAIN disk) /\ Bounded(NewHeap) BY NewHeapOK, HeapBounded
<1>6. FileInv BY <1>5 DEF FileInv, Init
<1>7. writes \in 0 .. 3 /\ packed = NoVacuum BY DEF Init
<1> QED BY <1>4, <1>5, <1>6, <1>7 DEF SpaceInv, Init

LEMMA SpaceStep ==
  ASSUME NEW S, Amounts(S), SpaceInv(S), [Next]_fsVars
  PROVE  SpaceInv(S)'
<1>0. /\ RelOK(Relation, S) /\ HeapOK(Rel_fsh, S, DOMAIN disk) /\ HeapOK(whole, S, DOMAIN disk)
      /\ disk \in [DOMAIN disk -> S] /\ DOMAIN disk \subseteq BlockNums
      /\ space \in [DOMAIN disk -> S] /\ Rel_fsh.FSH_maxBlockNum = Rel_curMaxBlock
      /\ Rel_curBlock \in BlockNums \cup {INValidBlockNumber}
  BY RelationIs DEF SpaceInv, RelOK
<1>0a. \A n \in Nat : n <= n OBVIOUS
<1>0b. whole.FSH_HeapSize \in Nat /\ Rel_fsh.FSH_HeapSize \in Nat
  BY <1>0, HeapFields DEF HeapOK
<1>1. CASE UNCHANGED fsVars
  BY <1>1 DEF fsVars, hist, SpaceInv, FileInv, VacuumInv, Bounded, Slots, Relation
<1>1a. CASE StartsTorn
  BY <1>1, <1>1a DEF StartsTorn
<1>2. CASE Rel_CreateRelation
  <2> DEFINE r == [fsh |-> whole, max |-> whole.FSH_maxBlockNum,
                   cur |-> Rel_curBlock, space |-> space, disk |-> disk]
  <2>1. RelOK(r, S) BY <1>0 DEF RelOK
  <2>2. /\ ~up /\ ~torn /\ up' = TRUE
        /\ UNCHANGED <<Rel_curBlock, updating, packed, writes, space, disk, fsmFile, hist>>
        /\ missed' = FALSE
    BY <1>2 DEF Rel_CreateRelation
  <2>3. writes = 0 /\ packed = NoVacuum /\ ~updating /\ fsmFile = whole
    BY <2>2 DEF SpaceInv, FileInv
  <2>4. Rel_fsh' = whole /\ Rel_curMaxBlock' = whole.FSH_maxBlockNum
    BY <1>2, <2>3 DEF Rel_CreateRelation, FSM_CreateHeapFromFile
  <2>5. Relation' = r BY <2>2, <2>4 DEF Relation
  <2>6. whole' = whole /\ torn' = torn BY <2>2 DEF hist
  <2>7. FileInv' BY <2>2, <2>3, <2>6 DEF SpaceInv, FileInv, Bounded, Slots
  <2>8. whole'.FSH_HeapSize <= Rel_fsh'.FSH_HeapSize BY <1>0a, <1>0b, <2>4, <2>6
  <2> HIDE DEF r
  <2> QED BY <1>0, <2>1, <2>2, <2>3, <2>5, <2>6, <2>7, <2>8 DEF SpaceInv
<1>3. ASSUME NEW need \in InsertNeeds, Tup_vInsert(need) PROVE SpaceInv(S)'
  <2>1. PICK r : /\ Serving /\ ~updating /\ UNCHANGED <<fsmFile, hist>>
                 /\ RelOK(r, S) /\ DOMAIN disk \subseteq DOMAIN r.disk
                 /\ Rel_fsh.FSH_HeapSize <= r.fsh.FSH_HeapSize
                 /\ missed' \in BOOLEAN
                 /\ Works(r, S) \/ Dies(r)
    BY <1>3, InsertStep, RelationIs DEF Got
  <2> QED BY <2>1, WorksInv
<1>4. CASE UpdateBegin
  <2> DEFINE r == Rel_AppendNewBlock(Relation)
  <2>1. /\ NextBlock(Relation) \in BlockNums /\ Becomes(r) /\ Serving
        /\ updating' = TRUE /\ missed' = FALSE
        /\ UNCHANGED <<up, packed, writes, fsmFile, hist>>
    BY <1>4 DEF UpdateBegin
  <2>2. /\ RelOK(r, S) /\ r.max = NextBlock(Relation)
        /\ DOMAIN r.disk = DOMAIN disk \cup {NextBlock(Relation)}
        /\ Rel_fsh.FSH_HeapSize <= r.fsh.FSH_HeapSize
    BY <1>0, <2>1, AppendOK, RelationIs
  <2>3. IsValidBlockNumber(r.max) BY <2>1, <2>2, Numbers
  <2> HIDE DEF r
  <2> QED BY <2>1, <2>2, <2>3, OpenInv
<1>5. ASSUME NEW need \in AppendNeeds, Tup_vAppend(need) PROVE SpaceInv(S)'
  <2>1. /\ Serving /\ UNCHANGED <<fsmFile, hist>> /\ missed' \in BOOLEAN
        /\ Works(Relation, S) \/ Dies(Relation)
    <3>1. missed' = FALSE BY <1>5 DEF Tup_vAppend
    <3> QED BY <1>5, <3>1, AppendStep
  <2>2. updating => IsValidBlockNumber(Relation.max) BY RelationIs DEF SpaceInv
  <2>3. Rel_fsh.FSH_HeapSize <= Relation.fsh.FSH_HeapSize BY <1>0a, <1>0b, RelationIs
  <2> QED BY <1>0, <2>1, <2>2, <2>3, WorksInv, RelationIs
<1>6. CASE UpdateEnd
  <2> DEFINE r == Relation
  <2>1. /\ Serving /\ updating' = FALSE /\ missed' = FALSE
        /\ UNCHANGED <<up, packed, writes, fsmFile, hist>> /\ Becomes(r)
    BY <1>6, RelationIs DEF UpdateEnd, Becomes
  <2>2. DOMAIN disk \subseteq DOMAIN r.disk /\ Rel_fsh.FSH_HeapSize <= r.fsh.FSH_HeapSize
    BY <1>0a, <1>0b, RelationIs
  <2> HIDE DEF r
  <2>3. RelOK(r, S) BY <1>0 DEF r
  <2> QED BY <2>1, <2>2, <2>3, OpenInv
<1>7. ASSUME NEW b \in DOMAIN space, Replace(b) PROVE SpaceInv(S)'
  <2> DEFINE r == [fsh |-> Rel_fsh, max |-> Rel_curMaxBlock, cur |-> Rel_curBlock,
                   space |-> [space EXCEPT ![b] = disk[b]], disk |-> disk]
  <2>1. [space EXCEPT ![b] = disk[b]] \in [DOMAIN disk -> S] BY <1>0
  <2>2. RelOK(r, S) BY <1>0, <2>1, RelationIs DEF RelOK
  <2>3. /\ Becomes(r) /\ UNCHANGED <<up, updating, packed, writes, fsmFile, hist>>
        /\ Serving /\ missed' = FALSE /\ r.disk = disk /\ r.fsh = Rel_fsh
        /\ r.max = Rel_curMaxBlock
    BY <1>7 DEF Replace, Becomes
  <2>4. Rel_fsh.FSH_HeapSize <= r.fsh.FSH_HeapSize BY <1>0a, <1>0b, <2>3
  <2> HIDE DEF r
  <2>5. updating' \in BOOLEAN /\ (updating' => IsValidBlockNumber(r.max)) BY <2>3 DEF SpaceInv
  <2> QED BY <2>2, <2>3, <2>4, <2>5, OpenInv
<1>8. CASE VacuumBegin
  <2> DEFINE r == [fsh |-> Rel_fsh', max |-> Rel_curMaxBlock', cur |-> Rel_curBlock,
                   space |-> space, disk |-> disk]
  <2>1. /\ ~up /\ ~torn /\ fsmFile = whole /\ HeapOK(Rel_fsh', S, DOMAIN disk)
        /\ Listed(Rel_fsh') = {} /\ Rel_fsh'.FSH_HeapSize = whole.FSH_HeapSize
        /\ Rel_fsh'.FSH_maxBlockNum = whole.FSH_maxBlockNum
        /\ IsValidBlockNumber(whole.FSH_maxBlockNum)
        /\ Rel_curMaxBlock' = whole.FSH_maxBlockNum
    BY <1>8, BeginIs
  <2>2. /\ up' = TRUE /\ packed' = 0 /\ missed' = FALSE
        /\ UNCHANGED <<Rel_curBlock, updating, writes, space, disk, fsmFile, hist>>
    BY <1>8 DEF VacuumBegin
  <2>3. RelOK(r, S) BY <1>0, <2>1 DEF RelOK
  <2>4. Relation' = r BY <2>2 DEF Relation
  <2>5. writes = 0 /\ ~updating BY <2>1 DEF SpaceInv
  <2>6. whole' = whole /\ torn' = torn BY <2>2 DEF hist
  <2>7. FileInv' BY <2>1, <2>2, <2>5, <2>6 DEF SpaceInv, FileInv, Bounded, Slots
  <2>8. whole'.FSH_HeapSize <= Rel_fsh'.FSH_HeapSize BY <1>0a, <1>0b, <2>1, <2>6
  <2>9. VacuumInv'
    <3>1. whole.FSH_maxBlockNum \in Nat BY <1>0, <2>1, Numbers DEF HeapOK
    <3>2. 0 \in 0 .. Rel_curMaxBlock' BY <2>1, <3>1
    <3>3. \A item \in Listed(Rel_fsh') : item.blockNum < packed' BY <2>1
    <3> QED BY <2>1, <2>2, <2>5, <3>2, <3>3 DEF VacuumInv, Listed, Nodes
  <2> HIDE DEF r
  <2> QED BY <1>0, <2>1, <2>2, <2>3, <2>4, <2>5, <2>6, <2>7, <2>8, <2>9 DEF SpaceInv
<1>9. ASSUME NEW gain \in Reclaims, PackBlock(gain) PROVE SpaceInv(S)'
  <2> DEFINE n == disk[packed] + gain
             r == [fsh |-> Rel_fsh', max |-> Rel_curMaxBlock, cur |-> Rel_curBlock,
                   space |-> disk', disk |-> disk']
  <2>1. /\ VacuumInv /\ packed \in Nat /\ packed < Rel_curMaxBlock
        /\ packed \in DOMAIN disk /\ n \in S
        /\ disk' = [disk EXCEPT ![packed] = n] /\ space' = disk'
        /\ HeapOK(Rel_fsh', S, DOMAIN disk)
        /\ Rel_fsh.FSH_HeapSize <= Rel_fsh'.FSH_HeapSize
        /\ Rel_fsh'.FSH_maxBlockNum = Rel_fsh.FSH_maxBlockNum
        /\ Listed(Rel_fsh') = Listed(Rel_fsh) \cup {[freeSpaceSize |-> n, blockNum |-> packed]}
    BY <1>9, PackIs
  <2>2. /\ up /\ packed' = packed + 1 /\ missed' = FALSE /\ writes = 0
        /\ UNCHANGED <<up, Rel_curMaxBlock, Rel_curBlock, updating, writes, fsmFile, hist>>
    BY <1>9 DEF PackBlock
  <2> HIDE DEF n
  <2>3. DOMAIN disk' = DOMAIN disk /\ disk' \in [DOMAIN disk -> S] BY <1>0, <2>1
  <2>4. RelOK(r, S) BY <1>0, <2>1, <2>3 DEF RelOK
  <2>5. Relation' = r BY <2>1, <2>2 DEF Relation
  <2>6. whole' = whole /\ torn' = torn BY <2>2 DEF hist
  <2>7. FileInv' BY <2>2, <2>6 DEF SpaceInv, FileInv, Bounded, Slots
  <2>8. whole'.FSH_HeapSize <= Rel_fsh'.FSH_HeapSize
    <3>1. Rel_fsh'.FSH_HeapSize \in Nat BY <2>1, HeapFields DEF HeapOK
    <3>2. whole.FSH_HeapSize <= Rel_fsh.FSH_HeapSize BY <2>2 DEF SpaceInv
    <3> QED BY <1>0b, <2>1, <2>6, <3>1, <3>2
  <2>9. VacuumInv'
    <3>1. /\ up' /\ ~updating' /\ IsValidBlockNumber(Rel_curMaxBlock')
          /\ \A item \in Listed(Rel_fsh) : item.blockNum < packed
      BY <2>1, <2>2 DEF VacuumInv
    <3>2. packed + 1 \in 0 .. Rel_curMaxBlock
      <4>1. Rel_curMaxBlock \in Int
        BY <1>0, HeapFields DEF HeapOK
      <4> QED BY <2>1, <4>1
    <3>3. \A item \in Listed(Rel_fsh') : item.blockNum < packed + 1
      <4> TAKE item \in Listed(Rel_fsh')
      <4>1. CASE item \in Listed(Rel_fsh)
        <5>1. item.blockNum < packed /\ item \in Entries BY <3>1, <4>1, <1>0 DEF HeapOK
        <5>2. item.blockNum \in Nat BY <5>1, Numbers DEF Entries
        <5> QED BY <2>1, <5>1, <5>2
      <4>2. CASE item = [freeSpaceSize |-> n, blockNum |-> packed] BY <2>1, <4>2
      <4> QED BY <2>1, <4>1, <4>2
    <3> QED BY <2>2, <3>1, <3>2, <3>3 DEF VacuumInv, Listed, Nodes
  <2> HIDE DEF r
  <2>10. HeapOK(whole', S, DOMAIN disk') BY <1>0, <2>3, <2>6
  <2>11. ~torn /\ ~updating BY <2>1, <2>2 DEF SpaceInv, VacuumInv
  <2> QED BY <2>2, <2>4, <2>5, <2>6, <2>7, <2>8, <2>9, <2>10, <2>11 DEF SpaceInv
<1>10. CASE FSM_vFlushHeapToFile
  <2>1. /\ up /\ ~updating /\ writes < 3 /\ writes' = writes + 1 /\ missed' = FALSE
        /\ fsmFile' = Written(writes + 1)
        /\ UNCHANGED <<up, Rel_fsh, Rel_curMaxBlock, Rel_curBlock, updating, packed,
                       space, disk, hist>>
    BY <1>10 DEF FSM_vFlushHeapToFile, AtEnd
  <2>2. fsmFile' = Mixed(whole, Rel_fsh, writes') BY <2>1, WrittenIs
  <2>3. whole' = whole /\ torn' = torn /\ Relation' = Relation BY <2>1 DEF hist, Relation
  <2>4. writes' \in 1 .. 3 BY <2>1 DEF SpaceInv
  <2>5. whole.FSH_HeapSize <= Rel_fsh.FSH_HeapSize BY <2>1 DEF SpaceInv
  <2>6. Bounded(Mixed(whole, Rel_fsh, writes'))
    <3> DEFINE k == writes'
    <3>1. k \in 1 .. 3 BY <2>4
    <3> HIDE DEF k
    <3>2. Bounded(Mixed(whole, Rel_fsh, k)) BY <1>0, <2>5, <3>1, MixedBounded
    <3> QED BY <3>2 DEF k
  <2>7. FileInv'
    <3>1. Mixed(whole, Rel_fsh, writes')  = Mixed(whole', Rel_fsh', writes')
      BY <2>1, <2>3
    <3>2. fsmFile' = Mixed(whole', Rel_fsh', writes') /\ Bounded(fsmFile')
      BY <2>2, <2>6, <3>1
    <3>3. (Bounded(fsmFile))' /\ (fsmFile = Mixed(whole, Rel_fsh, writes))'
      BY <3>2 DEF Bounded, Mixed, Slots
    <3>4. writes' # 0 /\ up' BY <2>1, <2>4
    <3> QED BY <3>3, <3>4 DEF FileInv
  <2>8. (packed # NoVacuum => VacuumInv)' BY <2>1 DEF SpaceInv, VacuumInv, Listed, Nodes
  <2>9. (RelOK(Relation, S))' /\ (HeapOK(whole, S, DOMAIN disk))'
    BY <1>0, <2>1, <2>3 DEF RelOK
  <2>10. writes' \in 0 .. 3 BY <2>4
  <2> QED BY <2>1, <2>3, <2>5, <2>7, <2>8, <2>9, <2>10 DEF SpaceInv
<1>11. CASE Rel_vDestoryRelation
  <2>1. /\ up /\ writes = 3 /\ fsmFile' = FlushedHeap /\ Closed /\ space' = disk
        /\ whole' = Rel_fsh /\ missed' = FALSE /\ disk' = disk /\ torn' = torn
    BY <1>11 DEF Rel_vDestoryRelation, AtEnd
  <2>2. fsmFile' = Rel_fsh BY <2>1, FlushedIs
  <2>3. Bounded(Rel_fsh) BY <1>0, HeapBounded
  <2>4. HeapOK(whole', S, DOMAIN disk) /\ Bounded(fsmFile') BY <1>0, <2>1, <2>2, <2>3
  <2>5. torn' \in BOOLEAN BY <2>1 DEF SpaceInv
  <2> QED BY <1>0, <2>1, <2>2, <2>4, <2>5, ClosedInv
<1>12. CASE Crash
  <2>1. /\ Closed /\ space' = disk /\ disk' = disk /\ fsmFile' = fsmFile /\ missed' = FALSE
        /\ torn' = (fsmFile \notin {whole, Rel_fsh})
        /\ whole' = IF torn' THEN NewHeap ELSE fsmFile
    BY <1>12 DEF Crash
  <2>2. HeapOK(whole', S, DOMAIN disk) BY <1>0, <2>1, NewHeapOK
  <2>3. Bounded(fsmFile') BY <2>1 DEF SpaceInv, FileInv
  <2>4. torn' \in BOOLEAN /\ (~torn' => fsmFile' = whole') BY <2>1
  <2> QED BY <1>0, <2>1, <2>2, <2>3, <2>4, ClosedInv
<1> QED
  BY <1>1, <1>1a, <1>2, <1>3, <1>4, <1>5, <1>6, <1>7, <1>8, <1>9, <1>10, <1>11, <1>12,
     Zenon DEF Next

\* The fields and the array of every heap keep their types, and the heap stays in
\* its array, in memory and between any two writes of the file.
THEOREM TypeCorrect == Spec => []TypeOK
<1>1. SpaceInv(Spaces) => TypeOK
  <2> SUFFICES ASSUME SpaceInv(Spaces) PROVE TypeOK OBVIOUS
  <2>1. /\ RelOK(Relation, Spaces) /\ up \in BOOLEAN /\ updating \in BOOLEAN
        /\ torn \in BOOLEAN /\ missed \in BOOLEAN /\ writes \in 0 .. 3
    BY DEF SpaceInv
  <2>2. /\ Rel_curMaxBlock = INValidBlockNumber \/ Rel_curMaxBlock \in BlockNums
        /\ Rel_curBlock \in BlockNums \cup {INValidBlockNumber}
        /\ DOMAIN space = DOMAIN disk /\ DOMAIN disk \subseteq BlockNums
        /\ space \in [DOMAIN disk -> Spaces] /\ disk \in [DOMAIN disk -> Spaces]
        /\ HeapOK(Rel_fsh, Spaces, DOMAIN disk)
    BY <2>1, RelationIs DEF RelOK, HeapOK
  <2>3. Bounded(Rel_fsh) /\ Bounded(fsmFile) BY <2>2, HeapBounded DEF SpaceInv, FileInv
  <2>4. packed \in BlockNums \cup {NoVacuum}
    <3>1. packed # NoVacuum => IsValidBlockNumber(Rel_curMaxBlock) /\ packed \in 0 .. Rel_curMaxBlock
      BY DEF SpaceInv, VacuumInv
    <3> QED BY <2>2, <3>1, Numbers
  <2>5. \A fsh \in {Rel_fsh, fsmFile} :
          /\ DOMAIN fsh.FSH_heap = Slots(fsh)
          /\ \A i \in Slots(fsh) : fsh.FSH_heap[i] \in Entries \cup {Junk}
          /\ fsh.FSH_length + 1 \in Slots(fsh)
    BY <2>3 DEF Bounded
  <2> QED BY <2>1, <2>2, <2>4, <2>5, Zenon DEF TypeOK
<1>2. Init => SpaceInv(Spaces) BY AllSpaces, SpaceInit
<1>3. SpaceInv(Spaces) /\ [Next]_fsVars => SpaceInv(Spaces)' BY AllSpaces, SpaceStep
<1> QED BY <1>1, <1>2, <1>3, PTL DEF Spec

\* The heap of a process is in order and lists no block twice, whatever is added,
\* served, dropped, saved, read back and rebuilt, if it started from a file that
\* the last process saved to the end or did not touch.
THEOREM Ordering == Spec => []HeapOrdered
<1>1. SpaceInv(Spaces) => HeapOrdered
  <2> SUFFICES ASSUME SpaceInv(Spaces), NEW i \in Nodes(Rel_fsh), NEW j \in Nodes(Rel_fsh)
               PROVE  /\ i = j \div 2 => Size(Rel_fsh, i) >= Size(Rel_fsh, j)
                      /\ Rel_fsh.FSH_heap[i].blockNum = Rel_fsh.FSH_heap[j].blockNum => i = j
    BY DEF HeapOrdered
  <2>1. Rel_fsh \in Heaps /\ Ordered(Rel_fsh) /\ Distinct(Rel_fsh)
    BY RelationIs DEF SpaceInv, RelOK, HeapOK
  <2>2. i \in Nat /\ i # 0 /\ j \in Nat BY <2>1, HeapFields DEF Nodes
  <2>3. i = j \div 2 => j # 1 BY <2>2
  <2> QED BY <2>1, <2>3 DEF Ordered, Edge, Distinct
<1>2. Init => SpaceInv(Spaces) BY AllSpaces, SpaceInit
<1>3. SpaceInv(Spaces) /\ [Next]_fsVars => SpaceInv(Spaces)' BY AllSpaces, SpaceStep
<1> QED BY <1>1, <1>2, <1>3, PTL DEF Spec

-----------------------------------------------------------------------------
\* An insert gets a block.

LEMMA MissedStep ==
  ASSUME NEW S, Amounts(S), SpaceInv(S), NEW need \in InsertNeeds, Tup_vInsert(need), missed'
  PROVE  \E item \in Listed(Rel_fsh) : item.freeSpaceSize = need
<1>0. RelOK(Relation, S) BY DEF SpaceInv
<1>1. PICK r : Got(r, Relation, S, need) /\ ~IsValidBlockNumber(r.cur)
  BY InsertStep
<1>2. NextBlock(Relation) \in BlockNums /\ Missed(r, Rel_AppendNewBlock(Relation), need)
  BY <1>1 DEF Got, Asked
<1>3. \E item \in Listed(Relation.fsh) : item.freeSpaceSize = need
  BY <1>0, <1>2, MissedTwice
<1> QED BY <1>3, RelationIs

\* An insert gets no block only if some block listed has exactly what its tuple needs.
THEOREM MissOnTie == Spec => MissedOnlyOnTie
<1>1. Init => SpaceInv(Spaces) BY AllSpaces, SpaceInit
<1>2. SpaceInv(Spaces) /\ [Next]_fsVars => SpaceInv(Spaces)' BY AllSpaces, SpaceStep
<1>3. SpaceInv(Spaces) /\ [Next]_fsVars =>
        [\A need \in InsertNeeds :
           Tup_vInsert(need) /\ missed'
             => \E item \in Listed(Rel_fsh) : item.freeSpaceSize = need]_fsVars
  BY AllSpaces, MissedStep
<1> QED BY <1>1, <1>2, <1>3, PTL DEF Spec, MissedOnlyOnTie

\* No amount that a block can come to be left with is one that a tuple needs.
NoTies == \E S \in SUBSET Spaces : Amounts(S) /\ S \cap InsertNeeds = {}

LEMMA FoundStep ==
  ASSUME NEW S, Amounts(S), S \cap InsertNeeds = {}, SpaceInv(S), ~missed, [Next]_fsVars
  PROVE  ~missed'
<1>1. ASSUME NEW need \in InsertNeeds, Tup_vInsert(need) PROVE ~missed'
  <2> SUFFICES ASSUME missed' PROVE FALSE OBVIOUS
  <2>1. PICK item \in Listed(Rel_fsh) : item.freeSpaceSize = need BY <1>1, MissedStep
  <2>2. item.freeSpaceSize \in S BY RelationIs DEF SpaceInv, RelOK, HeapOK
  <2> QED BY <2>1, <2>2
<1>2. CASE UNCHANGED fsVars \/ StartsTorn BY <1>2 DEF fsVars, StartsTorn
<1>3. CASE \/ Rel_CreateRelation \/ UpdateBegin \/ UpdateEnd \/ VacuumBegin
           \/ FSM_vFlushHeapToFile \/ Rel_vDestoryRelation \/ Crash
           \/ \E need \in AppendNeeds : Tup_vAppend(need)
           \/ \E b \in DOMAIN space : Replace(b)
           \/ \E gain \in Reclaims : PackBlock(gain)
  BY <1>3 DEF Rel_CreateRelation, UpdateBegin, UpdateEnd, VacuumBegin, FSM_vFlushHeapToFile,
              Rel_vDestoryRelation, Crash, Tup_vAppend, Replace, PackBlock
<1> QED BY <1>1, <1>2, <1>3, Zenon DEF Next

\* Then every insert gets a block, whatever crashes, is updated or packed, if the
\* process started from a heap that was saved to the end.
THEOREM AlwaysFound == NoTies => (Spec => []BlockFound)
<1> SUFFICES ASSUME NoTies PROVE Spec => []BlockFound OBVIOUS
<1>0. PICK S \in SUBSET Spaces : Amounts(S) /\ S \cap InsertNeeds = {} BY DEF NoTies
<1> DEFINE I == SpaceInv(S) /\ ~missed
<1>1. Init => I
  <2>1. Init => SpaceInv(S) BY <1>0, SpaceInit
  <2> QED BY <2>1 DEF Init
<1>2. I /\ [Next]_fsVars => I' BY <1>0, SpaceStep, FoundStep
<1>3. I => BlockFound BY DEF BlockFound
<1> HIDE DEF I
<1> QED BY <1>1, <1>2, <1>3, PTL DEF Spec

-----------------------------------------------------------------------------
\* The last block.

Ends(rel) == \A b \in DOMAIN rel.disk : IsValidBlockNumber(rel.max) /\ b <= rel.max

LEMMA EndsGrow ==
  ASSUME NEW S, NEW rel, RelOK(rel, S), Ends(rel), NextBlock(rel) \in BlockNums,
         NEW r, r.max = NextBlock(rel), DOMAIN r.disk = DOMAIN rel.disk \cup {NextBlock(rel)}
  PROVE  Ends(r)
<1> SUFFICES ASSUME NEW b \in DOMAIN rel.disk \cup {NextBlock(rel)}
             PROVE  IsValidBlockNumber(NextBlock(rel)) /\ b <= NextBlock(rel)
  BY DEF Ends
<1>1. IsValidBlockNumber(NextBlock(rel)) /\ NextBlock(rel) \in Nat BY Numbers
<1>2. CASE b = NextBlock(rel) BY <1>1, <1>2
<1>3. CASE b \in DOMAIN rel.disk
  <2>1. b \in Nat /\ IsValidBlockNumber(rel.max) /\ b <= rel.max
    BY <1>3, Numbers DEF Ends, RelOK
  <2>2. rel.max \in Nat
    <3>1. rel.max = INValidBlockNumber \/ rel.max \in BlockNums BY RelFields
    <3> QED BY <2>1, <3>1, Numbers
  <2>3. NextBlock(rel) = rel.max + 1 BY <2>1 DEF NextBlock
  <2> QED BY <1>1, <2>1, <2>2, <2>3
<1> QED BY <1>2, <1>3

LEMMA EndsOn ==
  ASSUME NEW S, NEW rel, RelOK(rel, S), Ends(rel), Works(rel, S)
  PROVE  Covers(Rel_fsh', DOMAIN disk')
<1>1. PICK r : RelOK(r, S) /\ (Same(r, rel) \/ Longer(r, rel)) /\ Becomes(r)
  BY DEF Works
<1>2. Ends(r)
  <2>1. CASE Same(r, rel) BY <2>1 DEF Same, Ends
  <2>2. CASE Longer(r, rel)
    <3>1. /\ NextBlock(rel) \in BlockNums /\ r.max = NextBlock(rel)
          /\ DOMAIN r.disk = DOMAIN rel.disk \cup {NextBlock(rel)}
      BY <2>2 DEF Longer
    <3> QED BY <3>1, EndsGrow
  <2> QED BY <1>1, <2>1, <2>2
<1>3. r.max = r.fsh.FSH_maxBlockNum BY <1>1 DEF RelOK
<1> QED BY <1>1, <1>2, <1>3 DEF Becomes, Ends, Covers

LEMMA EndsGot ==
  ASSUME NEW S, Amounts(S), NEW rel, RelOK(rel, S), Ends(rel), NEW r, NEW need, Got(r, rel, S, need)
  PROVE  Ends(r)
<1>1. CASE Asked(r, rel, need) BY <1>1 DEF Asked, Ends
<1>2. CASE NextBlock(rel) \in BlockNums /\ Asked(r, Rel_AppendNewBlock(rel), need)
  <2> DEFINE new == Rel_AppendNewBlock(rel)
  <2>1. new.max = NextBlock(rel) /\ DOMAIN new.disk = DOMAIN rel.disk \cup {NextBlock(rel)}
    BY <1>2, AppendOK
  <2>2. r.max = new.max /\ r.disk = new.disk BY <1>2 DEF Asked
  <2> HIDE DEF new
  <2> QED BY <1>2, <2>1, <2>2, EndsGrow
<1> QED BY <1>1, <1>2 DEF Got

LEMMA CoversStep ==
  ASSUME ~Crashes, SpaceInv(Spaces), CoversInv, [Next]_fsVars
  PROVE  CoversInv'
<1>0. /\ Amounts(Spaces) /\ RelOK(Relation, Spaces)
      /\ Relation.max = Rel_fsh.FSH_maxBlockNum /\ HeapOK(Rel_fsh, Spaces, DOMAIN disk)
  BY AllSpaces, RelationIs DEF SpaceInv, RelOK
<1>1. CASE UNCHANGED fsVars \/ StartsTorn
  BY <1>1 DEF StartsTorn, fsVars, hist, CoversInv, Covers, Current
<1>2. CASE Rel_CreateRelation
  <2>1. /\ ~up /\ ~torn /\ up' /\ Rel_fsh' = fsmFile /\ disk' = disk
    BY <1>2 DEF Rel_CreateRelation, FSM_CreateHeapFromFile
  <2>2. fsmFile = whole BY <2>1 DEF SpaceInv, FileInv
  <2> QED BY <2>1, <2>2 DEF CoversInv, Covers, Current
<1>3. up => Ends(Relation)
  BY <1>0, RelationIs DEF CoversInv, Current, Covers, Ends
<1>4. ASSUME NEW need \in InsertNeeds, Tup_vInsert(need) PROVE CoversInv'
  <2>1. PICK r : /\ up /\ Got(r, Relation, Spaces, need)
                 /\ Works(r, Spaces) \/ Dies(r)
    BY <1>0, <1>4, InsertStep DEF Serving
  <2>2. Works(r, Spaces) BY <2>1 DEF Dies
  <2>3. RelOK(r, Spaces) /\ Ends(r) BY <1>0, <1>3, <2>1, EndsGot DEF Got
  <2>4. Covers(Rel_fsh', DOMAIN disk') /\ up' BY <2>1, <2>2, <2>3, EndsOn DEF Works
  <2> QED BY <2>4 DEF CoversInv, Covers, Current
<1>5. CASE UpdateBegin
  <2> DEFINE r == Rel_AppendNewBlock(Relation)
  <2>1. NextBlock(Relation) \in BlockNums /\ Becomes(r) /\ up /\ up' = up
    BY <1>5 DEF UpdateBegin, Serving
  <2>2. /\ RelOK(r, Spaces) /\ r.max = NextBlock(Relation)
        /\ DOMAIN r.disk = DOMAIN Relation.disk \cup {NextBlock(Relation)}
    BY <1>0, <2>1, AppendOK
  <2> HIDE DEF r
  <2>3. Ends(r) BY <1>0, <1>3, <2>1, <2>2, EndsGrow
  <2>4. r.max = r.fsh.FSH_maxBlockNum BY <2>2 DEF RelOK
  <2> QED BY <2>1, <2>3, <2>4 DEF Becomes, Ends, Covers, CoversInv, Current
<1>6. ASSUME NEW need \in AppendNeeds, Tup_vAppend(need) PROVE CoversInv'
  <2>1. up /\ (Works(Relation, Spaces) \/ Dies(Relation)) BY <1>0, <1>6, AppendStep DEF Serving
  <2>2. Works(Relation, Spaces) BY <2>1 DEF Dies
  <2>3. Covers(Rel_fsh', DOMAIN disk') /\ up' BY <1>0, <1>3, <2>1, <2>2, EndsOn DEF Works
  <2> QED BY <2>3 DEF CoversInv, Covers, Current
<1>7. CASE UpdateEnd \/ (\E b \in DOMAIN space : Replace(b)) \/ FSM_vFlushHeapToFile
  BY <1>7 DEF UpdateEnd, Replace, FSM_vFlushHeapToFile, hist, CoversInv, Covers, Current
<1>8. CASE Rel_vDestoryRelation
  <2>1. whole' = Rel_fsh /\ disk' = disk /\ ~up' /\ up
    BY <1>8 DEF Rel_vDestoryRelation, AtEnd, Closed
  <2> QED BY <2>1 DEF CoversInv, Covers, Current
<1>9. ~Crash BY DEF Crash
<1>10. CASE VacuumBegin
  <2>1. ~up /\ Rel_fsh'.FSH_maxBlockNum = whole.FSH_maxBlockNum BY <1>10, BeginIs
  <2>2. up' /\ disk' = disk BY <1>10 DEF VacuumBegin
  <2> QED BY <2>1, <2>2 DEF CoversInv, Covers, Current
<1>11. ASSUME NEW gain \in Reclaims, PackBlock(gain) PROVE CoversInv'
  <2>1. /\ disk' = [disk EXCEPT ![packed] = disk[packed] + gain]
        /\ Rel_fsh'.FSH_maxBlockNum = Rel_fsh.FSH_maxBlockNum
    BY <1>0, <1>11, PackIs
  <2>2. DOMAIN disk' = DOMAIN disk BY <2>1
  <2>3. up /\ up' BY <1>11 DEF PackBlock
  <2> QED BY <2>1, <2>2, <2>3 DEF CoversInv, Covers, Current
<1> QED
  BY <1>1, <1>2, <1>4, <1>5, <1>6, <1>7, <1>8, <1>9, <1>10, <1>11, Zenon DEF Next

\* If every process that opens the relation also closes it, each knows where the
\* relation ends: what it appends is a new block.
THEOREM LastKnown == ~Crashes => (Spec => []KnowsLastBlock)
<1> SUFFICES ASSUME ~Crashes PROVE Spec => []KnowsLastBlock OBVIOUS
<1> DEFINE I == SpaceInv(Spaces) /\ CoversInv
<1>1. Init => I
  <2>1. Init => SpaceInv(Spaces) BY AllSpaces, SpaceInit
  <2>2. Init => CoversInv BY DEF Init, CoversInv, Covers
  <2> QED BY <2>1, <2>2
<1>2. I /\ [Next]_fsVars => I' BY AllSpaces, SpaceStep, CoversStep
<1>3. I => KnowsLastBlock
  <2> SUFFICES ASSUME I, up, NextBlock(Relation) \in DOMAIN disk PROVE FALSE
    BY DEF KnowsLastBlock
  <2>1. Relation.max = Rel_fsh.FSH_maxBlockNum /\ RelOK(Relation, Spaces)
    BY RelationIs DEF SpaceInv, RelOK
  <2>2. IsValidBlockNumber(Relation.max) /\ NextBlock(Relation) <= Relation.max
    BY <2>1 DEF CoversInv, Covers, Current
  <2>3. Relation.max \in Nat
    <3>1. Relation.max = INValidBlockNumber \/ Relation.max \in BlockNums BY <2>1, RelFields
    <3> QED BY <2>2, <3>1, Numbers
  <2> QED BY <2>2, <2>3 DEF NextBlock
<1> HIDE DEF I
<1> QED BY <1>1, <1>2, <1>3, PTL DEF Spec

-----------------------------------------------------------------------------
\* What the heap says of a block.

\* A relation whose heap is exact, and nothing of which is only in its buffers.
Sharp(rel) == rel.space = rel.disk /\ Exact(rel.fsh, rel.disk)

LEMMA SharpAppend ==
  ASSUME NEW S, Amounts(S), NEW rel, RelOK(rel, S), NextBlock(rel) \in BlockNums, Sharp(rel)
  PROVE  Sharp(Rel_AppendNewBlock(rel))
<1> DEFINE new == Rel_AppendNewBlock(rel)
<1>1. /\ Listed(new.fsh) = Listed(rel.fsh) \cup {NewItem(rel)}
      /\ new.space = With(rel.space, NextBlock(rel), NewBlockSpace)
      /\ new.disk = With(rel.disk, NextBlock(rel), NewBlockSpace)
  BY AppendOK
<1> HIDE DEF new
<1>2. new.space = new.disk BY <1>1 DEF Sharp
<1>3. ASSUME NEW item \in Listed(rel.fsh) PROVE item.freeSpaceSize = new.disk[item.blockNum]
  <2>1. item.blockNum # NextBlock(rel) BY NextIsNew
  <2>2. item.blockNum \in DOMAIN rel.disk BY RelFields
  <2>3. new.disk[item.blockNum] = rel.disk[item.blockNum] BY <1>1, <2>1, <2>2 DEF With
  <2> QED BY <2>3 DEF Sharp, Exact
<1>4. NewItem(rel).freeSpaceSize = new.disk[NewItem(rel).blockNum]
  <2>1. NewItem(rel).freeSpaceSize = NewBlockSpace /\ NewItem(rel).blockNum = NextBlock(rel)
    BY DEF NewItem
  <2>2. new.disk[NextBlock(rel)] = NewBlockSpace BY <1>1 DEF With
  <2> QED BY <2>1, <2>2
<1> QED BY <1>1, <1>2, <1>3, <1>4 DEF Sharp, Exact, new

\* The block an exact heap serves has the room it says.
LEMMA SharpServed ==
  ASSUME NEW S, Amounts(S), NEW rel, RelOK(rel, S), Sharp(rel),
         NEW need \in InsertNeeds, NEW r, RelOK(r, S), Asked(r, rel, need),
         IsValidBlockNumber(r.cur)
  PROVE  /\ BLK_bCheckEnoughSpace(r, r.cur, need)
         /\ Sharp(InsertedInto(r, r.cur, need))
<1> DEFINE s == InsertedInto(r, r.cur, need)
<1>0. need \in Nat /\ need > 0 BY Numbers
<1>1. r.space = rel.space /\ r.disk = rel.disk /\ rel.space = rel.disk
  BY DEF Asked, Sharp
<1>2. r.cur \in DOMAIN rel.disk /\ Served(r, rel, need) BY DEF Asked
<1>3. PICK item \in Listed(rel.fsh) :
        /\ item.freeSpaceSize > need /\ r.cur = item.blockNum
        /\ Listed(r.fsh) = (Listed(rel.fsh) \ {item})
             \cup IF item.freeSpaceSize - need <= MIN_FreeSpace THEN {} ELSE {Less(item, need)}
  BY <1>2 DEF Served
<1>4. item.freeSpaceSize = rel.disk[r.cur] /\ item.freeSpaceSize \in Int
  <2>1. item \in Entries BY RelFields
  <2>2. \A n \in Spaces : n \in Int BY Numbers
  <2> QED BY <1>3, <2>1, <2>2 DEF Sharp, Exact, Entries
<1>5. BLK_bCheckEnoughSpace(r, r.cur, need)
  BY <1>0, <1>1, <1>3, <1>4 DEF BLK_bCheckEnoughSpace
<1>6. /\ s.fsh = r.fsh /\ RelOK(s, S) /\ DOMAIN s.disk = DOMAIN rel.disk
      /\ s.space[r.cur] = item.freeSpaceSize - need /\ s.disk[r.cur] = s.space[r.cur]
      /\ \A c \in DOMAIN rel.disk \ {r.cur} :
           s.space[c] = rel.disk[c] /\ s.disk[c] = rel.disk[c]
  <2>1. /\ RelOK(s, S) /\ s.fsh = r.fsh
        /\ DOMAIN s.disk = DOMAIN r.disk
        /\ s.space[r.cur] = r.space[r.cur] - need /\ s.disk[r.cur] = s.space[r.cur]
        /\ \A c \in DOMAIN r.disk \ {r.cur} :
             s.space[c] = r.space[c] /\ s.disk[c] = r.disk[c]
    BY <1>1, <1>2, <1>5, InsertedIntoOK
  <2> HIDE DEF s
  <2> QED BY <1>1, <1>4, <2>1
<1> HIDE DEF s
<1>7. s.space = s.disk
  <2>1. s.space \in [DOMAIN s.disk -> S] /\ s.disk \in [DOMAIN s.disk -> S] BY <1>6 DEF RelOK
  <2>2. \A c \in DOMAIN s.disk : s.space[c] = s.disk[c] BY <1>6
  <2> QED BY <2>1, <2>2
<1>8. ASSUME NEW x \in Listed(s.fsh) PROVE x.freeSpaceSize = s.disk[x.blockNum]
  <2>1. CASE x = Less(item, need)
    <3>1. x.freeSpaceSize = item.freeSpaceSize - need /\ x.blockNum = r.cur
      <4>1. item \in Entries BY RelFields
      <4> QED BY <1>3, <2>1, <4>1 DEF Less, Entries
    <3> QED BY <1>6, <3>1
  <2>2. CASE x \in Listed(rel.fsh) /\ x # item
    <3>1. x.blockNum # r.cur
      <4>1. Distinct(rel.fsh) BY RelFields
      <4> QED BY <1>3, <2>2, <4>1 DEF Distinct, Listed
    <3>2. x.blockNum \in DOMAIN rel.disk /\ x.freeSpaceSize = rel.disk[x.blockNum]
      BY <2>2, RelFields DEF Sharp, Exact
    <3> QED BY <1>6, <3>1, <3>2
  <2>3. Listed(s.fsh) = Listed(r.fsh) BY <1>6
  <2> QED BY <1>3, <1>8, <2>1, <2>2, <2>3
<1>9. Sharp(s) BY <1>7, <1>8 DEF Sharp, Exact
<1> QED BY <1>5, <1>9 DEF s

LEMMA ExactStep ==
  ASSUME ~Crashes, AppendNeeds = {}, NEW S, Amounts(S), S \cap InsertNeeds = {},
         SpaceInv(S), ExactInv, [Next]_fsVars
  PROVE  ExactInv'
<1>0. RelOK(Relation, S) /\ ~updating /\ space = disk /\ HeapOK(Rel_fsh, S, DOMAIN disk)
  BY RelationIs DEF SpaceInv, ExactInv, RelOK
<1>1. CASE UNCHANGED fsVars \/ StartsTorn
  BY <1>1 DEF StartsTorn, fsVars, hist, ExactInv, Exact, Current, Listed, Nodes
<1>2. CASE Rel_CreateRelation
  <2>1. /\ ~up /\ ~torn /\ up' /\ Rel_fsh' = fsmFile /\ UNCHANGED <<updating, space, disk>>
    BY <1>2 DEF Rel_CreateRelation, FSM_CreateHeapFromFile
  <2>2. fsmFile = whole BY <2>1 DEF SpaceInv, FileInv
  <2>3. Current' = Current BY <2>1, <2>2 DEF Current
  <2> QED BY <1>0, <2>1, <2>3 DEF ExactInv, Exact, Listed, Nodes
<1>3. ASSUME NEW need \in InsertNeeds, Tup_vInsert(need) PROVE ExactInv'
  <2>1. PICK r \in Rel_GetBlockToInsert(Relation, need) :
          /\ Serving /\ Got(r, Relation, S, need)
          /\ \/ IsValidBlockNumber(r.cur) /\ r.cur \in DOMAIN r.disk
                /\ BLK_vBlockInsert(r, r.cur, need)
             \/ ~IsValidBlockNumber(r.cur) /\ InsertNowhere(r, need)
    BY <1>3, InsertStep
  <2>2. Sharp(Relation) BY <1>0, <2>1, RelationIs DEF ExactInv, Current, Sharp, Serving
  <2>3. IsValidBlockNumber(r.cur)
    <3> SUFFICES ASSUME ~IsValidBlockNumber(r.cur) PROVE FALSE OBVIOUS
    <3>1. NextBlock(Relation) \in BlockNums /\ Missed(r, Rel_AppendNewBlock(Relation), need)
      BY <2>1 DEF Got, Asked
    <3>2. PICK item \in Listed(Relation.fsh) : item.freeSpaceSize = need
      BY <1>0, <3>1, MissedTwice
    <3>3. item.freeSpaceSize \in S BY <1>0, RelFields
    <3> QED BY <3>2, <3>3
  <2>4. /\ BLK_bCheckEnoughSpace(r, r.cur, need)
        /\ Sharp(InsertedInto(r, r.cur, need))
    <3>1. CASE Asked(r, Relation, need)
      BY <1>0, <2>1, <2>2, <2>3, <3>1, SharpServed DEF Got
    <3>2. CASE /\ NextBlock(Relation) \in BlockNums
               /\ RelOK(Rel_AppendNewBlock(Relation), S)
               /\ Asked(r, Rel_AppendNewBlock(Relation), need)
      <4>1. Sharp(Rel_AppendNewBlock(Relation)) BY <1>0, <2>2, <3>2, SharpAppend
      <4> QED BY <2>1, <2>3, <3>2, <4>1, SharpServed DEF Got
    <3> QED BY <2>1, <3>1, <3>2 DEF Got
  <2>5. Becomes(InsertedInto(r, r.cur, need)) /\ UNCHANGED <<up, updating>> /\ up
    BY <2>1, <2>3, <2>4 DEF BLK_vBlockInsert, Serving
  <2> HIDE DEF InsertedInto
  <2> QED BY <1>0, <2>1, <2>4, <2>5 DEF Becomes, Sharp, ExactInv, Current
<1>4. /\ ~UpdateBegin /\ ~UpdateEnd /\ \A need \in AppendNeeds : ~Tup_vAppend(need)
      /\ \A b \in DOMAIN space : ~Replace(b)
  BY <1>0 DEF UpdateBegin, UpdateEnd, Replace
<1>5. CASE Rel_vDestoryRelation
  <2>1. whole' = Rel_fsh /\ disk' = disk /\ space' = disk /\ ~up' /\ ~updating' /\ up
    BY <1>5 DEF Rel_vDestoryRelation, AtEnd, Closed
  <2>2. Current' = Current BY <2>1 DEF Current
  <2> QED BY <2>1, <2>2 DEF ExactInv, Exact, Listed, Nodes
<1>6. ~Crash BY DEF Crash
<1>7. CASE FSM_vFlushHeapToFile
  BY <1>7 DEF FSM_vFlushHeapToFile, hist, ExactInv, Exact, Current, Listed, Nodes
<1>8. CASE VacuumBegin
  <2>1. Listed(Rel_fsh') = {} BY <1>8, BeginIs
  <2>2. up' /\ UNCHANGED <<updating, space, disk>> BY <1>8 DEF VacuumBegin
  <2> QED BY <1>0, <2>1, <2>2 DEF ExactInv, Exact, Current
<1>9. ASSUME NEW gain \in Reclaims, PackBlock(gain) PROVE ExactInv'
  <2> DEFINE n == disk[packed] + gain
  <2>1. /\ disk' = [disk EXCEPT ![packed] = n] /\ space' = disk' /\ packed \in DOMAIN disk
        /\ \A x \in Listed(Rel_fsh) : x.blockNum # packed
        /\ Listed(Rel_fsh') = Listed(Rel_fsh) \cup {[freeSpaceSize |-> n, blockNum |-> packed]}
    BY <1>9, PackIs
  <2>2. up /\ up' /\ updating' = updating BY <1>9 DEF PackBlock
  <2> HIDE DEF n
  <2>3. \A x \in Listed(Rel_fsh) : x.freeSpaceSize = disk[x.blockNum] /\ x.blockNum \in DOMAIN disk
    BY <1>0, <2>2 DEF ExactInv, Exact, Current, HeapOK
  <2>4. \A x \in Listed(Rel_fsh') : x.freeSpaceSize = disk'[x.blockNum] BY <2>1, <2>3
  <2> QED BY <1>0, <2>1, <2>2, <2>4 DEF ExactInv, Exact, Current
<1> QED
  BY <1>1, <1>2, <1>3, <1>4, <1>5, <1>6, <1>7, <1>8, <1>9, Zenon DEF Next

\* Without ties, updates and crashes the heap knows exactly what room a block has.
THEOREM HeapExact == NoTies /\ AppendNeeds = {} /\ ~Crashes => (Spec => []EntriesExact)
<1> SUFFICES ASSUME NoTies, AppendNeeds = {}, ~Crashes PROVE Spec => []EntriesExact
  OBVIOUS
<1>0. PICK S \in SUBSET Spaces : Amounts(S) /\ S \cap InsertNeeds = {} BY DEF NoTies
<1> DEFINE I == SpaceInv(S) /\ ExactInv
<1>1. Init => I
  <2>1. Init => SpaceInv(S) BY <1>0, SpaceInit
  <2>2. Init => ExactInv BY NewHeapIs DEF Init, ExactInv, Exact, Current
  <2> QED BY <2>1, <2>2
<1>2. I /\ [Next]_fsVars => I' BY <1>0, SpaceStep, ExactStep
<1>3. I => EntriesExact
  <2>1. CASE up BY <2>1 DEF ExactInv, Exact, Current, EntriesExact
  <2>2. SpaceInv(S) /\ ~up => EntriesExact BY NewHeapIs DEF SpaceInv, EntriesExact
  <2> QED BY <2>1, <2>2
<1> HIDE DEF I
<1> QED BY <1>1, <1>2, <1>3, PTL DEF Spec

-----------------------------------------------------------------------------
\* The heap is a saved map.

LEMMA MapIs ==
  ASSUME NEW h, Distinct(h), NEW m, m = [b \in DOMAIN m |-> m[b]],
         DOMAIN m = {item.blockNum : item \in Listed(h)},
         \A item \in Listed(h) : m[item.blockNum] = item.freeSpaceSize
  PROVE  FreeMap(h) = m
<1>1. DOMAIN FreeMap(h) = DOMAIN m BY FreeMapIs
<1>2. ASSUME NEW b \in DOMAIN m PROVE FreeMap(h)[b] = m[b]
  <2>1. PICK item \in Listed(h) : b = item.blockNum OBVIOUS
  <2>2. FreeMap(h)[item.blockNum] = item.freeSpaceSize BY FreeMapIs
  <2> QED BY <2>1, <2>2
<1>3. FreeMap(h) = [b \in DOMAIN FreeMap(h) |-> FreeMap(h)[b]] BY FreeMapIs
<1> QED BY <1>1, <1>2, <1>3

LEMMA EmptyMap == FreeMap(NewHeap) = Map!Empty
<1>1. DOMAIN FreeMap(NewHeap) = {} BY NewHeapIs, FreeMapIs
<1>2. FreeMap(NewHeap) = [b \in DOMAIN FreeMap(NewHeap) |-> FreeMap(NewHeap)[b]]
  BY NewHeapIs, FreeMapIs
<1> QED BY <1>1, <1>2 DEF Map!Empty

\* A block more.
LEMMA MoreMap ==
  ASSUME NEW h, NEW g, Distinct(h), Distinct(g), NEW n, NEW b,
         \A item \in Listed(h) : item.blockNum # b,
         Listed(g) = Listed(h) \cup {[freeSpaceSize |-> n, blockNum |-> b]}
  PROVE  /\ b \notin DOMAIN FreeMap(h)
         /\ FreeMap(g) = Map!Put(FreeMap(h), b, n)
<1> DEFINE m == Map!Put(FreeMap(h), b, n)
           new == [freeSpaceSize |-> n, blockNum |-> b]
<1>1. new.freeSpaceSize = n /\ new.blockNum = b OBVIOUS
<1>2. /\ DOMAIN FreeMap(h) = {item.blockNum : item \in Listed(h)}
      /\ \A item \in Listed(h) : FreeMap(h)[item.blockNum] = item.freeSpaceSize
  BY FreeMapIs
<1>3. Listed(g) = Listed(h) \cup {new} OBVIOUS
<1> HIDE DEF new
<1>4. DOMAIN m = DOMAIN FreeMap(h) \cup {b} /\ m = [c \in DOMAIN m |-> m[c]]
      /\ m[b] = n
      /\ \A c \in DOMAIN FreeMap(h) : c # b => m[c] = FreeMap(h)[c]
  BY DEF Map!Put
<1> HIDE DEF m
<1>5. DOMAIN m = {item.blockNum : item \in Listed(g)}
  <2>1. {item.blockNum : item \in Listed(h) \cup {new}}
          = {item.blockNum : item \in Listed(h)} \cup {b}
    BY <1>1
  <2> QED BY <1>2, <1>3, <1>4, <2>1
<1>6. \A item \in Listed(g) : m[item.blockNum] = item.freeSpaceSize
  BY <1>1, <1>2, <1>3, <1>4
<1>7. FreeMap(g) = m BY <1>4, <1>5, <1>6, MapIs
<1>8. b \notin DOMAIN FreeMap(h) BY <1>2
<1> QED BY <1>7, <1>8 DEF m

LEMMA AppendMap ==
  ASSUME NEW S, Amounts(S), NEW rel, RelOK(rel, S), NextBlock(rel) \in BlockNums
  PROVE  FreeMap(Rel_AppendNewBlock(rel).fsh)
           = Map!Put(FreeMap(rel.fsh), NextBlock(rel), NewBlockSpace)
<1> DEFINE new == Rel_AppendNewBlock(rel)
<1>1. RelOK(new, S) /\ Listed(new.fsh) = Listed(rel.fsh) \cup {NewItem(rel)} BY AppendOK
<1> HIDE DEF new
<1>2. Distinct(new.fsh) /\ Distinct(rel.fsh) BY <1>1, RelFields
<1>3. \A item \in Listed(rel.fsh) : item.blockNum # NextBlock(rel) BY NextIsNew
<1> QED BY <1>1, <1>2, <1>3, MoreMap DEF NewItem, new

LEMMA ServedMap ==
  ASSUME NEW S, NEW rel, RelOK(rel, S), NEW r, RelOK(r, S), NEW need \in InsertNeeds,
         Served(r, rel, need)
  PROVE  \E b \in DOMAIN FreeMap(rel.fsh) :
           /\ FreeMap(rel.fsh)[b] > need
           /\ FreeMap(r.fsh) = Map!Taken(FreeMap(rel.fsh), b, need)
<1>1. PICK item \in Listed(rel.fsh) :
        /\ item.freeSpaceSize > need /\ r.cur = item.blockNum
        /\ Listed(r.fsh) = (Listed(rel.fsh) \ {item})
             \cup IF item.freeSpaceSize - need <= MIN_FreeSpace THEN {} ELSE {Less(item, need)}
  BY DEF Served
<1> DEFINE f == FreeMap(rel.fsh)
           b == item.blockNum
           m == Map!Taken(f, b, need)
           left == item.freeSpaceSize - need
<1>2. Distinct(rel.fsh) /\ Distinct(r.fsh) BY RelFields
<1>3. /\ DOMAIN f = {x.blockNum : x \in Listed(rel.fsh)}
      /\ \A x \in Listed(rel.fsh) : f[x.blockNum] = x.freeSpaceSize
  BY <1>2, FreeMapIs
<1> HIDE DEF f
<1>4. b \in DOMAIN f /\ f[b] = item.freeSpaceSize BY <1>3
<1>5. \A x \in Listed(rel.fsh) : x # item => x.blockNum # b
  BY <1>2 DEF Distinct, Listed
<1>6. Less(item, need).blockNum = b /\ Less(item, need).freeSpaceSize = left
  <2>1. item \in Entries BY RelFields
  <2> QED BY <2>1 DEF Less, Entries
<1>7. CASE left <= MIN_FreeSpace
  <2>1. m = Map!Drop(f, b) BY <1>4, <1>7 DEF Map!Taken
  <2>2. /\ DOMAIN m = DOMAIN f \ {b} /\ m = [c \in DOMAIN m |-> m[c]]
        /\ \A c \in DOMAIN f : c # b => m[c] = f[c]
    BY <2>1 DEF Map!Drop
  <2> HIDE DEF m
  <2>3. Listed(r.fsh) = Listed(rel.fsh) \ {item} BY <1>1, <1>7
  <2> HIDE DEF b
  <2>4. DOMAIN m = {x.blockNum : x \in Listed(r.fsh)}
    <3>1. \A x \in Listed(rel.fsh) : x = item => x.blockNum = b BY DEF b
    <3> QED BY <1>3, <1>5, <2>2, <2>3, <3>1
  <2>5. \A x \in Listed(r.fsh) : m[x.blockNum] = x.freeSpaceSize BY <1>3, <1>5, <2>2, <2>3
  <2>6. FreeMap(r.fsh) = m BY <1>2, <2>2, <2>4, <2>5, MapIs
  <2> QED BY <1>1, <1>4, <2>6 DEF f, m
<1>8. CASE ~(left <= MIN_FreeSpace)
  <2>1. m = Map!Put(f, b, left) BY <1>4, <1>8 DEF Map!Taken
  <2> HIDE DEF left
  <2>2. /\ DOMAIN m = DOMAIN f \cup {b} /\ m = [c \in DOMAIN m |-> m[c]] /\ m[b] = left
        /\ \A c \in DOMAIN f : c # b => m[c] = f[c]
    BY <2>1 DEF Map!Put
  <2> HIDE DEF m
  <2>3. Listed(r.fsh) = (Listed(rel.fsh) \ {item}) \cup {Less(item, need)} BY <1>1, <1>8 DEF left
  <2> HIDE DEF b
  <2>4. DOMAIN m = {x.blockNum : x \in Listed(r.fsh)}
    <3>1. \A x \in Listed(rel.fsh) : x = item => x.blockNum = b BY DEF b
    <3>2. \A c \in {x.blockNum : x \in Listed(r.fsh)} : c \in DOMAIN m
      BY <1>3, <1>6, <2>2, <2>3
    <3>3. \A c \in DOMAIN m : c \in {x.blockNum : x \in Listed(r.fsh)}
      <4> TAKE c \in DOMAIN m
      <4>1. CASE c = b BY <1>6, <2>3, <4>1
      <4>2. CASE c # b
        <5>1. PICK x \in Listed(rel.fsh) : c = x.blockNum BY <1>3, <1>4, <2>2, <4>2
        <5>2. x # item BY <3>1, <4>2, <5>1
        <5> QED BY <2>3, <5>1, <5>2
      <4> QED BY <4>1, <4>2
    <3> QED BY <3>2, <3>3
  <2>5. \A x \in Listed(r.fsh) : m[x.blockNum] = x.freeSpaceSize
    BY <1>3, <1>5, <1>6, <2>2, <2>3
  <2>6. FreeMap(r.fsh) = m BY <1>2, <2>2, <2>4, <2>5, MapIs
  <2> QED BY <1>1, <1>4, <2>6 DEF f, m
<1> QED BY <1>7, <1>8

\* What is appended, or what stays.
LEMMA WorksMap ==
  ASSUME NEW S, Amounts(S), NEW rel, RelOK(rel, S), Works(rel, S)
  PROVE  FreeMap(Rel_fsh') \in Map!Added(FreeMap(rel.fsh))
<1>1. PICK r : (Same(r, rel) \/ Longer(r, rel)) /\ Becomes(r) BY DEF Works
<1>2. Rel_fsh' = r.fsh BY <1>1 DEF Becomes
<1>3. CASE Same(r, rel) BY <1>2, <1>3 DEF Same, Map!Added
<1>4. CASE Longer(r, rel)
  <2>1. NextBlock(rel) \in BlockNums /\ r.fsh = Rel_AppendNewBlock(rel).fsh
    BY <1>4 DEF Longer
  <2>2. FreeMap(r.fsh) = Map!Put(FreeMap(rel.fsh), NextBlock(rel), NewBlockSpace)
    BY <2>1, AppendMap
  <2> QED BY <1>2, <2>1, <2>2 DEF Map!Added
<1> QED BY <1>1, <1>3, <1>4

LEMMA MapStep ==
  ASSUME SpaceInv(Spaces), [Next]_fsVars
  PROVE  [Map!Next]_(Map!mapVars)
<1> DEFINE free == FreeMap(Rel_fsh)
           saved == FreeMap(whole)
           measuring == packed # NoVacuum
           m == <<free, saved, measuring, torn>>
<1>0. /\ Amounts(Spaces) /\ RelOK(Relation, Spaces) /\ Relation.fsh = Rel_fsh
      /\ HeapOK(Rel_fsh, Spaces, DOMAIN disk) /\ Distinct(Rel_fsh)
  BY AllSpaces, RelationIs DEF SpaceInv, RelOK, HeapOK
<1>0a. Map!mapVars = m /\ Map!mapVars' = m' BY DEF Map!mapVars
<1>0b. UNCHANGED hist => saved' = saved /\ torn' = torn BY DEF hist
<1>0c. Closed => measuring' = FALSE /\ free' = Map!Empty BY EmptyMap DEF Closed
<1>0d. Serving => ~torn /\ ~measuring /\ up BY DEF Serving, SpaceInv
<1>0e. (UNCHANGED packed) => measuring' = measuring OBVIOUS
<1>1. CASE UNCHANGED fsVars \/ StartsTorn
  <2>1. m' = m BY <1>1 DEF StartsTorn, fsVars, hist
  <2> QED BY <1>0a, <2>1
<1>2. CASE Rel_CreateRelation
  <2>1. /\ ~up /\ ~torn /\ Rel_fsh' = fsmFile /\ UNCHANGED <<packed, hist>>
    BY <1>2 DEF Rel_CreateRelation, FSM_CreateHeapFromFile
  <2>2. fsmFile = whole BY <2>1 DEF SpaceInv, FileInv
  <2>3. free' = saved BY <2>1, <2>2
  <2>4. Map!Reload BY <1>0b, <1>0e, <2>1, <2>3 DEF Map!Reload
  <2> QED BY <2>1, <2>4 DEF Map!Next
\* Closing empties the map.
<1>3. ASSUME ~torn, Closed, torn' = torn, saved' \in {saved, free} PROVE Map!Next
  <2>1. Map!Quit BY <1>0c, <1>3 DEF Map!Quit
  <2> QED BY <1>3, <2>1 DEF Map!Next
\* Blocks are added to it.
<1>4. ASSUME Serving, UNCHANGED <<packed, hist>>, NEW map \in Map!Added(free),
             free' \in Map!Added(map)
      PROVE  Map!Next
  <2>1. Map!Add BY <1>0b, <1>0d, <1>0e, <1>4 DEF Map!Add
  <2> QED BY <1>0d, <1>4, <2>1 DEF Map!Next
<1>5. free \in Map!Added(free) BY DEF Map!Added
<1>6. ASSUME NEW need \in InsertNeeds, Tup_vInsert(need) PROVE Map!Next
  <2>1. PICK r : /\ Serving /\ UNCHANGED hist /\ Got(r, Relation, Spaces, need)
                 /\ Works(r, Spaces) \/ Dies(r)
    BY <1>0, <1>6, InsertStep
  <2>2. RelOK(r, Spaces) BY <2>1 DEF Got
  <2>3. CASE Dies(r)
    BY <1>0b, <1>0d, <1>3, <2>1, <2>3 DEF Dies
  <2>4. CASE Works(r, Spaces)
    <3>0. UNCHANGED packed BY <2>4 DEF Works
    <3>1. FreeMap(Rel_fsh') \in Map!Added(FreeMap(r.fsh)) BY <1>0, <2>2, <2>4, WorksMap
    <3>2. PICK rel : /\ RelOK(rel, Spaces) /\ FreeMap(rel.fsh) \in Map!Added(free)
                     /\ Asked(r, rel, need)
      <4>1. CASE Asked(r, Relation, need) /\ IsValidBlockNumber(r.cur)
        BY <1>0, <1>5, <4>1
      <4>2. CASE /\ NextBlock(Relation) \in BlockNums
                 /\ RelOK(Rel_AppendNewBlock(Relation), Spaces)
                 /\ Asked(r, Rel_AppendNewBlock(Relation), need)
        <5>1. FreeMap(Rel_AppendNewBlock(Relation).fsh) \in Map!Added(free)
          BY <1>0, <4>2, AppendMap DEF Map!Added
        <5> QED BY <4>2, <5>1
      <4> QED BY <2>1, <4>1, <4>2 DEF Got
    <3>3. CASE Served(r, rel, need)
      <4>1. PICK b \in DOMAIN FreeMap(rel.fsh) :
              /\ FreeMap(rel.fsh)[b] > need
              /\ FreeMap(r.fsh) = Map!Taken(FreeMap(rel.fsh), b, need)
        BY <2>2, <3>2, <3>3, ServedMap
      <4>2. free' \in Map!Added(Map!Taken(FreeMap(rel.fsh), b, need)) BY <3>1, <4>1
      <4>3. Map!Serve(need)
        BY <1>0b, <1>0d, <1>0e, <2>1, <3>0, <3>2, <4>1, <4>2 DEF Map!Serve
      <4> QED BY <1>0d, <2>1, <4>3 DEF Map!Next
    <3>4. CASE Missed(r, rel, need)
      <4>1. r.fsh = rel.fsh BY <3>4 DEF Missed
      <4>2. free' \in Map!Added(FreeMap(rel.fsh)) BY <3>1, <4>1
      <4> QED BY <1>4, <2>1, <3>0, <3>2, <4>2
    <3> QED BY <3>2, <3>3, <3>4 DEF Asked
  <2> QED BY <2>1, <2>3, <2>4
<1>7. CASE UpdateBegin
  <2>1. /\ NextBlock(Relation) \in BlockNums /\ Rel_fsh' = Rel_AppendNewBlock(Relation).fsh
        /\ Serving /\ UNCHANGED <<packed, hist>>
    BY <1>7 DEF UpdateBegin, Becomes
  <2>2. free' \in Map!Added(free) BY <1>0, <2>1, AppendMap DEF Map!Added
  <2> QED BY <1>4, <1>5, <2>1, <2>2
<1>8. ASSUME NEW need \in AppendNeeds, Tup_vAppend(need) PROVE Map!Next
  <2>1. Serving /\ UNCHANGED hist /\ (Works(Relation, Spaces) \/ Dies(Relation))
    BY <1>0, <1>8, AppendStep
  <2>2. CASE Dies(Relation)
    BY <1>0b, <1>0d, <1>3, <2>1, <2>2 DEF Dies
  <2>3. CASE Works(Relation, Spaces)
    <3>1. free' \in Map!Added(free) BY <1>0, <2>3, WorksMap
    <3>2. UNCHANGED packed BY <2>3 DEF Works
    <3> QED BY <1>4, <1>5, <2>1, <3>1, <3>2
  <2> QED BY <2>1, <2>2, <2>3
<1>9. CASE UpdateEnd \/ (\E b \in DOMAIN space : Replace(b)) \/ FSM_vFlushHeapToFile
  <2>1. UNCHANGED <<Rel_fsh, packed, hist>>
    BY <1>9 DEF UpdateEnd, Replace, FSM_vFlushHeapToFile
  <2>2. m' = m BY <2>1 DEF hist
  <2> QED BY <1>0a, <2>2
<1>10. CASE Rel_vDestoryRelation
  <2>1. whole' = Rel_fsh /\ Closed /\ torn' = torn /\ up
    BY <1>10 DEF Rel_vDestoryRelation, AtEnd
  <2>2. saved' = free BY <2>1
  <2>3. ~torn BY <2>1 DEF SpaceInv
  <2> QED BY <1>3, <2>1, <2>2, <2>3
<1>11. CASE Crash
  <2>1. /\ up /\ Closed /\ torn' = (fsmFile \notin {whole, Rel_fsh})
        /\ whole' = IF torn' THEN NewHeap ELSE fsmFile
    BY <1>11 DEF Crash
  <2>2. torn = FALSE BY <2>1 DEF SpaceInv
  <2>3. CASE fsmFile \in {whole, Rel_fsh}
    <3>1. saved' \in {saved, free} /\ torn' = torn BY <2>1, <2>2, <2>3
    <3> QED BY <1>3, <2>1, <2>2, <3>1
  <2>4. CASE fsmFile \notin {whole, Rel_fsh}
    <3>1. torn' /\ saved' = Map!Empty BY <2>1, <2>4, EmptyMap
    <3>2. Map!Tear BY <1>0c, <2>1, <3>1 DEF Map!Tear
    <3> QED BY <2>2, <3>2 DEF Map!Next
  <2> QED BY <2>3, <2>4
<1>12. CASE VacuumBegin
  <2>1. ~up /\ ~torn /\ Listed(Rel_fsh') = {} BY <1>0, <1>12, BeginIs
  <2>2. free = Map!Empty BY <2>1, EmptyMap DEF SpaceInv
  <2>3. free' = Map!Empty
    <3>1. FreeMap(Rel_fsh') = [b \in {} |-> 0] BY <2>1 DEF FreeMap
    <3> QED BY <3>1 DEF Map!Empty
  <2>4. measuring' = TRUE /\ UNCHANGED hist
    <3>1. packed' = 0 /\ UNCHANGED hist BY <1>12 DEF VacuumBegin
    <3> QED BY <3>1 DEF NoVacuum
  <2>5. Map!Begin BY <1>0b, <2>2, <2>3, <2>4 DEF Map!Begin
  <2> QED BY <2>1, <2>5 DEF Map!Next
<1>13. ASSUME NEW gain \in Reclaims, PackBlock(gain) PROVE Map!Next
  <2> DEFINE n == disk[packed] + gain
  <2>1. /\ packed \in Nat /\ packed \in BlockNums /\ n \in Spaces
        /\ HeapOK(Rel_fsh', Spaces, DOMAIN disk)
        /\ \A x \in Listed(Rel_fsh) : x.blockNum # packed
        /\ Listed(Rel_fsh') = Listed(Rel_fsh) \cup {[freeSpaceSize |-> n, blockNum |-> packed]}
    BY <1>0, <1>13, PackIs
  <2>2. /\ up /\ packed # NoVacuum /\ packed' = packed + 1 /\ UNCHANGED hist
    BY <1>13 DEF PackBlock
  <2> HIDE DEF n
  <2>3. packed \notin DOMAIN free /\ free' = Map!Put(free, packed, n)
    BY <1>0, <2>1, MoreMap DEF HeapOK
  <2>4. measuring = TRUE /\ measuring' = TRUE BY <2>1, <2>2 DEF NoVacuum
  <2>5. Map!Measure(packed, n) BY <1>0b, <2>2, <2>3, <2>4 DEF Map!Measure
  <2>6. ~torn /\ n \in 0 .. NewBlockSpace BY <2>1, <2>2 DEF SpaceInv, Spaces
  <2> QED BY <2>1, <2>5, <2>6 DEF Map!Next
<1> HIDE DEF m
<1> QED
  BY <1>1, <1>2, <1>6, <1>7, <1>8, <1>9, <1>10, <1>11, <1>12, <1>13, Zenon DEF Next

\* The heap with its file implements the saved map, in which there is no order,
\* array or walk, until a process dies between two writes of the file.
THEOREM MapCorrect == Spec => MapSpec
<1>1. Init => SpaceInv(Spaces) BY AllSpaces, SpaceInit
<1>2. SpaceInv(Spaces) /\ [Next]_fsVars => SpaceInv(Spaces)' BY AllSpaces, SpaceStep
<1>3. Init => Map!Init BY EmptyMap DEF Init, Map!Init, NoVacuum
<1>4. SpaceInv(Spaces) /\ [Next]_fsVars => [Map!Next]_(Map!mapVars) BY MapStep
<1> QED BY <1>1, <1>2, <1>3, <1>4, PTL DEF Spec, MapSpec, Map!Spec
=============================================================================
