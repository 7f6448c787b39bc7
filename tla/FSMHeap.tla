------------------------------- MODULE FSMHeap -------------------------------
(***************************************************************************)
(* storage/fsm.c: the max-heap of a relation's free space. A heap is a     *)
(* record of its C struct's fields; FSH_heap is the whole allocated array  *)
(* but its slot 0, which is only scratch. The slots past FSH_length are    *)
(* kept because the code reads one of them.                                *)
(***************************************************************************)
EXTENDS Integers, Sequences, FiniteSets, FiniteSetsExt

CONSTANTS
  HEAP_INIT_SIZE,       \* slots of a new heap's array
  HEAPINCREMENT,        \* slots added when it is full
  MIN_FreeSpace,        \* a block with no more than this is dropped
  INValidBlockNumber

ASSUME HeapAssumption ==
  /\ HEAP_INIT_SIZE \in Nat /\ HEAP_INIT_SIZE > 2
  /\ HEAPINCREMENT \in Nat \ {0}
  /\ MIN_FreeSpace \in Nat /\ INValidBlockNumber \in Nat

\* A slot that was never written.
Junk == [freeSpaceSize |-> -1, blockNum |-> -1]

IsValidBlockNumber(bnum) == bnum < INValidBlockNumber

Slots(fsh) == 1 .. fsh.FSH_HeapSize - 1
Nodes(fsh) == 1 .. fsh.FSH_length
Size(fsh, i) == fsh.FSH_heap[i].freeSpaceSize

NewHeap ==
  [FSH_heap |-> [i \in 1 .. HEAP_INIT_SIZE - 1 |-> Junk],
   FSH_length |-> 0, FSH_HeapSize |-> HEAP_INIT_SIZE,
   FSH_maxBlockNum |-> INValidBlockNumber]

-----------------------------------------------------------------------------
\* Keeping the order

Swap(fsh, i, j) ==
  [fsh EXCEPT !.FSH_heap[i] = fsh.FSH_heap[j], !.FSH_heap[j] = fsh.FSH_heap[i]]

\* The largest of a node and its children; on a tie the first of them.
Largest(fsh, i) ==
  LET family == {i} \cup ({2 * i, 2 * i + 1} \cap Nodes(fsh))
  IN  Min({k \in family : \A j \in family : Size(fsh, k) >= Size(fsh, j)})

\* The descent and the climb end in at most FSH_length moves.
vMaxHeapDown(fsh, iPos) ==
  LET moved[n \in 0 .. fsh.FSH_length] ==
        IF n = 0 THEN [heap |-> fsh, pos |-> iPos]
        ELSE LET m == moved[n - 1]
                 k == Largest(m.heap, m.pos)
             IN  [heap |-> Swap(m.heap, m.pos, k), pos |-> k]
  IN  moved[fsh.FSH_length].heap

vMaxHeapUp(fsh, iPos) ==
  LET moved[n \in 0 .. fsh.FSH_length] ==
        IF n = 0 THEN [heap |-> fsh, pos |-> iPos]
        ELSE LET m == moved[n - 1]
                 parent == m.pos \div 2
             IN  IF parent # 0 /\ Size(m.heap, parent) < Size(m.heap, m.pos)
                 THEN [heap |-> Swap(m.heap, m.pos, parent), pos |-> parent]
                 ELSE m
  IN  moved[fsh.FSH_length].heap

\* The last node takes the place of the deleted one, which stays behind it.
FSM_vHeapDeleteNode(fsh, iPos) ==
  LET cut == [Swap(fsh, iPos, fsh.FSH_length) EXCEPT !.FSH_length = @ - 1]
  IN  vMaxHeapUp(vMaxHeapDown(cut, iPos), iPos)

\* The array with room for one more node; realloc keeps the old slots.
Grown(fsh) ==
  IF fsh.FSH_length >= fsh.FSH_HeapSize - 2
  THEN fsh.FSH_heap \o [i \in 1 .. HEAPINCREMENT |-> Junk] ELSE fsh.FSH_heap

FSM_vAddNodeToHeap(fsh, fsitem) ==
  LET length == fsh.FSH_length + 1
      max == IF \/ fsitem.blockNum > fsh.FSH_maxBlockNum
                \/ ~IsValidBlockNumber(fsh.FSH_maxBlockNum)
             THEN fsitem.blockNum ELSE fsh.FSH_maxBlockNum
  IN  vMaxHeapUp([FSH_heap |-> [Grown(fsh) EXCEPT ![length] = fsitem],
                  FSH_length |-> length, FSH_HeapSize |-> Len(Grown(fsh)) + 1,
                  FSH_maxBlockNum |-> max],
                 length)

\* FSM_uHeapSort puts the root behind the rest, again and again; its nodes stay
\* in the array, but the heap has none left.
FSM_uHeapSort(fsh) ==
  LET sorted[n \in 0 .. fsh.FSH_length] ==
        IF n = 0 THEN fsh
        ELSE LET h == sorted[n - 1]
             IN  vMaxHeapDown([Swap(h, 1, h.FSH_length) EXCEPT !.FSH_length = @ - 1], 1)
  IN  sorted[fsh.FSH_length]

-----------------------------------------------------------------------------
\* FSM_uAllocateNodeHeap walks from the root to a node with more than need. It
\* goes on, by a coin toss, to a child with more than need while there is one.

Ancestors(fsh, i) == {k \in Nodes(fsh) : \E n \in Nodes(fsh) : k = i \div 2^(n - 1)}
OnWalk(fsh, i, need) == \A k \in Ancestors(fsh, i) : Size(fsh, k) > need

WalkEnds(fsh, need) ==
  {i \in Nodes(fsh) :
     /\ OnWalk(fsh, i, need)
     /\ \A k \in {2 * i, 2 * i + 1} \cap Nodes(fsh) : Size(fsh, k) <= need}

\* A node whose only child has exactly `need`: the code compares the slot past
\* the last node as if it were the right child, and leaves the heap if that
\* slot seems to have more. What an unwritten slot seems to have is anything.
PastEndRead(fsh, i, need) == 2 * i = fsh.FSH_length /\ Size(fsh, 2 * i) = need
PastEndMore(fsh, need) ==
  LET slot == fsh.FSH_heap[fsh.FSH_length + 1]
  IN  IF slot = Junk THEN BOOLEAN ELSE {slot.freeSpaceSize > need}

\* The positions the walk may end at; 0: no block found.
WalkResults(fsh, need) ==
  LET ends == WalkEnds(fsh, need)
      doubtful == {i \in ends : PastEndRead(fsh, i, need)}
      more == IF doubtful = {} THEN {FALSE} ELSE PastEndMore(fsh, need)
  IN  IF fsh.FSH_length = 0 \/ Size(fsh, 1) <= need THEN {0}
      ELSE (ends \ doubtful) \cup (IF FALSE \in more THEN doubtful ELSE {})
                             \cup (IF TRUE \in more THEN {0} ELSE {})

\* (mutant) the node stays where it is.
ReducedInPlace(fsh, iPos, need) ==
  LET less == [fsh EXCEPT !.FSH_heap[iPos].freeSpaceSize = @ - need]
  IN  IF Size(less, iPos) <= MIN_FreeSpace THEN FSM_vHeapDeleteNode(less, iPos) ELSE less

Reduced(fsh, iPos, need) ==
  LET less == [fsh EXCEPT !.FSH_heap[iPos].freeSpaceSize = @ - need]
  IN  IF Size(less, iPos) <= MIN_FreeSpace THEN FSM_vHeapDeleteNode(less, iPos)
      ELSE vMaxHeapDown(less, iPos)

\* What it may return, with the heap it leaves.
FSM_uAllocateNodeHeap(fsh, need) ==
  {IF i = 0 THEN [bnum |-> INValidBlockNumber, heap |-> fsh]
   ELSE [bnum |-> fsh.FSH_heap[i].blockNum, heap |-> Reduced(fsh, i, need)] :
     i \in WalkResults(fsh, need)}

-----------------------------------------------------------------------------
\* What a heap says, for properties

\* The blocks a heap lists, with their free space.
Listed(fsh) == {fsh.FSH_heap[i] : i \in Nodes(fsh)}
FreeMap(fsh) ==
  [b \in {item.blockNum : item \in Listed(fsh)} |->
     (CHOOSE item \in Listed(fsh) : item.blockNum = b).freeSpaceSize]
=============================================================================
