----------------------------- MODULE NestLoopJoin -----------------------------
(***************************************************************************)
(* The nested loop join of exectutor/execJoin.c. child[0] gives the inner  *)
(* rows, which are read in arrays of innerArraysize; child[1] gives the    *)
(* outer rows, once, and they are saved in a temporary file from which     *)
(* further arrays would be joined.                                         *)
(*                                                                         *)
(* A child is the rows it has still to give. Either may be a scan, a       *)
(* projection or a join. The rows of scans and joins come as bytes. A      *)
(* projection gives the same tuple each time, and its row is made bytes    *)
(* only when it is joined, so that what is saved of it before that is what *)
(* the tuple held of the row before (execJoin.c:126-127, 108).             *)
(* Each step is one call of getnext by execJoin.                           *)
(***************************************************************************)
EXTENDS Integers, Sequences, SequencesExt, Functions

CONSTANTS
  MaxInner, MaxOuter,  \* bounds: how many rows the children give
  innerArraysize,
  NULL,                \* no tuple
  Cleared              \* an element of the inner array that was never filled

ASSUME JoinAssumption ==
  /\ innerArraysize \in Nat \ {0} /\ MaxInner \in Nat /\ MaxOuter \in Nat
  /\ Cleared \notin 1 .. MaxInner /\ NULL \notin 1 .. MaxOuter

\* The rows that a child gives, numbered.
Rows(n) == [i \in 1 .. n |-> i]

VARIABLES
  nestloop,   \* the NestLoopJoinState, with the children, the file, whether the
              \* outer rows are projected, and what bytes their tuple has
  status,     \* "open", "ended" (NULL was returned) or "dead"
  returned,   \* (history) the rows that execJoin returned
  given       \* the inner and outer rows, and the pairs the condition holds for

joinVars == <<nestloop, status, returned, given>>

\* A child: rows left, whether it returned NULL, whether it was called again.
Child(rows) == [left |-> rows, ended |-> FALSE, again |-> FALSE]
Took(child, n) ==
  [left  |-> SubSeq(child.left, n + 1, Len(child.left)),
   ended |-> child.ended,
   again |-> child.again \/ (child.ended /\ n > 0)]
Exhausted(child) ==
  [left |-> <<>>, ended |-> TRUE, again |-> child.again \/ child.ended]

-----------------------------------------------------------------------------
\* (mutant) the end of the inner rows is not noted.
InitInnerNotLast(j) ==
  LET n == Len(j.inner.left)
  IN  IF n < innerArraysize
      THEN [j EXCEPT !.innerArray = j.inner.left, !.innerPos = 0,
                     !.inner = Exhausted(@)]
      ELSE [j EXCEPT !.innerArray = SubSeq(j.inner.left, 1, innerArraysize),
                     !.innerPos = 0, !.inner = Took(@, innerArraysize)]

\* The array is filled. It is the last one if a child gave NULL before its end.
initNestLoopInner(j) ==
  LET n == Len(j.inner.left)
  IN  IF n < innerArraysize
      THEN [j EXCEPT !.innerArray = j.inner.left, !.innerPos = 0,
                     !.inner = Exhausted(@), !.isLastLoop = TRUE]
      ELSE [j EXCEPT !.innerArray = SubSeq(j.inner.left, 1, innerArraysize),
                     !.innerPos = 0, !.inner = Took(@, innerArraysize)]

\* What TD_memtuple of the outer tuple holds when row is fetched.
BytesOf(j, row) == IF j.projected THEN j.bytes ELSE row

\* (mutant) the outer row is saved only where it is not the first.
GetOuterUnsaved(j) ==
  IF j.outer.left = <<>>
  THEN [j EXCEPT !.outer = Exhausted(@), !.isFirstLoop = FALSE, !.outerTuple = NULL]
  ELSE [j EXCEPT !.outerTuple = Head(j.outer.left), !.outer = Took(@, 1),
                 !.tmf = IF j.outerTuple = NULL THEN @ ELSE Append(@, BytesOf(j, Head(j.outer.left)))]

\* The next outer row, of the first loop: the tuple created for the loops that
\* read the file is lost when the caller assigns NULL.
NestLoop_GetOuter(j) ==
  IF j.outer.left = <<>>
  THEN [j EXCEPT !.outer = Exhausted(@), !.isFirstLoop = FALSE, !.outerTuple = NULL]
  ELSE [j EXCEPT !.outerTuple = Head(j.outer.left), !.outer = Took(@, 1),
                 !.tmf = Append(@, BytesOf(j, Head(j.outer.left)))]

\* On the first call the first outer row and an array are fetched.
Started(j) ==
  IF j.outerTuple # NULL THEN j
  ELSE LET first == NestLoop_GetOuter(j)
       IN  IF first.outerTuple = NULL THEN first ELSE initNestLoopInner(first)

\* (mutant) the last row of the array counts as its end.
AdvancedEarly(j) ==
  IF j.innerPos + 1 < Len(j.innerArray) THEN j
  ELSE [NestLoop_GetOuter(j) EXCEPT !.innerPos = 0]

\* Where the array is done the next outer row is fetched.
Advanced(j) ==
  IF j.innerPos < Len(j.innerArray) THEN j
  ELSE [NestLoop_GetOuter(j) EXCEPT !.innerPos = 0]

-----------------------------------------------------------------------------
JoinInit ==
  /\ \E n \in 0 .. MaxInner, m \in 0 .. MaxOuter :
       \E cond \in SUBSET ((1 .. n \cup {Cleared}) \X (1 .. m)) :
         given = [inner |-> Rows(n), outer |-> Rows(m), cond |-> cond]
  /\ \E projected \in BOOLEAN : nestloop =
       [outerTuple |-> NULL, isFirstLoop |-> TRUE, isLastLoop |-> FALSE,
        innerArray |-> <<>>, innerPos |-> 0, tmf |-> <<>>,
        projected |-> projected, bytes |-> NULL,
        inner |-> Child(given.inner), outer |-> Child(given.outer)]
  /\ status = "open" /\ returned = <<>>

\* There is no outer row, or none is left and no inner one either.
JoinEnds ==
  LET j == Started(nestloop)
      k == Advanced(j)
  IN  /\ status = "open"
      /\ \/ j.outerTuple = NULL /\ nestloop' = j
         \/ /\ j.outerTuple # NULL /\ k.outerTuple = NULL /\ k.isLastLoop
            /\ nestloop' = k
      /\ status' = "ended"
      /\ UNCHANGED <<returned, given>>

\* The outer rows are done and another array is read. outerTuple is NULL, and
\* tupleJoin reads through it.
ArrayEnds ==
  LET j == Started(nestloop)
      k == Advanced(j)
  IN  /\ status = "open"
      /\ j.outerTuple # NULL /\ k.outerTuple = NULL /\ ~k.isLastLoop
      /\ nestloop' = initNestLoopInner(k)
      /\ status' = "dead"
      /\ UNCHANGED <<returned, given>>

\* (mutant) the position stays.
JoinedStays(j) == j

\* The element of the array that a row is joined from is used up, and the outer
\* row is bytes now.
Joined(j) == [j EXCEPT !.innerPos = @ + 1, !.bytes = j.outerTuple]

\* A row is joined. The first element of an empty array is joined too: a tuple
\* without content, whose conversion may also end the process.
tupleJoin ==
  LET j == Advanced(Started(nestloop))
      inner == IF j.innerArray = <<>> THEN Cleared ELSE j.innerArray[j.innerPos + 1]
      pair == <<inner, j.outerTuple>>
  IN  /\ status = "open"
      /\ Started(nestloop).outerTuple # NULL /\ j.outerTuple # NULL
      /\ nestloop' = Joined(j)
      /\ \/ /\ returned' = IF pair \in given.cond THEN Append(returned, pair) ELSE returned
            /\ UNCHANGED status
         \/ inner = Cleared /\ status' = "dead" /\ UNCHANGED returned
      /\ UNCHANGED given

JoinNext == JoinEnds \/ ArrayEnds \/ tupleJoin

\* execSelect calls until it gets NULL.
JoinSpec == JoinInit /\ [][JoinNext]_joinVars /\ WF_joinVars(JoinNext)

-----------------------------------------------------------------------------
\* Properties

\* The pairs of two lists, in the order of the outer rows.
Pairs(inner, outer) ==
  FlattenSeq([o \in DOMAIN outer |-> [i \in DOMAIN inner |-> <<inner[i], outer[o]>>]])
\* The pairs of a list for which the condition holds, in their order.
Selected(pairs, cond) ==
  LET selected[n \in 0 .. Len(pairs)] ==
        IF n = 0 THEN <<>>
        ELSE IF pairs[n] \in cond THEN Append(selected[n - 1], pairs[n])
        ELSE selected[n - 1]
  IN  selected[Len(pairs)]
Wanted ==
  LET array == Restrict(given.inner, DOMAIN given.inner \cap 1 .. innerArraysize)
  IN  Selected(Pairs(array, given.outer), given.cond)

\* If there are inner rows, the join returns the pairs for which the condition
\* holds, each once and in the order of the loops, and all of them when it ends;
\* and it ends only if the inner rows fit in one array (execJoin.c:30-60).
PairsExact ==
  given.inner # <<>> =>
    /\ IsPrefix(returned, Wanted)
    /\ status = "ended" => returned = Wanted
    /\ status = "ended" /\ given.outer # <<>> => Len(given.inner) < innerArraysize

\* No child is called again after it returned NULL; a join that is a child
\* would then read through a NULL tuple (execJoin.c:131).
EndOnce == ~nestloop.inner.again /\ ~nestloop.outer.again

\* Whenever a call has returned, the temporary file and the outer child together
\* have all outer rows, so that a next array could be joined with all of them, if
\* the rows came as bytes. ("temp file to save the outer tuple", analyze.h:156; of a
\* projected row it saves what the tuple held before.)
OuterSaved == ~nestloop.projected => nestloop.tmf \o nestloop.outer.left = given.outer

\* The join comes to an end: in order, or with the process.
Terminates == <>(status # "open")
=============================================================================
