---------------------------- MODULE FreeSpaceMap ----------------------------
(***************************************************************************)
(* What the free space heap promises a relation: a map from blocks to the  *)
(* space left in them, kept in memory, saved as a whole and read back,     *)
(* unless a process dies while it saves. There is no order, no array and   *)
(* no walk here.                                                           *)
(***************************************************************************)
EXTENDS Integers

CONSTANTS
  BlockNums,       \* the blocks a relation may have
  Needs,           \* the space a tuple may need
  NewBlockSpace,   \* the free space of a new block
  MIN_FreeSpace

VARIABLES
  free,      \* block -> space left, for the blocks worth listing
  saved,     \* the map a new process will find
  measuring, \* is the space of the blocks being measured anew?
  torn       \* was the map lost while it was being saved?

mapVars == <<free, saved, measuring, torn>>

\* The map with one more block, or another value for it.
Put(map, b, n) == [c \in DOMAIN map \cup {b} |-> IF c = b THEN n ELSE map[c]]
Drop(map, b) == [c \in DOMAIN map \ {b} |-> map[c]]

\* `need` taken from a block with more than that.
Taken(map, b, need) ==
  IF map[b] - need <= MIN_FreeSpace THEN Drop(map, b) ELSE Put(map, b, map[b] - need)

Empty == [b \in {} |-> 0]

Init == free = Empty /\ saved = Empty /\ ~measuring /\ ~torn

\* The blocks after some were added.
Added(map) == {map} \cup {Put(map, b, NewBlockSpace) : b \in BlockNums}

\* A block is added for an update; or a request is missed, and adds two.
Add ==
  /\ ~measuring
  /\ \E map \in Added(free) : free' \in Added(map)
  /\ UNCHANGED <<saved, measuring, torn>>

\* A request is served from the blocks listed, after one was added or not. If
\* what the map says of a block is not so, one more is added afterwards.
Serve(need) ==
  /\ ~measuring
  /\ \E map \in Added(free) : \E b \in DOMAIN map :
       /\ map[b] > need
       /\ free' \in Added(Taken(map, b, need))
  /\ UNCHANGED <<saved, measuring, torn>>

\* A process ends: the map in memory is saved, or was not.
Quit ==
  /\ free' = Empty /\ saved' \in {saved, free} /\ ~measuring'
  /\ UNCHANGED torn

\* It dies while it saves the map, of which nothing is promised from then on.
Tear == free' = Empty /\ saved' = Empty /\ ~measuring' /\ torn'

Reload == free' = saved /\ UNCHANGED <<saved, measuring, torn>>

\* A process that measures the blocks starts from an empty map, and goes through
\* them once.
Begin ==
  /\ free = Empty /\ measuring'
  /\ UNCHANGED <<free, saved, torn>>

Measure(b, n) ==
  /\ measuring /\ b \notin DOMAIN free
  /\ free' = Put(free, b, n)
  /\ UNCHANGED <<saved, measuring, torn>>

Next ==
  /\ ~torn
  /\ \/ Add \/ Quit \/ Tear \/ Reload \/ Begin
     \/ \E need \in Needs : Serve(need)
     \/ \E b \in BlockNums, n \in 0 .. NewBlockSpace : Measure(b, n)

Spec == Init /\ [][Next]_mapVars
=============================================================================
