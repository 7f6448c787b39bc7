------------------------------- MODULE RowLists -------------------------------
(***************************************************************************)
(* What blocks promise to the statements: each is a list of rows, to which *)
(* rows are added and in which rows are marked as deleted. A row keeps its *)
(* place in the list, which is half of its address. This is how TableOps   *)
(* sees a block.                                                           *)
(***************************************************************************)
EXTENDS Integers, Sequences

CONSTANTS Rows, Deleted

VARIABLE lists   \* list of blocks, each a list of rows or Deleted

Init == lists = <<>>

AddBlock == lists' = Append(lists, <<>>)

Add ==
  \E b \in DOMAIN lists, row \in Rows :
    lists' = [lists EXCEPT ![b] = Append(@, row)]

AddInNewBlock == \E row \in Rows : lists' = Append(lists, <<row>>)

Delete ==
  \E b \in DOMAIN lists : \E i \in DOMAIN lists[b] :
    lists' = [lists EXCEPT ![b][i] = Deleted]

Next == AddBlock \/ Add \/ AddInNewBlock \/ Delete

Spec == Init /\ [][Next]_lists
=============================================================================
