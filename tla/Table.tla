-------------------------------- MODULE Table --------------------------------
(***************************************************************************)
(* What the statements promise of a table: each step touches one row.      *)
(* There are no blocks, no scan and no free space here.                    *)
(***************************************************************************)
EXTENDS Integers, Functions

CONSTANT Rows

VARIABLES
  rows,      \* row -> version, as the process that runs sees it
  durable,   \* the same in the file; a part of rows
  moving,    \* the row an UPDATE took out and has to put back
  known      \* does the process, or else the next, know all blocks?

tableVars == <<rows, durable, moving, known>>

Parts(f) == {Restrict(f, D) : D \in SUBSET DOMAIN f}
Without(f, r) == Restrict(f, DOMAIN f \ {r})
Including(f, r, v) == [x \in DOMAIN f \cup {r} |-> IF x = r THEN v ELSE f[x]]

\* A block that is added takes the place of one that is not known.
Kept == IF known THEN {rows} ELSE Parts(rows)

\* What was in the file and still is a row stays in the file.
Stored ==
  /\ durable' \in Parts(rows')
  /\ DOMAIN durable \cap DOMAIN rows' \subseteq DOMAIN durable'

Init ==
  /\ rows = [r \in {} |-> 0] /\ durable = rows
  /\ moving = {} /\ known = TRUE

Insert(r) ==
  /\ moving = {} /\ UNCHANGED moving
  /\ \E kept \in Kept : r \notin DOMAIN kept /\ rows' = Including(kept, r, 0)
  /\ Stored
  /\ known => known'

Delete(r) ==
  /\ moving = {} /\ r \in DOMAIN rows
  /\ rows' = Without(rows, r) /\ durable' = Without(durable, r)
  /\ UNCHANGED <<moving, known>>

\* UPDATE: the old version goes, and then the new one comes.
TakeOut(r) ==
  /\ moving = {} /\ r \in DOMAIN rows
  /\ rows' = Without(rows, r) /\ durable' = Without(durable, r)
  /\ moving' = {<<r, rows[r] + 1>>}
  /\ UNCHANGED known

PutBack ==
  /\ \E mv \in moving : \E kept \in Kept : rows' = Including(kept, mv[1], mv[2])
  /\ moving' = {}
  /\ Stored
  /\ known => known'

\* Room is made for an UPDATE.
AddBlock ==
  /\ moving = {} /\ UNCHANGED moving
  /\ rows' \in Kept
  /\ Stored
  /\ known => known'

\* What is not in the file may go any time.
Lose ==
  /\ rows' \in Parts(rows) /\ DOMAIN durable \subseteq DOMAIN rows'
  /\ UNCHANGED <<durable, moving, known>>

\* A process ends, in order or not.
Quit ==
  /\ rows' = durable /\ moving' = {} /\ known' \in BOOLEAN
  /\ UNCHANGED durable

Next ==
  \/ \E r \in Rows : Insert(r) \/ Delete(r) \/ TakeOut(r)
  \/ PutBack \/ AddBlock \/ Lose \/ Quit

Spec == Init /\ [][Next]_tableVars
=============================================================================
