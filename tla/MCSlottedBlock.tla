---------------------------- MODULE MCSlottedBlock ----------------------------
(***************************************************************************)
(* Instances of SlottedBlock for TLC: rows of different lengths, one of    *)
(* which fills a block.                                                    *)
(***************************************************************************)
EXTENDS SlottedBlock

CONSTANTS short, mid, full
MCRows == {short, mid, full}
MCLenOf == [row \in MCRows |->
  IF row = short THEN 1 ELSE IF row = mid THEN 3 ELSE NewBlockSpace - ItemSize]
=============================================================================
