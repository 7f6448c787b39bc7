---------------------------- MODULE MCNestLoopJoin ----------------------------
(***************************************************************************)
(* Instances of NestLoopJoin for TLC.                                      *)
(***************************************************************************)
EXTENDS NestLoopJoin
=============================================================================
