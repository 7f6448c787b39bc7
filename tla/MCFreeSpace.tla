----------------------------- MODULE MCFreeSpace -----------------------------
(***************************************************************************)
(* Instances of FreeSpace for TLC.                                         *)
(***************************************************************************)
EXTENDS FreeSpace
=============================================================================
