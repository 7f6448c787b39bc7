----------------------------- MODULE MCTableOps -----------------------------
(***************************************************************************)
(* Instances of TableOps for TLC.                                          *)
(***************************************************************************)
EXTENDS TableOps
=============================================================================
