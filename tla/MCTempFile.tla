------------------------------ MODULE MCTempFile ------------------------------
(***************************************************************************)
(* Instances of TempFile for TLC.                                          *)
(***************************************************************************)
EXTENDS TempFile
=============================================================================
