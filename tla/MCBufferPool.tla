----------------------------- MODULE MCBufferPool -----------------------------
(***************************************************************************)
(* Instances of BufferPool for TLC.                                        *)
(***************************************************************************)
EXTENDS BufferPool

\* One scan per relation in use.
MCScanRel == [s \in Scans |-> s]
=============================================================================
