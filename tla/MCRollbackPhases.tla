------------------------- MODULE MCRollbackPhases -------------------------
(* Instances of RollbackPhases for TLC.                                     *)
EXTENDS RollbackPhases
=============================================================================
