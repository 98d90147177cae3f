-------------------------- MODULE MCRollbackFrames --------------------------
(* Instances of RollbackFrames for TLC.                                     *)
EXTENDS RollbackFrames
=============================================================================
