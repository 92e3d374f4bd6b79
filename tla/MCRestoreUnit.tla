------------------------------ MODULE MCRestoreUnit ------------------------------
(* Instances of RestoreUnit for TLC.                                       *)
EXTENDS RestoreUnit
=============================================================================
