--------------------------- MODULE MCRestoreQueue ---------------------------
(* Instances of RestoreQueue for TLC. *)
EXTENDS RestoreQueue
=============================================================================
