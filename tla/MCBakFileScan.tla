--------------------------- MODULE MCBakFileScan ----------------------------
(* Instances of BakFileScan for TLC. *)
EXTENDS BakFileScan
=============================================================================
