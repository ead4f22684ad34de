-------------------------- MODULE MCCallProcessing --------------------------
(* Instances of CallProcessing for TLC. *)
EXTENDS CallProcessing
=============================================================================
