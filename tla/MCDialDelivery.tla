--------------------------- MODULE MCDialDelivery ---------------------------
(* Instances of DialDelivery for TLC. *)
EXTENDS DialDelivery
=============================================================================
