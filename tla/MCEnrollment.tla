---------------------------- MODULE MCEnrollment ----------------------------
(* The instance of Enrollment for TLC. *)
EXTENDS Enrollment

MCContact == 1..4
MCPhoned == {3}
=============================================================================
