---------------------------- MODULE MCDialQueue ----------------------------
(* Instances of DialQueue for TLC. *)
EXTENDS DialQueue, TLC

\* Sound for the safety properties: no definition picks an element by name.
MCSymmetry == Permutations(Worker) \cup Permutations(Handler)
              \cup Permutations(RowId) \cup Permutations(CallId)
=============================================================================
