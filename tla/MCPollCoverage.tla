--------------------------- MODULE MCPollCoverage ---------------------------
(* Instances of PollCoverage for TLC. *)
EXTENDS PollCoverage, TLC

\* Sound for the safety properties: no definition picks an element by name.
MCSymmetry == Permutations(Slot)
=============================================================================
