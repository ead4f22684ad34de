-------------------------- MODULE MCAutomationRuns --------------------------
(* Instances of AutomationRuns for TLC. *)
EXTENDS AutomationRuns
=============================================================================
