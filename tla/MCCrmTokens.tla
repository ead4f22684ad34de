---------------------------- MODULE MCCrmTokens ----------------------------
(* Instances of CrmTokens for TLC. *)
EXTENDS CrmTokens, TLC

CONSTANTS worker, console, a1, a2, a3

\* Two adapters in the worker, one in the console's host.
MCHome == a1 :> worker @@ a2 :> worker @@ a3 :> console

OneHome == a1 :> worker @@ a2 :> worker
=============================================================================
