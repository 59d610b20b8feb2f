---------------------------- MODULE CliProcesses ----------------------------
(* The names that the models of the command-line client share.             *)
CONSTANTS
  Clis,        \* the command-line processes
  Gateways,    \* the starts of a gateway
  None, Dead   \* model values: nobody; a process that was killed

ASSUME NamesAssumption ==
  /\ None \notin Clis \cup Gateways
  /\ Dead \notin Clis \cup {None}
=============================================================================
