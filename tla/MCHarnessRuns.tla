--------------------------- MODULE MCHarnessRuns ---------------------------
(* A main cell, its replay and a cell of the ablation; a batch of two cells,  *)
(* of two turns and of one, each turn of either kind; two cells of the live  *)
(* experiment.                                                               *)
EXTENDS HarnessRuns
MCUnits == <<[phase |-> "main", of |-> 0], [phase |-> "replay", of |-> 1],
             [phase |-> "rag_ablation", of |-> 0]>>
MCTurnsOf == <<2, 1>>
MCTurnKinds == <<{[calls |-> 0, decision |-> "gap"], [calls |-> 1, decision |-> "unlocatable"]}>>
=============================================================================
