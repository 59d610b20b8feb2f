----------------------------- MODULE HarnessRuns -----------------------------
(* The scripts that run an experiment cell by cell, each in scenes of its own *)
(* as they share no file and no gateway: the offline matrix, the acceptance   *)
(* batch and the live experiment.                                            *)
EXTENDS OfflineMatrix, LiveAcceptance, PilotRun

CONSTANT Scenes   \* bound: which script a behaviour uses

VARIABLE scene

vars == <<scene, matrixVars, batchVars, pilotVars>>

TypeOK == scene \in Scenes /\ MatrixTypeOK /\ BatchTypeOK

Init == scene \in Scenes /\ MatrixInit /\ BatchInit /\ PilotInit

Next ==
  /\ UNCHANGED scene
  /\ \/ scene = "offline" /\ MatrixNext /\ UNCHANGED <<batchVars, pilotVars>>
     \/ scene = "acceptance" /\ BatchNext /\ UNCHANGED <<matrixVars, pilotVars>>
     \/ scene = "pilot" /\ PilotNext /\ UNCHANGED <<matrixVars, batchVars>>

Spec == Init /\ [][Next]_vars

\* A script that was started works on while nobody kills it, its timeouts
\* included.  Nothing is asked of the gateway, whose turns may never end and
\* which may never come back, or of the provider.
Fairness ==
  /\ WF_vars(HarnessStep /\ UNCHANGED <<scene, matrixVars, pilotVars>>)
  /\ WF_vars(RunnerSteps /\ UNCHANGED <<scene, matrixVars, batchVars>>)

FairSpec == Spec /\ Fairness
=============================================================================
