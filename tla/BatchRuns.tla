------------------------------ MODULE BatchRuns ------------------------------
(* The batches of experiments that spend authorized model calls, each in scenes *)
(* of its own: the measurements, campaigns and repairs of the first corpus share *)
(* one ledger, the full-text batch and its review another.                    *)
EXTENDS Campaign, FulltextReview

CONSTANT Scenes   \* bound: which of the two a behaviour uses

VARIABLE scene

vars == <<scene, campaignVars, trialVars>>

Init ==
  /\ scene \in Scenes /\ CampaignInit /\ TrialInit
  /\ scene = "campaign" => wanted = {}

Next ==
  /\ UNCHANGED scene
  /\ \/ scene = "campaign" /\ CampaignNext /\ UNCHANGED trialVars
     \/ scene = "fulltext" /\ TrialNext /\ UNCHANGED campaignVars

Spec == Init /\ [][Next]_vars
=============================================================================
