---------------------------- MODULE EvidenceRuns -----------------------------
(* Where an answer's evidence comes from: the library as it is filled and    *)
(* searched, the turns that ground their answers in what a search returns,   *)
(* and the turns that search the web.  Each has scenes of its own: a turn    *)
(* sees the library only as the passages a learner may read, and a research  *)
(* does not read it.                                                         *)
EXTENDS ResourceLibrary, Grounding, DeepResearch

CONSTANT Scenes   \* bound: which of the three a behaviour uses

VARIABLE scene

vars == <<scene, libraryVars, groundingVars, researchVars>>

TypeOK == scene \in Scenes /\ LibraryTypeOK /\ GroundingTypeOK /\ ResearchTypeOK

\* What a scene does not use starts in one way only.
Init ==
  /\ scene \in Scenes /\ LibraryInit /\ GroundingInit /\ ResearchInit
  /\ scene # "library" => profile = (CHOOSE p \in Profiles : TRUE)
  /\ scene # "grounding" =>
       corpus = {} /\ \A t \in Turns : condition[t] = (CHOOSE c \in Conditions : TRUE)
  /\ scene # "research" => settings = (CHOOSE c \in Settings : TRUE)

Next ==
  /\ UNCHANGED scene
  /\ \/ scene = "library" /\ LibraryNext /\ UNCHANGED <<groundingVars, researchVars>>
     \/ scene = "grounding" /\ GroundingNext /\ UNCHANGED <<libraryVars, researchVars>>
     \/ scene = "research" /\ ResearchNext /\ UNCHANGED <<libraryVars, groundingVars>>

Spec == Init /\ [][Next]_vars

\* The loop runs what is ready; calls to a model outside the collection have
\* timeouts of their own; the collection has its deadline.  Nothing is assumed
\* of the planner's, the searches' and the extractions' replies.
Fairness ==
  /\ WF_vars(Works /\ UNCHANGED <<scene, libraryVars, groundingVars>>)
  /\ WF_vars(TimeOut /\ UNCHANGED <<scene, libraryVars, groundingVars>>)

FairSpec == Spec /\ Fairness
=============================================================================
