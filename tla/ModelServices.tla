--------------------------- MODULE ModelServices ----------------------------
(***************************************************************************)
(* The services of a gateway in use, in two scenes: a turn's model calls   *)
(* (ModelCalls), and the clients that list, describe and probe models      *)
(* (ModelDirectory), under the commands of ProviderCatalog and restarts.   *)
(* The two share nothing but the catalogue.                                *)
(***************************************************************************)
EXTENDS ModelCalls, ModelDirectory

CONSTANT Edited   \* bound: the profile contents of the edits beside the listings

ASSUME SceneAssumption == Edited \subseteq Contents

VARIABLE scene

servicesVars == <<vars, directoryVars, scene>>

ServicesInit == Init /\ DirectoryInit /\ scene \in {"calls", "listing"}

\* Of the commands, those that drop what is kept: a listed service is edited,
\* added again or removed.
EditOrRemove ==
  \/ \E k \in Listed, c \in Edited : UpsertProvider(k[1], c, FALSE)
  \/ \E k \in Listed, q \in Profiles : DeleteProvider(k[1], q, NoModel)
  \/ \E d \in deleting : FinishDelete(d)

ServicesNext ==
  /\ UNCHANGED scene
  /\ \/ scene = "calls" /\ Next /\ UNCHANGED directoryVars
     \/ scene = "listing" /\ EditOrRemove /\ UNCHANGED <<turn, left, call>> /\ Follow
     \/ scene = "listing" /\ Restart /\ DirectoryRestart
     \/ scene = "listing" /\ DirectoryStep /\ UNCHANGED <<turn, left, call>>

ServicesSpec == ServicesInit /\ [][ServicesNext]_servicesVars

-----------------------------------------------------------------------------
\* The inductive invariant: each scene's own, and no request in the other's.
ServicesInd ==
  /\ CallInd /\ DirectoryInd
  /\ scene = "calls" => \A c \in Callers : req[c] = None
=============================================================================
