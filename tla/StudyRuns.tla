----------------------------- MODULE StudyRuns ------------------------------
(* The learner store under its two users, each in scenes of its own: the     *)
(* turns and handlers of study sessions, and the requests that flush its     *)
(* outbox while several sessions answer.                                     *)
EXTENDS QuizTurns, LearnerAudit

CONSTANT Scenes   \* bound: which of the two a behaviour uses

VARIABLE scene

vars == <<scene, storeVars, quizVars, auditVars>>

TypeOK == scene \in Scenes /\ StoreTypeOK /\ QuizTypeOK /\ AuditTypeOK

Init == scene \in Scenes /\ StoreInit /\ QuizInit /\ AuditInit

Next ==
  /\ UNCHANGED scene
  /\ \/ scene = "quiz" /\ QuizNext /\ UNCHANGED auditVars
     \/ scene = "audit" /\ AuditNext /\ UNCHANGED quizVars

Spec == Init /\ [][Next]_vars

-----------------------------------------------------------------------------
(* The inductive invariant of the proofs. *)

StudyInd ==
  /\ scene \in Scenes
  /\ StoreInd /\ QuizInd /\ AuditInd
  /\ scene # "quiz" => \A s \in Sessions : row[s] = None /\ turn[s] = Idle /\ hinted[s] = {}
=============================================================================
