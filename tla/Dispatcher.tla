----------------------------- MODULE Dispatcher -----------------------------
(***************************************************************************)
(* How a decision of the teaching graph becomes a text: the table of       *)
(* graph/education/bindings.py, which names a primitive of the runtime for *)
(* every action, and ActionDispatcher.execute of runtime/capabilities.py,  *)
(* which looks the action up, fills the binding's fields in from the       *)
(* decision, runs the primitive and puts the reply together.               *)
(*                                                                         *)
(* A block of the table (a prefix, a fallback ...) is the fields it reads  *)
(* and, if it selects one of several texts, the selecting field and the    *)
(* keys that have a text.  The wording is left out: a reply is the         *)
(* sequence of its parts.  What the outside answers is given by            *)
(*   found   locatable passages were retrieved                             *)
(*   skill   what the skill returns: a text, none, or an exception         *)
(*   model   whether the model answers                                     *)
(***************************************************************************)
EXTENDS TeachingPolicy, TLC

DispatchedActions == {"assess", "end", "reflect", "hint", "ask", "teach", "correct", "test"}
Primitives == {"render_template", "invoke_skill", "retrieve_evidence", "generate_grounded"}

-----------------------------------------------------------------------------
(* The table. *)

NoBlock == [given |-> FALSE]
\* A block of one text, and one that selects its text by the value of a field.
Text(reads) == [given |-> TRUE, reads |-> reads, select |-> "", keys |-> {}]
Choice(select, keys) == [given |-> TRUE, reads |-> {}, select |-> select, keys |-> keys]

\* A binding: `reads` are the ${fields} of its params, `body` the block that
\* render_template renders.
Bound(capability, reads) ==
  [capability |-> capability, reads |-> reads, body |-> NoBlock, evidence |-> FALSE,
   suffix |-> NoBlock, fallback |-> NoBlock, insufficient |-> NoBlock]

Template(block, reads) == [Bound("render_template", reads) EXCEPT !.body = block]

\* _EVIDENCE_BINDING
EvidenceBinding == Bound("retrieve_evidence", {"params.query", "concept", "params.course_id"})

Grounded(reads, insufficientReads) ==
  [Bound("generate_grounded", reads) EXCEPT
     !.evidence = TRUE, !.insufficient = Text(insufficientReads), !.fallback = Text({})]

\* Mutant: a level of the ladder has no text.
HintBinding_Short ==
  Template(Choice("level", {ToString(n) : n \in 1..(HintMaxLevel - 1)}), {"level", "concept"})
HintBinding ==
  Template(Choice("level", {ToString(n) : n \in 1..HintMaxLevel}), {"level", "concept"})

ReflectBinding ==
  Template(Choice("params.mode", {"limit", "stopped", "evidence_gap"}), {"params.mode", "concept"})

AskBinding ==
  [Bound("invoke_skill", {"concept", "params.learning_goal", "params.user_input", "level",
                          "params.attempt_count"}) EXCEPT
     !.fallback = Text({"concept"}),
     !.suffix = Choice("evidence_sufficient", {"True", "False"})]

TeachBinding ==
  Grounded({"concept", "params.learning_goal", "params.user_input", "params.prior_gap_note"}, {})
CorrectBinding ==
  Grounded({"concept", "params.conflicts", "params.user_input"}, {"concept", "params.conflicts"})

TestBinding ==
  [Bound("invoke_skill", {"params.concept_id", "params.difficulty"}) EXCEPT !.fallback = Text({})]

ActionBindings ==
  [a \in DispatchedActions |->
     CASE a = "assess" -> EvidenceBinding [] a = "end" -> Template(Text({}), {})
       [] a = "reflect" -> ReflectBinding [] a = "hint" -> HintBinding
       [] a = "ask" -> AskBinding         [] a = "teach" -> TeachBinding
       [] a = "correct" -> CorrectBinding [] a = "test" -> TestBinding]

-----------------------------------------------------------------------------
(* The decisions of the nodes: the fields that can be read, and the values   *)
(* of those that select a text.                                              *)

Always == {"action", "concept", "level", "reveal_answer", "require_evidence",
           "require_student_reply", "evidence_sufficient"}

\* The keys each node puts into its params.
Params(action) ==
  CASE action = "assess"  -> {"params.query", "params.course_id"}
    [] action = "reflect" -> {"params.mode", "params.stopped", "params.turn_count", "params.max_turns"}
    [] action = "hint"    -> {"params.wrong_streak", "params.hint_level_from"}
    [] action = "ask"     -> {"params.learning_goal", "params.user_input", "params.attempt_count"}
    [] action = "teach"   -> {"params.learning_goal", "params.user_input", "params.query",
                              "params.course_id", "params.prior_gap_note"}
    [] action = "correct" -> {"params.conflicts", "params.user_input", "params.query", "params.course_id"}
    [] action = "test"    -> {"params.concept_id", "params.difficulty"}
    [] OTHER              -> {}

\* reflect: why the turn ends without teaching.
ReflectMode(stopped, sufficient, skipped) ==
  CASE stopped -> "stopped"
    [] ~stopped /\ ~sufficient /\ ~skipped -> "evidence_gap"
    [] OTHER -> "limit"

\* PedagogicalDecision.to_dict, for a learner state s.
Decision(action, s, skipped, constrained) ==
  [action |-> action, fields |-> Always \cup Params(action),
   level |-> IF action = "hint" THEN HintLevel(s) ELSE s.level,
   mode |-> ReflectMode(s.stopped, s.sufficient, skipped),
   sufficient |-> s.sufficient,
   require |-> action \in {"teach", "correct"} /\ constrained]

\* The value of a selecting field, as str() writes it.
ValueOf(d, field) ==
  CASE field = "level" -> ToString(d.level)
    [] field = "params.mode" -> d.mode
    [] field = "evidence_sufficient" -> IF d.sufficient THEN "True" ELSE "False"

-----------------------------------------------------------------------------
(* The dispatcher. *)

\* render_block: no text for the selected key, and fields that do not exist.
NotFound(block, d) ==
  block.given /\ block.select # "" /\ (block.select \notin d.fields \/ ValueOf(d, block.select) \notin block.keys)
Missing(block, d) == IF block.given THEN block.reads \ d.fields ELSE {}

\* The part a block adds to a reply; the suffix of a sufficient question is empty.
Part(block, d, name) ==
  IF ~block.given \/ (block.select = "evidence_sufficient" /\ d.sufficient) THEN <<>> ELSE <<name>>

\* What a primitive does: it raises, or gives a text, evidence and a status.
Ran(status, content, evidence, asked) ==
  [status |-> status, content |-> content, evidence |-> evidence, asked |-> asked]
Raises(asked) == Ran("raises", <<>>, FALSE, asked)

RunPrimitive(b, d, host, evidence) ==
  CASE b.capability = "render_template" ->
         IF NotFound(b.body, d) THEN Raises(FALSE) ELSE Ran("success", <<"text">>, FALSE, FALSE)
    [] b.capability = "invoke_skill" ->
         IF host.skill = "ok" THEN Ran("success", <<"skill">>, FALSE, FALSE) ELSE Raises(FALSE)
    [] b.capability = "retrieve_evidence" ->
         Ran(IF host.found THEN "success" ELSE "insufficient_evidence", <<>>, host.found, FALSE)
    [] b.capability = "generate_grounded" ->
         IF host.model THEN Ran("success", <<"generated">>, evidence, TRUE) ELSE Raises(TRUE)

Result(status, content, evidence, asked) ==
  [status |-> status, content |-> content, evidence |-> evidence, asked |-> asked]

\* The primitive has raised: the binding's fallback, without evidence.
FallBack(b, d, evidence, ran) ==
  IF ~b.fallback.given \/ NotFound(b.fallback, d) THEN Result("error", <<>>, FALSE, ran.asked)
  ELSE IF Missing(b.fallback, d) # {} THEN Result("invalid_request", <<>>, FALSE, ran.asked)
  ELSE Result("success", <<"fallback">> \o Part(b.suffix, d, "note"), FALSE, ran.asked)

\* The reply of a primitive that is run, or of its fallback.
Reply(b, d, host, evidence) ==
  LET ran == RunPrimitive(b, d, host, evidence) IN
  IF ran.status = "raises" THEN FallBack(b, d, evidence, ran)
  ELSE Result(ran.status, ran.content \o Part(b.suffix, d, "note"), ran.evidence \/ evidence, ran.asked)

\* _collect_evidence: a decision that lacks a field of the search finds nothing.
Collected(d, host) == host.found /\ EvidenceBinding.reads \subseteq d.fields

\* Evidence comes first where the binding or the decision asks for it; without
\* any, under the constraint, the primitive is not run.
Gated(b, d, host, constrained) ==
  (b.evidence \/ d.require) /\ constrained /\ ~Collected(d, host)

\* ActionDispatcher.execute: its returns in their order.
Execute(d, host, constrained) ==
  IF d.action \notin DOMAIN ActionBindings THEN Result("no_binding", <<>>, FALSE, FALSE)
  ELSE LET b == ActionBindings[d.action] IN
  IF b.capability \notin Primitives THEN Result("capability_not_found", <<>>, FALSE, FALSE)
  ELSE IF b.reads \ d.fields # {} THEN Result("invalid_request", <<>>, FALSE, FALSE)
  ELSE IF Gated(b, d, host, constrained) /\ NotFound(b.insufficient, d)
    THEN Result("error", <<>>, FALSE, FALSE)
  ELSE IF Gated(b, d, host, constrained)
    THEN Result("insufficient_evidence", Part(b.insufficient, d, "insufficient"), FALSE, FALSE)
  ELSE IF NotFound(b.suffix, d) THEN Result("error", <<>>, FALSE, FALSE)
  ELSE IF Missing(b.suffix, d) # {} THEN Result("invalid_request", <<>>, FALSE, FALSE)
  ELSE Reply(b, d, host, b.evidence /\ Collected(d, host))

Hosts == [found : BOOLEAN, skill : {"ok", "none", "raises"}, model : BOOLEAN]

\* Whatever the outside does, a decision gets a reply: no field, text or
\* primitive is missing; a passage is attached to a generated text only, a
\* model is asked under the constraint only with a passage, and it is asked if
\* there is one.
WellAssembled(d, constrained) ==
  \A host \in Hosts :
    LET r == Execute(d, host, constrained) IN
    /\ r.status \in {"success", "insufficient_evidence"}
    /\ r.content # <<>> \/ d.action = "assess"
    /\ r.evidence => host.found /\ (r.content = <<"generated">> \/ d.action = "assess")
    /\ r.asked => d.action \in {"teach", "correct"} /\ (constrained => host.found)
    /\ d.action \in {"teach", "correct"} /\ host.found /\ host.model => r.content = <<"generated">>
=============================================================================
