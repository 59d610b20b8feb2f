------------------------------ MODULE Grounding ------------------------------
(***************************************************************************)
(* What a study turn's answer rests on: the evidence its nodes retrieve    *)
(* through the dispatcher (runtime/capabilities.py), the gates that keep a *)
(* model from being asked without any, and the citations of the message    *)
(* that api/sessions.py saves.                                             *)
(*                                                                         *)
(* One dispatcher serves all turns.  It remembers the retrievals of one    *)
(* trace at a time; a turn's trace is the turn.  A retrieval reaches no    *)
(* suspension point and is a step; between two of them the other turns and *)
(* the library go on.  What a dispatch makes of the bindings is Dispatcher;  *)
(* that no decision meets an assembly error is the invariant Assembled.    *)
(***************************************************************************)
EXTENDS Naturals, Sequences, Dispatcher

CONSTANTS
  None,
  Turns,
  Chunks,        \* passages of the library, each with its locator
  Readable,      \* per turn, the passages its learner may read
  Queries,
  Hits,          \* per query, the passages above the score limit
  AssessQuery,   \* per turn, the query of assess: the input and the concept
  NodeQuery,     \* per turn, the query of teach and correct: the input alone
  Situations,    \* learner states a turn may start from (see TeachingPolicy)
  Conditions     \* [group, constrained, retrieval, gap]: the session's options,
                 \* and whether the input says that the course has no source

ASSUME GroundingAssumption ==
  /\ Readable \in [Turns -> SUBSET Chunks] /\ Hits \in [Queries -> SUBSET Chunks]
  /\ AssessQuery \in [Turns -> Queries] /\ NodeQuery \in [Turns -> Queries]
  /\ Conditions \subseteq [group : {"A", "B"}, constrained : BOOLEAN,
                           retrieval : BOOLEAN, gap : BOOLEAN]
  /\ Situations \subseteq LearnerStates
  /\ None \notin Turns

VARIABLES
  corpus,     \* the passages of active resources
  memoTrace,  \* the trace the dispatcher remembers, or None
  memo,       \* what it remembers: {[key, found]}
  stage, condition, action,
  learner,    \* the learner state assess has decided on, or None
  refs,       \* retrieved_evidence_refs of the graph's state
  given,      \* the passages in the prompt of the turn's model call
  said        \* the message that was saved, or None

groundingVars == <<corpus, memoTrace, memo, stage, condition, action, learner, refs, given, said>>

Stages == {"new", "node", "generate", "done"}
Kinds == {"generated", "question", "fallback", "insufficient", "template"}

GroundingTypeOK ==
  /\ corpus \subseteq Chunks
  /\ memoTrace \in Turns \cup {None}
  /\ \A m \in memo : /\ m.key \in Turns \X Queries /\ m.found \subseteq Chunks
                     /\ \A n \in memo : n.key = m.key => n = m
  /\ stage \in [Turns -> Stages] /\ condition \in [Turns -> Conditions]
  /\ action \in [Turns -> Actions \cup {"end", "baseline", None}]
  /\ refs \in [Turns -> SUBSET Chunks] /\ given \in [Turns -> SUBSET Chunks]
  /\ learner \in [Turns -> LearnerStates \cup {None}]
  /\ said \in [Turns -> [kind : Kinds, cites : SUBSET Chunks] \cup {None}]

GroundingInit ==
  /\ corpus \in SUBSET Chunks
  /\ memoTrace = None /\ memo = {}
  /\ stage = [t \in Turns |-> "new"]
  /\ condition \in [Turns -> Conditions]
  /\ action = [t \in Turns |-> None] /\ learner = [t \in Turns |-> None]
  /\ refs = [t \in Turns |-> {}] /\ given = [t \in Turns |-> {}]
  /\ said = [t \in Turns |-> None]

-----------------------------------------------------------------------------
(* Retrieval. *)

\* search_textbook, as the turn's learner, and the RAG skill before it.
SearchTextbook(t, q) == Hits[q] \cap corpus \cap Readable[t]
Search(t, q) == IF condition[t].retrieval THEN SearchTextbook(t, q) ELSE {}

\* Mutant: the first trace is never given up.
TraceOf_First(t) == IF memoTrace = None THEN t ELSE memoTrace
\* _ensure_trace: the dispatcher turns to the trace that calls it, and forgets
\* what it remembered of another one.
TraceOf(t) == t
Kept(t) == IF TraceOf(t) = memoTrace THEN memo ELSE {}
Dispatch(t) == memoTrace' = TraceOf(t) /\ memo' = Kept(t)

MemoKey(t, q) == <<TraceOf(t), q>>

\* The retrieve_evidence primitive: what is remembered under the key, or else a
\* search.  A search that raises finds nothing, and that is not remembered.
Retrieve(t, q, found) ==
  LET known == {m \in Kept(t) : m.key = MemoKey(t, q)} IN
  /\ memoTrace' = TraceOf(t)
  /\ \/ /\ \E m \in known : found = m.found
        /\ memo' = Kept(t)
     \/ /\ known = {} /\ found = Search(t, q)
        /\ memo' = Kept(t) \cup {[key |-> MemoKey(t, q), found |-> found]}
     \/ known = {} /\ found = {} /\ memo' = Kept(t)

-----------------------------------------------------------------------------
(* The nodes of the teaching graph. *)

Goto(t, st) == stage' = [stage EXCEPT ![t] = st]

\* The message: the answer's citations, or else the references of the state.
Say(t, kind, cites, references) ==
  /\ said' = [said EXCEPT ![t] =
       [kind |-> kind, cites |-> IF cites # {} THEN cites ELSE references]]
  /\ Goto(t, "done")

\* Mutant: an input that says the course has no source changes nothing.
Sufficient_NoGap(t, found) == ~condition[t].constrained \/ found # {}
Sufficient(t, found) ==
  ~condition[t].constrained \/ (found # {} /\ ~condition[t].gap)

References(t, found) == IF condition[t].gap THEN {} ELSE found

\* assess: a turn that is stopped or at its limit retrieves nothing.
AssessNode(t) ==
  /\ stage[t] = "new" /\ condition[t].group = "B"
  /\ \E s \in Situations, found \in SUBSET Chunks :
       /\ IF s.stopped \/ AtLimit(s)
            THEN found = {} /\ UNCHANGED <<memoTrace, memo>>
            ELSE Retrieve(t, AssessQuery[t], found)
       /\ refs' = [refs EXCEPT ![t] = References(t, found)]
       /\ learner' = [learner EXCEPT ![t] = [s EXCEPT !.sufficient = Sufficient(t, found)]]
       /\ action' = [action EXCEPT ![t] = Route(s, Assess(learner'[t]))]
  /\ IF action'[t] = "end" THEN Say(t, "template", {}, refs'[t]) ELSE Goto(t, "node") /\ UNCHANGED said
  /\ UNCHANGED <<corpus, condition, given>>

\* The dispatcher, for teach and correct: evidence first; without any, the insufficient text and no model.
GroundedNode(t) ==
  /\ stage[t] = "node" /\ action[t] \in {"teach", "correct"}
  /\ \E found \in SUBSET Chunks :
       /\ Retrieve(t, NodeQuery[t], found)
       /\ IF found = {} /\ condition[t].constrained
            THEN Say(t, "insufficient", {}, refs[t]) /\ UNCHANGED given
            ELSE /\ given' = [given EXCEPT ![t] = found]
                 /\ Goto(t, "generate") /\ UNCHANGED said
  /\ UNCHANGED <<corpus, condition, action, learner, refs>>

\* ask: the Socratic skill asks a model, without evidence.
AskNode(t) ==
  /\ stage[t] = "node" /\ action[t] = "ask"
  /\ Dispatch(t)
  /\ Goto(t, "generate")
  /\ UNCHANGED <<corpus, condition, action, learner, refs, given, said>>

TeachNode(t) == action[t] = "teach" /\ GroundedNode(t)
CorrectNode(t) == action[t] = "correct" /\ GroundedNode(t)

\* A template; for test a question of the bank, or that there is none.
TemplateNode(t) ==
  /\ stage[t] = "node"
  /\ Dispatch(t)
  /\ Say(t, "template", {}, refs[t])
  /\ UNCHANGED <<corpus, condition, action, learner, refs, given>>
HintNode(t) == action[t] = "hint" /\ TemplateNode(t)
ReflectNode(t) == action[t] = "reflect" /\ TemplateNode(t)
TestNode(t) == action[t] = "test" /\ TemplateNode(t)

\* _generate_grounded: only a text that was generated has citations.
Generated(t) ==
  /\ stage[t] = "generate" /\ action[t] \in {"teach", "correct"}
  /\ Say(t, "generated", given[t], refs[t])
  /\ UNCHANGED <<corpus, memoTrace, memo, condition, action, learner, refs, given>>

\* The skill's question, if it is one short question without the answer.
Asked(t) ==
  /\ stage[t] = "generate" /\ action[t] = "ask"
  /\ Say(t, "question", {}, refs[t])
  /\ UNCHANGED <<corpus, memoTrace, memo, condition, action, learner, refs, given>>

\* The model fails, or the question is not acceptable: the binding's fallback.
FellBack(t) ==
  /\ stage[t] = "generate" /\ action[t] \in {"teach", "correct", "ask"}
  /\ Say(t, "fallback", {}, refs[t])
  /\ UNCHANGED <<corpus, memoTrace, memo, condition, action, learner, refs, given>>

-----------------------------------------------------------------------------
(* The baseline of group A: the same library, no graph and no dispatcher. *)

Baseline(t) ==
  /\ stage[t] = "new" /\ condition[t].group = "A"
  /\ action' = [action EXCEPT ![t] = "baseline"]
  /\ LET found == Search(t, NodeQuery[t]) IN
     IF found = {} /\ condition[t].constrained
       THEN Say(t, "insufficient", {}, {}) /\ UNCHANGED given
       ELSE /\ given' = [given EXCEPT ![t] = found]
            /\ Goto(t, "generate") /\ UNCHANGED said
  /\ UNCHANGED <<corpus, memoTrace, memo, condition, learner, refs>>

\* The question, or a fixed one in its place; a failed call fails the turn.
BaselineAsked(t) ==
  /\ stage[t] = "generate" /\ action[t] = "baseline"
  /\ \E kind \in {"question", "fallback"} : Say(t, kind, given[t], {})
  /\ UNCHANGED <<corpus, memoTrace, memo, condition, action, learner, refs, given>>

\* The turn is cancelled or fails: it says nothing.
TurnEnds(t) ==
  /\ stage[t] # "done"
  /\ Goto(t, "done")
  /\ UNCHANGED <<corpus, memoTrace, memo, condition, action, learner, refs, given, said>>

\* A resource is imported or activated.
CorpusGrows ==
  /\ \E c \in Chunks \ corpus : corpus' = corpus \cup {c}
  /\ UNCHANGED <<memoTrace, memo, stage, condition, action, learner, refs, given, said>>

GroundingNext ==
  \/ CorpusGrows
  \/ \E t \in Turns :
       \/ AssessNode(t) \/ TeachNode(t) \/ CorrectNode(t) \/ AskNode(t)
       \/ HintNode(t) \/ ReflectNode(t) \/ TestNode(t)
       \/ Generated(t) \/ Asked(t) \/ FellBack(t)
       \/ Baseline(t) \/ BaselineAsked(t) \/ TurnEnds(t)

-----------------------------------------------------------------------------
(* Properties. *)

\* However the dispatches of two turns alternate, a turn has only passages that
\* its own query finds and its own learner may read; under the evidence
\* constraint an explanation cites exactly those its model was given, and there
\* are some (retrieve's memo, generate's citations).
OwnEvidence ==
  \A t \in Turns :
    /\ refs[t] \subseteq Hits[AssessQuery[t]] \cap Readable[t]
    /\ given[t] \subseteq Hits[NodeQuery[t]] \cap Readable[t]
    /\ said[t] # None /\ said[t].kind = "generated" /\ condition[t].constrained =>
         said[t].cites = given[t] /\ given[t] # {}

\* Under the constraint no model is asked, not even for a question, in a turn
\* that has found no evidence or whose input says there is none.
ModelOnlyWithEvidence ==
  \A t \in Turns :
    stage[t] = "generate" /\ condition[t].constrained =>
      /\ refs[t] \cup given[t] # {}
      /\ condition[t].group = "B" => ~condition[t].gap

\* No decision of a node meets a field, a text or a primitive that the bindings
\* do not have, and each is answered as its evidence allows.
Assembled ==
  \A t \in Turns : learner[t] # None =>
    LET s == learner[t] c == condition[t].constrained IN
    \A sent \in {"assess", action[t]} :
      WellAssembled(Decision(sent, s, s.stopped \/ AtLimit(s), c), c)

-----------------------------------------------------------------------------
(* The inductive invariants behind OwnEvidence, ModelOnlyWithEvidence and  *)
(* Assembled.                                                              *)

\* What is remembered was found for the trace that is remembered, by its learner.
MemoIsOwn ==
  \A m \in memo : /\ memoTrace # None /\ m.key[1] = memoTrace
                  /\ m.found \subseteq Hits[m.key[2]] \cap Readable[memoTrace]

FoundIsOwn ==
  \A t \in Turns : /\ refs[t] \subseteq Hits[AssessQuery[t]] \cap Readable[t]
                   /\ given[t] \subseteq Hits[NodeQuery[t]] \cap Readable[t]

\* Where a turn that asks a model stands, under the constraint.
AsksWithEvidence(t) ==
  /\ stage[t] = "node" /\ action[t] \in {"teach", "correct", "ask"} =>
       refs[t] # {} /\ ~condition[t].gap
  /\ stage[t] = "generate" =>
       /\ action[t] \in {"teach", "correct", "ask", "baseline"}
       /\ action[t] = "baseline" <=> condition[t].group = "A"
       /\ action[t] # "ask" => given[t] # {}
       /\ action[t] # "baseline" => refs[t] # {} /\ ~condition[t].gap

SaidWasGiven(t) ==
  said[t] # None =>
    /\ stage[t] = "done"
    /\ said[t].kind = "generated" /\ condition[t].constrained =>
         said[t].cites = given[t] /\ given[t] # {}

\* A learner state was decided on by assess, with an action of the graph.
ActionsDecided ==
  \A t \in Turns : /\ stage[t] = "new" => learner[t] = None
                   /\ learner[t] # None => action[t] \in Actions \cup {"end"}

GroundingInd ==
  /\ GroundingTypeOK /\ MemoIsOwn /\ FoundIsOwn
  /\ \A t \in Turns : /\ stage[t] = "node" => condition[t].group = "B"
                      /\ condition[t].constrained => AsksWithEvidence(t)
                      /\ SaidWasGiven(t)
=============================================================================
