----------------------------- MODULE QuizTurns ------------------------------
(***************************************************************************)
(* The quiz of a study session: quiz.generate and quiz.answer              *)
(* (api/sessions.py, evaluation/quiz_service.py, question_bank.py), the    *)
(* teaching turns that hint at or issue the same question, and             *)
(* session.delete, over the session's row and the learner store.           *)
(*                                                                         *)
(* Handlers and turns run on one event loop; an action is the code between *)
(* two awaits.  A turn loads the row once, at message.send, and saves its  *)
(* own copy at its start and its end; handlers load, change and save       *)
(* without an await.  A refusal is a stuttering step.  A session has one   *)
(* turn at a time (SessionTurns); the outbox the answers fill is flushed   *)
(* in LearnerAudit.                                                        *)
(***************************************************************************)
EXTENDS LearnerStore, TeachingPolicy

CONSTANTS
  None,          \* Python's None, or a missing row
  Bank,          \* verified questions by item id: records of Question
  Experiments,   \* frozen experiment snapshots of new sessions
  MaxIssued,     \* bound: quiz_position of a session
  MaxHints       \* bound: hint_count of a question when a turn begins

Question == [item : Items, concept : Concepts \cup {NoConcept}, single : BOOLEAN,
             exact : BOOLEAN, difficulty : 1..3]
Experiment == [group : {"A", "B", "C"}, snapshot : Snapshots]

ASSUME BankAssumption ==
  /\ Bank \in Seq(Question) /\ Bank # <<>>
  /\ \A i, j \in DOMAIN Bank : Bank[i].item = Bank[j].item => i = j
ASSUME ExperimentAssumption == Experiments \subseteq Experiment
ASSUME BoundAssumption == MaxIssued \in Nat /\ MaxHints \in Nat
\* A quiz answer leaves one misconception in the state (QuizService.answer): on
\* its own it is never a confusion of concepts.
ASSUME MisconceptionAssumption == MisconceptionLimit > 1

VARIABLES
  row,           \* the study part of a session's row, or None
  born,          \* session ids already used
  turn,          \* the turn that runs in a session: where it stands and its object
  hinted         \* history: the questions each session's ended turns hinted at

quizVars == <<row, born, turn, hinted>>

\* active_quiz
BankItems == {Bank[n].item : n \in DOMAIN Bank}
Quiz == [item : BankItems, concept : Concepts \cup {NoConcept}, hints : Nat,
         attempts : Nat, streak : Nat]
\* teaching_state; "shown" is not in the code: the hint levels given since the
\* level was last zero.
Teaching == [concept : Concepts \cup {NoConcept}, level : 0..HintMaxLevel, turns : 0..MaxTurns,
             attempts : Nat, streak : Nat, misconceptions : 0..1,
             shown : SUBSET (1..HintMaxLevel)]
Row == [exp : Experiment, quiz : Quiz \cup {None}, pos : Nat, teach : Teaching]
ASSUME NoneNotRow == None \notin Quiz \cup Row

Fresh(c) == [concept |-> c, level |-> 0, turns |-> 0, attempts |-> 0, streak |-> 0,
             misconceptions |-> 0, shown |-> {}]
Idle == [at |-> "idle"]
Outcome == [action : Actions \cup {"failed", "chat"}, level : 0..HintMaxLevel,
            turns : 0..MaxTurns, concept : Concepts \cup {NoConcept}]
Turn ==
  {Idle} \cup
  [at : {"created", "prompted", "marked"}, obj : Row] \cup
  [at : {"taught"}, obj : Row, out : Outcome]

QuizTypeOK ==
  /\ row \in [Sessions -> Row \cup {None}]
  /\ born \in SUBSET Sessions
  /\ turn \in [Sessions -> Turn]
  /\ hinted \in [Sessions -> SUBSET Items]

QuizInit ==
  /\ row = [s \in Sessions |-> None]
  /\ born = {}
  /\ turn = [s \in Sessions |-> Idle]
  /\ hinted = [s \in Sessions |-> {}]

-----------------------------------------------------------------------------
(* The question bank. *)

QuestionOf(i) == Bank[CHOOSE n \in DOMAIN Bank : Bank[n].item = i]

\* next_question: the questions of the concept, and of the difficulty if one
\* is asked for (0 asks for none), in order of their ids, round and round.
Candidates(c, d) ==
  {n \in DOMAIN Bank : /\ c = NoConcept \/ Bank[n].concept = c
                       /\ d = 0 \/ Bank[n].difficulty = d}
NextQuestion(c, d, pos) ==
  LET rows == InOrder(Candidates(c, d)) IN Bank[rows[(pos % Len(rows)) + 1]]

\* grade: "none" is a correct of None, a question that is graded by hand.
Grades(q) == IF q.exact THEN {"right", "wrong"} ELSE {"none"}

-----------------------------------------------------------------------------
(* Estimates. *)

Enabled(r) == r.exp.group = "C"

Band(r, c) ==
  LET k == Key(c, r.exp.snapshot)
  IN  IF ~Enabled(r) \/ c = NoConcept \/ ~Available(k) THEN "none"
      ELSE LET m == Mastery(k)
           IN  IF m < 3000 THEN "low" ELSE IF m < 6000 THEN "mid"
               ELSE IF m < 8500 THEN "good" ELSE "high"

\* _quiz_difficulty without a requested one: one below or above the base
\* difficulty of the concept, which is 1 for every concept here.
Difficulty(r, c) == IF Band(r, c) = "high" THEN 2 ELSE 1

-----------------------------------------------------------------------------
(* quiz.generate, quiz.answer and the tool a teaching turn issues with. *)

Issued(r, q) ==
  [r EXCEPT !.pos = @ + 1,
            !.quiz = [item |-> q.item, concept |-> q.concept, hints |-> 0,
                      attempts |-> 0, streak |-> 0],
            !.teach = Fresh(q.concept)]

\* QuizService.issue: an active question is shown again, and nothing changes;
\* without a concept it is the one of the teaching state.
AskedConcept(r, c) == IF c = NoConcept THEN r.teach.concept ELSE c
MayIssue(r, c, d) == r.quiz = None /\ Candidates(AskedConcept(r, c), d) # {}
Issue(r, c, d) ==
  IF MayIssue(r, c, d) THEN Issued(r, NextQuestion(AskedConcept(r, c), d, r.pos)) ELSE r

\* The difficulty quiz.generate passes on; 0 is None.
AskedDifficulty(r, c, d) ==
  IF d = 0 /\ Enabled(r) /\ c # NoConcept THEN Difficulty(r, c) ELSE d

GenerateQuiz(s, c, d) ==
  /\ row[s] # None
  /\ row[s].pos < MaxIssued
  /\ MayIssue(row[s], c, AskedDifficulty(row[s], c, d))
  /\ row' = [row EXCEPT ![s] = Issue(@, c, AskedDifficulty(@, c, d))]
  /\ UNCHANGED <<born, turn, hinted, storeVars>>

Submitted(s, grade) ==
  LET quiz == row[s].quiz  q == QuestionOf(quiz.item)
  IN  [session |-> s, item |-> quiz.item, concept |-> q.concept, single |-> q.single,
       grade |-> grade, hints |-> quiz.hints, enabled |-> Enabled(row[s]),
       snapshot |-> row[s].exp.snapshot]

StreakAfter(quiz, grade) ==
  CASE grade = "right" -> 0
    [] grade = "wrong" -> quiz.streak + 1
    [] OTHER -> quiz.streak

MisconceptionsAfter(teach, grade) ==
  CASE grade = "right" -> 0
    [] grade = "wrong" -> 1
    [] OTHER -> teach.misconceptions

\* QuizService.answer after the attempt was recorded.
Answered(r, grade) ==
  LET n == r.quiz.attempts + 1
      streak == StreakAfter(r.quiz, grade)
      quiz == [r.quiz EXCEPT !.attempts = n, !.streak = streak]
      teach == [r.teach EXCEPT !.concept = r.quiz.concept, !.attempts = n, !.streak = streak,
                               !.misconceptions = MisconceptionsAfter(r.teach, grade)]
  IN  [r EXCEPT !.quiz = IF grade = "right" THEN None ELSE quiz, !.teach = teach]

MayAnswer(s, grade) ==
  /\ row[s] # None
  /\ row[s].quiz # None
  /\ grade \in Grades(QuestionOf(row[s].quiz.item))
  /\ made < MaxAttempts

\* The attempt is committed and the row saved.
AnswerQuiz(s, grade) ==
  /\ MayAnswer(s, grade)
  /\ RecordAttempt(Submitted(s, grade))
  /\ row' = [row EXCEPT ![s] = Answered(@, grade)]
  /\ UNCHANGED <<born, turn, hinted>>

-----------------------------------------------------------------------------
(* A turn of a study session. *)

\* message.send: the row is loaded here, and not again.
BeginTurn(s) ==
  /\ row[s] # None
  /\ turn[s] = Idle
  /\ row[s].quiz # None => row[s].quiz.hints < MaxHints
  /\ turn' = [turn EXCEPT ![s] = [at |-> "created", obj |-> row[s]]]
  /\ UNCHANGED <<row, born, hinted, storeVars>>

\* _run_turn saves its object with the learner's message, and once more with
\* the sequence of agent.turn.started.
SaveOwn(s, at, next) ==
  /\ turn[s].at = at
  /\ row' = [row EXCEPT ![s] = turn[s].obj]
  /\ turn' = [turn EXCEPT ![s].at = next]
  /\ UNCHANGED <<born, hinted, storeVars>>
SavePrompt(s) == SaveOwn(s, "created", "prompted")
SaveMark(s) == SaveOwn(s, "prompted", "marked")

\* Mutant: the active question is not looked at.
ConceptOf_Said(r, said) == said

\* The concept of a turn is the active question's, or else the one the
\* learner's words name.
ConceptOf(r, said) == IF r.quiz # None /\ r.quiz.concept # NoConcept THEN r.quiz.concept ELSE said

\* The teaching state of another concept is not borrowed.
Prior(r, c) == IF r.teach.concept = c THEN r.teach ELSE Fresh(c)

StateOf(r, c, w) ==
  LET p == Prior(r, c)
  IN  [stopped |-> FALSE, request |-> w.request, turns |-> p.turns, level |-> p.level,
       attempts |-> p.attempts, streak |-> p.streak, misconceptions |-> p.misconceptions,
       sufficient |-> w.sufficient, priorGap |-> w.priorGap, explain |-> w.explain,
       item |-> r.quiz # None, band |-> Band(r, c)]

Words == [request : Requests, sufficient : BOOLEAN, priorGap : {FALSE}, explain : BOOLEAN]

\* The teaching graph runs on what the turn's object says; the test node issues
\* a question by QuizService.issue, which loads and saves the row itself.
Teach(s, w, said) ==
  LET r == turn[s].obj
      c == ConceptOf(r, said)
      did == TeachingTurn(StateOf(r, c, w))
  IN  /\ turn[s].at = "marked"
      /\ r.exp.group # "A"
      /\ turn' = [turn EXCEPT ![s] = [at |-> "taught", obj |-> r,
           out |-> [action |-> did.action, level |-> did.level, turns |-> did.turns, concept |-> c]]]
      /\ IF did.action = "test"
           THEN /\ row[s].pos < MaxIssued
                /\ row' = [row EXCEPT ![s] =
                     Issue(@, c, IF c = NoConcept THEN 0 ELSE Difficulty(r, c))]
           ELSE UNCHANGED row
      /\ UNCHANGED <<born, hinted, storeVars>>

\* A turn that does not teach: smalltalk and group A answer from elsewhere, and
\* a failure or a cancel leaves the object as it is.
SkipTeaching(s, action) ==
  LET r == turn[s].obj
  IN  /\ turn[s].at \in IF action = "failed" THEN {"created", "prompted", "marked"} ELSE {"marked"}
      /\ turn' = [turn EXCEPT ![s] = [at |-> "taught", obj |-> r,
           out |-> [action |-> action, level |-> r.teach.level, turns |-> r.teach.turns,
                    concept |-> r.teach.concept]]]
      /\ UNCHANGED <<row, born, hinted, storeVars>>

ShownAfter(p, out) ==
  CASE out.action = "hint" -> p.shown \cup {out.level}
    [] out.action = "correct" -> {}
    [] OTHER -> p.shown

\* The object after the graph: the hint is counted on the question the object
\* has, and the teaching state is written from what was read.
Taught(r, out) ==
  IF out.action \in {"failed", "chat"} THEN r
  ELSE LET p == Prior(r, out.concept)
           quiz == IF out.action = "hint" /\ r.quiz # None
                     THEN [r.quiz EXCEPT !.hints = r.quiz.hints + 1] ELSE r.quiz
           teach == [p EXCEPT !.level = out.level, !.turns = out.turns,
                              !.shown = ShownAfter(p, out)]
       IN  [r EXCEPT !.quiz = quiz, !.teach = teach]

HintedAt(r, out) == IF out.action = "hint" /\ r.quiz # None THEN {r.quiz.item} ELSE {}

\* _run_turn's finally block.
EndTurn(s) ==
  /\ turn[s].at = "taught"
  /\ row' = [row EXCEPT ![s] = Taught(turn[s].obj, turn[s].out)]
  /\ turn' = [turn EXCEPT ![s] = Idle]
  /\ hinted' = [hinted EXCEPT ![s] = @ \cup HintedAt(turn[s].obj, turn[s].out)]
  /\ UNCHANGED <<born, storeVars>>

-----------------------------------------------------------------------------
(* Sessions and the process. *)

NewSession(s, e) ==
  /\ s \notin born
  /\ born' = born \cup {s}
  /\ row' = [row EXCEPT ![s] = [exp |-> e, quiz |-> None, pos |-> 0, teach |-> Fresh(NoConcept)]]
  /\ UNCHANGED <<turn, hinted, storeVars>>

\* session.delete: the learner's records in one transaction, then the row.
DeleteSession(s) ==
  /\ row[s] # None
  /\ turn[s] = Idle
  /\ DeleteSessionData(s)
  /\ row' = [row EXCEPT ![s] = None]
  /\ hinted' = [hinted EXCEPT ![s] = {}]
  /\ UNCHANGED <<born, turn>>

Dies == turn' = [s \in Sessions |-> Idle] /\ UNCHANGED born

\* The process dies and is started again.
Crash ==
  /\ \E s \in Sessions : turn[s] # Idle
  /\ Dies
  /\ UNCHANGED <<row, hinted, storeVars>>

\* It dies after record_attempt committed and before the row is saved.
CrashInAnswer(s, grade) ==
  /\ MayAnswer(s, grade)
  /\ RecordAttempt(Submitted(s, grade))
  /\ Dies
  /\ UNCHANGED <<row, hinted>>

\* It dies between the two transactions of session.delete.
CrashInDelete(s) ==
  /\ row[s] # None
  /\ turn[s] = Idle
  /\ DeleteSessionData(s)
  /\ Dies
  /\ hinted' = [hinted EXCEPT ![s] = {}]
  /\ UNCHANGED <<row>>

-----------------------------------------------------------------------------
Quizzing(s) ==
  \/ \E c \in Concepts \cup {NoConcept}, d \in 0..3 : GenerateQuiz(s, c, d)
  \/ \E g \in {"right", "wrong", "none"} : AnswerQuiz(s, g) \/ CrashInAnswer(s, g)

Turning(s) ==
  \/ BeginTurn(s) \/ SavePrompt(s) \/ SaveMark(s) \/ EndTurn(s)
  \/ \E w \in Words, c \in Concepts \cup {NoConcept} : Teach(s, w, c)
  \/ \E a \in {"failed", "chat"} : SkipTeaching(s, a)

Managing(s) ==
  \/ \E e \in Experiments : NewSession(s, e)
  \/ DeleteSession(s) \/ CrashInDelete(s)

QuizNext == Crash \/ \E s \in Sessions : Quizzing(s) \/ Turning(s) \/ Managing(s)

-----------------------------------------------------------------------------
(* What the quiz promises. *)

\* An answer is evidence only if no turn that ended in its session had hinted
\* at the question, whatever stale object the turns saved over the hint count
\* (_run_turn, QuizService.answer).
HintedNotEvidence ==
  [][made' > made =>
       \A a \in attempts' :
         a.id = made' /\ a.eligible => a.item \notin hinted[a.session]]_<<quizVars, storeVars>>

\* The active question and the teaching state are of the same concept and
\* count the same answers, although a turn saves both from its own copy while
\* quiz.answer writes them (_run_turn's study part, QuizService.answer).
CountsAgree ==
  \A s \in Sessions :
    LET r == row[s]
    IN  (r # None /\ r.quiz # None /\ r.quiz.concept # NoConcept) =>
          /\ r.teach.concept = r.quiz.concept
          /\ r.teach.attempts = r.quiz.attempts
          /\ r.teach.streak = r.quiz.streak

\* Hints climb one level at a time, and a turn gives the answer away only
\* after every level was shown for the concept (decide_action, the hint and
\* correct nodes, and the copies the turns save).
LadderInOrder ==
  /\ \A s \in Sessions : row[s] # None => 1..row[s].teach.level \subseteq row[s].teach.shown
  /\ \A s \in Sessions :
       turn[s].at = "taught" /\ turn[s].out.action = "correct" =>
         Prior(turn[s].obj, turn[s].out.concept).shown = 1..HintMaxLevel

\* A turn that sets a test ends with a question to answer (the test node issues
\* it by QuizService.issue; _run_turn saves the session when the turn ends).
TestedIsActive ==
  [][\A s \in Sessions :
       turn[s].at = "taught" /\ turn[s].out.action = "test" /\ EndTurn(s) =>
         (row[s].quiz # None => row'[s].quiz # None)]_<<quizVars, storeVars>>

(* The inductive invariant behind the first three. *)

\* One object of the study part, of a row or of a turn: what CountsAgree and
\* LadderInOrder ask of it, and for every question hinted at in the session
\* either an answer to it or a hint count that still says so.
Sound(s, r) ==
  /\ (r.quiz # None /\ r.quiz.concept # NoConcept) =>
       /\ r.teach.concept = r.quiz.concept
       /\ r.teach.attempts = r.quiz.attempts
       /\ r.teach.streak = r.quiz.streak
  /\ 1..r.teach.level \subseteq r.teach.shown
  /\ \A i \in hinted[s] :
       \/ \E a \in attempts : a.session = s /\ a.item = i
       \/ r.quiz # None /\ r.quiz.item = i /\ r.quiz.hints > 0

\* What the graph decided is one step from what it was asked with.
OneStep(r, out) ==
  out.action \notin {"failed", "chat"} =>
    /\ (r.quiz # None /\ r.quiz.concept # NoConcept) => out.concept = r.quiz.concept
    /\ CASE out.action = "hint" -> out.level \in 1..(Prior(r, out.concept).level + 1)
         [] out.action = "correct" ->
              out.level = 0 /\ Prior(r, out.concept).shown = 1..HintMaxLevel
         [] OTHER -> out.level = Prior(r, out.concept).level

QuizInd ==
  /\ QuizTypeOK
  /\ \A s \in Sessions : s \notin born => row[s] = None /\ turn[s] = Idle /\ hinted[s] = {}
  /\ \A s \in Sessions : row[s] # None => Sound(s, row[s])
  /\ \A s \in Sessions : turn[s] # Idle => row[s] # None /\ Sound(s, turn[s].obj)
  /\ \A s \in Sessions : turn[s].at = "taught" => OneStep(turn[s].obj, turn[s].out)
=============================================================================
