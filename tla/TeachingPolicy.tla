--------------------------- MODULE TeachingPolicy ---------------------------
(***************************************************************************)
(* The decisions of one teaching turn (graph/education): assess decides    *)
(* what the teacher does next, the node of that action changes the hint    *)
(* level, and the graph ends.  A state s has                               *)
(*   stopped, request      what the learner asked for                      *)
(*   turns, level, attempts, streak, misconceptions                        *)
(*                         the teaching state of the concept               *)
(*   sufficient            locatable evidence was found (or is not needed) *)
(*   priorGap, explain     what the learner's words say                    *)
(*   item, band            an active question; the mastery band of an      *)
(*                         available estimate, or "none"                   *)
(***************************************************************************)
EXTENDS Naturals, Sequences

CONSTANTS
  MaxTurns,             \* max_turns
  HintMaxLevel,         \* HINT_MAX_LEVEL
  CorrectWrongStreak,   \* CORRECT_WRONG_STREAK
  MisconceptionLimit,   \* MISCONCEPTION_LIMIT
  QuizAfterAttempts     \* QUIZ_AFTER_ATTEMPTS

ASSUME LimitAssumption ==
  /\ MaxTurns \in Nat \ {0} /\ HintMaxLevel \in Nat \ {0}
  /\ CorrectWrongStreak \in Nat \ {0}
  /\ MisconceptionLimit \in Nat \ {0} /\ QuizAfterAttempts \in Nat \ {0}

Actions == {"teach", "ask", "hint", "correct", "test", "reflect"}
Requests == {"", "hint", "ask", "quiz"}
Bands == {"none", "low", "mid", "good", "high"}

LearnerStates ==
  [stopped : BOOLEAN, request : Requests, turns : Nat, level : Nat, attempts : Nat,
   streak : Nat, misconceptions : Nat, sufficient : BOOLEAN, priorGap : BOOLEAN,
   explain : BOOLEAN, item : BOOLEAN, band : Bands]

\* assess counts the turn before it decides.
NextTurn(s) == IF s.turns < MaxTurns THEN s.turns + 1 ELSE s.turns
AtLimit(s) == NextTurn(s) >= MaxTurns

\* decide_action: the rules in their order of priority.
Rules(s) == <<
  [if |-> s.stopped,                                        do |-> "end"],
  [if |-> AtLimit(s),                                       do |-> "reflect"],
  [if |-> s.request = "hint" /\ s.level >= HintMaxLevel,    do |-> "reflect"],
  [if |-> s.request = "hint",                               do |-> "hint"],
  [if |-> s.request = "ask",                                do |-> "ask"],
  [if |-> s.request = "quiz",                               do |-> "test"],
  [if |-> /\ s.streak >= CorrectWrongStreak
          /\ s.level >= HintMaxLevel
          /\ s.sufficient,                                  do |-> "correct"],
  [if |-> s.misconceptions >= MisconceptionLimit,           do |-> "correct"],
  [if |-> s.streak >= 1 /\ s.level < HintMaxLevel,          do |-> "hint"],
  [if |-> s.streak >= 1,                                    do |-> "reflect"],
  [if |-> s.attempts >= QuizAfterAttempts,                  do |-> "test"],
  [if |-> s.attempts = 0 /\ (s.priorGap \/ s.explain),      do |-> "teach"],
  [if |-> TRUE,                                             do |-> "ask"] >>

\* The first rule that applies decides.
Decisive(s) ==
  CHOOSE i \in DOMAIN Rules(s) :
    Rules(s)[i].if /\ \A j \in 1..(i - 1) : ~Rules(s)[j].if
DecideAction(s) == Rules(s)[Decisive(s)].do

\* What an available BKT estimate makes of a decision that is not a safety one.
ByMastery(s) ==
  CASE s.band = "low"  -> "teach"
    [] s.band = "mid"  -> IF s.item THEN "hint" ELSE "ask"
    [] s.band = "good" -> "ask"
    [] s.band = "high" -> "test"

SafetyActions == {"end", "reflect", "correct", "hint"}

\* assess: the decision, the estimate of group C, and the gate that stops a
\* turn without evidence before any model is asked.
Assess(s) ==
  LET decided == DecideAction(s)
      chosen == IF s.band # "none" /\ s.request = "" /\ decided \notin SafetyActions
                  THEN ByMastery(s) ELSE decided
  IN  IF ~s.sufficient /\ ~s.stopped /\ chosen \notin {"end", "reflect"}
        THEN "reflect" ELSE chosen

\* route_from_assess: the stop, the end and the turn limit once more, and
\* "ask" for what is no node.
Route(s, action) ==
  IF s.stopped \/ action = "end" THEN "end"
  ELSE IF AtLimit(s) THEN "reflect"
  ELSE IF action \in Actions THEN action ELSE "ask"

\* Mutant: a wrong answer jumps to the last level.
NextHintLevel_Jump(level, streak) ==
  IF level = 0 THEN 1 ELSE IF streak >= 1 THEN HintMaxLevel ELSE level

\* next_hint_level: from the lightest up, one level at a time.
NextHintLevel(level, streak) ==
  IF level = 0 THEN 1
  ELSE IF streak >= 1 /\ level < HintMaxLevel THEN level + 1
  ELSE IF level > HintMaxLevel THEN HintMaxLevel ELSE level

\* The hint node: a hint that was asked for counts as one wrong answer at least.
HintLevel(s) ==
  NextHintLevel(s.level, IF s.request = "hint" /\ s.streak = 0 THEN 1 ELSE s.streak)

\* The hint level the node of an action leaves in the state.
LevelAfter(s, action) ==
  CASE action = "hint" -> HintLevel(s)
    [] action = "correct" -> 0
    [] OTHER -> s.level

\* run_teaching_turn: assess, then the one node it leads to.
TeachingTurn(s) ==
  LET action == Route(s, Assess(s))
  IN  [action |-> action, level |-> LevelAfter(s, action), turns |-> NextTurn(s)]
=============================================================================
