---------------------------- MODULE LearnerStore ----------------------------
(***************************************************************************)
(* The learner's attempts, the BKT estimates folded from them and the      *)
(* outbox of audit events (models/learner/store.py, bkt.py).  Every        *)
(* operation is one SQLite transaction, hence one action here.             *)
(*                                                                         *)
(* One learner, one course and one bank version: the keys of the tables    *)
(* that are left are session, item, concept, model version and config      *)
(* hash.  An attempt's number is the id of the quiz.answer command that    *)
(* made it, which is executed at most once: the branch that answers a      *)
(* known attempt_id with its stored row is not reached from the Gateway.   *)
(***************************************************************************)
EXTENDS Naturals, Sequences, SequencesExt

CONSTANTS
  Sessions,      \* ids of the sessions that may ever exist
  Items,         \* ids of the questions of the bank
  Concepts,      \* concept ids; NoConcept is the empty string
  NoConcept,
  Versions,      \* BKTParameters.model_version
  Hashes,        \* BKTParameters.config_hash
  MinEvidence,   \* MIN_EVIDENCE
  Initial, Transit, Guess, Slip,   \* p_l0, p_t, p_g, p_s, in percent
  MaxAttempts    \* bound: attempts recorded in a behaviour

ASSUME ConceptAssumption == NoConcept \notin Concepts
ASSUME EvidenceAssumption == MinEvidence \in Nat \ {0}
ASSUME ParameterAssumption ==
  /\ Initial \in 0..100 /\ Transit \in 0..100
  /\ Guess \in 0..99 /\ Slip \in 0..99
ASSUME AttemptsAssumption == MaxAttempts \in Nat

VARIABLES
  made,          \* number of attempts ever recorded
  attempts,      \* table attempts; an earlier created_at is a smaller id
  estimates,     \* table learner_estimates: the ids folded into a row, <<>> without one
  observations,  \* table bkt_observations
  outbox         \* table learner_event_outbox, ordered in the same way

storeVars == <<made, attempts, estimates, observations, outbox>>

Snapshots == [version : Versions, hash : Hashes]
Keys == [concept : Concepts, version : Versions, hash : Hashes]
Key(c, p) == [concept |-> c, version |-> p.version, hash |-> p.hash]

-----------------------------------------------------------------------------
(* BKT in fixed point: a probability is a number out of Unit. *)

Unit == 10000

Predicted(m) == (m * (100 - Slip) + (Unit - m) * Guess) \div 100

\* bkt.update: the posterior of the answer, then the chance to have learnt.
Update(m, correct) ==
  LET p == Predicted(m)
      likely == IF correct THEN p ELSE Unit - p
      posterior == IF likely = 0 THEN m
                   ELSE (m * (IF correct THEN 100 - Slip ELSE Slip) * 100) \div likely
  IN  posterior + ((Unit - posterior) * Transit) \div 100

AttemptOf(id) == CHOOSE a \in attempts : a.id = id

\* A set of numbers as a sequence that ascends: ORDER BY created_at.
InOrder(S) ==
  CHOOSE q \in [1..Cardinality(S) -> S] :
    \A i, j \in 1..Cardinality(S) : i < j => q[i] < q[j]

\* The mastery of an estimate: bkt.update folded over its attempts.
Mastery(k) ==
  FoldLeft(LAMBDA m, id : Update(m, AttemptOf(id).correct), Initial * 100, estimates[k])

Available(k) == Len(estimates[k]) >= MinEvidence

-----------------------------------------------------------------------------
StoreInit ==
  /\ made = 0
  /\ attempts = {}
  /\ estimates = [k \in Keys |-> <<>>]
  /\ observations = {}
  /\ outbox = {}

Attempts == [id : 1..made, session : Sessions, item : Items, concept : Concepts \cup {NoConcept},
             correct : BOOLEAN, snapshot : Snapshots, eligible : BOOLEAN]

StoreTypeOK ==
  /\ made \in Nat
  /\ attempts \subseteq Attempts
  /\ estimates \in [Keys -> Seq(Nat)]
  /\ observations \subseteq [attempt : 1..made, key : Keys, count : Nat]
  /\ outbox \subseteq [event : 1..made, session : Sessions, delivered : BOOLEAN]

\* What quiz_service hands to record_attempt: "none" is a correct of None.
Answers == [session : Sessions, item : Items, concept : Concepts \cup {NoConcept},
            single : BOOLEAN, grade : {"right", "wrong", "none"}, hints : Nat,
            enabled : BOOLEAN, snapshot : Snapshots]

\* Mutant: only the session's own attempts are looked at.
Repeated_InSession(a) ==
  \E b \in attempts : b.item = a.item /\ b.session = a.session

Repeated(a) == \E b \in attempts : b.item = a.item

\* Mutant: a hint makes no difference.
Eligible_Hinted(a) ==
  a.enabled /\ a.concept # NoConcept /\ a.single /\ a.grade # "none" /\ ~Repeated(a)

\* No reason to skip the attempt applies: it is evidence.
Eligible(a) ==
  /\ a.enabled                  \* group_disabled
  /\ a.concept # NoConcept      \* scored_concept_missing
  /\ a.single                   \* ambiguous_concept
  /\ a.grade # "none"           \* grading_unreliable
  /\ a.hints = 0                \* hinted_attempt
  /\ ~Repeated(a)               \* repeat_attempt

\* A row of the same version with other parameters: ValueError, rolled back.
ConfigConflict(a) ==
  \E h \in Hashes \ {a.snapshot.hash} :
    estimates[[Key(a.concept, a.snapshot) EXCEPT !.hash = h]] # <<>>

Refused(a) == Eligible(a) /\ ConfigConflict(a)

Recorded(a) ==
  [id |-> made + 1, session |-> a.session, item |-> a.item, concept |-> a.concept,
   correct |-> a.grade = "right", snapshot |-> a.snapshot, eligible |-> Eligible(a)]

\* record_attempt: the attempt, its estimate and observation, its outbox row.
RecordAttempt(a) ==
  LET id == made + 1
      k == Key(a.concept, a.snapshot)
  IN  /\ ~Refused(a)
      /\ made' = id
      /\ attempts' = attempts \cup {Recorded(a)}
      /\ IF Eligible(a)
           THEN /\ estimates' = [estimates EXCEPT ![k] = Append(@, id)]
                /\ observations' = observations \cup
                     {[attempt |-> id, key |-> k, count |-> Len(estimates[k]) + 1]}
           ELSE UNCHANGED <<estimates, observations>>
      /\ outbox' = outbox \cup {[event |-> id, session |-> a.session, delivered |-> FALSE]}

-----------------------------------------------------------------------------
(* delete_session_data *)

Kept(s) == {a \in attempts : a.session # s}
Affected(s) == {a.concept : a \in {b \in attempts : b.session = s /\ b.eligible}}

\* Mutant: skipped attempts are folded too.
Evidence_All(s, c) == InOrder({a.id : a \in {b \in Kept(s) : b.concept = c}})

\* What the replay of a concept folds: the eligible attempts that are left,
\* whichever version recorded them.
Evidence(s, c) == InOrder({a.id : a \in {b \in Kept(s) : b.eligible /\ b.concept = c}})

Replayed(s, k) == k.concept \in Affected(s) /\ estimates[k] # <<>>
IndexOf(id, seq) == CHOOSE i \in DOMAIN seq : seq[i] = id

DeleteSessionData(s) ==
  /\ attempts' = Kept(s)
  /\ estimates' = [k \in Keys |->
       IF Replayed(s, k) THEN Evidence(s, k.concept) ELSE estimates[k]]
  /\ observations' =
       {IF Replayed(s, o.key)
          THEN [o EXCEPT !.count = IndexOf(o.attempt, Evidence(s, o.key.concept))]
          ELSE o : o \in {x \in observations : AttemptOf(x.attempt).session # s}}
  /\ outbox' = {r \in outbox : r.session # s}
  /\ UNCHANGED made

-----------------------------------------------------------------------------
(* The outbox. *)

\* What pending_events reads: the events that are not delivered, oldest first,
\* with their sessions.
Listed(rows) ==
  LET ids == InOrder({r.event : r \in rows})
  IN  [i \in DOMAIN ids |-> <<ids[i], (CHOOSE r \in rows : r.event = ids[i]).session>>]
PendingEvents == Listed({r \in outbox : ~r.delivered})

MarkEventDelivered(e) ==
  /\ outbox' = {IF r.event = e THEN [r EXCEPT !.delivered = TRUE] ELSE r : r \in outbox}
  /\ UNCHANGED <<made, attempts, estimates, observations>>

-----------------------------------------------------------------------------
(* What the store promises. *)

\* At most one attempt at a question is ever evidence, whichever session it
\* was answered in and however often (_skip_reason, repeat_attempt).
EvidenceOnce ==
  \A a, b \in attempts : a.eligible /\ b.eligible /\ a.item = b.item => a = b

\* An estimate is folded from eligible attempts of its concept that still
\* exist, each once, in the order they were made, and misses none that was
\* recorded under its own parameters; the observations say which attempt was
\* folded as which one: also after sessions were deleted and the estimates of
\* several versions replayed (delete_session_data).
EstimateIsFold ==
  /\ \A k \in Keys :
       LET ids == estimates[k]
           of == {a \in attempts : a.eligible /\ a.concept = k.concept}
       IN  /\ \A i, j \in DOMAIN ids : i < j => ids[i] < ids[j]
           /\ \A i \in DOMAIN ids : \E a \in of : a.id = ids[i]
           /\ \A a \in of : Key(k.concept, a.snapshot) = k
                              => \E i \in DOMAIN ids : ids[i] = a.id
  /\ \A o \in observations :
       o.count \in DOMAIN estimates[o.key] /\ estimates[o.key][o.count] = o.attempt
  /\ \A a \in attempts : a.eligible => \E o \in observations : o.attempt = a.id

(* The inductive invariant behind both. *)

\* An attempt's id is its own.
Numbered == \A a, b \in attempts : a.id = b.id => a = b

StoreInd == StoreTypeOK /\ Numbered /\ EvidenceOnce /\ EstimateIsFold
=============================================================================
