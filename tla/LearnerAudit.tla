---------------------------- MODULE LearnerAudit ----------------------------
(***************************************************************************)
(* The learner store under several sessions: answers are recorded, their   *)
(* audit events flushed from the outbox to the event log by an answer or   *)
(* by a reader of the learner page, several at once, while sessions are    *)
(* deleted and the process dies and restarts (quiz_service.py,             *)
(* api/sessions.py over models/learner/store.py).                          *)
(*                                                                         *)
(* A flush reads the pending rows once, then awaits the emit of each and   *)
(* marks it: the actions are the code between two awaits.                  *)
(***************************************************************************)
EXTENDS LearnerStore

CONSTANTS
  Readers,       \* places for requests that flush together
  Questions,     \* the bank: for an item its concept, whether it is the only
                 \* one it names, and whether the grade is exact
  SnapshotOf,    \* the frozen BKT parameters of a session
  GroupC,        \* the sessions of group C
  HintCounts     \* the hint counts of answered questions

ASSUME QuestionsAssumption ==
  Questions \in [Items -> [concept : Concepts \cup {NoConcept}, single : BOOLEAN, exact : BOOLEAN]]
ASSUME SessionAssumption == SnapshotOf \in [Sessions -> Snapshots] /\ GroupC \subseteq Sessions
ASSUME HintCountsAssumption == HintCounts \subseteq Nat

VARIABLES
  open,          \* sessions that have a row
  flush,         \* what a reader still has to emit and mark
  log            \* table events: the audit events of a session, by attempt

auditVars == <<open, flush, log>>

NotFlushing == [on |-> FALSE, todo |-> <<>>, emitted |-> FALSE]
Flushing(todo) == [on |-> TRUE, todo |-> todo, emitted |-> FALSE]

AuditTypeOK ==
  /\ open \subseteq Sessions
  /\ flush \in [Readers -> [on : BOOLEAN, todo : Seq(Nat \X Sessions), emitted : BOOLEAN]]
  /\ log \in [Sessions -> Seq(Nat)]

AuditInit ==
  /\ open = Sessions
  /\ flush = [r \in Readers |-> NotFlushing]
  /\ log = [s \in Sessions |-> <<>>]

-----------------------------------------------------------------------------
GradesOf(i) == IF Questions[i].exact THEN {"right", "wrong"} ELSE {"none"}

Submission(s, i, grade, hints) ==
  [session |-> s, item |-> i, concept |-> Questions[i].concept, single |-> Questions[i].single,
   grade |-> grade, hints |-> hints, enabled |-> s \in GroupC, snapshot |-> SnapshotOf[s]]

\* QuizService.answer: the attempt is committed and the pending rows are read.
Answer(r, s, a) ==
  /\ s \in open /\ ~flush[r].on
  /\ made < MaxAttempts
  /\ RecordAttempt(a)
  /\ flush' = [flush EXCEPT ![r] = Flushing(PendingEvents')]
  /\ UNCHANGED <<open, log>>

\* It dies before it flushes.
AnswerAndDie(s, a) ==
  /\ s \in open
  /\ made < MaxAttempts
  /\ RecordAttempt(a)
  /\ flush' = [r \in Readers |-> NotFlushing]
  /\ UNCHANGED <<open, log>>

\* GET /sessions/{id}/learner of a session of group C.
ReadLearner(r, s) ==
  /\ s \in open \cap GroupC /\ ~flush[r].on
  /\ PendingEvents # <<>>
  /\ flush' = [flush EXCEPT ![r] = Flushing(PendingEvents)]
  /\ UNCHANGED <<open, log, storeVars>>

\* emit: append is idempotent by event id, and does not ask for the session.
EmitPending(r) ==
  LET e == Head(flush[r].todo)
  IN  /\ flush[r].todo # <<>> /\ ~flush[r].emitted
      /\ log' = [log EXCEPT ![e[2]] = IF Contains(@, e[1]) THEN @ ELSE Append(@, e[1])]
      /\ flush' = [flush EXCEPT ![r].emitted = TRUE]
      /\ UNCHANGED <<open, storeVars>>

\* Mutant: the row is marked before its event is emitted.
MarkPending_Early(r) ==
  /\ flush[r].todo # <<>> /\ ~flush[r].emitted
  /\ MarkEventDelivered(Head(flush[r].todo)[1])
  /\ flush' = [flush EXCEPT ![r] = Flushing(Tail(@.todo))]
  /\ UNCHANGED <<open, log>>

\* mark_event_delivered, and on to the next row.
MarkPending(r) ==
  /\ flush[r].emitted
  /\ MarkEventDelivered(Head(flush[r].todo)[1])
  /\ flush' = [flush EXCEPT ![r] = Flushing(Tail(@.todo))]
  /\ UNCHANGED <<open, log>>

EndFlush(r) ==
  /\ flush[r].on /\ flush[r].todo = <<>>
  /\ flush' = [flush EXCEPT ![r] = NotFlushing]
  /\ UNCHANGED <<open, log, storeVars>>

\* session.delete: the learner's records, then the session with its events.
DeleteWithEvents(s) ==
  /\ s \in open
  /\ DeleteSessionData(s)
  /\ open' = open \ {s}
  /\ log' = [log EXCEPT ![s] = <<>>]
  /\ UNCHANGED flush

\* It dies between the two transactions.
DeleteAndDie(s) ==
  /\ s \in open
  /\ DeleteSessionData(s)
  /\ flush' = [r \in Readers |-> NotFlushing]
  /\ UNCHANGED <<open, log>>

DieFlushing ==
  /\ \E r \in Readers : flush[r].on
  /\ flush' = [r \in Readers |-> NotFlushing]
  /\ UNCHANGED <<open, log, storeVars>>

-----------------------------------------------------------------------------
Flush(r) == EmitPending(r) \/ MarkPending(r) \/ EndFlush(r)

AuditNext ==
  \/ DieFlushing
  \/ \E r \in Readers : Flush(r)
  \/ \E s \in Sessions :
       \/ DeleteWithEvents(s)
       \/ DeleteAndDie(s)
       \/ \E r \in Readers : ReadLearner(r, s)
       \/ \E i \in Items, hints \in HintCounts : \E grade \in GradesOf(i) :
            \/ \E r \in Readers : Answer(r, s, Submission(s, i, grade, hints))
            \/ AnswerAndDie(s, Submission(s, i, grade, hints))

-----------------------------------------------------------------------------
\* The audit of an attempt is never lost and never repeated: its event is in
\* the log once, or its outbox row is still to be delivered, wherever the
\* process died and however many readers flush at once (flush_events).
AuditNotLost ==
  /\ \A s \in Sessions : \A i, j \in DOMAIN log[s] : log[s][i] = log[s][j] => i = j
  /\ \A a \in attempts :
       \/ Contains(log[a.session], a.id)
       \/ \E r \in outbox : r.event = a.id /\ ~r.delivered

(* The inductive invariant behind it. *)

\* What is sent on about an attempt names its session.
Addressed ==
  /\ \A a \in attempts, r \in outbox : r.event = a.id => r.session = a.session
  /\ \A r \in Readers : \A i \in DOMAIN flush[r].todo :
       /\ flush[r].todo[i][1] <= made
       /\ \A a \in attempts : a.id = flush[r].todo[i][1] => a.session = flush[r].todo[i][2]

\* What is about to be marked as delivered is in the log.
EmittedFirst ==
  \A r \in Readers : flush[r].emitted =>
    /\ flush[r].todo # <<>>
    /\ \A a \in attempts : a.id = Head(flush[r].todo)[1] => Contains(log[a.session], a.id)

AuditInd == AuditTypeOK /\ AuditNotLost /\ Addressed /\ EmittedFirst
=============================================================================
