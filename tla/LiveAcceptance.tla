---------------------------- MODULE LiveAcceptance ----------------------------
(***************************************************************************)
(* scripts/run_ab_acceptance.py: the A/B acceptance batch against a running *)
(* gateway, one session per case and group, each turn polled until it ends  *)
(* or its time is over; and evaluation/audit_acceptance_run.py, which later *)
(* judges a batch by its rows, its sessions and their event log.            *)
(*                                                                         *)
(* One harness runs at a time.  Beside it the gateway works on turns, also  *)
(* on those the harness gave up, dies and comes back, and the user binds    *)
(* another service.                                                        *)
(***************************************************************************)
EXTENDS Naturals, Sequences, FiniteSets

CONSTANTS
  Services,     \* the model services the default binding may name
  TurnsOf,      \* the matrix: the number of turns of each cell, in order
  TurnKinds,    \* bound: what the log says of a batch's turns: [calls, decision]
  MaxBatches,   \* bound: batches started
  MaxBreaks,    \* bound: kills, rebindings and gateway deaths together
  NoBatch

\* What the decision events of a turn say: evidence that can be located, an
\* evidence gap, evidence that cannot be located, an action out of the family.
Decisions == {"cited", "gap", "unlocatable", "unexpected"}
ASSUME BatchAssumption ==
  /\ Services # {} /\ TurnsOf \in Seq(Nat \ {0}) /\ MaxBatches \in Nat /\ MaxBreaks \in Nat
  /\ TurnKinds \in [1..MaxBatches -> SUBSET [calls : 0..1, decision : Decisions]]

VARIABLES
  bound,     \* the service of the default binding
  up,        \* whether the gateway answers
  sessions,  \* the gateway's sessions: their frozen service and their turns
  guard,     \* acceptance-once.json
  batches,   \* the directories of runs/: run.json, results.jsonl, summary.json
  harness,   \* the harness at work, or NoBatch
  report,    \* the last audit: a batch that passed, or 0
  breaks

batchVars == <<bound, up, sessions, guard, batches, harness, report, breaks>>

Matrix == DOMAIN TurnsOf
\* A turn that ends well has its terminal event first ("closing") and its answer
\* saved later ("ok"), or never, if the gateway dies in between ("unsaved").
Turn == [state : {"running", "lost", "closing", "ok", "unsaved", "failed"}, calls : 0..1,
         decision : Decisions]
\* The row of a turn: the turn whose answer its output is, and whether the
\* transcript was read before the turn's own answer was saved (history only).
Recorded == [turn : Nat, calls : 0..1, end : {"ok", "failed", "timeout"}, output : Nat,
             early : BOOLEAN]
CellRow == [session : Nat, status : {"completed", "failed"}, turns : Seq(Recorded)]
Statuses == {"running", "completed", "completed_with_failures"}
NoSummary == "none"

BatchTypeOK ==
  /\ bound \in Services /\ up \in BOOLEAN
  /\ sessions \in Seq([service : Services, turns : Seq(Turn)])
  /\ guard = NoBatch \/ guard \in [batch : 1..MaxBatches, status : Statuses]
  /\ batches \in Seq([service : Services, repeat : BOOLEAN, rows : Seq(CellRow),
                      summary : Statuses \cup {NoSummary}])
  /\ Len(batches) <= MaxBatches
  /\ harness = NoBatch \/
     harness \in [batch : 1..MaxBatches, at : {"cell", "send", "poll", "read", "summary", "guard"},
                  session : Nat, done : Seq(Recorded)]
  /\ report \in 0..MaxBatches /\ breaks \in 0..MaxBreaks

BatchInit ==
  /\ bound = CHOOSE s \in Services : TRUE
  /\ up = TRUE /\ sessions = <<>> /\ guard = NoBatch
  /\ batches = <<>> /\ harness = NoBatch /\ report = 0 /\ breaks = 0

-----------------------------------------------------------------------------
(* The harness *)

Mine == batches[harness.batch]
Cell == Len(Mine.rows) + 1
Session == sessions[harness.session]

GuardOnStart(b) == [batch |-> b, status |-> "running"]

\* The preflight needs the gateway and a service that answers a probe; a second
\* batch must name the repair it repeats after.
StartBatch(repeat) ==
  /\ harness = NoBatch /\ up /\ Len(batches) < MaxBatches
  /\ guard # NoBatch => repeat
  /\ LET b == Len(batches) + 1 IN
       /\ batches' = Append(batches, [service |-> bound, repeat |-> repeat, rows |-> <<>>,
                                      summary |-> NoSummary])
       /\ guard' = GuardOnStart(b)
       /\ harness' = [batch |-> b, at |-> "cell", session |-> 0, done |-> <<>>]
  /\ UNCHANGED <<bound, up, sessions, report, breaks>>

\* A cell ends with one row, whatever ended it.
RecordCell(session, status, turns) ==
  /\ batches' = [batches EXCEPT ![harness.batch].rows =
                   Append(@, [session |-> session, status |-> status, turns |-> turns])]
  /\ harness' = [harness EXCEPT !.at = IF Cell = Len(TurnsOf) THEN "summary" ELSE "cell",
                   !.session = 0, !.done = <<>>]

Harnessing == harness # NoBatch /\ UNCHANGED <<bound, up, report, breaks>>

Matches(service) == service = Mine.service

\* session.new and what the harness reads of the session; nothing names the
\* service, so the session freezes the default of this moment.
CreateSession ==
  /\ Harnessing /\ harness.at = "cell" /\ up
  /\ sessions' = Append(sessions, [service |-> bound, turns |-> <<>>])
  /\ IF Matches(bound)
       THEN /\ harness' = [harness EXCEPT !.at = "send", !.session = Len(sessions')]
            /\ UNCHANGED batches
       ELSE RecordCell(Len(sessions'), "failed", <<>>)
  /\ UNCHANGED guard

Current == Len(Session.turns)
\* The gateway still works on the session: its last turn has not left active_turns.
Held == Session.turns # <<>> /\ Session.turns[Current].state = "closing"

SendTurn ==
  /\ Harnessing /\ harness.at = "send" /\ up /\ ~Held
  /\ \E k \in TurnKinds[harness.batch] :
       sessions' = [sessions EXCEPT ![harness.session].turns =
         Append(@, [state |-> "running", calls |-> k.calls, decision |-> k.decision])]
  /\ harness' = [harness EXCEPT !.at = "poll"]
  /\ UNCHANGED <<guard, batches>>

\* 409: the previous turn has ended and is not saved yet.
SendRefused ==
  /\ Harnessing /\ harness.at = "send" /\ up /\ Held
  /\ RecordCell(harness.session, "failed", harness.done)
  /\ UNCHANGED <<sessions, guard>>

Observed(end, output, early) ==
  Append(harness.done, [turn |-> Current, calls |-> Session.turns[Current].calls, end |-> end,
                        output |-> output, early |-> early])
NextTurn(done) ==
  IF Len(done) = TurnsOf[Cell]
    THEN RecordCell(harness.session, "completed", done)
    ELSE harness' = [harness EXCEPT !.at = "send", !.done = done] /\ UNCHANGED batches

\* What the log says of a turn whose terminal event tells ok.
EndedWell == {"closing", "ok", "unsaved"}

\* The poll sees the turn's terminal event.
TurnSeen ==
  /\ Harnessing /\ harness.at = "poll" /\ up
  /\ \/ /\ Session.turns[Current].state \in EndedWell
        /\ harness' = [harness EXCEPT !.at = "read"] /\ UNCHANGED batches
     \/ /\ Session.turns[Current].state = "failed"
        /\ RecordCell(harness.session, "failed", Observed("failed", 0, FALSE))
  /\ UNCHANGED <<sessions, guard>>

\* The last assistant message of the transcript is the answer of turn k; 0: it has none.
LastAnswer(k) ==
  /\ k # 0 => Session.turns[k].state = "ok"
  /\ \A j \in (k + 1)..Current : Session.turns[j].state # "ok"

\* A request of its own, later than the poll: it takes the last answer there is.
ReadAnswer ==
  /\ Harnessing /\ harness.at = "read" /\ up
  /\ \E k \in 0..Current :
       LastAnswer(k) /\ NextTurn(Observed("ok", k, Session.turns[Current].state # "ok"))
  /\ UNCHANGED <<sessions, guard>>

\* Mutant: a turn out of time is passed over.
AfterTimeout_GoesOn(done) == NextTurn(done)
AfterTimeout(done) == RecordCell(harness.session, "failed", done)
\* 190 seconds without a terminal event: the turn may run on in the gateway.
TurnTimeout ==
  /\ Harnessing /\ harness.at = "poll" /\ up
  /\ Session.turns[Current].state \in {"running", "lost"}
  /\ AfterTimeout(Observed("timeout", 0, FALSE))
  /\ UNCHANGED <<sessions, guard>>

\* Any request to a gateway that is not there fails the cell.
GatewayGone ==
  /\ Harnessing /\ harness.at \in {"cell", "send", "poll", "read"} /\ ~up
  /\ RecordCell(harness.session, "failed", harness.done)
  /\ UNCHANGED <<sessions, guard>>

RunStatus == IF \A i \in DOMAIN Mine.rows : Mine.rows[i].status = "completed"
             THEN "completed" ELSE "completed_with_failures"
WriteBatchSummary ==
  /\ Harnessing /\ harness.at = "summary"
  /\ batches' = [batches EXCEPT ![harness.batch].summary = RunStatus]
  /\ harness' = [harness EXCEPT !.at = "guard"]
  /\ UNCHANGED <<sessions, guard>>

FinishBatch ==
  /\ Harnessing /\ harness.at = "guard"
  /\ guard' = [batch |-> harness.batch, status |-> Mine.summary]
  /\ harness' = NoBatch
  /\ UNCHANGED <<sessions, batches>>

-----------------------------------------------------------------------------
(* The gateway, the user *)

Elsewhere == UNCHANGED <<guard, batches, report>>
Broken == breaks < MaxBreaks /\ breaks' = breaks + 1

\* The terminal event of a turn, late or not: it ends well only with its call
\* answered, and then its answer is not saved yet.
TurnEnds(s, state) ==
  /\ up /\ sessions[s].turns # <<>>
  /\ LET i == Len(sessions[s].turns) IN
       /\ sessions[s].turns[i].state = "running"
       /\ sessions' = [sessions EXCEPT ![s].turns[i].state = state]
  /\ UNCHANGED <<bound, up, harness, breaks>> /\ Elsewhere

\* The session is saved with its answer and leaves active_turns.
SaveAnswer(s) ==
  /\ up /\ sessions[s].turns # <<>>
  /\ LET i == Len(sessions[s].turns) IN
       /\ sessions[s].turns[i].state = "closing"
       /\ sessions' = [sessions EXCEPT ![s].turns[i].state = "ok"]
  /\ UNCHANGED <<bound, up, harness, breaks>> /\ Elsewhere

Rebind == Broken /\ \E s \in Services \ {bound} : bound' = s
          /\ UNCHANGED <<up, sessions, harness>> /\ Elsewhere

\* A dead gateway's turns stay without an end, or without their answer: what
\* would give the first one, a client that resumes their session, the harness
\* never does.
Died(t) == IF t.state = "running" THEN [t EXCEPT !.state = "lost"]
           ELSE IF t.state = "closing" THEN [t EXCEPT !.state = "unsaved"] ELSE t
GatewayDies ==
  /\ up /\ Broken /\ up' = FALSE
  /\ sessions' = [s \in DOMAIN sessions |-> [sessions[s] EXCEPT !.turns =
       [i \in DOMAIN @ |-> Died(@[i])]]]
  /\ UNCHANGED <<bound, harness>> /\ Elsewhere
GatewayBack == ~up /\ up' = TRUE /\ UNCHANGED <<bound, sessions, harness, breaks>> /\ Elsewhere
KillHarness == harness # NoBatch /\ Broken /\ harness' = NoBatch
               /\ UNCHANGED <<bound, up, sessions>> /\ Elsewhere

-----------------------------------------------------------------------------
(* The audit of a batch that has its summary *)

LogOf(row) == sessions[row.session].turns
\* Only the events of the traces the row names are read.
Named(row) == {LogOf(row)[row.turns[i].turn] : i \in DOMAIN row.turns}

\* _evidence_check_failures: a gap passes if no model was called.
EvidencePasses(t) == t.decision # "unlocatable" /\ (t.decision = "gap" => t.calls = 0)

\* The checks of a cell.
RowPasses(row, service) ==
  /\ row.session # 0
  /\ row.status = "completed"
  /\ sessions[row.session].service = service
  /\ \A i \in DOMAIN row.turns : LET t == LogOf(row)[row.turns[i].turn] IN
       /\ t.state \in EndedWell /\ t.calls = row.turns[i].calls
       /\ EvidencePasses(t)
  /\ \E t \in Named(row) : t.decision # "unexpected"

DistinctSessions(rows) == \A i, j \in DOMAIN rows : i # j => rows[i].session # rows[j].session
Passes(b) ==
  /\ Len(b.rows) = Len(TurnsOf) /\ DistinctSessions(b.rows)
  /\ \A i \in DOMAIN b.rows : RowPasses(b.rows[i], b.service)

Audit(n) ==
  /\ batches[n].summary # NoSummary
  /\ report' = IF Passes(batches[n]) THEN n ELSE 0
  /\ report' # report
  /\ UNCHANGED <<bound, up, sessions, guard, batches, harness, breaks>>

HarnessStep == CreateSession \/ SendTurn \/ SendRefused \/ TurnSeen \/ ReadAnswer \/ TurnTimeout \/ GatewayGone
               \/ WriteBatchSummary \/ FinishBatch

BatchNext ==
  \/ \E repeat \in BOOLEAN : StartBatch(repeat)
  \/ HarnessStep
  \/ \E s \in DOMAIN sessions, state \in {"closing", "failed"} : TurnEnds(s, state)
  \/ \E s \in DOMAIN sessions : SaveAnswer(s)
  \/ Rebind \/ GatewayDies \/ GatewayBack \/ KillHarness
  \/ \E n \in DOMAIN batches : Audit(n)

-----------------------------------------------------------------------------
(* Properties *)

\* A passed audit vouches for its batch: every cell of the matrix was answered
\* in a session of its own by the service the batch names, every turn ended well
\* and in time, and the output on record is the answer of that very turn.  The
\* exception is an output taken between the turn's terminal event and the save of
\* its answer, or after the gateway died there: it is an earlier answer, or none.
PassedIsAnswered == report # 0 =>
  LET b == batches[report] IN
  /\ Len(b.rows) = Len(TurnsOf) /\ DistinctSessions(b.rows)
  /\ \A i \in DOMAIN b.rows : LET row == b.rows[i] IN
       /\ sessions[row.session].service = b.service
       /\ Len(row.turns) = TurnsOf[i]
       /\ \A k \in 1..TurnsOf[i] :
            /\ row.turns[k].turn = k /\ LogOf(row)[k].state \in EndedWell
            /\ row.turns[k].output = k \/ (row.turns[k].early /\ row.turns[k].output < k)
(* The inductive invariant behind it. *)

\* The turns on record are the session's turns in their order, each with its own
\* answer or read too early for it.
InOrder(turns) == \A k \in DOMAIN turns :
  /\ turns[k].turn = k
  /\ turns[k].output = k \/ (turns[k].early /\ turns[k].output < k)

\* What the harness at work holds: a batch without summary until it wrote one,
\* and a session in which it sent every turn it saw answered, and at most one more.
HarnessInd ==
  /\ harness.batch \in DOMAIN batches
  /\ Mine.summary = NoSummary <=> harness.at # "guard"
  /\ harness.at = "cell" => harness.done = <<>>
  /\ harness.at \in {"send", "poll", "read"} =>
       /\ harness.session \in DOMAIN sessions /\ InOrder(harness.done)
       /\ Len(Session.turns) = Len(harness.done) + (IF harness.at = "send" THEN 0 ELSE 1)

CompletedRow(i, row) == row.status = "completed" =>
  /\ row.session \in DOMAIN sessions /\ InOrder(row.turns)
  /\ Len(row.turns) = TurnsOf[i] /\ Len(row.turns) <= Len(LogOf(row))

CompletedRows == \A n \in DOMAIN batches : \A i \in DOMAIN batches[n].rows :
  CompletedRow(i, batches[n].rows[i])

\* What an audit has seen of a batch, and nothing that comes later can change.
Vouched(b) ==
  /\ b.summary # NoSummary /\ Len(b.rows) = Len(TurnsOf) /\ DistinctSessions(b.rows)
  /\ \A i \in DOMAIN b.rows : LET row == b.rows[i] IN
       /\ row.status = "completed" /\ sessions[row.session].service = b.service
       /\ \A k \in DOMAIN row.turns : LogOf(row)[k].state \in EndedWell

BatchInd ==
  /\ BatchTypeOK
  /\ harness # NoBatch => HarnessInd
  /\ CompletedRows
  /\ report # 0 => report \in DOMAIN batches /\ Vouched(batches[report])
=============================================================================
