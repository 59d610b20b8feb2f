------------------------------- MODULE PilotRun -------------------------------
(***************************************************************************)
(* One run of the live experiment (scripts/run_m3_live_pilot.py) against a *)
(* gateway: a matrix of cells, each a new session with one turn, posted    *)
(* under command identifiers that never change, so that the gateway's      *)
(* receipts (runtime/storage/command_store.py) answer a repeated command   *)
(* instead of running it again.  The runner and the gateway may each be    *)
(* killed between any two steps; a resumed runner has only its files.      *)
(***************************************************************************)
EXTENDS Naturals, Sequences, FiniteSets, FiniteSetsExt

CONSTANTS
  CellCount,    \* cells of the matrix, in the order of the two loops
  Groups,       \* groups of a case: the cells of one inner loop
  Budget,       \* request_budget
  Expected,     \* expected_provider_calls_per_cell, 0 or 1
  StopOnFailed, \* stop_on_failed_cell
  Replies,      \* how a model call may end
  MaxCalls,     \* bound: model calls of one turn
  MaxRunnerStarts,    \* bound: starts of the runner
  MaxStops      \* bound: stops and kills of the gateway

ASSUME PilotAssumption ==
  /\ CellCount \in Nat \ {0} /\ Groups \in Nat \ {0} /\ Budget \in Nat
  /\ Expected \in {0, 1} /\ StopOnFailed \in BOOLEAN
  /\ Replies \subseteq {"stop", "length", "other", "failed"}
  /\ MaxCalls \in Nat /\ MaxRunnerStarts \in Nat /\ MaxStops \in Nat

PilotCells == 1 .. CellCount
None == "none"

NoCellRow == [status |-> None, application |-> None, evaluation |-> None, calls |-> 0]
NoPending == [state |-> None, trace |-> FALSE, base |-> 0, reserved |-> 0]

VARIABLES
  \* the runner
  pc, cellAt, called, before, base, counted, reply, runStatus, runnerStarts,
  \* its files
  cellRows, pend, runManifest, runSummary,
  \* the gateway: whether it runs, its receipts, the commands it was sent,
  \* and per cell the state of the turn and the events of the trace
  serving, stops, receipt, inbox, turnState, log,
  \* how often a cell's session was created and its message was accepted
  created, accepted

runner == <<pc, cellAt, called, before, base, counted, reply, runStatus, runnerStarts>>
files == <<cellRows, pend, runManifest, runSummary>>
gateway == <<serving, stops, receipt, inbox, turnState, log, created, accepted>>
pilotVars == <<runner, files, gateway>>

-----------------------------------------------------------------------------
(* What the runner reads from the events of a trace. *)

Has(kinds, events) == \E i \in 1 .. Len(events) : events[i] \in kinds

Calls(events) == Cardinality({i \in 1 .. Len(events) : events[i] = "requested"})

\* The route answers what lies after from_sequence, and the runner asks from
\* before_sequence + 1: the first event after its baseline is never seen.
TurnEvents(events, from) == SubSeq(events, from + 2, Len(events))

Terminal(events) == Has({"ok", "error"}, events)

GenerationJudgment_Lenient(events) ==
  IF ~Has({"requested"}, events) THEN "not_applicable"
  ELSE IF Has({"stop"}, events) THEN "completed"
  ELSE IF Has({"length"}, events) THEN "truncated"
  ELSE "provider_failed"

GenerationJudgment(events) ==
  IF ~Has({"requested"}, events) THEN "not_applicable"
  ELSE IF Has({"length"}, events) THEN "truncated"
  ELSE IF Has({"stop"}, events) THEN "completed"
  ELSE IF Has({"other"}, events) THEN "incomplete"
  ELSE IF Has({"failed"}, events) THEN "provider_failed"
  ELSE "unknown"

CaseRow(events, timedOut, modelCalls) ==
  LET application == IF ~timedOut /\ Has({"ok"}, events) THEN "completed" ELSE "failed"
      evaluation == GenerationJudgment(events)
  IN [calls |-> modelCalls, application |-> application, evaluation |-> evaluation,
      status |-> IF evaluation \in {"completed", "not_applicable"}
                   THEN application ELSE "failed"]

Written(c) == cellRows[c].status # None
Begun(c) == pend[c].state # None

PilotInit ==
  /\ pc = "idle" /\ cellAt = 1 /\ called = 0 /\ before = 0 /\ base = 0 /\ counted = 0
  /\ reply = None /\ runStatus = "running" /\ runnerStarts = 0
  /\ cellRows = [c \in PilotCells |-> NoCellRow] /\ pend = [c \in PilotCells |-> NoPending]
  /\ runManifest = None /\ runSummary = None
  /\ serving = TRUE /\ stops = 0 /\ inbox = {}
  /\ receipt = [k \in {"new", "turn", "cancel"} |-> [c \in PilotCells |-> None]]
  /\ turnState = [c \in PilotCells |-> None] /\ log = [c \in PilotCells |-> <<>>]
  /\ created = [c \in PilotCells |-> 0] /\ accepted = [c \in PilotCells |-> 0]

-----------------------------------------------------------------------------
(* The runner.  Whatever it raises ends it; its files stay. *)

Ended ==
  /\ pc' = "idle" /\ cellAt' = 1 /\ called' = 0 /\ before' = 0 /\ base' = 0 /\ counted' = 0
  /\ reply' = None /\ runStatus' = "running"

Abort == Ended /\ UNCHANGED runnerStarts

\* The two loops: after the cell c, with the calls n counted and the status s.
StopStatuses == {"stopped_call_budget_guard", "stopped_after_failed_cell"}

Advance(c, n, s, stopped) ==
  LET over == (n >= Budget /\ Expected = 1) \/ s \in StopStatuses
  IN /\ IF stopped \/ (c % Groups = 0 /\ over) \/ c = CellCount
          THEN pc' = "finish" /\ cellAt' = c
          ELSE pc' = "loop" /\ cellAt' = c + 1
     /\ called' = n /\ runStatus' = s

\* run, up to the loops.  A resumed run keeps the stored configuration, its
\* status included.
Start ==
  /\ pc = "idle" /\ runnerStarts < MaxRunnerStarts /\ serving
  /\ runnerStarts' = runnerStarts + 1
  /\ pc' = "loop" /\ runStatus' = IF runManifest = None THEN "running" ELSE runManifest
  /\ runManifest' = IF runManifest = None THEN "running" ELSE runManifest
  /\ UNCHANGED <<cellAt, called, before, base, counted, reply, cellRows, pend, runSummary, gateway>>

SkipRow ==
  /\ pc = "loop" /\ Written(cellAt)
  /\ Advance(cellAt, called + cellRows[cellAt].calls, runStatus, FALSE)
  /\ UNCHANGED <<before, base, counted, reply, runnerStarts, files, gateway>>

Reserved(c) ==
  IF pend[c].state # "terminal" THEN pend[c].reserved ELSE 0

OverBudget == called + Reserved(cellAt) + Expected > Budget

StopAtBudget ==
  /\ pc = "loop" /\ ~Written(cellAt) /\ OverBudget
  /\ Advance(cellAt, called + Reserved(cellAt), "stopped_call_budget_guard", TRUE)
  /\ UNCHANGED <<before, base, counted, reply, runnerStarts, files, gateway>>

Post(kind, c) ==
  inbox' = inbox \union {[kind |-> kind, cell |-> c, by |-> runnerStarts, stage |-> "sent"]}

\* A cell without files: its session.new is posted.
EnterCell ==
  /\ pc = "loop" /\ ~Written(cellAt) /\ ~OverBudget /\ ~Begun(cellAt)
  /\ IF serving THEN /\ Post("new", cellAt) /\ pc' = "new" /\ before' = called
                     /\ UNCHANGED <<cellAt, called, base, counted, reply, runStatus, runnerStarts>>
                ELSE Abort /\ UNCHANGED inbox
  /\ UNCHANGED <<files, serving, stops, receipt, turnState, log, created, accepted>>

\* A cell that was begun: its session, and its turn if it is known.
ReenterCell ==
  /\ pc = "loop" /\ ~Written(cellAt) /\ ~OverBudget /\ Begun(cellAt)
  /\ before' = called /\ base' = pend[cellAt].base
  /\ pc' = IF pend[cellAt].trace THEN "poll" ELSE "baseline"
  /\ UNCHANGED <<cellAt, called, counted, reply, runStatus, runnerStarts, files, gateway>>

NewAnswered ==
  /\ pc = "new" /\ reply # None
  /\ IF reply = "accepted"
       THEN /\ pend' = [pend EXCEPT ![cellAt] = [state |-> "session_created", trace |-> FALSE,
                                               base |-> 0, reserved |-> 0]]
            /\ pc' = "baseline" /\ reply' = None
            /\ UNCHANGED <<cellAt, called, before, base, counted, runStatus, runnerStarts>>
       ELSE Abort /\ UNCHANGED pend
  /\ UNCHANGED <<cellRows, runManifest, runSummary, gateway>>

\* The turn is announced in the pending file before its message is posted.
Baseline ==
  /\ pc = "baseline"
  /\ IF serving THEN /\ base' = Len(log[cellAt]) /\ pc' = "post"
                     /\ pend' = [pend EXCEPT ![cellAt] = [@ EXCEPT !.state = "turn_pending",
                                                       !.base = Len(log[cellAt]), !.reserved = 1]]
                     /\ UNCHANGED <<cellAt, called, before, counted, reply, runStatus, runnerStarts>>
                ELSE Abort /\ UNCHANGED pend
  /\ UNCHANGED <<cellRows, runManifest, runSummary, gateway>>

PostTurn ==
  /\ pc = "post"
  /\ IF serving THEN /\ Post("turn", cellAt) /\ pc' = "turn"
                     /\ UNCHANGED <<cellAt, called, before, base, counted, reply, runStatus, runnerStarts>>
                ELSE Abort /\ UNCHANGED inbox
  /\ UNCHANGED <<files, serving, stops, receipt, turnState, log, created, accepted>>

\* Every receipt names the trace it reserved: whatever became of the command,
\* its answer holds a trace_id, and only a first refusal is an error.
TurnAnswered ==
  /\ pc = "turn" /\ reply # None
  /\ IF reply = "refused"
       THEN Abort /\ UNCHANGED pend
       ELSE /\ pend' = [pend EXCEPT ![cellAt] = [@ EXCEPT !.trace = TRUE, !.state = "turn_running"]]
            /\ pc' = "poll" /\ reply' = None
            /\ UNCHANGED <<cellAt, called, before, base, counted, runStatus, runnerStarts>>
  /\ UNCHANGED <<cellRows, runManifest, runSummary, gateway>>

\* The request outlasts its timeout, or the connection breaks.
RequestFails ==
  /\ pc \in {"new", "turn", "poll", "cancelling"}
  /\ pc \in {"new", "turn"} => reply = None
  /\ pc \in {"poll", "cancelling"} => ~serving
  /\ Abort /\ UNCHANGED <<files, gateway>>

Seen == TurnEvents(log[cellAt], base)

PollTerminal ==
  /\ pc = "poll" /\ serving /\ Terminal(Seen)
  /\ counted' = Calls(Seen) /\ pc' = "judge"
  /\ UNCHANGED <<cellAt, called, before, base, reply, runStatus, runnerStarts, files, gateway>>

\* turn_timeout: the calls are counted before the turn is cancelled.  A cancel
\* that was sent before is answered from its receipt.
GiveUpTurn ==
  /\ pc = "poll" /\ serving /\ ~Terminal(Seen)
  /\ counted' = Calls(Seen) /\ pc' = "cancelling"
  /\ receipt' = [receipt EXCEPT !["cancel"][cellAt] = "accepted"]
  /\ turnState' = IF turnState[cellAt] = "running" /\ receipt["cancel"][cellAt] = None
               THEN [turnState EXCEPT ![cellAt] = "cancelled"] ELSE turnState
  /\ UNCHANGED <<cellAt, called, before, base, reply, runStatus, runnerStarts, files,
                 serving, stops, inbox, log, created, accepted>>

CancelConfirmed ==
  /\ pc = "cancelling" /\ serving /\ Terminal(Seen)
  /\ pc' = "judge late"
  /\ UNCHANGED <<cellAt, called, before, base, counted, reply, runStatus, runnerStarts, files, gateway>>

CancelUnconfirmed_Waits ==
  /\ pc = "cancelling" /\ serving /\ ~Terminal(Seen)
  /\ pend' = [pend EXCEPT ![cellAt] = [@ EXCEPT !.state = "cancellation_unconfirmed"]]
  /\ pc' = "poll" /\ UNCHANGED <<cellAt, called, before, base, counted, reply, runStatus, runnerStarts>>
  /\ UNCHANGED <<cellRows, runManifest, runSummary, gateway>>

CancelUnconfirmed ==
  /\ pc = "cancelling" /\ serving /\ ~Terminal(Seen)
  /\ pend' = [pend EXCEPT ![cellAt] = [@ EXCEPT !.state = "cancellation_unconfirmed"]]
  /\ Abort /\ UNCHANGED <<cellRows, runManifest, runSummary, gateway>>

WriteRow ==
  /\ pc \in {"judge", "judge late"}
  /\ cellRows' = [cellRows EXCEPT ![cellAt] = CaseRow(Seen, pc = "judge late", counted)]
  /\ pc' = "mark"
  /\ UNCHANGED <<cellAt, called, before, base, counted, reply, runStatus, runnerStarts,
                 pend, runManifest, runSummary, gateway>>

CellFailed(row) == row.status # "completed" \/ row.application # "completed"

\* The pending file is closed; the run goes on, or stops for what it saw.
MarkTerminal ==
  /\ pc = "mark"
  /\ pend' = [pend EXCEPT ![cellAt] = [@ EXCEPT !.state = "terminal"]]
  /\ LET row == cellRows[cellAt]
         many == row.calls > 1
         failed == ~many /\ StopOnFailed /\ CellFailed(row)
         s == IF many THEN "stopped_call_budget_guard"
              ELSE IF failed THEN "stopped_after_failed_cell" ELSE runStatus
     IN /\ Advance(cellAt, before + row.calls, s, many \/ failed)
        /\ runManifest' = IF many THEN s ELSE runManifest
  /\ before' = 0 /\ base' = 0 /\ counted' = 0
  /\ UNCHANGED <<reply, runnerStarts, cellRows, runSummary, gateway>>

SummaryStatus ==
  IF \E c \in PilotCells : ~Written(c) THEN "incomplete"
  ELSE IF \A c \in PilotCells : cellRows[c].status = "completed" THEN "completed"
  ELSE "completed_with_failures"

PilotSummary ==
  /\ pc = "finish" /\ runSummary' = SummaryStatus /\ pc' = "close"
  /\ UNCHANGED <<cellAt, called, before, base, counted, reply, runStatus, runnerStarts,
                 cellRows, pend, runManifest, gateway>>

Finish ==
  /\ pc = "close"
  /\ runManifest' = IF runStatus = "running" THEN SummaryStatus ELSE runStatus
  /\ Abort /\ UNCHANGED <<cellRows, pend, runSummary, gateway>>

KillRunner == pc # "idle" /\ Abort /\ UNCHANGED <<files, gateway>>

-----------------------------------------------------------------------------
(* The gateway: post_command with its receipts, and the turn. *)

\* The answer reaches the runner if the one that asked still waits for it.
Answer(q, text) ==
  reply' = IF q.by = runnerStarts /\ pc = q.kind /\ cellAt = q.cell THEN text ELSE reply

Prior(q) ==
  /\ serving /\ q.stage = "sent" /\ receipt[q.kind][q.cell] # None
  /\ Answer(q, receipt[q.kind][q.cell]) /\ inbox' = inbox \ {q}
  /\ UNCHANGED <<pc, cellAt, called, before, base, counted, runStatus, runnerStarts, files,
                 serving, stops, receipt, turnState, log, created, accepted>>

Reserve_Again(q) ==
  /\ serving /\ q.stage = "sent" /\ receipt[q.kind][q.cell] \in {None, "processing"}
  /\ receipt' = [receipt EXCEPT ![q.kind][q.cell] = "processing"]
  /\ inbox' = (inbox \ {q}) \union {[q EXCEPT !.stage = "reserved"]}
  /\ UNCHANGED <<runner, files, serving, stops, turnState, log, created, accepted>>

Reserve(q) ==
  /\ serving /\ q.stage = "sent" /\ receipt[q.kind][q.cell] = None
  /\ receipt' = [receipt EXCEPT ![q.kind][q.cell] = "processing"]
  /\ inbox' = (inbox \ {q}) \union {[q EXCEPT !.stage = "reserved"]}
  /\ UNCHANGED <<runner, files, serving, stops, turnState, log, created, accepted>>

\* The handler: a session, or a turn that has begun.
Handle(q) ==
  /\ serving /\ q.stage = "reserved"
  /\ receipt' = [receipt EXCEPT ![q.kind][q.cell] = "accepted"]
  /\ IF q.kind = "new"
       THEN created' = [created EXCEPT ![q.cell] = @ + 1] /\ UNCHANGED <<turnState, log, accepted>>
       ELSE /\ accepted' = [accepted EXCEPT ![q.cell] = @ + 1]
            /\ turnState' = [turnState EXCEPT ![q.cell] = "running"]
            /\ log' = [log EXCEPT ![q.cell] = Append(@, "started")]
            /\ UNCHANGED created
  /\ Answer(q, "accepted") /\ inbox' = inbox \ {q}
  /\ UNCHANGED <<pc, cellAt, called, before, base, counted, runStatus, runnerStarts, files, serving, stops>>

HandlerRaises(q) ==
  /\ serving /\ q.stage = "reserved"
  /\ receipt' = [receipt EXCEPT ![q.kind][q.cell] = "failed"]
  /\ Answer(q, "refused") /\ inbox' = inbox \ {q}
  /\ UNCHANGED <<pc, cellAt, called, before, base, counted, runStatus, runnerStarts, files,
                 serving, stops, turnState, log, created, accepted>>

Waiting(events) == events # <<>> /\ events[Len(events)] = "requested"

Emit(c, event) == log' = [log EXCEPT ![c] = Append(@, event)]

TurnCalls(c) ==
  /\ serving /\ turnState[c] = "running" /\ ~Waiting(log[c]) /\ Calls(log[c]) < MaxCalls
  /\ Emit(c, "requested")
  /\ UNCHANGED <<runner, files, serving, stops, receipt, inbox, turnState, created, accepted>>

ModelReplies(c) ==
  /\ serving /\ turnState[c] = "running" /\ Waiting(log[c])
  /\ \E r \in Replies : Emit(c, r)
  /\ UNCHANGED <<runner, files, serving, stops, receipt, inbox, turnState, created, accepted>>

\* agent.turn.completed: a turn whose last call failed is not ok, another may be.
PilotTurnEnds(c) ==
  /\ serving /\ turnState[c] \in {"running", "cancelled"}
  /\ turnState[c] = "running" => ~Waiting(log[c])
  /\ \E event \in {"ok", "error"} :
       /\ event = "ok" => turnState[c] = "running" /\ log[c][Len(log[c])] # "failed"
       /\ Emit(c, event)
  /\ turnState' = [turnState EXCEPT ![c] = "ended"]
  /\ UNCHANGED <<runner, files, serving, stops, receipt, inbox, created, accepted>>

\* A gateway that is stopped cancels its turns and says so; one that is killed
\* leaves them without an end, and a command it had reserved as processing.
StopGateway ==
  /\ serving /\ stops < MaxStops /\ stops' = stops + 1 /\ serving' = FALSE /\ inbox' = {}
  /\ \/ /\ log' = [c \in PilotCells |-> IF turnState[c] \in {"running", "cancelled"}
                                     THEN Append(log[c], "error") ELSE log[c]]
        /\ turnState' = [c \in PilotCells |-> IF turnState[c] \in {"running", "cancelled"}
                                      THEN "ended" ELSE turnState[c]]
     \/ /\ turnState' = [c \in PilotCells |-> IF turnState[c] \in {"running", "cancelled"}
                                      THEN "lost" ELSE turnState[c]]
        /\ UNCHANGED log
  /\ UNCHANGED <<runner, files, receipt, created, accepted>>

StartGateway ==
  /\ ~serving /\ serving' = TRUE
  /\ UNCHANGED <<runner, files, stops, receipt, inbox, turnState, log, created, accepted>>

-----------------------------------------------------------------------------
RunnerSteps ==
  \/ SkipRow \/ StopAtBudget \/ EnterCell \/ ReenterCell \/ NewAnswered \/ Baseline
  \/ PostTurn \/ TurnAnswered \/ RequestFails \/ PollTerminal \/ GiveUpTurn
  \/ CancelConfirmed \/ CancelUnconfirmed \/ WriteRow \/ MarkTerminal
  \/ PilotSummary \/ Finish

GatewaySteps ==
  \/ \E q \in inbox : Prior(q) \/ Reserve(q) \/ Handle(q) \/ HandlerRaises(q)
  \/ \E c \in PilotCells : TurnCalls(c) \/ ModelReplies(c) \/ PilotTurnEnds(c)
  \/ StopGateway \/ StartGateway

PilotNext == Start \/ RunnerSteps \/ KillRunner \/ GatewaySteps

-----------------------------------------------------------------------------
(* Properties. *)

\* However often the runner is killed, resumed or left without an answer, a
\* cell has one session at most and its message is accepted once at most
\* (the receipts of post_command under the runner's fixed command identifiers).
NeverResent == \A c \in PilotCells : created[c] <= 1 /\ accepted[c] <= 1

Last(events) == events[Len(events)]

\* Every call of the turn is counted, and the cell is completed only if the turn
\* ended ok, no reply of it was cut and, if it called the model, one was whole.
HonestRow(c) ==
  /\ cellRows[c].calls = Calls(log[c])
  /\ cellRows[c].status = "completed" =>
       /\ Last(log[c]) = "ok"
       /\ ~Has({"length"}, log[c])
       /\ Has({"requested"}, log[c]) => Has({"stop"}, log[c])

Watched(c) == Written(c) /\ pend[c].base = 0 /\ receipt["cancel"][c] = None

\* A cell that was watched from before its turn began and ended in time says
\* what happened (CaseRow over the events the runner asked for).
RowsHonest == \A c \in PilotCells : Watched(c) => HonestRow(c)

\* A start of the runner ends, whatever the gateway does: every wait has a deadline.
EveryStartEnds == pc # "idle" ~> pc = "idle"

(* The inductive invariant behind NeverResent. *)

Commands == [kind : {"new", "turn"}, cell : PilotCells, by : Nat, stage : {"sent", "reserved"}]
ReceiptStates == {None, "processing", "accepted", "failed"}
Times(kind) == IF kind = "new" THEN created ELSE accepted

\* A command that is being handled has the receipt to itself, and was not handled before.
ReceiptInd ==
  /\ runnerStarts \in Nat /\ cellAt \in PilotCells
  /\ inbox \subseteq Commands
  /\ receipt \in [{"new", "turn", "cancel"} -> [PilotCells -> ReceiptStates]]
  /\ created \in [PilotCells -> 0..1] /\ accepted \in [PilotCells -> 0..1]
  /\ \A q \in inbox : q.stage = "reserved" =>
       /\ receipt[q.kind][q.cell] = "processing"
       /\ \A p \in inbox : p.stage = "reserved" /\ p.kind = q.kind /\ p.cell = q.cell => p = q
  /\ \A kind \in {"new", "turn"}, c \in PilotCells :
       Times(kind)[c] = 1 => receipt[kind][c] = "accepted"
(* The inductive invariant behind RowsHonest. *)

Pending == [state : {None, "session_created", "turn_pending", "turn_running",
                     "cancellation_unconfirmed", "terminal"},
            trace : BOOLEAN, base : Nat, reserved : Nat]
Event == {"started", "requested", "ok", "error"} \union Replies

\* A trace: it starts with its turn, a reply follows its call, nothing follows the end.
TraceInd(c) ==
  /\ log[c] \in Seq(Event)
  /\ turnState[c] = None => log[c] = <<>>
  /\ turnState[c] # None => accepted[c] = 1 /\ log[c] # <<>> /\ log[c][1] = "started"
  /\ \A i \in DOMAIN log[c] :
       /\ log[c][i] \in Replies => i > 1 /\ log[c][i - 1] = "requested"
       /\ log[c][i] \in {"ok", "error"} => turnState[c] = "ended" /\ i = Len(log[c])

\* Where the runner is: its cell has no row before it judged it, and what it
\* counted is what there will ever be of a trace that ended.
WatchInd ==
  /\ pc \in {"new", "baseline", "post", "turn", "poll", "cancelling", "judge", "judge late"} =>
       ~Written(cellAt)
  /\ pc \in {"post", "turn", "poll", "cancelling", "judge", "judge late"} =>
       base = pend[cellAt].base
  /\ pc \in {"cancelling", "judge late"} => receipt["cancel"][cellAt] # None
  /\ pc = "judge" => Terminal(Seen) /\ counted = Calls(Seen)

RowsInd ==
  /\ DOMAIN cellRows = PilotCells
  /\ pend \in [PilotCells -> Pending]
  /\ DOMAIN log = PilotCells /\ DOMAIN turnState = PilotCells
  /\ \A c \in PilotCells : TraceInd(c)
  /\ WatchInd
  /\ \A c \in PilotCells : Watched(c) => Terminal(log[c]) /\ HonestRow(c)
=============================================================================
