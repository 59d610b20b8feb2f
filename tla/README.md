# DeepProf in TLA+

DeepProf is a tutoring system that runs on the learner's machine: a Gateway
(Python, FastAPI, one asyncio event loop over SQLite) that browser and terminal
clients drive with commands and follow through event streams, and scripts that
run experiments against it. This directory holds TLA+ specifications of it, the
TLC runs that check small instances and the proofs that TLAPS checks for every
instance.

    tlc -config MCSessionTurns_all.cfg MCSessionTurns      a run (PROJECT.json lists all)
    tlapm SessionTurns_proofs.tla                          the proofs of a module

Contents: 1 the system, 2 the modules, 3 the runs, 4 the proofs, 5 where code
and intention differ, 6 what is not modelled, 7 plan.

## 1. The system

| Component | State | Operations | Talks to |
|---|---|---|---|
| Gateway commands and turns: `api/sessions.py`, `api/app.py` | in memory `active_turns`, `turn_tasks`, one `Session` object per handler or turn | `POST /commands`, `_begin_turn`, `_run_turn`, shutdown hook | stores by synchronous calls, `RuntimeService.emit` and model streams by await |
| Session and event store: `runtime/storage/sqlite_store.py`, `runtime/core/session.py` | rows of sessions; rows of events with a sequence per session | load (a fresh object), save (whole row, insert or replace), delete; append (idempotent by event id, MAX + 1), replay | called by everyone |
| Event service and SSE: `runtime/service.py` emit, `api/events.py` | emit lock, listeners, a queue of 256 per stream | emit: append in a worker thread, then publish; stream: subscribe, history, queue | event store, clients |
| Client SDK and terminal client: `packages/client_sdk`, `apps/cli/src` | cursor per session, open flag; gateway file, environment and its lock | connect, accept, reconnect, ask; find, start and stop a gateway; prepare and remove the environment | Gateway over HTTP, files |
| Command receipts: `runtime/storage/command_store.py` | a receipt per command id | get, reserve, complete | `post_command` |
| Quiz service: `evaluation/quiz_service.py`, `question_bank.py` | `active_quiz`, `quiz_position`, `teaching_state` in the session's metadata | issue, answer, flush_events | session row, learner store, events |
| Learner store: `models/learner/store.py`, `bkt.py` | attempts, estimates, observations, outbox | record_attempt, delete_session_data, pending_events, mark_event_delivered | quiz service, teaching turn |
| Model generation: `runtime/service.py` generate, `runtime/providers/` | provider chain, two configuration files, catalogue cache with a lock per key | generate with fallback, create, edit, delete and bind services, list and describe models | network |
| Teaching graph: `graph/education/` | state of one turn: action, hint level, counts | assess, decide, teach, ask, hint, correct, test, reflect | dispatcher |
| Capability dispatcher: `runtime/capabilities.py`, `bindings.py` | a memo shared by the turns of the process | execute | skills, library, generate |
| Deep research and web search: `_run_deep_research`, `web_search.py` | `deep_research` in the metadata | rounds of searches, report | generate, search services |
| Resource library: `library/`, `resource_store.py` | documents, chunks, indexes, files | import, activate, search | one SQLite connection |
| Live experiment runner: `run_m3_live_pilot.py` | row, pending and event files, manifest, budget | run, resume | Gateway by commands |
| Campaigns and repair: `run_m3_abc_research.py`, `run_m3_rag_repair.py` | batch state, pointer to the latest measurement | measure, run phases, resume, repair | runner, one ledger |
| Full-text batch and review: `run_m3_fulltext_rag.py`, `annotate_fulltext_rag.py` and the scripts that resume and close a batch | batch state, frozen configuration, wire archive, request files | preflight, conditions, resume, review stages | Gateway, one ledger |
| Offline matrix and A/B acceptance: `m3_acceptance.py`, `run_ab_acceptance.py`, `audit_acceptance_run.py` | cell files, rating templates, guard, batches | run, resume, rate, audit | Gateway |

Handlers and turns share one thread. Between two awaits nothing else runs, so
the hard behaviour is what happens at the awaits:

* a handler keeps a `Session` object across an await and saves the whole row
  later, so the last writer wins;
* several handlers pass the same idle check and then wait at different awaits;
* `task.cancel()` raises at whichever await the turn has reached, including
  the awaits in its own `except` clauses, and before its first step;
* an emit writes in a worker thread that a cancel does not stop;
* the process may die between any two saves. Locks and tasks are memory, marks
  and events are not, and `session.resume` has to reconcile them;
* streams reconnect with a cursor while events are still being published;
* the learner store commits in its own transaction, before the session row.
* one database connection is shared by the event loop and importing threads,
  so a commit of one commits what the other has half done;
* clients and scripts are killed at any point and started again over the files
  that are left, with a budget of model calls they must not exceed.

What makes each part correct: one turn per session, which ends and releases it;
a row that never claims a dead or finished turn is running; terminal events
that come last; a history a model can be asked with (Gateway). Events reach a
client in order, once, and none is skipped (streams). An attempt counts once,
only if unhinted and first, and an estimate is the fold of the attempts that
count (learner store). A second provider is asked only while the user has seen
nothing, and nobody learns the models of an address that is no longer
configured (generation, catalogue). An answer cites what its model was given,
and what it cites stays (library, dispatcher). A saved source is never lost
(research). Whoever goes on finds what it needs, and an answer's pieces are
one's own (clients). No call is made twice, none beyond the budget, and no file says more
than what happened (scripts).

## 2. Modules

### Gateway

`SessionTurns.tla` models commands and turns over the session store.

| TLA+ | code |
|---|---|
| `store` | table `sessions`; `None` is a missing row. A row is mode, messages (role and the trace that wrote it), `active_turn`, `last_turn` and one configuration value |
| `born` | ids `new_id` has returned: never returned again |
| `locked`, `tasks` | `app.state.active_turns`, `app.state.turn_tasks` |
| `cancels` | `task.cancel()` called, CancelledError not yet raised |
| `pc`, `home`, `obj`, `ctx` | the await at which a command's handler or turn stands, its session, its `Session` object, the parts of the turn's `ctx` that its `except` and `finally` read |
| `ended`, `torn`, `late` | statuses of the persisted `agent.turn.completed` events of a trace, its events whose emit was cancelled under the worker thread, how many came after the end |
| `Handle(c, s)` | `post_command`, one action per command type, up to its first await |
| `ContinueHandler(c)` | the rest of a handler that awaits: edit and regenerate (an emit before `_begin_turn`), model and thinking settings (a network lookup), resume (the interrupted event) |
| `AdvanceTurn(t)` and `StreamDelta`, `ResearchProgress` | `_run_turn` from await to await: prompt, stream, answer, terminal event, `finally`; a cancel at each of them |
| `Crash`, `Shutdown`, `Exit`, `Start` | the process and its shutdown hook |

Decisions worth knowing:

* An action is the code between two awaits. Saves are synchronous and belong
  to the action that makes them.
* A refusal that has changed nothing is a stuttering step, and has no action;
  `RefuseRewritten` is the one refusal that comes after a change.
* A command id is executed at most once (its receipt is reserved first), so it
  also names the trace, the handler's object and the turn.
* `emit` is one await for every event but the pieces of the stream and the
  terminal ones. A cancel at one of those leaves the append to its worker
  thread: the event is `torn`, and may be persisted at any later step, also
  after the turn's own status `cancelled`. `late` counts the events of a turn
  persisted after its first status; `TerminalIsLast` allows one, of a cancelled
  turn only.
* A cancel may arrive before a turn's first step: `create_task` and a
  `turn.cancel` handler can both be in the same batch of ready callbacks.
* A save that raises (disk full) is not modelled; it would leave the session
  locked in the same way as `CancelUnstarted`.
* Texts, titles, citations, thinking options and audit events that no property
  reads are left out. `quiz.*` is in `QuizTurns`, research in `DeepResearch`,
  `library.import` in `ResourceLibrary`.

`EventStream.tla` models the events of one session on their way to the
clients; `EventFeed.tla` is the abstract specification it implements.

| TLA+ | code |
|---|---|
| `log` | the session's rows of table `events`; a sequence number is a place in it |
| `emits` | where the emit of an event stands: it holds `_emit_lock` (`writing`, `again`), is published (`out`), was cancelled (`torn`) or died with the process (`dropped`) |
| `last`, `upto`, `queue`, `full` | the locals of `sse_frames`: `last_sequence`, the end of the history, the queue, the overflow event |
| `wire` | frames sent on a connection and not yet read |
| `loop`, `cursor`, `attempts` | `EventClient`: its connection loop, the cursor of its session, connections that ended |
| `BeginEmit`, `WriteEvent`, `Publish`, `CancelEmit` | `RuntimeService.emit`: lock, append in the worker thread, listeners, a cancel of the awaiting turn |
| `Serve(k)` | `sse_frames`: subscribe and read the history in one step, send it, then the queue; end on overflow |
| `Connect`, `Follow`, `Break_`, `Close` | `connect`, `accept` and the reconnect loop, a broken connection, `close` |
| `Restart` | the Gateway dies or shuts down, and is started again |

* A client is one `EventClient` used as `session_runner.ts` uses it: one
  `connect`, one session. `Browsers` are those whose `EventSource` reconnects
  without a limit; the others give up after `MaxAttempts` (5).
* `Outbox` events come from the learner store and are emitted by request
  handlers, which nothing cancels, and possibly twice: `append` then returns
  the row it has.
* A queue place is free when its event is sent. The code frees it when the
  waiting `get` takes the event, one step before; that only moves the moment
  at which an overflow may happen.
* Left out: heartbeats, the trace filter of `accept`, the deletion of the
  session, and a client that connects twice.

`EventFeed` says what a reader may rely on: it starts somewhere in the log,
reads on in order, and passes over an event only if the event's emit was
cancelled.

### Study sessions

`TeachingPolicy.tla` is the policy as operators: `DecideAction` with its rules
in order, the node of each action, hint levels and the turn limit.
`LearnerStore.tla` is `models/learner/store.py`, one transaction per operator:
`RecordAttempt` with the reasons that make an attempt ineligible,
`DeleteSessionData` with the replay of the estimates it touches, the outbox. The
tables are sets of rows; `InOrder` is their `ORDER BY`. Mastery is BKT in fixed point, because
`Available` and the band it feeds are read by the policy.

`QuizTurns.tla` puts both under the session row. `row` is the study part of a
row, `turn` where a session's turn stands with the object it loaded at
`message.send`. `GenerateQuiz`, `AnswerQuiz` and `DeleteSession` load, change
and save in one step; a turn is `BeginTurn`, `SavePrompt`, `SaveMark`, `Teach`
and `EndTurn`, each saving its own copy. `CrashInAnswer` and `CrashInDelete`
fall between the store's commit and the row's save.

`LearnerAudit.tla` puts the store under several sessions and readers that flush
its outbox: `ReadLearner` and `Answer` read the pending rows once, then
`EmitPending` and `MarkPending` are the code between two awaits.

`StudyRuns.tla` joins the two over one store, in scenes "quiz" and "audit".

### Model services

`ProviderCatalog.tla` holds the registry, its two files and the commands that
change them; `deleting` is the one await among them. Two modules extend it.
`ModelCalls.tla` is `RuntimeService.generate` under one turn: `Generate` chooses
the candidates, `Attempt` starts the next, `TextChunk` and its siblings read
one item of the stream, `StreamEnds`, `StreamBreaks` and `CancelTurn` end it;
`call.log` holds the audit events, `call.voices` who was read by the user: by a
piece of text or of reasoning, or by a tool call, which `generate` hands over
when the stream has ended.
`ModelDirectory.tla` is `list_model_catalog` with its lock per key, its room
and its cache: `Ask`, `Acquire`, `EnterRoom`, `Answered`, `Failed`, `Probed`;
`Invalidate` drops what an edit makes stale. `ModelServices.tla` runs them as
two scenes, because a step of one never reads the state of the other.

### Evidence

`ResourceLibrary.tla` is import, activation, audit record and search, one SQL
statement a step over ONE connection: `table` is what the connection sees,
`stored` what is committed, `inTx` whether it has a transaction. A thread is
the event loop or a pool thread that imports a course's textbook. The lock keeps
imports apart, but not `record_operation`, whose commit takes with it what
another thread has half done: `cut` remembers such imports until they have
committed the rest themselves. `SearchLibrary` ranks and filters as `search`
does, in one step, and hands out one passage, possibly of an import under way.

`Dispatcher.tla` is the table of bindings and `execute` as operators;
`Grounding.tla` the nodes that retrieve, gate and cite through it. `memo` is
the dispatcher's memory of one trace: `Dispatch(t)` drops it when another
turn's trace comes. A retrieval has no await and is a step of its own.

`DeepResearch.tla` is what a profile can search with, `_run_deep_research` and a
chat turn's `_prepare_web_search`: `Plan`,
`SearchStarts`, `NativeReplies`, `FallbackReplies`, `Gather`, `Extract`,
`TimeOut`, `WriteReport`, and `Cancel`, `Kill`, `Resume` at each of them.
`EvidenceRuns.tla` joins the three as scenes.

### Clients

`PythonSetup.tla` is the environment with its lock, `GatewayHome.tla` the file
that names a gateway and the supervisor that starts and stops one,
`AskTurn.tla` one question from `summary` to the end of its stream; the
transcript, which the code falls back on, is left out. `ClientRuns.tla`
is a process that goes through all three and may be killed anywhere;
`CliProcesses.tla` names what they share. `log` is the events of one session,
over `EventStream`'s promise: the end of a turn and the save of its session are
two steps, and a gateway refuses a question while it works on a turn itself,
whatever the row says. `LockExists`, `Judge`, `Wait` and `RemoveStale` keep the
failed `mkdir`, the look at the lock, and its removal apart, as the code does; a
lock that is gone when it is looked at counts as stale.

### Experiments

`PilotRun.tla` is `run_m3_live_pilot.py` against a gateway with receipts: the
runner's files (`cellRows`, `pend`, `runManifest`, `runSummary`), the commands
it posts (`inbox`), the gateway's `receipt` rows and turns. `Reserve` and
`Handle` are the two transactions around a command; `KillRunner` and
`StopGateway` may come between any two steps.
`OfflineMatrix.tla` is the offline matrix and its blind rating templates,
`LiveAcceptance.tla` the A/B batch with its guard and the audit that judges it:
a turn ends (`closing`) before its answer is saved (`ok`), and the harness reads
the transcript (`ReadAnswer`) in a request after the poll that saw the end.
`HarnessRuns.tla` joins the three as scenes: they share no file and no gateway.

`Campaign.tla` is a measurement, a campaign or a repair over one authorization;
a phase is a run of `PilotRun` reduced to its cells, calls and one reservation.
`FulltextBatch.tla` is the full-text batch with its archive of requests,
`FulltextReview.tla` the reviewer who spends from the same ledger beside it.
`BatchRuns.tla` joins them.

### Conventions

`MC*.tla` and their `.cfg` give the constants; `*_proofs.tla` hold the proofs.
A module of scenes gives each component its own runs within one specification:
the chosen scene moves, the others stay in their initial states. This loses
nothing where the components share no state. An operator named
`Name_Variant` is `Name` with a fault, kept to show that a property notices it
(PROJECT.json, "mutants"). No specification uses one. An invariant whose name
ends in `Ind` is the inductive invariant of a proof.

Abstractions that need knowing beside the comments of the modules:

* `SetFallback` has no caller in the gateway. A service's `base_url` is taken to be there. Handlers
  write `providers.json` and `config.json` in one step. Replaced service
  objects are closed only when the gateway stops.
* `Dispatcher`: the errors of a binding's prefix or suffix are not modelled.
* `Campaign`: an orphan gateway is tracked for measurements only and seen to
  end between scripts; `state` "open" stands for every state that is neither
  stopped nor completed; of the source changes a resume checks, only a repair's
  prompt fingerprint; a cell's row and pending file are one step; one script at
  a time.
* `FulltextBatch`: one runner and one reviewer at a time; the calls of earlier
  batches are the baseline, the ceilings the batch's own; `RecordStop` is the
  script of one batch generalised to any; an orphan beside a new gateway is one
  `server`.
* `LiveAcceptance`: one harness; a turn's model call is in the log from its
  start. `PilotRun`: one runner; what raises inside `Baseline` is `KillRunner`.
* `PythonSetup`: a living process writes `owner.json` within a minute.

## 3. Runs

| Run | Instance | Result |
|---|---|---|
| `turns` | four commands of any kind on two sessions, remote lookups: `OneTurnPerSession`, `InterruptedOnlyIfKilled`, `TerminalIsLast`, `PromptLast`, `OneAnswerPerTurn` | hold, 446 846 states up to symmetry |
| `turns_live` | three commands of every kind but rename: `StartedTurnEnds`, `ShutdownEnds` | hold, 136 563 states |
| `turns_deleted` | is a delete permanent, as `sqlite_store.py:130` says? | no: a model change waiting for its lookup inserts the row again |
| `events` | a turn's event and an outbox event, a terminal client and a browser, a queue of one: `SentOnce`, the refinement `ReadsTheFeed`, `Reached` | hold, 72 853 states |
| `study` | one session, a bank of two questions (one without a concept), two answers, four hints: `CountsAgree`, `LadderInOrder`, `HintedNotEvidence` | hold, 216 038 states |
| `study_lost` | does a turn that sets a test leave an active question, as `test_ab_and_replay.py:305` asserts? | no: the turn's last save overwrites the question it issued |
| `audit` | three sessions under three parameter sets, three answers, two flushes: `EvidenceOnce`, `EstimateIsFold`, `AuditNotLost` | hold, 587 474 states up to symmetry |
| `answers` | one answer over two services and a chain, one edit, two callers of the directory with room for one: `OneVoice`, `AttemptsClosed`, `NoSilentFallback`, `CurrentLockAsksCurrent` | hold, 605 578 states |
| `evidence` | two resources of two requests, imported by the loop and a pool thread; two turns over two passages; two rounds, three searches, two sources: `WholeImports`, `EvidenceStands`, `OwnEvidence`, `ModelOnlyWithEvidence`, `Assembled`, `SourcesKept`, `RunningExplained`, `ResearchEnds` | hold, 949 558 states |
| `campaign` | a measurement, two campaigns, a repair, four starts; a full-text batch of two phases and three cells with its review: `WithinAuthorization`, `GatesHold`, `OneOpenEach`, `TablesOfOneInput`, `CompletedIsClean` | hold, 410 307 states |
| `clients` | two processes that prepare and remove, that use, or a terminal; three gateways, a turn of two pieces and one of none, up to two kills: `ReadyIsInstalled`, `AnswerIsOwn` | hold, 1 369 980 states |
| `experiments` | three matrix cells with a kill and a change, one acceptance batch of a cell of two turns and one of one with two breaks, two live cells with a stop: `NeverResent`, `RowsHonest`, `SameAnswersRated`, `PassedIsAnswered`, `EveryStartEnds` | hold, 542 374 states |

Bounds. `turns`: commands are the only source of behaviour, so their number
bounds it. A race needs the command that creates the session and two that
collide; the fourth lets a cancel, a resume or a delete come between. Two
sessions are needed by `session.fork` only. `Keep = 1` makes a compaction change
a history of two messages. Crashes and restarts are not counted: the states
repeat. The liveness run has no symmetry.

`events`: two events are enough for a history and a live event to overlap, for
a second publication, for a cancelled event below a published one and, with a
queue of one, for an overflow. The invariant of the proofs was also checked on
one browser client with four events and a queue of two.

`study`: one session, since its turns and handlers meet only in its row; two
questions so that one replaces the other; the hint ladder has three levels, and
`MaxHints = 4` goes one beyond its end. `audit`: a session of the same
parameters, one of another hash and one of another version are all the ways
two estimates can relate; the third answer is needed for a replay in the middle.

`answers`: two services are what a fallback needs. One edit is enough for a
listing to be asked under the old configuration and answered under the new one;
the second caller makes a queue. `evidence`: the second version of a document
supersedes the first; two threads over one connection are what a commit in the
middle of an import needs. All requests are of reliable content: that a search
refuses an unreliable one is left to the proof. A plan that
repeats a query and results that overlap are what the deduplication of sources
must face.

`campaign`: an authorization of six calls is reached by a preflight, one
matrix and one repair, so that the last call is refused; a cell may end as
planned, without a call, or having called once too often. `clients`: three
gateways are one per process and one that is left behind; three scenes share
the bounds because preparing, asking and typing again do not disturb each other.
`experiments`: a first start, a kill anywhere and a second start is the shortest
run that resumes. The acceptance scene has one batch, since batches share only
the gateway and a cell's session is its own: two turns in a cell let an output
be an earlier turn's, two cells let the default service change between them, and
two breaks let a gateway die and another thing go wrong. The proof is for any
number of batches.

Fairness. `WF` of `AdvanceTurn(t)` and `ContinueHandler(t)`: the event loop
runs every ready callback, SQLite appends return, and a model request ends by
its timeout (120 s, or 1800 s for a stream, in `openai_compatible.py`).
`AdvanceTurn` leaves the streaming steps out, so a turn that only streams does
not count as progress. `WF` of `Exit`: `asyncio.gather` returns when its tasks
are done. Commands, crashes and restarts are not obliged to happen.
`StartedTurnEnds` starts at the turn's first step, see section 5.

For the streams: `WF` of `Serve(k)`, since the event loop resumes a generator
whose queue is not empty, and of `Follow(k)`, since the client reads what has
arrived and reconnects after its pause. `SF` of `SendHistory(k)` and
`ReadFrame(k)`: Gateway and client are on one machine, and a connection that
is opened again and again is not broken each time just before it delivers. A
frame delivered is progress that is never lost, so this is what a reader needs.
Nobody is obliged to emit, connect, break, close or restart. `Reached` lets a
client off that has given up or was closed.

For research: `WF` of `Works`, the steps of the turn itself, and of `TimeOut`,
the deadline of `asyncio.timeout`; replies of search services are not fair, so
`ResearchEnds` also holds when none comes. For the live runner: `WF` of
`RunnerSteps`, its own steps, each wait of which has a deadline; the gateway is
not fair. `WF` of `HarnessStep` is the same for the acceptance harness.
Liveness of the clients is not checked.

## 4. Proofs

Every theorem holds for all values of the constants that satisfy the named
assumptions of the modules (`ASSUME`), which TLC evaluates in every run. A proof
module states an inductive invariant, proves that each action keeps it, and
derives the properties of the runs; the invariant was checked by TLC on the
run's instance, or on a smaller one, before it was proved.

| Module | Theorem | States |
|---|---|---|
| `SessionTurns_proofs` | `Invariance`, `TypeCorrect` | `[]IndInv`, `[]TypeOK` |
| | `OneTurn`, `Locks`, `NotMarked`, `Interrupted`, `TerminalLast` | `OneTurnPerSession`, `LockHasOwner`, `FinishedNotMarked`, `InterruptedOnlyIfKilled`, `TerminalIsLast` |
| | `Prompted`, `Answered` | `PromptLast`, `OneAnswerPerTurn` |
| `EventStream_proofs` | `Invariance`, `TypeCorrect` | `[]IndInv`, `[]TypeOK` |
| | `NoDuplicates`, `LogOrder` | `SentOnce`, `PublishOrder` |
| | `Refinement` | `ReadsTheFeed`, that is `Feed!Spec` |
| `StudyRuns_proofs` | `StudyInvariant`, `StudyTypes` | `[]StudyInd`, `[]TypeOK` |
| | `EvidenceIsOnce`, `EstimatesAreFolds`, `AuditsNotLost` | `EvidenceOnce`, `EstimateIsFold`, `AuditNotLost` |
| | `QuizCountsAgree`, `HintsClimb`, `HintsExcludeEvidence` | `CountsAgree`, `LadderInOrder`, the action property `HintedNotEvidence` |
| `ModelServices_proofs` | `ServicesInvariant`, `ServicesTypeCorrect` | `[]ServicesInd`, `[]TypeOK` |
| | `OneVoiceHeard`, `AttemptsAreClosed`, `FallbackIsTold`, `LockAsksCurrent` | `OneVoice`, `AttemptsClosed`, `NoSilentFallback`, `CurrentLockAsksCurrent` |
| `EvidenceRuns_proofs` | `EvidenceInvariant` | `[]EvidenceInd` |
| | `EvidenceIsOwn`, `EvidenceComesFirst`, `NoOrphanResearch` | `OwnEvidence`, `ModelOnlyWithEvidence`, `RunningExplained` |
| | `DecisionsAreAnswered`, `SourcesAreKept` | `Assembled`, the action property `SourcesKept` |
| | `ImportsAreWhole`, `EvidenceKeepsStanding` | `WholeImports`, `EvidenceStands`, for any number of threads |
| `HarnessRuns_proofs` | `HarnessInvariant` | `[]ScriptsInd` |
| | `RatersSeeTheSame`, `CommandsRunOnce`, `PassedBatchesAnswered`, `RowsTellTheTrace` | `SameAnswersRated`, `NeverResent`, `PassedIsAnswered`, `RowsHonest` |
| `ClientRuns_proofs` | `ClientInvariant` | `[]ClientInd` |
| | `ReadyMeansInstalled`, `AnswersAreOwn` | `ReadyIsInstalled`, `AnswerIsOwn` |
| `BatchRuns_proofs` | `BatchInvariant` | `[]BatchInd` |
| | `CallsAreAuthorized` | `WithinAuthorization` |
| | `GatesAreHeld`, `OneOpenAtATime`, `TablesAreOfOneInput`, `CompletedAreClean` | `GatesHold`, `OneOpenEach`, `TablesOfOneInput`, `CompletedIsClean` |

None of the properties is inductive as it stands. What had to be added:

**Sessions.** That no row names a finished turn depends on the objects that
handlers still hold and will save. `IndInv` says of each of them which turns it
may name (`Marks`: an object held by a waiting handler names only killed turns,
because it was loaded while the session was idle; a turn's own object names the
turn), that a running turn is the one in `turn_tasks` (`Owned`), that what is in
flight has a session and an object (`Held`), and that a persisted status agrees
with where its turn stands, also for the resume handler that has not emitted yet
(`Ends`). `KillStep` is the crash and the exit: live turns become dead, so
everything `Marks` and `Ends` ask of killed turns has to hold at once.
`TerminalIsLast` needs an account of what a turn has emitted (`Accounts`): its own
statuses, the events torn off it and those that came late make up one end
(`Ending`), at most one event is torn or late beside its own status, and only a
cancelled turn has one. `PromptLast` and `OneAnswerPerTurn` need the same of histories: each row's and
each object's history has one answer of a trace at most and none of a turn that
has yet to answer, and the object of a generating turn ends with its prompt.

**Streams.** `IndInv` follows an event from the log to the cursor. `EmitInv`:
the lock has one holder, and what stands behind its event in the log is torn.
`Continues` says of a sequence that it takes a reader on from a place without
passing over anything but torn events; `WireInv` says it of the wire from the
cursor on, `StreamInv` of the queue from the end of the history on. Three
lemmas about `Continues` (a head is taken, an entry is appended, the log grows)
carry the steps. The refinement maps `position` to `cursor` and the abstract
`torn` to the events that are `torn` or `dropped`; a restart is a `Tear` of the
one event that was being emitted.

**Study sessions.** `EvidenceOnce` and `EstimateIsFold` are inductive once
attempts have ids of their own (`Numbered`): a recorded attempt is younger than
all others and goes to the end of its estimate; a deletion folds what is left in
its order. That order is `InOrder`, a `CHOOSE` whose value the proofs need: the
lemmas `OrderingExists` and `InOrderLists` say that every finite set of numbers
has a sequence that ascends and lists it; the library's induction cannot be used
here, so the proof takes the least size without one. `AuditInd`: what a
reader is about to send or to mark names the attempt's own session
(`Addressed`), and what it is about to mark is in the log (`EmittedFirst`), also
when another reader was faster or the session was deleted meanwhile. `QuizInd`
asks of every copy of a row, the stored one and that of each turn, what
`CountsAgree` and `LadderInOrder` ask of the row, and that for each question
hinted at there is an answer in the store or a hint count that still says so
(`Sound`): a turn then saves one sound object over another, however old. What
the graph decided is one step from what it was asked with (`OneStep`); this needs
`MisconceptionAssumption`, that the one misconception a quiz answer leaves does
not make `decide_action` give the answer away (`MISCONCEPTION_LIMIT` is 2).

**Model services.** `CallInd`: the log of a call ends as the place of the call
says, only the service asked now may have been heard, each service asked stands
in the log with the one it replaces. `DirectoryInd`: a lock has one holder, and
a holder of the current lock of a key asks what is configured now, since an edit
takes the lock of its key out of the directory.

**Evidence.** `GroundingInd`: the dispatcher's memo holds the evidence of the
trace it names, and what a turn found it found itself. `ActionsDecided`: a
learner state was decided on by `assess`, so what a node sends is an action of
the graph; `Assembled` then follows from lemmas about the dispatcher's operators
alone, one per command and learner state (what is selected covers what is read,
also after a fall back). `RunningInd` places a running research inside its turn.
`SourcesInd` adds that what is saved is a beginning of what the turn has
collected, and that a turn which has not begun its research is not the one the
row tells of. What a round gathers is a fold inside a fold; `FoldExists` and
`ByLast` prove that folds of sequences are what their recursion says, and
`GatheredBeyond` that this one only adds new addresses at the end. `LibraryInd` follows a document through the
statements of its import for any set of threads: one import at most is between
its lock and its commit, what is committed of an import under way was committed
by another thread (`cut`), and an import that is not cut is committed whole or
not at all.

**Experiments.** `MatrixInd`: templates of one drawing show the same answers.
`ReceiptInd`: a reserved command is the only one of its cell, and a session or a
message of a cell exists only with its receipt. `RowsInd`: the events a runner
has copied are a beginning of the log. `LiveAcceptance!BatchInd`: a completed
row names the turns of its session in order, each with its own answer or with an
earlier one read before that was saved; a turn that told a good end never loses it.

**Clients.** `LockKept`: who works in the environment owns the lock directory,
unless another lock than the one judged was removed, and while that is missed
(`raced`). `AskInd`: a question that is under way reads
the events behind the sequence it began at, and its turn's.

**Batches.** `ScriptKept` says where a script stands, `PhasesKept` that the
phases before its own are judged, and the argument is that a run with a summary
keeps what it is judged by, in whatever batch it lies: a campaign's approved
preflight is another batch's run. Only `WriteManifest` begins a run, and there
every later phase has none. `OpensKept`: at most one cell and one request are
open, and who waits for one knows which. `RowsKept`: a row that says "ok" counts
every request of an ended turn, so `CompletedIsClean` needs no sums over the
archive. `BlocksKept`: the blocks before the reviewer's place are settled for
the items it read.

`BudgetInd` is what makes `WithinAuthorization` inductive: what is spent and what
the script at work may still call (`Due`) stay within the authorization. The
validations before a start or a resume establish it, since `Due` is at most what
they reserve; a cell moves one call from `Due` to what is spent; an end or a
kill drops `Due` and keeps what is spent. Two facts about the files close it: a
run with a reservation has begun (`FilesKept`), and a batch that copied its
library begins no further run that needs the copy (`BegunKept`), so that a
campaign killed between its preflight and its matrix has nothing due. A
preflight plans no more calls than a matrix and its conditions
(`PreflightAssumption`: 12, 120 and 136 in the code) and there are finitely many
batches. `SumFunction` adds along a chain of subsets chosen with `CHOOSE`; the
lemmas prove, by the least exception, that the chain exists, and then what a sum
does when a term changes, when all terms grow, and when there are two of them.

Only model-checked, and why:

* Liveness (`StartedTurnEnds`, `ShutdownEnds`, `Reached`, `ResearchEnds`,
  `EveryStartEnds`): fairness is out of this prover's reach.

## 5. Where code and intention differ

Two disagreements are runs: `turns_deleted` and `study_lost`. The others were
met while modelling. The models do what the code does, and the properties above
are worded so that they hold; each item names what they leave room for.

Sessions and events

* `message.edit` cuts the history before `_begin_turn` may refuse it
  (`api/sessions.py:614`, comment `:610`).
* A turn cancelled before its first step leaves its session locked
  (`api/sessions.py:808`, `:391`): the task's `finally` never runs.
* `session.compact` runs beside a turn, and one of the two writes is lost
  (`api/sessions.py:553`; `docs/M1-first-batch.md:11` says commands are serial).
* A cancelled emit leaves an event persisted and never pushed
  (`runtime/service.py:113`, comment `:110`).
* A fork copies `active_turn`; an audit flush may run after its session is gone.

Services and evidence

* `delete_provider` does not see the service of a study session and closes
  connections in the middle of an answer (`api/providers.py:386`).
* A listing of the old configuration that comes after an edit is kept and
  served for ten minutes; a probe merges the old abilities into the edited
  service, and fails if it was removed.
* A disabled service is dropped at the next save; the two files may disagree
  after a crash between them.
* The fallback text of teach and correct is saved with assess's references
  (`api/sessions.py:1014`, `runtime/capabilities.py:394`).
* "completed" of a research is announced before its report is a message
  (`api/sessions.py:1577`).
* `record_operation` takes no lock and commits half an import that another thread
  has under way (`resource_store.py:360`); if that import then fails or dies, the
  half stays. Hence `cut` in `WholeImports` and `EvidenceStands`. A search over the
  same connection may also read an import before its commit and cite what a
  rollback then removes, the other exemption of `EvidenceStands`.
* A research killed with its gateway stays running until `session.resume` finds
  its mark; a message sent instead replaces the mark, and then it stays so for
  ever (`api/sessions.py:526`), which `RunningExplained` leaves room for.

Clients

* `uninstall` leaves `install-state.json`: later set-ups report ready with
  nothing installed (`packaged-runtime.test.ts:58` expects otherwise). Hence
  `removed` in `ReadyIsInstalled`: what was uninstalled and not installed since.
* Two waiters that judge one lock stale both remove it, the second one a new
  lock; and a waiter that finds the lock gone when it looks at it judges it stale
  (`packaged_runtime.ts:167`) and removes the lock another process made since. A
  failed write of `owner.json` removes whatever lock is there. Hence `raced`, true
  from such a removal until nobody prepares.
* `venv` killed between its interpreter and pip leaves an environment on which
  every later set-up fails.
* `removeGateway` reads, then unlinks, and may remove another's record; two
  processes may run two gateways over one home, and a `session.resume` in one
  repairs a turn that runs in the other; the owner's stop ends a gateway that
  others use; Ctrl-C's `turn.cancel` names only the session; an answer that was
  not streamed is the transcript's last message (`session_runner.ts:180`), whoever's
  it is, and is read perhaps before its own turn is saved. `AnswerIsOwn` says
  nothing of it.

Experiments

* The live runner refunds calls when it resumes (`run_m3_live_pilot.py:474`,
  `:501`); the row of a cell that was taken up again, or whose turn it cancelled,
  may leave out calls. `RowsHonest` is of the other cells.
* The acceptance harness reads a turn's output from the transcript after the
  terminal event (`run_ab_acceptance.py:297`), which is persisted before the
  session is saved (`api/sessions.py:1033`, `:1132`): an output read in between, or
  after the gateway died there, is an earlier turn's or empty, and passes the
  audit. Hence `early` in `PassedIsAnswered`. The next `message.send` may be refused
  for the same reason, and the cell fails.
* An interrupted formal matrix of a campaign cannot be resumed, because `main`
  is always called with `library_index_from`; a campaign with its own preflight
  fails when its matrix copies the library; a repair's second preflight case
  always raises; after the last round a campaign without an approved id may
  begin another one; a killed measurement's pointer stays "running" and blocks
  its successors; a resume does not check that an orphan gateway has stopped; a
  refused repair leaves its files and may be resumed with a weaker check; a
  round whose cells made no call counts as completed though its gate failed.
* A kill between the two rating templates and a resume leave templates of two
  drawings, which `audit_scores` refuses for ever; templates written while
  cells had failed keep empty answers; counts of completed cells include failed
  ones, and the replay agreement counts failed pairs as agreeing.
* Two acceptance harnesses at once both pass the guard, which stays "running"
  if one is killed before its last write.
* A full-text batch killed between index and manifest can never begin; one
  killed between a failed row and the manifest calls further cells when it is
  resumed; a batch that grew changes the body of a saved review block, and the
  review refuses; the reviewer's reservation stops a running batch; a response
  saved without its row stays unresolved; `prepare-only --resume` overwrites
  the state of a completed batch.

## 6. Not modelled

Texts, prompts, parsing, embeddings, scores and rendering: their correctness is
about data. Memory (one write and one search), media, replay and health
endpoints (single requests without shared state), web pages and terminal
output, settings, sandbox checks and schema migrations have no behaviour
between calls. Analyses, reports and one-time data scripts are sequential
transformations of files by statistics over real numbers and text. Within the
modelled parts: heartbeats, the second `connect` of an `EventClient`, an
EventStream whose session is deleted, `uninstall --purge`, `cli.json`, the
seeding of attempts by the live runner, the arithmetic of metrics and of
agreement. PROJECT.json, "components", says which parts are partly modelled.


## 7. Plan

Every safety property that a passing run checks is stated by a theorem. What can
be added: `[]TypeOK` as a theorem of `EvidenceRuns`, `HarnessRuns`, `ClientRuns`
and `BatchRuns`, whose inductive invariants type what their arguments need only;
what is left of an import that was cut; the transcript of an answer that was not
streamed; an abstract authorization that the campaigns refine.
