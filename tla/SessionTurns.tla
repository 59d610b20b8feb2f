---------------------------- MODULE SessionTurns ----------------------------
(***************************************************************************)
(* The Gateway's command handlers and the turns they start                 *)
(* (api/sessions.py: post_command, _begin_turn, _run_turn) over the        *)
(* SQLite session store, whose load returns a fresh object and whose save  *)
(* replaces the whole row.                                                 *)
(*                                                                         *)
(* The Gateway is one asyncio loop: a handler or a turn runs without       *)
(* interruption from one await to the next, so an action is the code       *)
(* between two awaits.  A command is executed at most once (see            *)
(* SqliteCommandStore.reserve), hence its id also names its trace, the     *)
(* Session object its handler loaded and the turn it may start.            *)
(*                                                                         *)
(* A request refused before it changed anything is a stuttering step and   *)
(* has no action; the one refusal that comes after a change is             *)
(* RefuseRewritten.                                                        *)
(*                                                                         *)
(* An operator Name_Variant is a faulty form of Name: the properties must  *)
(* not survive it.  Nothing in the specification uses one.                 *)
(***************************************************************************)
EXTENDS Naturals, Sequences

CONSTANTS
  Sessions,      \* ids of the sessions that may ever exist
  Commands,      \* ids of the commands that clients send
  None,          \* Python's None, or a missing row or key
  Kinds,         \* command types that clients send
  Lookups,       \* how a profile's model options are resolved
  Keep           \* payload.keep of session.compact

CommandKinds == {"session.new", "session.set", "session.rename", "session.delete",
                 "session.resume", "session.fork", "session.compact", "message.send",
                 "message.delete", "message.edit", "message.regenerate", "turn.cancel"}

ASSUME NoneAssumption == None \notin Sessions /\ None \notin Commands
ASSUME KindsAssumption == Kinds \subseteq CommandKinds
ASSUME LookupsAssumption == Lookups \subseteq {"curated", "remote"}
ASSUME KeepAssumption == Keep \in Nat

VARIABLES
  gateway,       \* "up", "stopping" (shutdown hook is running) or "down"
  store,         \* the sessions table: a row, or None
  born,          \* ids already used: new_id never returns one again
  locked,        \* app.state.active_turns
  tasks,         \* app.state.turn_tasks
  cancels,       \* turns whose task.cancel() has not been delivered yet
  pc,            \* where each command, or the turn it started, stands
  home,          \* the session a command works on
  obj,           \* the Session object a handler or a turn holds in memory
  ctx,           \* the turn's ctx: what its except and finally blocks read
  ended,         \* statuses of the agent.turn.completed events of a trace
  torn,          \* events of a turn whose emit was cancelled under its thread
  late           \* events of a turn persisted after its first such status

traces == <<ended, torn, late>>
vars == <<gateway, store, born, locked, tasks, cancels, pc, home, obj, ctx, traces>>

-----------------------------------------------------------------------------
(* Rows, messages and the places of a command. *)

Modes == {"chat", "study"}
Statuses == {"ok", "failed", "cancelled", "interrupted"}
\* What a turn emits: its own status, or anything else it has to say.
TurnEvents == {"said", "ok", "failed", "cancelled"}

\* A message is its role and the trace that wrote it; "partial" is an
\* assistant message whose metadata says partial, "summary" the system
\* message of a compaction.
Message == [role : {"user", "assistant", "partial", "summary"}, by : Commands \cup {None}]
Row == [mode   : Modes,
        msgs   : Seq(Message),
        active : Commands \cup {None},
        last   : [trace : Commands, status : Statuses] \cup {None},
        cfg    : Commands \cup {None}]
\* How _route_turn and the payload send a turn: the chat model, the teaching
\* graph, or the chat path's deep research.
Routes == {"chat", "study", "research"}
Ctx == [append : BOOLEAN, route : Routes, capture : BOOLEAN, saved : BOOLEAN]

\* A turn between asyncio.create_task and the end of its finally block.
Live == {"created", "starting", "running", "answered", "completing",
         "failing", "failed", "cancelling"}
\* A handler that waits at an await.
Waiting == {"rewritten", "resolving", "reporting"}
Places == Live \cup Waiting \cup
          {"unused", "replied", "refused", "lost", "done", "strangled", "dead"}

IsAssistant(m) == m.role \in {"assistant", "partial"}
Said(role, c) == [role |-> role, by |-> c]
NoCtx == [append |-> FALSE, route |-> "study", capture |-> FALSE, saved |-> FALSE]

\* Session.compact: at most Keep messages are kept behind one summary.
Compacted(msgs) ==
  IF Len(msgs) <= Keep THEN msgs
  ELSE <<Said("summary", None)>> \o SubSeq(msgs, Len(msgs) - Keep + 1, Len(msgs))

WithoutAt(msgs, i) == SubSeq(msgs, 1, i - 1) \o SubSeq(msgs, i + 1, Len(msgs))

TypeOK ==
  /\ gateway \in {"up", "stopping", "down"}
  /\ store \in [Sessions -> Row \cup {None}]
  /\ born \in SUBSET Sessions
  /\ locked \in SUBSET Sessions
  /\ tasks \in [Sessions -> Commands \cup {None}]
  /\ cancels \in SUBSET Commands
  /\ pc \in [Commands -> Places]
  /\ home \in [Commands -> Sessions \cup {None}]
  /\ obj \in [Commands -> Row \cup {None}]
  /\ ctx \in [Commands -> Ctx]
  /\ ended \in [Sessions -> [Commands -> SUBSET Statuses]]
  /\ torn \in [Commands -> SUBSET TurnEvents]
  /\ late \in [Commands -> Nat]

Init ==
  /\ gateway = "up"
  /\ store = [s \in Sessions |-> None]
  /\ born = {}
  /\ locked = {}
  /\ tasks = [s \in Sessions |-> None]
  /\ cancels = {}
  /\ pc = [c \in Commands |-> "unused"]
  /\ home = [c \in Commands |-> None]
  /\ obj = [c \in Commands |-> None]
  /\ ctx = [c \in Commands |-> NoCtx]
  /\ ended = [s \in Sessions |-> [c \in Commands |-> {}]]
  /\ torn = [c \in Commands |-> {}]
  /\ late = [c \in Commands |-> 0]

-----------------------------------------------------------------------------
(* Pieces the handlers share. *)

\* POST /commands reaches a handler; load finds the row of s.
Receive(c, kind, s) ==
  /\ gateway = "up"
  /\ kind \in Kinds
  /\ pc[c] = "unused"
  /\ store[s] # None

Idle(s) == s \notin locked

\* The handler returns in the step that received the command.
Reply(c) == pc' = [pc EXCEPT ![c] = "replied"] /\ UNCHANGED <<home, obj, ctx>>

\* A waiting handler returns: what it held in memory is gone.
Return(c, place) ==
  /\ pc' = [pc EXCEPT ![c] = place]
  /\ home' = [home EXCEPT ![c] = None]
  /\ obj' = [obj EXCEPT ![c] = None]
  /\ ctx' = [ctx EXCEPT ![c] = NoCtx]

Save(s, row) == store' = [store EXCEPT ![s] = row]

\* _begin_turn past its check: lock the session, mark the row, save it and
\* create the task.  The session object passes to the turn.
BeginTurn(c, s, session, append, route) ==
  LET marked == [session EXCEPT !.active = c] IN
  /\ locked' = locked \cup {s}
  /\ Save(s, marked)
  /\ tasks' = [tasks EXCEPT ![s] = c]
  /\ pc' = [pc EXCEPT ![c] = "created"]
  /\ home' = [home EXCEPT ![c] = s]
  /\ obj' = [obj EXCEPT ![c] = marked]
  /\ ctx' = [ctx EXCEPT ![c] = [NoCtx EXCEPT !.append = append, !.route = route]]

-----------------------------------------------------------------------------
(* Command handlers. *)

\* session.new: a fresh session_id, both saves and the session.started event.
NewSession(c, s) ==
  /\ gateway = "up" /\ "session.new" \in Kinds /\ pc[c] = "unused"
  /\ s \notin born
  /\ \E mode \in Modes :
       Save(s, [mode |-> mode, msgs |-> <<>>, active |-> None, last |-> None, cfg |-> None])
  /\ born' = born \cup {s}
  /\ Reply(c)
  /\ UNCHANGED <<gateway, locked, tasks, cancels, traces>>

\* message.send: load and _begin_turn with no await in between.  A chat
\* session may ask for deep research; a study session routes small talk to
\* chat (_route_turn).
SendMessage(c, s) ==
  /\ Receive(c, "message.send", s)
  /\ Idle(s)
  /\ \E route \in IF store[s].mode = "chat" THEN {"chat", "research"} ELSE {"chat", "study"} :
       BeginTurn(c, s, store[s], TRUE, route)
  /\ UNCHANGED <<gateway, born, cancels, traces>>

\* The part of message.edit and message.regenerate before their emit: the
\* shortened history is saved, the handler keeps the object it saved.
Rewrite(c, s, msgs, append) ==
  LET session == [store[s] EXCEPT !.msgs = msgs] IN
  /\ Save(s, session)
  /\ pc' = [pc EXCEPT ![c] = "rewritten"]
  /\ home' = [home EXCEPT ![c] = s]
  /\ obj' = [obj EXCEPT ![c] = session]
  /\ ctx' = [ctx EXCEPT ![c] = [NoCtx EXCEPT !.append = append]]
  /\ UNCHANGED <<gateway, born, locked, tasks, cancels, traces>>

EditMessage(c, s) ==
  /\ Receive(c, "message.edit", s)
  /\ store[s].mode = "chat"
  /\ Idle(s)
  /\ \E i \in 1..Len(store[s].msgs) :
       /\ store[s].msgs[i].role = "user"
       /\ Rewrite(c, s, SubSeq(store[s].msgs, 1, i - 1), TRUE)

Regenerate_AnyPredecessor(c, s) ==
  /\ Receive(c, "message.regenerate", s)
  /\ store[s].mode = "chat"
  /\ Idle(s)
  /\ LET msgs == store[s].msgs IN
       /\ Len(msgs) > 1
       /\ IsAssistant(msgs[Len(msgs)])
       /\ Rewrite(c, s, SubSeq(msgs, 1, Len(msgs) - 1), FALSE)

Regenerate(c, s) ==
  /\ Receive(c, "message.regenerate", s)
  /\ store[s].mode = "chat"
  /\ Idle(s)
  /\ LET msgs == store[s].msgs
         total == Len(store[s].msgs)
     IN /\ total > 1
        /\ IsAssistant(msgs[total])
        /\ msgs[total - 1].role = "user"
        /\ Rewrite(c, s, SubSeq(msgs, 1, total - 1), FALSE)

\* After the emit of message.edit / message.regenerate: _begin_turn, which
\* checks active_turns again.
StartRewritten_Unchecked(c) ==
  /\ pc[c] = "rewritten"
  /\ BeginTurn(c, home[c], obj[c], ctx[c].append, "chat")
  /\ UNCHANGED <<gateway, born, cancels, traces>>

StartRewritten(c) ==
  /\ pc[c] = "rewritten"
  /\ Idle(home[c])
  /\ BeginTurn(c, home[c], obj[c], ctx[c].append, "chat")
  /\ UNCHANGED <<gateway, born, cancels, traces>>

\* The same point when another turn has begun meanwhile: 409.
RefuseRewritten(c) ==
  /\ pc[c] = "rewritten"
  /\ ~Idle(home[c])
  /\ Return(c, "refused")
  /\ UNCHANGED <<gateway, store, born, locked, tasks, cancels, traces>>

DeleteMessage(c, s) ==
  /\ Receive(c, "message.delete", s)
  /\ store[s].mode = "chat"
  /\ Idle(s)
  /\ \E i \in 1..Len(store[s].msgs) :
       Save(s, [store[s] EXCEPT !.msgs = WithoutAt(@, i)])
  /\ Reply(c)
  /\ UNCHANGED <<gateway, born, locked, tasks, cancels, traces>>

\* session.compact makes no idle check.
CompactSession(c, s) ==
  /\ Receive(c, "session.compact", s)
  /\ Save(s, [store[s] EXCEPT !.msgs = Compacted(@)])
  /\ Reply(c)
  /\ UNCHANGED <<gateway, born, locked, tasks, cancels, traces>>

\* session.fork copies messages and metadata, the active_turn mark included.
ForkSession(c, s) ==
  /\ Receive(c, "session.fork", s)
  /\ \E f \in Sessions \ born :
       /\ Save(f, store[s])
       /\ born' = born \cup {f}
       /\ Reply(c)
  /\ UNCHANGED <<gateway, locked, tasks, cancels, traces>>

\* session.rename and session.web.set: no await between load and save.
RenameSession(c, s) ==
  /\ Receive(c, "session.rename", s)
  /\ store[s].mode = "chat"
  /\ Idle(s)
  /\ Save(s, [store[s] EXCEPT !.cfg = c])
  /\ Reply(c)
  /\ UNCHANGED <<gateway, born, locked, tasks, cancels, traces>>

\* session.model.set and session.thinking.set look up the model's options
\* between load and save; the lookup awaits the network only for profiles of
\* the vendors ollama and openrouter ("remote").
SetModel(c, s) ==
  /\ Receive(c, "session.set", s)
  /\ store[s].mode = "chat"
  /\ Idle(s)
  /\ \/ /\ "curated" \in Lookups
        /\ Save(s, [store[s] EXCEPT !.cfg = c])
        /\ Reply(c)
     \/ /\ "remote" \in Lookups
        /\ pc' = [pc EXCEPT ![c] = "resolving"]
        /\ home' = [home EXCEPT ![c] = s]
        /\ obj' = [obj EXCEPT ![c] = [store[s] EXCEPT !.cfg = c]]
        /\ UNCHANGED <<store, ctx>>
  /\ UNCHANGED <<gateway, born, locked, tasks, cancels, traces>>

\* The lookup answered: the object loaded before it is saved as it is, or
\* session.thinking.set refuses what the model's options do not allow.
SaveModel(c) ==
  /\ pc[c] = "resolving"
  /\ Save(home[c], obj[c]) \/ UNCHANGED store
  /\ Return(c, "replied")
  /\ UNCHANGED <<gateway, born, locked, tasks, cancels, traces>>

\* SqliteSessionStore.delete: the row and its events go in one transaction.
Erase(s) ==
  /\ Save(s, None)
  /\ ended' = [ended EXCEPT ![s] = [t \in Commands |-> {}]]
  /\ late' = [t \in Commands |-> IF home[t] = s THEN 0 ELSE late[t]]

\* session.delete
DeleteSession(c, s) ==
  /\ Receive(c, "session.delete", s)
  /\ Idle(s)
  /\ Erase(s)
  /\ Reply(c)
  /\ UNCHANGED <<gateway, born, locked, tasks, cancels, torn>>

\* session.resume of a row marked with a turn this process does not run: the
\* row is repaired and saved, then the interrupted event is emitted.
Repair(c, s) ==
  LET session == [store[s] EXCEPT !.active = None,
                    !.last = [trace |-> store[s].active, status |-> "interrupted"]]
  IN /\ Save(s, session)
     /\ obj' = [obj EXCEPT ![c] = session]
     /\ pc' = [pc EXCEPT ![c] = "reporting"]
     /\ home' = [home EXCEPT ![c] = s]
     /\ UNCHANGED <<gateway, born, locked, tasks, cancels, ctx, traces>>

ResumeSession_Busy(c, s) ==
  /\ Receive(c, "session.resume", s)
  /\ store[s].active # None
  /\ Repair(c, s)

ResumeSession(c, s) ==
  /\ Receive(c, "session.resume", s)
  /\ store[s].active # None
  /\ Idle(s)
  /\ Repair(c, s)

ReportInterrupted(c) ==
  /\ pc[c] = "reporting"
  /\ ended' = [ended EXCEPT ![home[c]][obj[c].last.trace] = @ \cup {"interrupted"}]
  /\ Return(c, "replied")
  /\ UNCHANGED <<gateway, store, born, locked, tasks, cancels, torn, late>>

\* turn.cancel; task.done() holds of a task that was cancelled before it ran.
CancelTurn(c, s) ==
  /\ gateway = "up" /\ "turn.cancel" \in Kinds /\ pc[c] = "unused"
  /\ tasks[s] # None
  /\ pc[tasks[s]] \in Live
  /\ cancels' = cancels \cup {tasks[s]}
  /\ Reply(c)
  /\ UNCHANGED <<gateway, store, born, locked, tasks, traces>>

-----------------------------------------------------------------------------
(* A turn (_run_turn): one action per stretch between two awaits.  A turn  *)
(* with a pending cancel resumes only by raising CancelledError.           *)

At(t, place) == pc[t] = place /\ t \notin cancels

Goto(t, place) == pc' = [pc EXCEPT ![t] = place]

\* The task is over: its Session object and ctx are gone.
Leave(t, place) ==
  /\ Goto(t, place)
  /\ obj' = [obj EXCEPT ![t] = None]
  /\ ctx' = [ctx EXCEPT ![t] = NoCtx]

\* The places that emit agent.turn.completed, and with which status.
Outcome == [completing |-> "ok", failed |-> "failed", cancelling |-> "cancelled"]

\* The append of an emit, in its worker thread (asyncio.to_thread).
Persists(t, e) ==
  /\ ended' = IF e \in Statuses THEN [ended EXCEPT ![home[t]][t] = @ \cup {e}] ELSE ended
  /\ late' = IF ended[home[t]][t] = {} THEN late ELSE [late EXCEPT ![t] = @ + 1]

\* An emit that was not cancelled: persisted before the turn resumes.
Emitted(t, e) == Persists(t, e) /\ UNCHANGED torn

\* CancelledError leaves an emit at once and frees _emit_lock.  The thread is
\* not stopped: the append goes on beside the turn, unless it has not begun.
Tears(t, e) ==
  /\ torn' = [torn EXCEPT ![t] = @ \cup {e}] \/ UNCHANGED torn
  /\ UNCHANGED <<ended, late>>

\* The first step of the task: append the prompt, save, emit turn.started.
StartTurn(t) ==
  /\ At(t, "created")
  /\ LET session == IF ctx[t].append
                    THEN [obj[t] EXCEPT !.msgs = Append(@, Said("user", t))]
                    ELSE obj[t]
     IN /\ obj' = [obj EXCEPT ![t] = session]
        /\ Save(home[t], session)
  /\ Goto(t, "starting")
  /\ UNCHANGED <<gateway, born, locked, tasks, cancels, home, ctx, traces>>

\* turn.started is out: the row is saved again with from_sequence.
EnterTurn(t) ==
  /\ At(t, "starting")
  /\ Save(home[t], obj[t])
  /\ Emitted(t, "said")
  /\ Goto(t, "running")
  /\ UNCHANGED <<gateway, born, locked, tasks, cancels, home, obj, ctx>>

\* A visible delta of the chat model, or of the report, reaches chat_capture.
StreamDelta(t) ==
  /\ At(t, "running")
  /\ ctx[t].route # "study"
  /\ ctx' = [ctx EXCEPT ![t].capture = TRUE]
  /\ Emitted(t, "said")
  /\ UNCHANGED <<gateway, store, born, locked, tasks, cancels, pc, home, obj>>

\* progress() of a deep research turn saves the turn's object.
ResearchProgress(t) ==
  /\ At(t, "running")
  /\ ctx[t].route = "research"
  /\ Save(home[t], obj[t])
  /\ UNCHANGED <<gateway, born, locked, tasks, cancels, pc, home, obj, ctx, traces>>

\* The answer is complete; the *.turn.completed audit event is emitted.
AnswerTurn_Early(t) ==
  /\ At(t, "running")
  /\ Emitted(t, "ok")
  /\ UNCHANGED <<gateway, store, born, locked, tasks, cancels, pc, home, obj, ctx>>

AnswerTurn(t) ==
  /\ At(t, "running")
  /\ obj' = [obj EXCEPT ![t].msgs = Append(@, Said("assistant", t))]
  /\ ctx' = [ctx EXCEPT ![t].saved = (ctx[t].route # "study")]
  /\ Goto(t, "answered")
  /\ UNCHANGED <<gateway, store, born, locked, tasks, cancels, home, traces>>

AnnounceAnswer(t) ==
  /\ At(t, "answered")
  /\ Emitted(t, "said")
  /\ Goto(t, "completing")
  /\ UNCHANGED <<gateway, store, born, locked, tasks, cancels, home, obj, ctx>>

\* The except clauses save the row first when a deep research is running.
SaveResearch(t) ==
  \/ pc[t] = "running" /\ ctx[t].route = "research" /\ Save(home[t], obj[t])
  \/ UNCHANGED store

\* except Exception: the model, a tool or the search failed, or the answer
\* was empty.
FailTurn(t) ==
  /\ At(t, "running")
  /\ SaveResearch(t)
  /\ Goto(t, "failing")
  /\ UNCHANGED <<gateway, born, locked, tasks, cancels, home, obj, ctx, traces>>

\* agent.failed is out.
ReportFailure(t) ==
  /\ At(t, "failing")
  /\ Emitted(t, "said")
  /\ Goto(t, "failed")
  /\ UNCHANGED <<gateway, store, born, locked, tasks, cancels, home, obj, ctx>>

Finish_KeepsPartial(t, status) ==
  LET partial == ctx[t].route # "study" /\ ctx[t].capture
      kept == IF partial THEN Append(obj[t].msgs, Said("partial", t)) ELSE obj[t].msgs
  IN /\ Save(home[t], [obj[t] EXCEPT !.msgs = kept, !.active = None,
                                     !.last = [trace |-> t, status |-> status]])
     /\ locked' = locked \ {home[t]}
     /\ tasks' = [tasks EXCEPT ![home[t]] = None]
     /\ Leave(t, "done")

Finish(t, status) ==
  LET partial == ctx[t].route # "study" /\ ctx[t].capture /\ ~ctx[t].saved
      kept == IF partial THEN Append(obj[t].msgs, Said("partial", t)) ELSE obj[t].msgs
      mark == IF obj[t].active = t THEN None ELSE obj[t].active
  IN /\ Save(home[t], [obj[t] EXCEPT !.msgs = kept, !.active = mark,
                                     !.last = [trace |-> t, status |-> status]])
     /\ locked' = locked \ {home[t]}
     /\ tasks' = [tasks EXCEPT ![home[t]] = None]
     /\ Leave(t, "done")

AppendTerminal(t) ==
  /\ pc[t] \in DOMAIN Outcome
  /\ Outcome[pc[t]] \notin ended[home[t]][t]
  /\ Emitted(t, Outcome[pc[t]])
  /\ UNCHANGED <<gateway, store, born, locked, tasks, cancels, pc, home, obj, ctx>>

\* The emit returned: the finally block runs.
CompleteTurn_Raises(t) ==
  /\ pc[t] \in DOMAIN Outcome /\ t \notin cancels
  /\ Outcome[pc[t]] \in ended[home[t]][t]
  /\ IF pc[t] = "cancelling" THEN Leave(t, "strangled") /\ UNCHANGED <<store, locked, tasks>>
     ELSE Finish(t, Outcome[pc[t]])
  /\ UNCHANGED <<gateway, born, cancels, home, traces>>

CompleteTurn(t) ==
  /\ pc[t] \in DOMAIN Outcome /\ t \notin cancels
  /\ Outcome[pc[t]] \in ended[home[t]][t]
  /\ Finish(t, Outcome[pc[t]])
  /\ UNCHANGED <<gateway, born, cancels, home, traces>>

\* What a turn emits at each of its awaits, its status last.
Emitting(t) == IF pc[t] \in DOMAIN Outcome THEN Outcome[pc[t]] ELSE "said"

\* The emit under way, if any, is torn; one that was persisted cannot be.
TearsEmit(t) ==
  \/ Emitting(t) \notin ended[home[t]][t] /\ Tears(t, Emitting(t))
  \/ Emitting(t) \in ended[home[t]][t] /\ UNCHANGED traces

\* CancelledError inside the try block: the except clause emits `cancelled'.
CancelBody(t) ==
  /\ t \in cancels
  /\ pc[t] \in {"starting", "running", "answered", "completing"}
  /\ TearsEmit(t)
  /\ SaveResearch(t)
  /\ Goto(t, "cancelling")
  /\ cancels' = cancels \ {t}
  /\ UNCHANGED <<gateway, born, locked, tasks, home, obj, ctx>>

\* CancelledError inside an except clause: the finally block runs.
CancelHandler(t) ==
  /\ t \in cancels
  /\ pc[t] \in {"failing", "failed", "cancelling"}
  /\ TearsEmit(t)
  /\ Finish(t, IF pc[t] = "cancelling" THEN "cancelled" ELSE "failed")
  /\ cancels' = cancels \ {t}
  /\ UNCHANGED <<gateway, born, home>>

\* The worker thread of a torn emit gets to its append.
TornLands(t) ==
  /\ \E e \in torn[t] : Persists(t, e) /\ torn' = [torn EXCEPT ![t] = @ \ {e}]
  /\ UNCHANGED <<gateway, store, born, locked, tasks, cancels, pc, home, obj, ctx>>

\* CancelledError before the first step: the coroutine never runs, neither
\* does its finally block.
CancelUnstarted(t) ==
  /\ t \in cancels
  /\ pc[t] = "created"
  /\ Leave(t, "strangled")
  /\ cancels' = cancels \ {t}
  /\ UNCHANGED <<gateway, store, born, locked, tasks, home, traces>>

-----------------------------------------------------------------------------
(* The process. *)

\* Everything in memory is gone: objects, locks, tasks, waiting handlers.
ProcessEnds ==
  /\ gateway' = "down"
  /\ locked' = {}
  /\ tasks' = [s \in Sessions |-> None]
  /\ cancels' = {}
  /\ pc' = [c \in Commands |->
              IF pc[c] \in Live THEN "dead"
              ELSE IF pc[c] \in Waiting THEN "lost" ELSE pc[c]]
  /\ home' = [c \in Commands |-> IF pc[c] \in Waiting THEN None ELSE home[c]]
  /\ obj' = [c \in Commands |-> None]
  /\ ctx' = [c \in Commands |-> NoCtx]
  /\ torn' = [c \in Commands |-> {}]
  /\ UNCHANGED <<store, born, ended, late>>

Crash == gateway # "down" /\ ProcessEnds

\* The server has answered every request, then runs the shutdown hook, which
\* cancels every task and gathers them.
Shutdown ==
  /\ gateway = "up"
  /\ \A c \in Commands : pc[c] \notin Waiting
  /\ gateway' = "stopping"
  /\ cancels' = cancels \cup {c \in Commands : pc[c] \in Live}
  /\ UNCHANGED <<store, born, locked, tasks, pc, home, obj, ctx, traces>>

Exit_AwaitsTable ==
  /\ gateway = "stopping"
  /\ \A s \in Sessions : tasks[s] = None
  /\ ProcessEnds

Exit ==
  /\ gateway = "stopping"
  /\ \A c \in Commands : pc[c] \notin Live
  /\ ProcessEnds

\* create_app: empty active_turns and turn_tasks; the store is not touched.
Start ==
  /\ gateway = "down"
  /\ gateway' = "up"
  /\ UNCHANGED <<store, born, locked, tasks, cancels, pc, home, obj, ctx, traces>>

-----------------------------------------------------------------------------
Handle(c, s) ==
  \/ NewSession(c, s) \/ SendMessage(c, s) \/ EditMessage(c, s) \/ Regenerate(c, s)
  \/ DeleteMessage(c, s) \/ CompactSession(c, s) \/ ForkSession(c, s)
  \/ RenameSession(c, s) \/ SetModel(c, s) \/ DeleteSession(c, s)
  \/ ResumeSession(c, s) \/ CancelTurn(c, s)

ContinueHandler(c) ==
  StartRewritten(c) \/ RefuseRewritten(c) \/ SaveModel(c) \/ ReportInterrupted(c)

AdvanceTurn(t) ==
  \/ StartTurn(t) \/ EnterTurn(t) \/ AnswerTurn(t) \/ AnnounceAnswer(t)
  \/ FailTurn(t) \/ ReportFailure(t) \/ AppendTerminal(t) \/ CompleteTurn(t)
  \/ CancelBody(t) \/ CancelHandler(t) \/ CancelUnstarted(t)

Next ==
  \/ \E c \in Commands, s \in Sessions : Handle(c, s)
  \/ \E c \in Commands : ContinueHandler(c)
  \/ \E t \in Commands : AdvanceTurn(t) \/ StreamDelta(t) \/ ResearchProgress(t)
  \/ \E t \in Commands : TornLands(t)
  \/ Crash \/ Shutdown \/ Exit \/ Start

Spec == Init /\ [][Next]_vars

\* The event loop runs every ready task, an emit always returns and a model
\* request ends by its timeout (openai_compatible.py, 120 s or 1800 s), so a
\* turn and a waiting handler keep moving while the process lives; the
\* shutdown hook's gather returns when they have.  Nothing obliges a client
\* to send a command or the process to crash or restart.
Fairness ==
  /\ \A t \in Commands : WF_vars(AdvanceTurn(t)) /\ WF_vars(ContinueHandler(t))
  /\ WF_vars(Exit)

FairSpec == Spec /\ Fairness

-----------------------------------------------------------------------------
(* Properties. *)

Running(t) == pc[t] \in Live

\* Two turns never run in one session: api/sessions.py:776 checks
\* active_turns again under turn_lock, because edit, regenerate and a send
\* may all have passed their own idle check.
OneTurnPerSession ==
  \A t, u \in Commands : Running(t) /\ Running(u) /\ home[t] = home[u] => t = u

\* active_turns and turn_tasks agree, and a session is locked by a turn that
\* still runs or by one that was cancelled before its first step: no other
\* way through _run_turn leaves a session locked.
LockHasOwner ==
  \A s \in Sessions :
    /\ s \in locked <=> tasks[s] # None
    /\ tasks[s] # None => /\ home[tasks[s]] = s
                         /\ pc[tasks[s]] \in Live \cup {"strangled"}

\* A row never says that a finished turn is still running, whatever object,
\* loaded before or during the turn, was saved after it.
FinishedNotMarked ==
  \A s \in Sessions, t \in Commands :
    store[s] # None /\ pc[t] = "done" /\ home[t] = s => store[s].active # t

\* In its own session a turn is reported interrupted only if the process
\* ended under it: session.resume never reports a turn that runs or that
\* reached its own outcome.
InterruptedOnlyIfKilled ==
  \A t \in Commands :
    home[t] # None /\ "interrupted" \in ended[home[t]][t] => pc[t] \in {"dead", "strangled"}

\* agent.turn.completed is the end: the turn it names streams nothing and
\* asks no model once such an event, of whatever status, is persisted, and a
\* reader who stops there misses nothing.  Only a cancel leaves more: at most
\* one event, the one whose append the cancel tore or the `cancelled' that
\* follows an `ok' it came too late to prevent.
TerminalIsLast ==
  \A t \in Commands :
    /\ home[t] # None /\ ended[home[t]][t] # {} =>
         pc[t] \in {"completing", "failed", "cancelling", "done", "dead", "strangled"}
    /\ late[t] # 0 => late[t] = 1 /\ "cancelled" \in ended[home[t]][t]

PromptAtEnd(msgs) == msgs # <<>> /\ msgs[Len(msgs)].role = "user"

\* The model is always asked with a user message last: what an edit cut or a
\* regenerate dropped leaves exactly the prompt in place.
PromptLast ==
  \A t \in Commands : pc[t] \in {"starting", "running"} => PromptAtEnd(obj[t].msgs)

OneAnswerEach(msgs) ==
  \A i, j \in 1..Len(msgs) :
    IsAssistant(msgs[i]) /\ IsAssistant(msgs[j]) /\ msgs[i].by = msgs[j].by => i = j

\* No history holds two answers of one turn: the finally block does not keep
\* a partial answer beside the complete one.
OneAnswerPerTurn ==
  \A s \in Sessions : store[s] # None => OneAnswerEach(store[s].msgs)

(* The inductive invariant behind the safety properties: what a waiting    *)
(* handler or a turn holds in memory, and what the marks and the events    *)
(* that outlive it say, never contradicts where the turns they name stand. *)

Killed == {"dead", "strangled"}
Begun == Live \cup Killed \cup {"done"}
Terminal == DOMAIN Outcome \cup Killed \cup {"done"}

\* A command in flight holds a session and an object; ids are not reused.
Held ==
  /\ \A c \in Commands : pc[c] \in Live \cup Waiting => home[c] \in Sessions /\ obj[c] \in Row
  /\ \A c \in Commands : home[c] # None => home[c] \in born
  /\ \A s \in Sessions : store[s] # None => s \in born

\* A turn that runs has its session.
Owned == \A t \in Commands : Running(t) => tasks[home[t]] = t

\* The turn a row names has begun, and in its own session stands at places.
MarkedAt(row, s, places) ==
  row.active # None =>
    /\ pc[row.active] \in Begun
    /\ home[row.active] = s => pc[row.active] \in places

Marks ==
  /\ \A s \in Sessions : store[s] # None => MarkedAt(store[s], s, Live \cup Killed)
  /\ \A c \in Commands : pc[c] \in Waiting => MarkedAt(obj[c], home[c], Killed)
  /\ \A t \in Commands : Running(t) => obj[t].active = t

\* A trace with a status has begun a turn; in its own session the turn is
\* over, and it was killed if it is, or is about to be, reported interrupted.
Ends ==
  /\ \A s \in Sessions, t \in Commands :
       ended[s][t] # {} => /\ pc[t] \in Begun
                           /\ home[t] = s => pc[t] \in Terminal
  /\ \A s \in Sessions, t \in Commands :
       "interrupted" \in ended[s][t] /\ home[t] = s => pc[t] \in Killed
  /\ \A c \in Commands :
       pc[c] = "reporting" =>
         /\ obj[c].last.trace \in Commands
         /\ pc[obj[c].last.trace] \in Begun
         /\ home[obj[c].last.trace] = home[c] => pc[obj[c].last.trace] \in Killed

IndInv == TypeOK /\ Held /\ LockHasOwner /\ Owned /\ Marks /\ Ends

\* What a turn has persisted of its end, together with what still may be:
\* only a cancelled turn has torn appends, at most one event beside its own
\* status, and none once an event is late.
OwnEnds(t) == IF home[t] = None THEN {} ELSE ended[home[t]][t]
Ending(events) ==
  events \subseteq {"said", "cancelled"} \/ events \subseteq {"ok", "cancelled"} \/ events \subseteq {"failed"}

Account(t) ==
  /\ torn[t] # {} => home[t] # None /\ pc[t] \in {"cancelling", "done"}
  /\ torn[t] \cap {"failed", "cancelled"} # {} => pc[t] = "done"
  /\ torn[t] \cap OwnEnds(t) = {}
  /\ pc[t] \notin Killed => Ending(torn[t] \cup OwnEnds(t))
  /\ pc[t] \in {"completing", "failed"} => OwnEnds(t) \subseteq {Outcome[pc[t]]}
  /\ pc[t] = "cancelling" => OwnEnds(t) \subseteq {"ok", "cancelled"}
  /\ late[t] # 0 => late[t] = 1 /\ torn[t] = {} /\ "cancelled" \in OwnEnds(t)

Accounts == \A t \in Commands : Account(t)

\* What the histories in the store and in memory say of the turns that wrote
\* them: an answer is by a command that was received; a turn has no answer of
\* its own before it answers, and when it has one it keeps no partial one.
AnsweredIn(msgs, t) == \E i \in 1..Len(msgs) : IsAssistant(msgs[i]) /\ msgs[i].by = t
Clean(msgs) ==
  OneAnswerEach(msgs) /\ \A t \in Commands : AnsweredIn(msgs, t) => pc[t] # "unused"

Unanswered == {"rewritten", "created", "starting", "running"}
Asked(t) ==
  \/ pc[t] \in {"starting", "running"}
  \/ pc[t] \in {"rewritten", "created"} /\ ~ctx[t].append

Histories ==
  /\ \A s \in Sessions : store[s] # None => Clean(store[s].msgs)
  /\ \A c \in Commands : pc[c] \in Live \cup Waiting => Clean(obj[c].msgs)
  /\ \A t \in Commands : pc[t] \in Unanswered => ~AnsweredIn(obj[t].msgs, t)
  /\ \A t \in Commands :
       Running(t) /\ AnsweredIn(obj[t].msgs, t) => ctx[t].saved \/ ctx[t].route = "study"
  /\ \A t \in Commands : Asked(t) => PromptAtEnd(obj[t].msgs)

\* session.delete removes a session permanently
\* (runtime/storage/sqlite_store.py:130).
DeletedStaysDeleted ==
  [][\A s \in born : store[s] = None => store'[s] = None]_vars

\* A turn that took its first step leaves the session free again, whether it
\* answers, fails or is cancelled, unless the process dies first.
StartedTurnEnds ==
  \A t \in Commands : pc[t] = "starting" ~> pc[t] \in {"done", "dead"}

\* The shutdown hook terminates: gather does not wait for ever.
ShutdownEnds == gateway = "stopping" ~> gateway # "stopping"
=============================================================================
