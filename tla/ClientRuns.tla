------------------------------ MODULE ClientRuns ------------------------------
(* Runs of the command-line client over one home directory                   *)
(* (apps/cli/src/index.ts): each prepares the Python environment             *)
(* (PythonSetup), finds or starts a gateway (GatewayHome), sends its         *)
(* commands or asks its question (AskTurn) and stops what it started.        *)
EXTENDS PythonSetup, GatewayHome, AskTurn

CONSTANTS
  Scenes     \* bounds: which runs meet, over which environment, how often

ASSUME SceneAssumption ==
  Scenes \subseteq [jobs : SUBSET {"setup", "uninstall", "command", "ask", "web", "repl"},
                    installed : BOOLEAN, runs : Nat, kills : Nat]

VARIABLES
  job,       \* each process: what it was called for
  scene,     \* the bounds in force: the runs and kills that are left
  removed,   \* what uninstalls removed and nobody has installed again (history)
  raced      \* a lock was removed that was none of a dead process, and since
             \* then somebody has been preparing the environment (history)

vars == <<setupVars, homeVars, turnVars, askVars, job, scene, removed, raced>>

Init ==
  /\ scene \in Scenes
  /\ SetupInit(scene.installed) /\ HomeInit /\ AskInit
  /\ job = [p \in Clis |-> "none"]
  /\ removed = {}
  /\ raced = FALSE

TypeOK ==
  /\ SetupTypeOK /\ HomeTypeOK /\ AskTypeOK
  /\ job \in [Clis -> scene.jobs \cup {"none", "leaving"}]
  /\ removed \subseteq Hashes /\ raced \in BOOLEAN

\* Only "setup" can ask for the packages of --ocr.
Asked(j) == {{"runtime"}} \cup (IF j = "setup" THEN {{"runtime", "ocr"}} ELSE {})

Served == {"command", "ask", "web", "repl"}

Begin(p) ==
  /\ job[p] = "none" /\ scene.runs > 0
  /\ scene' = [scene EXCEPT !.runs = @ - 1]
  /\ \E j \in scene.jobs :
       /\ job' = [job EXCEPT ![p] = j]
       /\ IF j = "uninstall" THEN UNCHANGED setupVars
          ELSE \E parts \in Asked(j) : StartSetup(p, parts)
  /\ UNCHANGED <<homeVars, turnVars, askVars, removed, raced>>

Preparers == {p \in Clis : setup[p] \in Holding}

\* What p is about to remove is not the lock, or the nothing, that it judged.
RemovesAnother(p) == setup[p] = "remove" /\ lock.maker # None /\ ~Stale

\* prepareRuntime comes first in every run.
Prepare(p) ==
  /\ SetupSteps(p)
  /\ raced' = ((raced \/ RemovesAnother(p)) /\ Preparers' # {})
  /\ removed' = removed \ venv'
  /\ UNCHANGED <<homeVars, turnVars, askVars, job, scene>>

Uninstall(p) ==
  /\ job[p] = "uninstall"
  /\ RemoveVenv
  /\ job' = [job EXCEPT ![p] = "none"]
  /\ removed' = removed \cup (venv \cap Hashes)
  /\ UNCHANGED <<homeVars, turnVars, askVars, scene, raced>>

Serving(p) == job[p] \in Served /\ setup[p] = "ready"

\* runtime.start, with or without a configured address.
StartRuntime(p) ==
  /\ Serving(p)
  /\ SupervisorSteps(p) \/ \E g \in Gateways : UseConfigured(p, g)
  /\ UNCHANGED <<setupVars, turnVars, askVars, job, scene, removed, raced>>

Leave(p) == job' = [job EXCEPT ![p] = "leaving"]

\* runtime.stop, and with the gateway that is killed its turns.
StopRuntime(p) ==
  /\ Stop(p)
  /\ Leave(p)
  /\ runs' = Abandoned(token[p])
  /\ Drop(p, "none")
  /\ UNCHANGED <<setupVars, log, active, ended, scene, removed, raced>>

\* Thirty seconds without a healthy gateway: start gives up and stops.
StartTimesOut(p) == Serving(p) /\ runtime[p] = "STARTING" /\ StopRuntime(p)

\* The configured gateway does not answer.
ConfiguredFails(p) ==
  /\ Serving(p) /\ runtime[p] = "STOPPED"
  /\ Leave(p)
  /\ UNCHANGED <<setupVars, homeVars, turnVars, askVars, scene, removed, raced>>

Connected(p) == Serving(p) /\ runtime[p] = "READY"
Reaches(p) == Connected(p) /\ gatewayHealthy(url[p])

\* One step of ask, for "ask" and for a line of the terminal.
Asking(p) ==
  /\ Connected(p) /\ job[p] \in {"ask", "repl"}
  /\ \/ StartAsk(p)
     \/ AskFails(p)
     \/ Reaches(p) /\ (GetSummary(p) \/ Send(p, url[p]) \/ Listen(p) \/ ReadTranscript(p))
  /\ UNCHANGED <<setupVars, homeVars, job, scene, removed, raced>>

Interrupt(p) ==
  /\ Reaches(p) /\ job[p] \in {"ask", "repl"}
  /\ Abort(p, url[p])
  /\ UNCHANGED <<setupVars, homeVars, job, scene, removed, raced>>

Answered(p) == ask[p] \in {"done", "failed"}

\* The finally blocks of runCommand, and the end of "web".
FinishRun(p) ==
  /\ Connected(p)
  /\ \/ job[p] = "ask" /\ Answered(p)
     \/ job[p] \in {"command", "web"}
     \/ job[p] = "repl" /\ ask[p] = "none"
  /\ StopRuntime(p)

NextLine(p) ==
  /\ Connected(p) /\ job[p] = "repl" /\ Answered(p)
  /\ Drop(p, "none")
  /\ UNCHANGED <<setupVars, homeVars, turnVars, job, scene, removed, raced>>

\* Of the other commands, session.resume changes what an ask depends on.
SendResume(p) ==
  /\ Reaches(p)
  /\ job[p] = "command" \/ (job[p] = "repl" /\ ask[p] = "none")
  /\ Resume(url[p])
  /\ UNCHANGED <<setupVars, homeVars, job, scene, removed, raced>>

RemoveRecord(p) ==
  /\ Unlink(p)
  /\ UNCHANGED <<setupVars, turnVars, askVars, job, scene, removed, raced>>

\* The process ends: set up, failed, or done with its gateway.
EndRun(p) ==
  /\ \/ setup[p] = "failed"
     \/ job[p] = "setup" /\ setup[p] = "ready"
     \/ job[p] = "leaving" /\ runtime[p] = "STOPPED"
  /\ LeaveSetup(p)
  /\ job' = [job EXCEPT ![p] = "none"]
  /\ UNCHANGED <<homeVars, turnVars, askVars, scene, removed, raced>>

Kill(p) ==
  /\ job[p] # "none" /\ scene.kills > 0
  /\ scene' = [scene EXCEPT !.kills = @ - 1]
  /\ KillSetup(p) /\ KillSupervisor(p) /\ Drop(p, "none")
  /\ job' = [job EXCEPT ![p] = "none"]
  /\ raced' = (raced /\ Preparers' # {})
  /\ UNCHANGED <<turnVars, removed>>

(* The world --------------------------------------------------------------- *)

TimePasses ==
  /\ LockAges
  /\ UNCHANGED <<homeVars, turnVars, askVars, job, scene, removed, raced>>

GatewayRuns(g) ==
  /\ \/ ServeRequests(g) /\ UNCHANGED <<runs, scene>>
     \/ /\ scene.kills > 0
        /\ GatewayDies(g)
        /\ runs' = Abandoned(g)
        /\ scene' = [scene EXCEPT !.kills = @ - 1]
  /\ UNCHANGED <<setupVars, log, active, ended, askVars, job, removed, raced>>

TurnRuns(t) ==
  /\ StreamDelta(t) \/ EndTurn(t) \/ SaveTurn(t)
  /\ UNCHANGED <<setupVars, homeVars, job, scene, removed, raced>>

OwnSteps(p) ==
  \/ Prepare(p) \/ Uninstall(p) \/ StartRuntime(p) \/ StartTimesOut(p)
  \/ Asking(p) \/ RemoveRecord(p) \/ EndRun(p)

Next ==
  \/ \E p \in Clis :
       \/ Begin(p) \/ OwnSteps(p) \/ FinishRun(p) \/ ConfiguredFails(p)
       \/ Interrupt(p) \/ NextLine(p) \/ SendResume(p) \/ Kill(p)
  \/ TimePasses
  \/ \E g \in Gateways : GatewayRuns(g)
  \/ \E t \in Turns : TurnRuns(t)

Spec == Init /\ [][Next]_vars

(* Properties -------------------------------------------------------------- *)

\* One process at most prepares the environment, but while a lock that was
\* removed instead of the one judged is still missed: of two that judged one lock
\* stale, or that saw a lock which was given up before they looked.  And whoever
\* leaves preparePythonEnvironment without an error finds what it asked for
\* installed, whatever was interrupted and whoever prepared beside it, but for
\* what an "uninstall" removed below the record and nobody installed again.
ReadyIsInstalled ==
  /\ raced \/ Cardinality(Preparers) <= 1
  /\ \A p \in Clis : setup[p] = "ready" => wants[p] \ removed \subseteq venv

\* A question that returns has received every piece its own turn streamed, each
\* once and in order, and no piece of another turn, whoever asks, cancels,
\* resumes or dies beside it (ask of session_runner.ts).  Nothing is said of a
\* turn that streamed no piece, whose answer is taken from the transcript.
AnswerIsOwn ==
  \A p \in Clis : ask[p] = "done" => Exactly(answer[p], EventsOf(trace[p], "delta"))

(* The inductive invariant behind them -------------------------------------- *)

\* An unsigned lock grows old only when its maker is dead; and who is past the
\* lock made it and, but for the moment between the two writes, signed it.
Alone == \A p \in Preparers : lock.maker = p /\ (setup[p] # "own" => lock.owned)

LockKept ==
  /\ raced \in BOOLEAN
  /\ lock.old => lock.owned \/ lock.maker = Dead
  /\ ~raced => Alone

\* What the record says, and what was read of it, is installed, and an
\* installation that goes on has its earlier parts.
RecordKept ==
  /\ removed \subseteq Hashes
  /\ record \subseteq venv \cup removed
  /\ \A p \in Clis :
       /\ read[p] \subseteq venv \cup removed
       /\ setup[p] \in {"ocr", "write"} => "runtime" \in venv \cup removed
       /\ setup[p] \in {"write", "ready"} => wants[p] \subseteq venv \cup removed

ClientInd == SetupTypeOK /\ HomeTypeOK /\ LockKept /\ RecordKept /\ AskInd
===============================================================================
