------------------------------- MODULE AskTurn -------------------------------
(* One question of a command-line process to a session: ask of               *)
(* apps/cli/src/session_runner.ts, over SessionClient, CommandBus and        *)
(* EventClient.  The process reads the session's last sequence, sends the    *)
(* message, follows the event stream from that sequence for its own trace,   *)
(* and reads the transcript when its turn has ended.                         *)
(*                                                                           *)
(* There is one session.  What the gateways do with a turn is SessionTurns   *)
(* reduced to what a client can see; how events reach a client is            *)
(* EventStream reduced to its promise: every event after the cursor, once    *)
(* and in order.  What the transcript holds is left out: it is read for the  *)
(* answer of a turn that streamed no piece, and its last message is then     *)
(* taken, whichever turn's it is.                                            *)
EXTENDS CliProcesses, Sequences, Naturals, FiniteSets

CONSTANTS
  Turns,       \* the turns of the session, named by their trace
  MaxDeltas    \* bound: the most pieces of answer each turn streams

ASSUME TurnAssumption == None \notin Turns /\ MaxDeltas \in [Turns -> Nat]

VARIABLES
  log,      \* the session's events
  active,   \* the row's active_turn
  runs,     \* each turn: the gateway whose task runs it
  ended,    \* the turns whose task has sent its last event
  ask,      \* each process: where it is in ask
  trace,    \* each process: the trace of its turn
  cursor,   \* each process: EventClient's cursor
  answer    \* each process: the pieces it received, as positions of log

turnVars == <<log, active, runs, ended>>
askVars == <<ask, trace, cursor, answer>>

AskInit ==
  /\ log = <<>>
  /\ active = None
  /\ runs = [t \in Turns |-> None]
  /\ ended = {}
  /\ ask = [p \in Clis |-> "none"]
  /\ trace = [p \in Clis |-> None]
  /\ cursor = [p \in Clis |-> 0]
  /\ answer = [p \in Clis |-> <<>>]

AskTypeOK ==
  /\ log \in Seq([trace : Turns, kind : {"started", "delta", "ok", "failed"}])
  /\ active \in Turns \cup {None}
  /\ runs \in [Turns -> Gateways \cup {None}]
  /\ ended \subseteq Turns
  /\ ask \in [Clis -> {"none", "get", "send", "listen", "transcript", "done", "failed"}]
  /\ trace \in [Clis -> Turns \cup {None}]
  /\ cursor \in [Clis -> 0 .. Len(log)]
  /\ answer \in [Clis -> Seq(1 .. Len(log))]

Event(t, kind) == [trace |-> t, kind |-> kind]
EventsOf(t, kind) == {i \in DOMAIN log : log[i] = Event(t, kind)}
Fresh == {t \in Turns : EventsOf(t, "started") = {}}
NewTurn == CHOOSE t \in Fresh : TRUE

(* The gateway's side ------------------------------------------------------ *)

Busy(g) == \E t \in Turns : runs[t] = g

\* A gateway refuses message.send while it runs a turn itself; the mark that
\* another one left in the row does not keep it from it.
Accept(g, t) ==
  /\ ~Busy(g)
  /\ active' = t
  /\ runs' = [runs EXCEPT ![t] = g]
  /\ log' = Append(log, Event(t, "started"))
  /\ UNCHANGED ended

StreamDelta(t) ==
  /\ runs[t] # None /\ t \notin ended
  /\ Cardinality(EventsOf(t, "delta")) < MaxDeltas[t]
  /\ log' = Append(log, Event(t, "delta"))
  /\ UNCHANGED <<active, runs, ended, askVars>>

EndTurn(t) ==
  /\ runs[t] # None /\ t \notin ended
  /\ \E kind \in {"ok", "failed"} : log' = Append(log, Event(t, kind))
  /\ ended' = ended \cup {t}
  /\ UNCHANGED <<active, runs, askVars>>

\* Only then the gateway saves the whole row, the mark cleared.
SaveTurn(t) ==
  /\ runs[t] # None /\ t \in ended
  /\ runs' = [runs EXCEPT ![t] = None]
  /\ active' = None
  /\ UNCHANGED <<log, ended, askVars>>

\* session.resume in gateway g repairs a mark no task of g stands for, and tells
\* the end of the marked turn, whether it runs in another gateway or not.
Resume(g) ==
  /\ active # None /\ ~Busy(g)
  /\ active' = None
  /\ log' = Append(log, Event(active, "failed"))
  /\ UNCHANGED <<runs, ended, askVars>>

\* A gateway that goes down takes its tasks with it; the mark stays.
Abandoned(g) == [t \in Turns |-> IF runs[t] = g THEN None ELSE runs[t]]

(* ask --------------------------------------------------------------------- *)

Move(p, step) == ask' = [ask EXCEPT ![p] = step]

\* ask is over without an answer, or its answer was printed.
Drop(p, step) ==
  /\ Move(p, step)
  /\ trace' = [trace EXCEPT ![p] = None]
  /\ cursor' = [cursor EXCEPT ![p] = 0]
  /\ answer' = [answer EXCEPT ![p] = <<>>]

StartAsk(p) ==
  /\ ask[p] = "none"
  /\ Move(p, "get")
  /\ UNCHANGED <<turnVars, trace, cursor, answer>>

\* sessions.get: the cursor starts at the summary's last_sequence.
GetSummary(p) ==
  /\ ask[p] = "get"
  /\ Move(p, "send")
  /\ cursor' = [cursor EXCEPT ![p] = Len(log)]
  /\ UNCHANGED <<turnVars, trace, answer>>

Send(p, g) ==
  /\ ask[p] = "send"
  /\ Fresh # {}
  /\ Accept(g, NewTurn)
  /\ trace' = [trace EXCEPT ![p] = NewTurn]
  /\ Move(p, "listen")
  /\ UNCHANGED <<cursor, answer>>

\* Mutant of AnswerIsOwn: the stream is not filtered by trace.
Listen_Everything(p) ==
  /\ ask[p] = "listen" /\ cursor[p] < Len(log)
  /\ LET next == cursor[p] + 1
         kind == log[next].kind
     IN  /\ cursor' = [cursor EXCEPT ![p] = next]
         /\ answer' = [answer EXCEPT ![p] = IF kind = "delta" THEN Append(@, next) ELSE @]
         /\ Move(p, IF kind = "ok" THEN "transcript" ELSE IF kind = "failed" THEN "failed" ELSE "listen")
  /\ UNCHANGED <<turnVars, trace>>

\* onEvent sees the events of its own trace only.
Listen(p) ==
  /\ ask[p] = "listen" /\ cursor[p] < Len(log)
  /\ LET next == cursor[p] + 1
         event == log[next]
         own == event.trace = trace[p]
     IN  /\ cursor' = [cursor EXCEPT ![p] = next]
         /\ answer' = [answer EXCEPT ![p] =
              IF own /\ event.kind = "delta" THEN Append(@, next) ELSE @]
         /\ Move(p, IF own /\ event.kind = "ok" THEN "transcript"
                    ELSE IF own /\ event.kind = "failed" THEN "failed" ELSE "listen")
  /\ UNCHANGED <<turnVars, trace>>

\* The turn has ended well and the transcript was read.
ReadTranscript(p) ==
  /\ ask[p] = "transcript"
  /\ Move(p, "done")
  /\ UNCHANGED <<turnVars, trace, cursor, answer>>

\* Refused, no gateway, a stream closed five times, three minutes gone.
AskFails(p) ==
  /\ ask[p] \in {"get", "send", "listen", "transcript"}
  /\ Drop(p, "failed")
  /\ UNCHANGED turnVars

\* Ctrl-C: turn.cancel names the session, so it ends what gateway g runs there;
\* a task that is just telling its good end tells the cancelled one after it.
Abort(p, g) ==
  /\ ask[p] = "listen"
  /\ LET cancelled == {t \in Turns : runs[t] = g /\ (t \in ended => EventsOf(t, "ok") # {})}
     IN  /\ log' = IF cancelled = {} THEN log
                   ELSE Append(log, Event(CHOOSE t \in cancelled : TRUE, "failed"))
         /\ ended' = ended \cup cancelled
  /\ Drop(p, "failed")
  /\ UNCHANGED <<active, runs>>

(* The inductive invariant behind AnswerIsOwn ------------------------------- *)

\* The pieces are those of a set of positions, in its order.
Exactly(pieces, set) ==
  /\ {pieces[i] : i \in DOMAIN pieces} = set
  /\ \A i, j \in DOMAIN pieces : i < j => pieces[i] < pieces[j]

\* A process that sent its question has received the pieces of its turn up to
\* its cursor; when it goes on to the transcript the turn has ended there.
Follows(p) ==
  /\ trace[p] \in Turns \ Fresh
  /\ Exactly(answer[p], {i \in EventsOf(trace[p], "delta") : i <= cursor[p]})
  /\ ask[p] # "listen" => cursor[p] \in EventsOf(trace[p], "ok")

\* No piece of an ended turn comes after its "ok".
EndedAt(i) ==
  /\ log[i].trace \in ended
  /\ \A j \in EventsOf(log[i].trace, "delta") : j < i

AskInd ==
  /\ AskTypeOK
  /\ \A i \in DOMAIN log : log[i].trace \notin Fresh /\ (log[i].kind = "ok" => EndedAt(i))
  /\ \A t \in Fresh : runs[t] = None /\ active # t
  /\ \A p \in Clis :
       /\ ask[p] \in {"none", "get", "send"} => answer[p] = <<>>
       /\ ask[p] \in {"listen", "transcript", "done"} => Follows(p)
===============================================================================
