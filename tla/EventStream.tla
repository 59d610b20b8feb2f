----------------------------- MODULE EventStream -----------------------------
(***************************************************************************)
(* One session's events on their way from an emit to the clients:          *)
(* RuntimeService.emit (append in a worker thread, then publish, both      *)
(* under _emit_lock), the Gateway's SSE streams (api/events.py) and the    *)
(* clients' reconnect loops with their cursor (client_sdk/event_client.ts  *)
(* and the EventSource of the browser page).                               *)
(*                                                                         *)
(* An event's sequence number is its place in log: append gives MAX + 1    *)
(* under the store's lock and is idempotent by event_id.                   *)
(*                                                                         *)
(* A client stands for one EventClient used as session_runner.ts uses it:  *)
(* one connect, for one session, then close.                               *)
(*                                                                         *)
(* An operator Name_Variant is a faulty form of Name: the properties must  *)
(* not survive it.  Nothing in the specification uses one.                 *)
(***************************************************************************)
EXTENDS Naturals, Sequences

CONSTANTS
  Events,        \* event ids
  Outbox,        \* those of the learner store's outbox, which may be emitted again
  Clients,       \* clients that follow the session
  Browsers,      \* those whose EventSource reconnects without a limit
  QueueSize,     \* MAX_SSE_QUEUE
  MaxAttempts,   \* connections after which EventClient gives up
  None           \* a client that has no cursor yet

ASSUME OutboxAssumption == Outbox \subseteq Events
ASSUME BrowsersAssumption == Browsers \subseteq Clients
ASSUME QueueAssumption == QueueSize \in Nat \ {0}
ASSUME AttemptsAssumption == MaxAttempts \in Nat \ {0}
ASSUME CursorAssumption == None \notin Nat

VARIABLES
  log,           \* the events table: the session's rows by sequence
  emits,         \* where the emit of each event stands
  loop,          \* where each client's connection loop stands
  last,          \* sse_frames' last_sequence, for each client's connection
  upto,          \* the end of the history it read
  queue,         \* its queue of live events
  full,          \* the clients whose stream has its overflow event set
  wire,          \* frames sent and not yet read
  cursor,        \* the client's cursor
  attempts       \* connections that ended, counted by EventClient

streamVars == <<last, upto, queue, full>>
vars == <<log, emits, loop, streamVars, wire, cursor, attempts>>

\* writing holds _emit_lock for the first emit of an event, again for a
\* later one; out is published; torn was cancelled under its worker thread;
\* dropped died with the process before it was written.
Emits == {"new", "writing", "again", "out", "torn", "dropped"}
\* fetching includes the pause before a reconnect; ended is a stream whose
\* server is gone and whose last frames may still be read.
Loops == {"unused", "fetching", "open", "ended", "over"}

Persisted == {log[n] : n \in 1..Len(log)}

TypeOK ==
  /\ log \in Seq(Events)
  /\ emits \in [Events -> Emits]
  /\ loop \in [Clients -> Loops]
  /\ last \in [Clients -> Nat] /\ upto \in [Clients -> Nat]
  /\ queue \in [Clients -> Seq(Nat)]
  /\ full \subseteq Clients
  /\ wire \in [Clients -> Seq(Nat)]
  /\ cursor \in [Clients -> Nat \cup {None}]
  /\ attempts \in [Clients -> Nat]

Init ==
  /\ log = <<>>
  /\ emits = [e \in Events |-> "new"]
  /\ loop = [k \in Clients |-> "unused"]
  /\ last = [k \in Clients |-> 0] /\ upto = [k \in Clients |-> 0]
  /\ queue = [k \in Clients |-> <<>>]
  /\ full = {}
  /\ wire = [k \in Clients |-> <<>>]
  /\ cursor = [k \in Clients |-> None]
  /\ attempts = [k \in Clients |-> 0]

-----------------------------------------------------------------------------
(* RuntimeService.emit. *)

Unlocked == \A e \in Events : emits[e] \notin {"writing", "again"}

BeginEmit(e) ==
  /\ Unlocked
  /\ \/ emits[e] = "new" /\ emits' = [emits EXCEPT ![e] = "writing"]
     \/ e \in Outbox /\ emits[e] = "out" /\ emits' = [emits EXCEPT ![e] = "again"]
  /\ UNCHANGED <<log, loop, streamVars, wire, cursor, attempts>>

\* The worker thread, which a cancel of its emit does not stop.
WriteEvent(e) ==
  /\ emits[e] \in {"writing", "torn"}
  /\ e \notin Persisted
  /\ log' = Append(log, e)
  /\ UNCHANGED <<emits, loop, streamVars, wire, cursor, attempts>>

\* The streams whose listener can put another event in its queue, and those
\* whose put_nowait fails.
Listening == {k \in Clients : loop[k] = "open"}
Fits == {k \in Listening : Len(queue[k]) < QueueSize}

Overflown_Silent == {}
Overflown == Listening \ Fits

\* The thread is done: the event, with the sequence it has in the store, goes
\* to every subscribed stream, and the lock is released.
Publish(e) ==
  /\ emits[e] \in {"writing", "again"}
  /\ \E n \in 1..Len(log) :
       /\ log[n] = e
       /\ queue' = [k \in Clients |-> IF k \in Fits THEN Append(queue[k], n) ELSE queue[k]]
  /\ full' = full \cup Overflown
  /\ emits' = [emits EXCEPT ![e] = "out"]
  /\ UNCHANGED <<log, loop, last, upto, wire, cursor, attempts>>

\* turn.cancel, or the shutdown, reaches a turn that awaits this emit: the
\* lock is released, the thread goes on or never starts.  The outbox is
\* flushed by a request handler, which is not cancelled.
CancelEmit(e) ==
  /\ emits[e] = "writing"
  /\ e \notin Outbox
  /\ emits' = [emits EXCEPT ![e] = "torn"]
  /\ UNCHANGED <<log, loop, streamVars, wire, cursor, attempts>>

-----------------------------------------------------------------------------
(* sse_frames. *)

\* A stream that has sent l, of a history up to h, and has queued nothing.
StreamIs(k, l, h) ==
  /\ last' = [last EXCEPT ![k] = l]
  /\ upto' = [upto EXCEPT ![k] = h]
  /\ queue' = [queue EXCEPT ![k] = <<>>]
  /\ full' = full \ {k}
NoStream(k) == StreamIs(k, 0, 0)

\* subscribe, then read the history after the cursor, in one step.
Open_NoHistory(k) ==
  /\ loop[k] = "fetching"
  /\ loop' = [loop EXCEPT ![k] = "open"]
  /\ StreamIs(k, Len(log), Len(log))
  /\ UNCHANGED <<log, emits, wire, cursor, attempts>>

Open(k) ==
  /\ loop[k] = "fetching"
  /\ loop' = [loop EXCEPT ![k] = "open"]
  /\ StreamIs(k, cursor[k], Len(log))
  /\ UNCHANGED <<log, emits, wire, cursor, attempts>>

Sending(k) == loop[k] = "open" /\ last[k] < upto[k]

SendHistory(k) ==
  /\ Sending(k)
  /\ wire' = [wire EXCEPT ![k] = Append(@, last[k] + 1)]
  /\ last' = [last EXCEPT ![k] = @ + 1]
  /\ UNCHANGED <<log, emits, loop, upto, queue, full, cursor, attempts>>

\* The history is out: the head of the queue is sent unless it was already.
Live(k) == loop[k] = "open" /\ ~Sending(k) /\ k \notin full /\ queue[k] # <<>>

SendLive_Unfiltered(k) ==
  /\ Live(k)
  /\ queue' = [queue EXCEPT ![k] = Tail(@)]
  /\ last' = [last EXCEPT ![k] = Head(queue[k])]
  /\ wire' = [wire EXCEPT ![k] = Append(@, Head(queue[k]))]
  /\ UNCHANGED <<log, emits, loop, upto, full, cursor, attempts>>

SendLive(k) ==
  /\ Live(k)
  /\ queue' = [queue EXCEPT ![k] = Tail(@)]
  /\ IF Head(queue[k]) <= last[k] THEN UNCHANGED <<last, wire>>
     ELSE /\ last' = [last EXCEPT ![k] = Head(queue[k])]
          /\ wire' = [wire EXCEPT ![k] = Append(@, Head(queue[k]))]
  /\ UNCHANGED <<log, emits, loop, upto, full, cursor, attempts>>

\* The queue has overflowed: the generator returns, what it held is dropped.
EndStream(k) ==
  /\ loop[k] = "open" /\ ~Sending(k) /\ k \in full
  /\ loop' = [loop EXCEPT ![k] = "ended"]
  /\ NoStream(k)
  /\ UNCHANGED <<log, emits, wire, cursor, attempts>>

-----------------------------------------------------------------------------
(* The client. *)

Connect(k) ==
  /\ loop[k] = "unused"
  /\ loop' = [loop EXCEPT ![k] = "fetching"]
  /\ \E n \in 0..Len(log) : cursor' = [cursor EXCEPT ![k] = n]
  /\ UNCHANGED <<log, emits, streamVars, wire, attempts>>

\* readSse and accept.
ReadFrame(k) ==
  /\ loop[k] \in {"open", "ended"}
  /\ wire[k] # <<>>
  /\ wire' = [wire EXCEPT ![k] = Tail(@)]
  /\ cursor' = [cursor EXCEPT ![k] = IF Head(wire[k]) > @ THEN Head(wire[k]) ELSE @]
  /\ UNCHANGED <<log, emits, loop, streamVars, attempts>>

\* A connection is gone: EventClient counts it and reconnects or gives up.
Disconnect(k) ==
  /\ IF k \in Browsers THEN UNCHANGED attempts
     ELSE attempts' = [attempts EXCEPT ![k] = @ + 1]
  /\ loop' = [loop EXCEPT ![k] =
                IF k \notin Browsers /\ attempts[k] + 1 >= MaxAttempts THEN "over" ELSE "fetching"]
  /\ NoStream(k)
  /\ wire' = [wire EXCEPT ![k] = <<>>]
  /\ UNCHANGED <<log, emits, cursor>>

StreamClosed(k) == loop[k] = "ended" /\ wire[k] = <<>> /\ Disconnect(k)

\* The fetch fails or the connection breaks, with frames on it or not.
Break_(k) == loop[k] \in {"fetching", "open", "ended"} /\ Disconnect(k)

Close(k) ==
  /\ loop[k] \in {"fetching", "open", "ended"}
  /\ loop' = [loop EXCEPT ![k] = "over"]
  /\ NoStream(k)
  /\ wire' = [wire EXCEPT ![k] = <<>>]
  /\ UNCHANGED <<log, emits, cursor, attempts>>

-----------------------------------------------------------------------------
\* The Gateway dies and is started again.  What was persisted is history for
\* every later stream; an outbox event that was not will be emitted again.
Restart ==
  /\ emits' = [e \in Events |->
                 IF emits[e] \in {"writing", "again"} /\ e \in Persisted THEN "out"
                 ELSE IF emits[e] \in {"writing", "torn"} /\ e \notin Persisted
                      THEN IF e \in Outbox THEN "new" ELSE "dropped"
                 ELSE emits[e]]
  /\ loop' = [k \in Clients |-> IF loop[k] = "open" THEN "ended" ELSE loop[k]]
  /\ last' = [k \in Clients |-> 0] /\ upto' = [k \in Clients |-> 0]
  /\ queue' = [k \in Clients |-> <<>>]
  /\ full' = {}
  /\ UNCHANGED <<log, wire, cursor, attempts>>

Serve(k) == Open(k) \/ SendHistory(k) \/ SendLive(k) \/ EndStream(k)
Follow(k) == ReadFrame(k) \/ StreamClosed(k)

Next ==
  \/ \E e \in Events : BeginEmit(e) \/ WriteEvent(e) \/ Publish(e) \/ CancelEmit(e)
  \/ \E k \in Clients : Serve(k) \/ Follow(k) \/ Connect(k) \/ Break_(k) \/ Close(k)
  \/ Restart

Spec == Init /\ [][Next]_vars

\* The event loop runs a stream whose queue is not empty, and a client reads
\* and reconnects.  The two are on one machine: a connection is not broken for
\* ever just before it delivers.  Nobody is obliged to emit, to connect, to
\* break, to close or to restart.
Fairness ==
  \A k \in Clients :
    /\ WF_vars(Serve(k)) /\ WF_vars(Follow(k))
    /\ SF_vars(SendHistory(k)) /\ SF_vars(ReadFrame(k))

FairSpec == Spec /\ Fairness

-----------------------------------------------------------------------------
(* Properties. *)

Published(e) == emits[e] \in {"out", "again"}

\* A stream sends no event twice and none out of order: no client has to rely
\* on its own cursor to discard one, although history and queue overlap and
\* an outbox event is published twice.
SentOnce ==
  \A k \in Clients :
    /\ \A i, j \in 1..Len(wire[k]) : i < j => wire[k][i] < wire[k][j]
    /\ \A i \in 1..Len(wire[k]) : cursor[k] < wire[k][i]

\* The lock makes publication follow the log: when an event is published,
\* those persisted before it are published too or were torn.
PublishOrder ==
  \A m, n \in 1..Len(log) :
    m < n /\ Published(log[n]) => Published(log[m]) \/ emits[log[m]] = "torn"

\* A client reads the log in order, nothing twice, and passes over torn
\* events only: reconnections, overflows and restarts lose nothing.
Torn == {e \in Events : emits[e] \in {"torn", "dropped"}}
Feed == INSTANCE EventFeed WITH torn <- Torn, position <- cursor
ReadsTheFeed == Feed!Spec

(* The inductive invariant: from the cursor through the wire and the       *)
(* history to the queue, nothing published is missing.                     *)

IsTorn(m) == emits[log[m]] = "torn"

\* An event is persisted once; the lock has one holder; what follows an event
\* that is persisted and not yet published is torn.
EmitInv ==
  /\ \A m, n \in 1..Len(log) : log[m] = log[n] => m = n
  /\ \A e \in Events :
       /\ emits[e] \in {"new", "dropped"} => e \notin Persisted
       /\ Published(e) => e \in Persisted
       /\ e \in Outbox => emits[e] # "torn"
  /\ \A e, f \in Events :
       emits[e] \in {"writing", "again"} /\ emits[f] \in {"writing", "again"} => e = f
  /\ \A m, n \in 1..Len(log) : m < n /\ emits[log[m]] = "writing" => IsTorn(n)

\* seq takes a reader that stands at from on through the log: its entries
\* exist, and what an entry passes over is torn or stands before it.
Continues(seq, from) ==
  \A i \in 1..Len(seq) :
    /\ seq[i] \in 1..Len(log)
    /\ \A m \in from + 1 .. seq[i] - 1 : IsTorn(m) \/ \E j \in 1..i - 1 : seq[j] = m

Base(k) == IF last[k] < upto[k] THEN upto[k] ELSE last[k]

CursorInv(k) ==
  /\ loop[k] = "unused" <=> cursor[k] = None
  /\ loop[k] # "unused" => cursor[k] \in 0..Len(log)
  /\ loop[k] \notin {"open", "ended"} => wire[k] = <<>>

WireInv(k) ==
  /\ Continues(wire[k], cursor[k])
  /\ \A i, j \in 1..Len(wire[k]) : i < j => wire[k][i] < wire[k][j]
  /\ \A i \in 1..Len(wire[k]) : cursor[k] < wire[k][i]

\* What was sent ends at last; what was published beyond the history is in
\* the queue, or the queue overflowed and the stream is about to end.
StreamInv(k) ==
  loop[k] = "open" =>
    /\ last[k] \in cursor[k]..Len(log)
    /\ upto[k] \in 0..Len(log)
    /\ \A i \in 1..Len(wire[k]) : wire[k][i] <= last[k]
    /\ \A m \in cursor[k] + 1 .. last[k] :
         IsTorn(m) \/ \E j \in 1..Len(wire[k]) : wire[k][j] = m
    /\ k \notin full =>
         /\ Continues(queue[k], Base(k))
         /\ \A m \in Base(k) + 1 .. Len(log) :
              Published(log[m]) => \E j \in 1..Len(queue[k]) : queue[k][j] = m

IndInv == TypeOK /\ EmitInv /\ \A k \in Clients : CursorInv(k) /\ WireInv(k) /\ StreamInv(k)

\* A published event reaches every client that keeps following.
Reached ==
  \A k \in Clients, e \in Events :
    Published(e) /\ loop[k] # "unused"
      ~> \/ loop[k] = "over"
         \/ loop[k] # "unused" /\ \E n \in 1..Len(log) : log[n] = e /\ cursor[k] >= n
=============================================================================
