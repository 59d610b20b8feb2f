------------------------------ MODULE EventFeed ------------------------------
(***************************************************************************)
(* What a reader of a session's events may rely on, whatever streams,      *)
(* queues and reconnections lie between: it reads the session's log in     *)
(* order from where it started, nothing twice, and passes over an event    *)
(* only if the event was torn, that is, its emit was cancelled.            *)
(***************************************************************************)
EXTENDS Naturals, Sequences

CONSTANTS Events, Clients, None

VARIABLES
  log,       \* the persisted events of the session, in order
  torn,      \* events whose emit was cancelled
  position   \* how far each reader has read; None before it starts

feedVars == <<log, torn, position>>

Persisted == {log[n] : n \in 1..Len(log)}

Init ==
  /\ log = <<>>
  /\ torn = {}
  /\ position = [k \in Clients |-> None]

Append_(e) ==
  /\ e \notin Persisted
  /\ log' = Append(log, e)
  /\ UNCHANGED <<torn, position>>

Tear(e) == torn' = torn \cup {e} /\ UNCHANGED <<log, position>>

Start(k) ==
  /\ position[k] = None
  /\ \E n \in 0..Len(log) : position' = [position EXCEPT ![k] = n]
  /\ UNCHANGED <<log, torn>>

Read(k) ==
  /\ position[k] # None
  /\ \E n \in position[k] + 1 .. Len(log) :
       /\ \A m \in position[k] + 1 .. n - 1 : log[m] \in torn
       /\ position' = [position EXCEPT ![k] = n]
  /\ UNCHANGED <<log, torn>>

Next ==
  \/ \E e \in Events : Append_(e) \/ Tear(e)
  \/ \E k \in Clients : Start(k) \/ Read(k)

Spec == Init /\ [][Next]_feedVars
=============================================================================
