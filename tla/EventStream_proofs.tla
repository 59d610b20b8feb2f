------------------------- MODULE EventStream_proofs -------------------------
(***************************************************************************)
(* Proofs about EventStream: its inductive invariant, that a stream sends  *)
(* nothing twice, that publication follows the log, and that a client      *)
(* reads the log in order (EventFeed), for any number of events, clients,  *)
(* queue places and attempts.                                              *)
(***************************************************************************)
EXTENDS EventStream, TLAPS

-----------------------------------------------------------------------------
(* Types. *)

\* Steps of an emit keep the types.
LEMMA EmitType ==
  ASSUME TypeOK, NEW e \in Events,
         BeginEmit(e) \/ WriteEvent(e) \/ Publish(e) \/ CancelEmit(e)
  PROVE  TypeOK'
<1>1. CASE BeginEmit(e)
  BY <1>1 DEF TypeOK, BeginEmit, Emits, streamVars
<1>2. CASE WriteEvent(e)
  BY <1>2 DEF TypeOK, WriteEvent, streamVars
<1>3. CASE Publish(e)
  <2>1. queue' \in [Clients -> Seq(Nat)]
    BY <1>3 DEF Publish, TypeOK
  <2>2. full' \subseteq Clients
    BY <1>3 DEF Publish, TypeOK, Overflown, Listening, Fits
  <2> QED
    BY <1>3, <2>1, <2>2 DEF TypeOK, Publish, Emits
<1>4. CASE CancelEmit(e)
  BY <1>4 DEF TypeOK, CancelEmit, Emits, streamVars
<1> QED
  BY <1>1, <1>2, <1>3, <1>4

\* Steps of a stream keep the types.
LEMMA ServeType ==
  ASSUME TypeOK, \A k \in Clients : CursorInv(k), NEW k \in Clients, Serve(k)
  PROVE  TypeOK'
<1>1. CASE Open(k)
  <2>1. cursor[k] \in Nat /\ Len(log) \in Nat
    BY <1>1 DEF Open, CursorInv, TypeOK
  <2> QED
    BY <1>1, <2>1 DEF TypeOK, Open, Loops, StreamIs
<1>2. CASE SendHistory(k)
  BY <1>2 DEF SendHistory, TypeOK
<1>3. CASE SendLive(k)
  <2>1. Head(queue[k]) \in Nat /\ Tail(queue[k]) \in Seq(Nat)
    BY <1>3 DEF SendLive, Live, TypeOK
  <2>2. CASE Head(queue[k]) <= last[k]
    BY <1>3, <2>1, <2>2 DEF TypeOK, SendLive
  <2>3. CASE ~(Head(queue[k]) <= last[k])
    <3>1. Append(wire[k], Head(queue[k])) \in Seq(Nat)
      BY <2>1 DEF TypeOK
    <3>2. wire' \in [Clients -> Seq(Nat)]
      BY <1>3, <2>3, <3>1 DEF TypeOK, SendLive
    <3>3. last' \in [Clients -> Nat] /\ queue' \in [Clients -> Seq(Nat)]
      BY <1>3, <2>1, <2>3 DEF TypeOK, SendLive
    <3> QED
      BY <1>3, <3>2, <3>3 DEF TypeOK, SendLive
  <2> QED
    BY <2>2, <2>3
<1>4. CASE EndStream(k)
  BY <1>4 DEF TypeOK, EndStream, NoStream, StreamIs, Loops
<1> QED
  BY <1>1, <1>2, <1>3, <1>4 DEF Serve

\* Steps of a client keep the types.
LEMMA ClientType ==
  ASSUME TypeOK, NEW k \in Clients, Follow(k) \/ Connect(k) \/ Break_(k) \/ Close(k)
  PROVE  TypeOK'
<1>1. CASE ReadFrame(k)
  <2>1. Head(wire[k]) \in Nat /\ Tail(wire[k]) \in Seq(Nat)
    BY <1>1 DEF ReadFrame, TypeOK
  <2> QED
    BY <1>1, <2>1 DEF TypeOK, ReadFrame, streamVars
<1>2. CASE Disconnect(k)
  <2>1. attempts' \in [Clients -> Nat]
    BY <1>2 DEF Disconnect, TypeOK
  <2>2. loop' \in [Clients -> Loops]
    BY <1>2 DEF Disconnect, TypeOK, Loops
  <2> QED
    BY <1>2, <2>1, <2>2 DEF TypeOK, Disconnect, NoStream, StreamIs
<1>3. CASE Connect(k)
  BY <1>3 DEF TypeOK, Connect, Loops, streamVars
<1>4. CASE Close(k)
  BY <1>4 DEF TypeOK, Close, NoStream, StreamIs, Loops
<1> QED
  BY <1>1, <1>2, <1>3, <1>4 DEF Follow, StreamClosed, Break_

LEMMA RestartType == TypeOK /\ Restart => TypeOK'
<1> SUFFICES ASSUME TypeOK, Restart PROVE TypeOK'
  OBVIOUS
<1>1. emits' \in [Events -> Emits]
  BY DEF Restart, TypeOK, Emits
<1>2. loop' \in [Clients -> Loops]
  BY DEF Restart, TypeOK, Loops
<1> QED
  BY <1>1, <1>2 DEF Restart, TypeOK


-----------------------------------------------------------------------------
(* Emits. *)

\* The row of an appended event, and those before it.
LEMMA Appended ==
  ASSUME TypeOK, NEW e \in Events, log' = Append(log, e)
  PROVE  /\ Len(log) \in Nat /\ Len(log') = Len(log) + 1
         /\ log'[Len(log) + 1] = e
         /\ \A m \in 1..Len(log) : log'[m] = log[m] /\ log[m] \in Events
         /\ Persisted' = Persisted \cup {e}
<1>1. /\ Len(log) \in Nat /\ Len(log') = Len(log) + 1
      /\ log'[Len(log) + 1] = e
      /\ \A m \in 1..Len(log) : log'[m] = log[m] /\ log[m] \in Events
  BY DEF TypeOK
<1>2. Persisted' = Persisted \cup {e}
  BY <1>1 DEF Persisted
<1> QED
  BY <1>1, <1>2

\* The emit lock's invariant through the steps of an emit.
LEMMA EmitStep ==
  ASSUME TypeOK, EmitInv, NEW e \in Events,
         BeginEmit(e) \/ WriteEvent(e) \/ Publish(e) \/ CancelEmit(e)
  PROVE  EmitInv'
<1>0. Len(log) \in Nat /\ \A m \in 1..Len(log) : log[m] \in Events /\ log[m] \in Persisted
  BY DEF TypeOK, Persisted
<1>1. CASE BeginEmit(e)
  <2>1. /\ log' = log /\ Persisted' = Persisted
        /\ emits[e] \in {"new", "out"} /\ emits'[e] \in {"writing", "again"}
        /\ emits'[e] = "writing" <=> emits[e] = "new"
        /\ \A f \in Events : f # e => emits'[f] = emits[f] /\ emits[f] \notin {"writing", "again"}
    BY <1>1 DEF BeginEmit, TypeOK, Unlocked, Persisted
  <2> QED
    BY <1>0, <2>1 DEF EmitInv, Published, IsTorn
<1>2. CASE WriteEvent(e)
  <2>1. emits' = emits /\ e \notin Persisted /\ emits[e] \in {"writing", "torn"}
    BY <1>2 DEF WriteEvent
  <2>2. /\ Len(log') = Len(log) + 1 /\ log'[Len(log) + 1] = e
        /\ \A m \in 1..Len(log) : log'[m] = log[m]
        /\ Persisted' = Persisted \cup {e}
    BY <1>2, Appended DEF WriteEvent
  <2>3. \A m, n \in 1..Len(log') : log'[m] = log'[n] => m = n
    BY <1>0, <2>1, <2>2 DEF EmitInv
  <2>4. ASSUME NEW m \in 1..Len(log'), NEW n \in 1..Len(log'), m < n, emits'[log'[m]] = "writing"
        PROVE  IsTorn(n)'
    <3>1. m \in 1..Len(log) /\ log'[m] = log[m]
      BY <1>0, <2>2, <2>4
    <3>2. CASE n \in 1..Len(log)
      BY <2>1, <2>2, <2>4, <3>1, <3>2 DEF EmitInv, IsTorn
    <3>3. CASE n = Len(log) + 1
      <4>1. emits[log[m]] = "writing" /\ log[m] # e
        BY <1>0, <2>1, <2>4, <3>1
      <4>2. emits[e] = "torn"
        BY <1>0, <2>1, <3>1, <4>1 DEF EmitInv
      <4> QED
        BY <2>1, <2>2, <3>3, <4>2 DEF IsTorn
    <3> QED
      BY <1>0, <2>2, <3>2, <3>3
  <2> QED
    BY <2>1, <2>2, <2>3, <2>4 DEF EmitInv, Published
<1>3. CASE Publish(e)
  <2>1. /\ log' = log /\ Persisted' = Persisted /\ e \in Persisted
        /\ emits[e] \in {"writing", "again"} /\ emits'[e] = "out"
        /\ \A f \in Events : f # e => emits'[f] = emits[f]
    BY <1>3 DEF Publish, TypeOK, Persisted
  <2> QED
    BY <1>0, <2>1 DEF EmitInv, Published, IsTorn
<1>4. CASE CancelEmit(e)
  <2>1. /\ log' = log /\ Persisted' = Persisted /\ e \notin Outbox
        /\ emits[e] = "writing" /\ emits'[e] = "torn"
        /\ \A f \in Events : f # e => emits'[f] = emits[f]
    BY <1>4 DEF CancelEmit, TypeOK, Persisted
  <2> QED
    BY <1>0, <2>1 DEF EmitInv, Published, IsTorn
<1> QED
  BY <1>1, <1>2, <1>3, <1>4

LEMMA EmitRestart == TypeOK /\ EmitInv /\ Restart => EmitInv'
<1> SUFFICES ASSUME TypeOK, EmitInv, Restart PROVE EmitInv'
  OBVIOUS
<1>0. Len(log) \in Nat /\ \A m \in 1..Len(log) : log[m] \in Events /\ log[m] \in Persisted
  BY DEF TypeOK, Persisted
<1>1. log' = log /\ Persisted' = Persisted
  BY DEF Restart, Persisted
<1>2. ASSUME NEW f \in Events
      PROVE  /\ emits'[f] \notin {"writing", "again"}
             /\ emits'[f] = "torn" <=> emits[f] = "torn" /\ f \in Persisted
             /\ emits'[f] \in {"new", "dropped"} => f \notin Persisted
             /\ emits'[f] = "out" => f \in Persisted
  BY DEF Restart, EmitInv, Published
<1> QED
  BY <1>0, <1>1, <1>2 DEF EmitInv, Published, IsTorn

\* Below an event whose emit holds the lock, all is published or torn.
LEMMA BelowPublished ==
  ASSUME TypeOK, EmitInv, NEW n \in 1..Len(log), NEW m \in 1..n - 1,
         emits[log[n]] \in {"writing", "out", "again"}
  PROVE  Published(log[m]) \/ IsTorn(m)
<1>1. /\ Len(log) \in Nat /\ m \in 1..Len(log) /\ m < n
      /\ log[m] \in Events /\ log[n] \in Events /\ log[m] \in Persisted
  BY DEF TypeOK, Persisted
<1>2. emits[log[m]] \in Emits \ {"new", "dropped"}
  BY <1>1 DEF TypeOK, EmitInv
<1>3. emits[log[m]] # "writing"
  BY <1>1 DEF EmitInv, IsTorn
<1> QED
  BY <1>2, <1>3 DEF Published, IsTorn, Emits


-----------------------------------------------------------------------------
(* Readers of the log. *)

ClientInv(k) == CursorInv(k) /\ WireInv(k) /\ StreamInv(k)
ClientVars(k) == <<loop[k], last[k], upto[k], queue[k], k \in full, wire[k], cursor[k]>>

\* A sequence that takes a reader on still does without its head, once the
\* reader has the head.
LEMMA ContinuesTail ==
  ASSUME NEW seq \in Seq(Nat), NEW from \in Nat, seq # <<>>, Continues(seq, from)
  PROVE  Continues(Tail(seq), IF Head(seq) > from THEN Head(seq) ELSE from)
<1> DEFINE rest == Tail(seq)
           next == IF Head(seq) > from THEN Head(seq) ELSE from
<1>1. /\ Len(seq) \in Nat /\ Len(rest) = Len(seq) - 1 /\ Head(seq) = seq[1]
      /\ seq[1] \in Nat /\ next \in Nat /\ from <= next /\ seq[1] <= next
      /\ \A i \in 1..Len(rest) : rest[i] = seq[i + 1] /\ i + 1 \in 1..Len(seq)
      /\ \A j \in 2..Len(seq) : j - 1 \in 1..Len(rest) /\ rest[j - 1] = seq[j]
  OBVIOUS
<1> HIDE DEF rest, next
<1>2. SUFFICES ASSUME NEW i \in 1..Len(rest)
               PROVE  /\ rest[i] \in 1..Len(log)
                      /\ \A m \in next + 1 .. rest[i] - 1 :
                           IsTorn(m) \/ \E j \in 1..i - 1 : rest[j] = m
  BY DEF Continues, rest, next
<1>3. rest[i] \in 1..Len(log)
  BY <1>1 DEF Continues
<1>4. ASSUME NEW m \in next + 1 .. rest[i] - 1, ~IsTorn(m)
      PROVE  \E j \in 1..i - 1 : rest[j] = m
  <2>1. seq[i + 1] \in Nat /\ m \in from + 1 .. seq[i + 1] - 1
    BY <1>1 DEF Continues
  <2>2. IsTorn(m) \/ \E j \in 1..(i + 1) - 1 : seq[j] = m
    BY <1>1, <2>1 DEF Continues
  <2>3. PICK j \in 1..(i + 1) - 1 : seq[j] = m
    BY <1>4, <2>2
  <2>4. j # 1
    BY <1>1, <2>1, <2>3, <1>3, <1>4
  <2>5. j \in 2..Len(seq) /\ j - 1 \in 1..i - 1
    BY <1>1, <2>3, <2>4
  <2>6. rest[j - 1] = m
    BY <1>1, <2>3, <2>5
  <2> QED
    BY <2>5, <2>6
<1> QED
  BY <1>3, <1>4

\* An entry is appended that passes over torn events and earlier entries.
LEMMA ContinuesAppend ==
  ASSUME NEW seq \in Seq(Nat), NEW from \in Nat, Continues(seq, from),
         NEW n \in 1..Len(log),
         \A m \in from + 1 .. n - 1 : IsTorn(m) \/ \E j \in 1..Len(seq) : seq[j] = m
  PROVE  Continues(Append(seq, n), from)
<1> DEFINE more == Append(seq, n)
<1>1. /\ Len(seq) \in Nat /\ Len(more) = Len(seq) + 1 /\ more[Len(seq) + 1] = n
      /\ \A i \in 1..Len(seq) : more[i] = seq[i]
  OBVIOUS
<1> HIDE DEF more
<1>2. ASSUME NEW i \in 1..Len(more)
      PROVE  /\ more[i] \in 1..Len(log)
             /\ \A m \in from + 1 .. more[i] - 1 : IsTorn(m) \/ \E j \in 1..i - 1 : more[j] = m
  <2>1. CASE i \in 1..Len(seq)
    <3>1. /\ more[i] = seq[i] /\ seq[i] \in 1..Len(log)
          /\ \A m \in from + 1 .. seq[i] - 1 : IsTorn(m) \/ \E j \in 1..i - 1 : seq[j] = m
      BY <1>1, <2>1 DEF Continues
    <3>2. \A j \in 1..i - 1 : more[j] = seq[j]
      BY <1>1, <2>1
    <3> QED
      BY <3>1, <3>2
  <2>2. CASE i = Len(seq) + 1
    BY <1>1, <2>2
  <2> QED
    BY <1>1, <2>1, <2>2
<1> QED
  BY <1>2 DEF Continues, more

\* It still does when the log has grown and more is torn.
LEMMA ContinuesLater ==
  ASSUME NEW seq \in Seq(Nat), NEW from \in Nat, Continues(seq, from),
         Len(log) \in Nat, Len(log') \in Nat, Len(log) <= Len(log'),
         \A m \in 1..Len(log) : IsTorn(m) => IsTorn(m)'
  PROVE  \A i \in 1..Len(seq) :
           /\ seq[i] \in 1..Len(log')
           /\ \A m \in from + 1 .. seq[i] - 1 : IsTorn(m)' \/ \E j \in 1..i - 1 : seq[j] = m
<1> SUFFICES ASSUME NEW i \in 1..Len(seq)
             PROVE  /\ seq[i] \in 1..Len(log')
                    /\ \A m \in from + 1 .. seq[i] - 1 :
                         IsTorn(m)' \/ \E j \in 1..i - 1 : seq[j] = m
  OBVIOUS
<1>1. /\ seq[i] \in 1..Len(log)
      /\ \A m \in from + 1 .. seq[i] - 1 : IsTorn(m) \/ \E j \in 1..i - 1 : seq[j] = m
  BY DEF Continues
<1>2. ASSUME NEW m \in from + 1 .. seq[i] - 1, IsTorn(m)
      PROVE  IsTorn(m)'
  <2>1. m \in 1..Len(log)
    BY <1>1
  <2> QED
    BY <1>2, <2>1 DEF IsTorn
<1>3. seq[i] \in 1..Len(log')
  BY <1>1
<1> QED
  BY <1>1, <1>2, <1>3 DEF IsTorn

\* What a client's wire holds still takes it on when the log has grown.
LEMMA WireLater ==
  ASSUME TypeOK, NEW k \in Clients, CursorInv(k), WireInv(k),
         wire'[k] = wire[k], cursor'[k] = cursor[k],
         Len(log') \in Nat, Len(log) <= Len(log'),
         \A m \in 1..Len(log) : IsTorn(m) => IsTorn(m)'
  PROVE  WireInv(k)'
<1>0. wire[k] \in Seq(Nat) /\ Len(log) \in Nat /\ cursor[k] \in Nat \cup {None}
  BY DEF TypeOK
<1>1. CASE wire[k] = <<>>
  BY <1>1 DEF WireInv, Continues
<1>2. CASE wire[k] # <<>>
  <2>1. cursor[k] \in 0..Len(log)
    BY <1>2 DEF CursorInv
  <2>2. cursor[k] \in Nat /\ Continues(wire[k], cursor[k])
    BY <1>0, <2>1 DEF WireInv
  <2>3. \A i \in 1..Len(wire[k]) :
          /\ wire[k][i] \in 1..Len(log')
          /\ \A m \in cursor[k] + 1 .. wire[k][i] - 1 :
               emits'[log'[m]] = "torn" \/ \E j \in 1..i - 1 : wire[k][j] = m
    BY <1>0, <2>2, ContinuesLater DEF IsTorn
  <2>4. wire'[k] = wire[k] /\ cursor'[k] = cursor[k]
    OBVIOUS
  <2>5. Continues(wire[k], cursor[k])'
    BY <2>3, <2>4 DEF Continues, IsTorn
  <2> QED
    BY <2>5 DEF WireInv
<1> QED
  BY <1>1, <1>2

\* A client's invariant does not mind what the emits of others do, as long as
\* the log grows, torn stays torn and nothing is published.
LEMMA Grown ==
  ASSUME TypeOK, NEW k \in Clients, ClientInv(k), UNCHANGED ClientVars(k),
         Len(log') \in Nat, Len(log) <= Len(log'),
         \A m \in 1..Len(log) : IsTorn(m) => IsTorn(m)',
         \A m \in 1..Len(log') : Published(log[m])' => m \in 1..Len(log) /\ Published(log[m])
  PROVE  ClientInv(k)'
<1>0. /\ loop'[k] = loop[k] /\ last'[k] = last[k] /\ upto'[k] = upto[k] /\ queue'[k] = queue[k]
      /\ wire'[k] = wire[k] /\ cursor'[k] = cursor[k] /\ (k \in full' <=> k \in full)
  BY DEF ClientVars
<1>1. /\ last[k] \in Nat /\ upto[k] \in Nat /\ queue[k] \in Seq(Nat) /\ wire[k] \in Seq(Nat)
      /\ Len(log) \in Nat /\ cursor[k] \in Nat \cup {None}
      /\ Len(wire[k]) \in Nat /\ Len(queue[k]) \in Nat
  BY DEF TypeOK
<1>2. CursorInv(k)'
  BY <1>0, <1>1 DEF ClientInv, CursorInv
<1>3. WireInv(k)'
  BY <1>0, <1>1, WireLater DEF ClientInv
<1>4. StreamInv(k)'
  <2> SUFFICES ASSUME loop[k] = "open" PROVE StreamInv(k)'
    BY <1>0 DEF StreamInv
  <2>1. cursor[k] \in 0..Len(log)
    BY DEF ClientInv, CursorInv
  <2>2. /\ last[k] \in cursor[k]..Len(log) /\ upto[k] \in 0..Len(log)
        /\ \A i \in 1..Len(wire[k]) : wire[k][i] <= last[k]
        /\ \A m \in cursor[k] + 1 .. last[k] : IsTorn(m) \/ \E j \in 1..Len(wire[k]) : wire[k][j] = m
    BY DEF ClientInv, StreamInv
  <2>3. Base(k)' = Base(k) /\ Base(k) \in Nat
    BY <1>0, <1>1 DEF Base
  <2>4. ASSUME k \notin full
        PROVE  /\ Continues(queue[k], Base(k))'
               /\ \A m \in Base(k)' + 1 .. Len(log') :
                    Published(log[m])' => \E j \in 1..Len(queue[k]) : queue[k][j] = m
    <3>1. /\ Continues(queue[k], Base(k))
          /\ \A m \in Base(k) + 1 .. Len(log) :
               Published(log[m]) => \E j \in 1..Len(queue[k]) : queue[k][j] = m
      BY <2>4 DEF ClientInv, StreamInv
    <3>2. \A i \in 1..Len(queue[k]) :
            /\ queue[k][i] \in 1..Len(log')
            /\ \A m \in Base(k) + 1 .. queue[k][i] - 1 :
                 emits'[log'[m]] = "torn" \/ \E j \in 1..i - 1 : queue[k][j] = m
      BY <1>1, <2>3, <3>1, ContinuesLater DEF IsTorn
    <3>3. Continues(queue[k], Base(k))'
      <4>1. queue'[k] = queue[k] /\ Base(k)' = Base(k)
        BY <1>0, <2>3
      <4> QED
        BY <3>2, <4>1 DEF Continues, IsTorn
    <3> QED
      BY <1>1, <2>3, <3>1, <3>3 DEF Published
  <2>5. \A m \in cursor[k] + 1 .. last[k] : IsTorn(m)' \/ \E j \in 1..Len(wire[k]) : wire[k][j] = m
    <3> SUFFICES ASSUME NEW m \in cursor[k] + 1 .. last[k], IsTorn(m) PROVE IsTorn(m)'
      BY <2>2 DEF IsTorn
    <3>1. m \in 1..Len(log)
      BY <1>1, <2>1, <2>2
    <3> QED
      BY <3>1 DEF IsTorn
  <2>6. last[k] \in cursor[k]..Len(log') /\ upto[k] \in 0..Len(log')
    BY <1>1, <2>1, <2>2
  <2> QED
    BY <1>0, <2>2, <2>4, <2>5, <2>6 DEF StreamInv, IsTorn, Published
<1> QED
  BY <1>2, <1>3, <1>4 DEF ClientInv


\* A client's invariant does not mind a step of another client.
LEMMA Untouched ==
  ASSUME TypeOK, NEW k \in Clients, ClientInv(k), UNCHANGED ClientVars(k), UNCHANGED <<log, emits>>
  PROVE  ClientInv(k)'
<1>1. Len(log') \in Nat /\ Len(log) <= Len(log')
  BY DEF TypeOK
<1>2. \A m \in 1..Len(log) : IsTorn(m) => IsTorn(m)'
  BY DEF IsTorn
<1>3. \A m \in 1..Len(log') : Published(log[m])' => m \in 1..Len(log) /\ Published(log[m])
  BY DEF Published
<1> QED
  BY <1>1, <1>2, <1>3, Grown

-----------------------------------------------------------------------------
(* The clients while events are emitted. *)

LEMMA ClientsWhileEmitting ==
  ASSUME TypeOK, EmitInv, NEW e \in Events, BeginEmit(e) \/ WriteEvent(e) \/ CancelEmit(e),
         NEW k \in Clients, ClientInv(k)
  PROVE  ClientInv(k)'
<1>0. Len(log) \in Nat /\ \A m \in 1..Len(log) : log[m] \in Events
  BY DEF TypeOK
<1>1. UNCHANGED ClientVars(k)
  BY DEF BeginEmit, WriteEvent, CancelEmit, ClientVars, streamVars
<1>2. CASE log' = log
  <2>1. \A f \in Events : /\ emits[f] = "torn" => emits'[f] = "torn"
                          /\ emits'[f] \in {"out", "again"} => emits[f] \in {"out", "again"}
    BY <1>2 DEF BeginEmit, WriteEvent, CancelEmit, TypeOK
  <2>2. \A m \in 1..Len(log) : IsTorn(m) => IsTorn(m)'
    BY <1>0, <1>2, <2>1 DEF IsTorn
  <2>3. \A m \in 1..Len(log') : Published(log[m])' => m \in 1..Len(log) /\ Published(log[m])
    BY <1>0, <1>2, <2>1 DEF Published
  <2> QED
    BY <1>0, <1>1, <1>2, <2>2, <2>3, Grown
<1>3. CASE WriteEvent(e)
  <2>1. /\ Len(log') = Len(log) + 1 /\ log'[Len(log) + 1] = e
        /\ \A m \in 1..Len(log) : log'[m] = log[m]
        /\ emits' = emits /\ emits[e] \in {"writing", "torn"}
    BY <1>3, Appended DEF WriteEvent
  <2>2. \A m \in 1..Len(log) : IsTorn(m) => IsTorn(m)'
    BY <2>1 DEF IsTorn
  <2>3. \A m \in 1..Len(log') : Published(log[m])' => m \in 1..Len(log) /\ Published(log[m])
    BY <1>0, <2>1 DEF Published
  <2> QED
    BY <1>0, <1>1, <2>1, <2>2, <2>3, Grown
<1> QED
  BY <1>2, <1>3 DEF BeginEmit, CancelEmit

\* A published event is added to the queue of every stream, or ends it.
LEMMA ClientsWhilePublishing ==
  ASSUME TypeOK, EmitInv, NEW e \in Events, Publish(e), NEW k \in Clients, ClientInv(k)
  PROVE  ClientInv(k)'
<1>0. /\ Len(log) \in Nat /\ Len(queue[k]) \in Nat /\ queue[k] \in Seq(Nat)
      /\ last[k] \in Nat /\ upto[k] \in Nat /\ Base(k) \in Nat
      /\ \A m \in 1..Len(log) : log[m] \in Events
  BY DEF TypeOK, Base
<1>1. PICK n \in 1..Len(log) :
        /\ log[n] = e
        /\ queue' = [j \in Clients |-> IF j \in Fits THEN Append(queue[j], n) ELSE queue[j]]
  BY DEF Publish
<1>2. /\ UNCHANGED <<log, loop, last, upto, wire, cursor>>
      /\ emits[e] \in {"writing", "again"} /\ emits'[e] = "out"
      /\ \A f \in Events : f # e => emits'[f] = emits[f]
      /\ full' = full \cup Overflown
  BY DEF Publish, TypeOK
<1>3. \A m \in 1..Len(log) : IsTorn(m) <=> IsTorn(m)'
  BY <1>0, <1>2 DEF IsTorn
<1>4. \A m \in 1..Len(log) : Published(log[m])' <=> Published(log[m]) \/ m = n
  BY <1>0, <1>1, <1>2 DEF Published, EmitInv
<1>5. CursorInv(k)'
  BY <1>2 DEF ClientInv, CursorInv
<1>6. WireInv(k)'
  <2>1. wire'[k] = wire[k] /\ cursor'[k] = cursor[k] /\ log' = log
    BY <1>2
  <2> QED
    BY <1>0, <1>3, <2>1, WireLater DEF ClientInv, IsTorn
<1>7. StreamInv(k)'
  <2> SUFFICES ASSUME loop[k] = "open" PROVE StreamInv(k)'
    BY <1>2 DEF StreamInv
  <2>1. Base(k)' = Base(k)
    BY <1>2 DEF Base
  <2>2. /\ last[k] \in cursor[k]..Len(log) /\ upto[k] \in 0..Len(log)
        /\ \A i \in 1..Len(wire[k]) : wire[k][i] <= last[k]
        /\ \A m \in cursor[k] + 1 .. last[k] : IsTorn(m) \/ \E j \in 1..Len(wire[k]) : wire[k][j] = m
    BY DEF ClientInv, StreamInv
  <2>3. \A m \in cursor[k] + 1 .. last[k] : IsTorn(m)' \/ \E j \in 1..Len(wire[k]) : wire[k][j] = m
    <3>1. \A m \in cursor[k] + 1 .. last[k] : m \in 1..Len(log)
      BY <1>0, <2>2 DEF ClientInv, CursorInv
    <3> QED
      BY <1>3, <2>2, <3>1 DEF IsTorn
  <2>4. ASSUME k \notin full'
        PROVE  /\ Continues(queue[k], Base(k))'
               /\ \A m \in Base(k) + 1 .. Len(log) :
                    Published(log[m])' => \E j \in 1..Len(queue'[k]) : queue'[k][j] = m
    <3>1. k \in Fits /\ k \notin full
      BY <1>2, <2>4 DEF Overflown, Listening
    <3>2. /\ Continues(queue[k], Base(k))
          /\ \A m \in Base(k) + 1 .. Len(log) :
               Published(log[m]) => \E j \in 1..Len(queue[k]) : queue[k][j] = m
      BY <3>1 DEF ClientInv, StreamInv
    <3>3. \A m \in Base(k) + 1 .. n - 1 : IsTorn(m) \/ \E j \in 1..Len(queue[k]) : queue[k][j] = m
      BY <1>0, <1>1, <1>2, <3>2, BelowPublished
    <3>4. queue'[k] = Append(queue[k], n)
      BY <1>1, <3>1
    <3>5. Continues(Append(queue[k], n), Base(k))
      BY <1>0, <3>2, <3>3, ContinuesAppend
    <3>6. Continues(queue[k], Base(k))'
      <4> DEFINE q == Append(queue[k], n)
      <4>1. /\ Len(log) \in Nat /\ Len(log') \in Nat /\ Len(log) <= Len(log') /\ Base(k) \in Nat
            /\ q \in Seq(Nat) /\ Continues(q, Base(k))
            /\ \A m \in 1..Len(log) : IsTorn(m) => IsTorn(m)'
        BY <1>0, <1>2, <1>3, <3>5 DEF IsTorn
      <4>2. queue'[k] = q
        BY <3>4
      <4> HIDE DEF q
      <4>3. \A i \in 1..Len(q) :
              /\ q[i] \in 1..Len(log')
              /\ \A m \in Base(k) + 1 .. q[i] - 1 :
                   emits'[log'[m]] = "torn" \/ \E j \in 1..i - 1 : q[j] = m
        BY <4>1, ContinuesLater DEF IsTorn
      <4> QED
        BY <2>1, <4>2, <4>3 DEF Continues, IsTorn
    <3>7. /\ Len(queue'[k]) = Len(queue[k]) + 1 /\ queue'[k][Len(queue[k]) + 1] = n
          /\ \A j \in 1..Len(queue[k]) : queue'[k][j] = queue[k][j]
      BY <1>0, <3>4
    <3>8. \A m \in Base(k) + 1 .. Len(log) :
            Published(log[m])' => \E j \in 1..Len(queue'[k]) : queue'[k][j] = m
      <4> SUFFICES ASSUME NEW m \in Base(k) + 1 .. Len(log), Published(log[m])'
                   PROVE  \E j \in 1..Len(queue'[k]) : queue'[k][j] = m
        BY DEF Published
      <4>1. m = n \/ Published(log[m])
        BY <1>0, <1>4 DEF Published
      <4>2. CASE m = n
        BY <1>0, <3>7, <4>2
      <4>3. CASE Published(log[m])
        <5>1. PICK j \in 1..Len(queue[k]) : queue[k][j] = m
          BY <3>2, <4>3
        <5>2. j \in 1..Len(queue'[k])
          BY <1>0, <3>7
        <5>3. queue'[k][j] = m
          BY <3>7, <5>1
        <5> QED
          BY <5>2, <5>3
      <4> QED
        BY <4>1, <4>2, <4>3
    <3> QED
      BY <3>6, <3>8
  <2> QED
    BY <1>2, <2>1, <2>2, <2>3, <2>4 DEF StreamInv, IsTorn, Published
<1> QED
  BY <1>5, <1>6, <1>7 DEF ClientInv


-----------------------------------------------------------------------------
(* A client's stream and its own steps. *)

\* In a step that leaves the log and the emits alone, what a sequence passes
\* over does not change.
LEMMA ContinuesStill ==
  ASSUME NEW seq \in Seq(Nat), NEW from \in Nat, Continues(seq, from), UNCHANGED <<log, emits>>
  PROVE  \A i \in 1..Len(seq) :
           /\ seq[i] \in 1..Len(log')
           /\ \A m \in from + 1 .. seq[i] - 1 :
                emits'[log'[m]] = "torn" \/ \E j \in 1..i - 1 : seq[j] = m
BY DEF Continues, IsTorn

LEMMA OpenClient ==
  ASSUME TypeOK, NEW k \in Clients, Open(k), ClientInv(k)
  PROVE  ClientInv(k)'
<1>1. /\ wire[k] = <<>> /\ cursor[k] \in 0..Len(log) /\ Len(log) \in Nat
  BY DEF Open, ClientInv, CursorInv, TypeOK
<1>2. /\ loop'[k] = "open" /\ last'[k] = cursor[k] /\ upto'[k] = Len(log)
      /\ queue'[k] = <<>> /\ k \notin full'
      /\ UNCHANGED <<log, emits, wire, cursor>>
  BY DEF Open, StreamIs, TypeOK
<1>3. Base(k)' = Len(log)
  BY <1>1, <1>2 DEF Base
<1>4. CursorInv(k)'
  BY <1>1, <1>2, CursorAssumption DEF CursorInv
<1>5. WireInv(k)'
  BY <1>1, <1>2 DEF WireInv, Continues
<1>6. StreamInv(k)'
  BY <1>1, <1>2, <1>3 DEF StreamInv, Continues
<1> QED
  BY <1>4, <1>5, <1>6 DEF ClientInv

\* A frame n is put on the wire: last moves to n, and what lies between was
\* torn.
LEMMA SendFrame ==
  ASSUME TypeOK, NEW k \in Clients, ClientInv(k), loop[k] = "open",
         UNCHANGED <<log, emits, loop, cursor>>,
         NEW n \in 1..Len(log), last[k] < n,
         \A m \in last[k] + 1 .. n - 1 : IsTorn(m),
         wire'[k] = Append(wire[k], n), last'[k] = n
  PROVE  /\ CursorInv(k)' /\ WireInv(k)'
         /\ last'[k] \in cursor'[k]..Len(log')
         /\ \A i \in 1..Len(wire'[k]) : wire'[k][i] <= last'[k]
         /\ \A m \in cursor'[k] + 1 .. last'[k] :
              IsTorn(m) \/ \E j \in 1..Len(wire'[k]) : wire'[k][j] = m
<1> DEFINE more == Append(wire[k], n)
<1>1. /\ Len(log) \in Nat /\ last[k] \in Nat /\ cursor[k] \in 0..Len(log) /\ cursor[k] # None /\ cursor[k] \in Nat
      /\ wire[k] \in Seq(Nat) /\ Len(wire[k]) \in Nat /\ n \in Nat
  BY DEF TypeOK, ClientInv, CursorInv
<1>2. /\ last[k] \in cursor[k]..Len(log)
      /\ \A i \in 1..Len(wire[k]) : wire[k][i] <= last[k]
      /\ \A m \in cursor[k] + 1 .. last[k] : IsTorn(m) \/ \E j \in 1..Len(wire[k]) : wire[k][j] = m
  BY DEF ClientInv, StreamInv
<1>3. /\ more \in Seq(Nat) /\ Len(more) = Len(wire[k]) + 1 /\ more[Len(wire[k]) + 1] = n
      /\ \A i \in 1..Len(wire[k]) : more[i] = wire[k][i] /\ wire[k][i] \in Nat
  BY <1>1
<1>4. wire'[k] = more
  OBVIOUS
<1>5. \A m \in cursor[k] + 1 .. n - 1 : IsTorn(m) \/ \E j \in 1..Len(wire[k]) : wire[k][j] = m
  <2> SUFFICES ASSUME NEW m \in cursor[k] + 1 .. n - 1
               PROVE  IsTorn(m) \/ \E j \in 1..Len(wire[k]) : wire[k][j] = m
    OBVIOUS
  <2>1. CASE m <= last[k]
    BY <1>1, <1>2, <2>1
  <2>2. CASE ~(m <= last[k])
    BY <1>1, <2>2
  <2> QED
    BY <2>1, <2>2
<1>6. Continues(more, cursor[k])
  <2>1. Continues(wire[k], cursor[k])
    BY DEF ClientInv, WireInv
  <2> QED
    BY <1>1, <1>5, <2>1, ContinuesAppend
<1> HIDE DEF more
<1>7. CursorInv(k)'
  BY <1>1 DEF CursorInv
<1>8. WireInv(k)'
  <2>1. Continues(wire[k], cursor[k])'
    <3>1. \A i \in 1..Len(more) :
            /\ more[i] \in 1..Len(log')
            /\ \A m \in cursor[k] + 1 .. more[i] - 1 :
                 emits'[log'[m]] = "torn" \/ \E j \in 1..i - 1 : more[j] = m
      BY <1>1, <1>3, <1>6, ContinuesStill
    <3> QED
      BY <1>4, <3>1 DEF Continues, IsTorn
  <2>2. ASSUME NEW i \in 1..Len(more), NEW j \in 1..Len(more), i < j
        PROVE  more[i] < more[j]
    <3>0. i \in 1..Len(wire[k])
      BY <1>1, <1>3, <2>2
    <3>1. /\ i \in 1..Len(wire[k]) /\ more[i] = wire[k][i]
          /\ wire[k][i] <= last[k] /\ wire[k][i] \in Nat
      BY <1>2, <1>3, <3>0
    <3>2. CASE j \in 1..Len(wire[k])
      BY <1>3, <2>2, <3>1, <3>2 DEF ClientInv, WireInv
    <3>3. CASE j = Len(wire[k]) + 1
      <4>1. more[j] = n
        BY <1>3, <3>3
      <4> QED
        BY <1>1, <3>1, <4>1
    <3> QED
      BY <1>1, <1>3, <3>2, <3>3
  <2>3. ASSUME NEW i \in 1..Len(more)
        PROVE  cursor[k] < more[i]
    <3>1. CASE i \in 1..Len(wire[k])
      BY <1>3, <3>1 DEF ClientInv, WireInv
    <3>2. CASE i = Len(wire[k]) + 1
      BY <1>1, <1>2, <1>3, <3>2
    <3> QED
      BY <1>1, <1>3, <3>1, <3>2
  <2> QED
    BY <1>4, <2>1, <2>2, <2>3 DEF WireInv
<1>9. ASSUME NEW i \in 1..Len(more)
      PROVE  more[i] <= n
  <2>1. CASE i \in 1..Len(wire[k])
    <3>1. more[i] = wire[k][i] /\ wire[k][i] <= last[k] /\ wire[k][i] \in Nat
      BY <1>2, <1>3, <2>1
    <3> QED
      BY <1>1, <3>1
  <2>2. CASE i = Len(wire[k]) + 1
    BY <1>1, <1>3, <2>2
  <2> QED
    BY <1>1, <1>3, <2>1, <2>2
<1>10. \A m \in cursor[k] + 1 .. n : IsTorn(m) \/ \E j \in 1..Len(more) : more[j] = m
  <2> SUFFICES ASSUME NEW m \in cursor[k] + 1 .. n, ~IsTorn(m)
               PROVE  \E j \in 1..Len(more) : more[j] = m
    OBVIOUS
  <2>1. CASE m = n
    BY <1>1, <1>3, <2>1
  <2>2. CASE m # n
    <3>1. PICK j \in 1..Len(wire[k]) : wire[k][j] = m
      BY <1>1, <1>5, <2>2
    <3>2. j \in 1..Len(more)
      BY <1>1, <1>3
    <3>3. more[j] = m
      BY <1>3, <3>1
    <3> QED
      BY <3>2, <3>3
  <2> QED
    BY <2>1, <2>2
<1> QED
  BY <1>1, <1>2, <1>4, <1>7, <1>8, <1>9, <1>10

LEMMA SendHistoryClient ==
  ASSUME TypeOK, NEW k \in Clients, SendHistory(k), ClientInv(k)
  PROVE  ClientInv(k)'
<1> DEFINE n == last[k] + 1
<1>1. /\ loop[k] = "open" /\ last[k] < upto[k] /\ upto[k] \in 0..Len(log)
      /\ last[k] \in Nat /\ upto[k] \in Nat /\ Len(log) \in Nat /\ queue[k] \in Seq(Nat)
  BY DEF SendHistory, Sending, ClientInv, StreamInv, TypeOK
<1>2. /\ wire'[k] = Append(wire[k], n) /\ last'[k] = n
      /\ UNCHANGED <<log, emits, loop, upto, queue, full, cursor>>
  BY DEF SendHistory, TypeOK
<1>3. n \in 1..Len(log) /\ last[k] < n
  BY <1>1
<1>4. \A m \in last[k] + 1 .. n - 1 : IsTorn(m)
  BY <1>1
<1>5. Base(k)' = Base(k) /\ Base(k) \in Nat
  BY <1>1, <1>2 DEF Base
<1> HIDE DEF n
<1>6. /\ CursorInv(k)' /\ WireInv(k)'
      /\ last'[k] \in cursor'[k]..Len(log')
      /\ \A i \in 1..Len(wire'[k]) : wire'[k][i] <= last'[k]
      /\ \A m \in cursor'[k] + 1 .. last'[k] :
           IsTorn(m) \/ \E j \in 1..Len(wire'[k]) : wire'[k][j] = m
  BY <1>1, <1>2, <1>3, <1>4, SendFrame
<1>7. ASSUME k \notin full
      PROVE  /\ Continues(queue[k], Base(k))'
             /\ \A m \in Base(k) + 1 .. Len(log) :
                  Published(log[m]) => \E j \in 1..Len(queue[k]) : queue[k][j] = m
  <2>1. /\ Continues(queue[k], Base(k))
        /\ \A m \in Base(k) + 1 .. Len(log) :
             Published(log[m]) => \E j \in 1..Len(queue[k]) : queue[k][j] = m
    BY <1>1, <1>7 DEF ClientInv, StreamInv
  <2>2. \A i \in 1..Len(queue[k]) :
          /\ queue[k][i] \in 1..Len(log')
          /\ \A m \in Base(k) + 1 .. queue[k][i] - 1 :
               emits'[log'[m]] = "torn" \/ \E j \in 1..i - 1 : queue[k][j] = m
    BY <1>1, <1>2, <1>5, <2>1, ContinuesStill
  <2>3. queue'[k] = queue[k] /\ Base(k)' = Base(k)
    BY <1>2, <1>5
  <2>4. Continues(queue[k], Base(k))'
    BY <2>2, <2>3 DEF Continues, IsTorn
  <2> QED
    BY <2>1, <2>4
<1>8. StreamInv(k)'
  <2>1. upto'[k] \in 0..Len(log') /\ full' = full
    BY <1>1, <1>2
  <2>2. \A m \in cursor'[k] + 1 .. last'[k] :
          IsTorn(m)' \/ \E j \in 1..Len(wire'[k]) : wire'[k][j] = m
    BY <1>2, <1>6 DEF IsTorn
  <2>3. k \notin full' =>
          \A m \in Base(k)' + 1 .. Len(log') :
            Published(log[m])' => \E j \in 1..Len(queue'[k]) : queue'[k][j] = m
    BY <1>2, <1>5, <1>7 DEF Published
  <2> QED
    BY <1>6, <1>7, <2>1, <2>2, <2>3 DEF StreamInv, Published, IsTorn
<1> QED
  BY <1>6, <1>8 DEF ClientInv


\* The entries of a sequence without its head.
LEMMA TailEntries ==
  ASSUME NEW seq \in Seq(Nat), seq # <<>>
  PROVE  /\ Tail(seq) \in Seq(Nat) /\ Len(seq) \in Nat /\ Len(Tail(seq)) = Len(seq) - 1
         /\ seq[1] = Head(seq) /\ Head(seq) \in Nat /\ 1 \in 1..Len(seq)
         /\ \A i \in 1..Len(Tail(seq)) : i + 1 \in 2..Len(seq) /\ Tail(seq)[i] = seq[i + 1]
         /\ \A j \in 2..Len(seq) : j - 1 \in 1..Len(Tail(seq)) /\ Tail(seq)[j - 1] = seq[j]
OBVIOUS

LEMMA SendLiveClient ==
  ASSUME TypeOK, NEW k \in Clients, SendLive(k), ClientInv(k)
  PROVE  ClientInv(k)'
<1> DEFINE q == queue[k]
           n == Head(queue[k])
           rest == Tail(queue[k])
<1>1. /\ loop[k] = "open" /\ ~(last[k] < upto[k]) /\ k \notin full /\ q # <<>>
      /\ upto[k] \in 0..Len(log) /\ upto[k] \in Nat /\ last[k] \in Nat /\ Len(log) \in Nat
      /\ q \in Seq(Nat) /\ Base(k) = last[k]
  BY DEF SendLive, Live, Sending, ClientInv, StreamInv, TypeOK, Base
<1>2. /\ queue'[k] = rest
      /\ UNCHANGED <<log, emits, loop, upto, full, cursor>>
      /\ IF n <= last[k] THEN UNCHANGED <<last, wire>>
         ELSE last'[k] = n /\ wire'[k] = Append(wire[k], n)
  BY DEF SendLive, TypeOK
<1>3. /\ Continues(q, last[k])
      /\ \A m \in last[k] + 1 .. Len(log) : Published(log[m]) => \E j \in 1..Len(q) : q[j] = m
  BY <1>1 DEF ClientInv, StreamInv
<1>4. /\ rest \in Seq(Nat) /\ Len(q) \in Nat /\ Len(rest) = Len(q) - 1 /\ q[1] = n /\ n \in Nat
      /\ 1 \in 1..Len(q)
      /\ \A j \in 2..Len(q) : j - 1 \in 1..Len(rest) /\ rest[j - 1] = q[j]
  BY <1>1, TailEntries
<1>5. n \in 1..Len(log) /\ \A m \in last[k] + 1 .. n - 1 : IsTorn(m)
  BY <1>3, <1>4 DEF Continues
<1> DEFINE next == IF n > last[k] THEN n ELSE last[k]
<1>6. Continues(rest, next)
  BY <1>1, <1>3, ContinuesTail
<1> HIDE DEF q, n, rest
<1>7. next \in Nat /\ last[k] <= next /\ n <= next
  BY <1>1, <1>4
<1>8. last'[k] = next /\ Base(k)' = next
  BY <1>1, <1>2, <1>4 DEF Base
<1> HIDE DEF next
<1>9. \A m \in next + 1 .. Len(log) : Published(log[m]) => \E j \in 1..Len(rest) : rest[j] = m
  <2> SUFFICES ASSUME NEW m \in next + 1 .. Len(log), Published(log[m])
               PROVE  \E j \in 1..Len(rest) : rest[j] = m
    OBVIOUS
  <2>1. m \in last[k] + 1 .. Len(log) /\ m # n
    BY <1>1, <1>4, <1>7
  <2>2. PICK j \in 1..Len(q) : q[j] = m
    BY <1>3, <2>1
  <2>3. j \in 2..Len(q)
    BY <1>4, <2>1, <2>2
  <2> QED
    BY <1>4, <2>2, <2>3
<1>10. Continues(queue[k], Base(k))'
  <2>1. \A i \in 1..Len(rest) :
          /\ rest[i] \in 1..Len(log')
          /\ \A m \in next + 1 .. rest[i] - 1 :
               emits'[log'[m]] = "torn" \/ \E j \in 1..i - 1 : rest[j] = m
    BY <1>2, <1>4, <1>6, <1>7, ContinuesStill
  <2>2. queue'[k] = rest /\ Base(k)' = next
    BY <1>2, <1>8
  <2> QED
    BY <2>1, <2>2 DEF Continues, IsTorn
<1>11. /\ CursorInv(k)' /\ WireInv(k)'
       /\ last'[k] \in cursor'[k]..Len(log')
       /\ \A i \in 1..Len(wire'[k]) : wire'[k][i] <= last'[k]
       /\ \A m \in cursor'[k] + 1 .. last'[k] :
            IsTorn(m) \/ \E j \in 1..Len(wire'[k]) : wire'[k][j] = m
  <2>1. CASE n <= last[k]
    <3>1. UNCHANGED <<last, wire, cursor, loop, log>>
      BY <1>2, <2>1
    <3>2. CursorInv(k)'
      BY <3>1 DEF CursorInv, ClientInv
    <3>3. \A m \in 1..Len(log) : IsTorn(m) => IsTorn(m)'
      BY <1>2 DEF IsTorn
    <3>4. WireInv(k)'
      BY <1>1, <3>1, <3>3, WireLater DEF ClientInv
    <3> QED
      BY <1>1, <3>1, <3>2, <3>4 DEF ClientInv, StreamInv
  <2>2. CASE ~(n <= last[k])
    <3>1. last[k] < n /\ wire'[k] = Append(wire[k], n) /\ last'[k] = n
      BY <1>1, <1>2, <1>4, <2>2
    <3> QED
      BY <1>1, <1>2, <1>5, <3>1, SendFrame
  <2> QED
    BY <2>1, <2>2
<1>12. StreamInv(k)'
  <2>1. upto'[k] \in 0..Len(log') /\ full' = full
    BY <1>1, <1>2
  <2>2. \A m \in cursor'[k] + 1 .. last'[k] :
          IsTorn(m)' \/ \E j \in 1..Len(wire'[k]) : wire'[k][j] = m
    BY <1>2, <1>11 DEF IsTorn
  <2>3. \A m \in Base(k)' + 1 .. Len(log') :
          Published(log[m])' => \E j \in 1..Len(queue'[k]) : queue'[k][j] = m
    BY <1>2, <1>8, <1>9 DEF Published
  <2> QED
    BY <1>10, <1>11, <2>1, <2>2, <2>3 DEF StreamInv, Published, IsTorn
<1> QED
  BY <1>11, <1>12 DEF ClientInv

LEMMA EndStreamClient ==
  ASSUME TypeOK, NEW k \in Clients, EndStream(k), ClientInv(k)
  PROVE  ClientInv(k)'
<1>1. /\ loop[k] = "open" /\ loop'[k] = "ended"
      /\ UNCHANGED <<log, emits, wire, cursor>> /\ Len(log) \in Nat
  BY DEF EndStream, TypeOK
<1>2. \A m \in 1..Len(log) : IsTorn(m) => IsTorn(m)'
  BY <1>1 DEF IsTorn
<1>3. WireInv(k)'
  BY <1>1, <1>2, WireLater DEF ClientInv
<1> QED
  BY <1>1, <1>3 DEF ClientInv, CursorInv, StreamInv

LEMMA ReadFrameClient ==
  ASSUME TypeOK, NEW k \in Clients, ReadFrame(k), ClientInv(k)
  PROVE  ClientInv(k)'
<1> DEFINE w == wire[k]
           n == Head(wire[k])
           rest == Tail(wire[k])
<1>1. /\ loop[k] \in {"open", "ended"} /\ w # <<>> /\ w \in Seq(Nat)
      /\ cursor[k] \in 0..Len(log) /\ cursor[k] \in Nat /\ Len(log) \in Nat
  BY DEF ReadFrame, ClientInv, CursorInv, TypeOK
<1>2. /\ rest \in Seq(Nat) /\ Len(w) \in Nat /\ Len(rest) = Len(w) - 1 /\ w[1] = n /\ n \in Nat
      /\ 1 \in 1..Len(w)
      /\ \A i \in 1..Len(rest) : i + 1 \in 2..Len(w) /\ rest[i] = w[i + 1]
      /\ \A j \in 2..Len(w) : j - 1 \in 1..Len(rest) /\ rest[j - 1] = w[j]
  BY <1>1, TailEntries
<1>3. /\ Continues(w, cursor[k])
      /\ \A i, j \in 1..Len(w) : i < j => w[i] < w[j]
      /\ \A i \in 1..Len(w) : cursor[k] < w[i]
  BY DEF ClientInv, WireInv
<1>4. cursor[k] < n /\ n \in 1..Len(log)
  BY <1>2, <1>3 DEF Continues
<1>5. /\ wire'[k] = rest /\ cursor'[k] = n
      /\ UNCHANGED <<log, emits, loop, last, upto, queue, full>>
  BY <1>4 DEF ReadFrame, TypeOK, streamVars
<1>6. Continues(rest, n)
  <2>1. (IF Head(w) > cursor[k] THEN Head(w) ELSE cursor[k]) = n
    BY <1>1, <1>4
  <2> QED
    BY <1>1, <1>3, <2>1, ContinuesTail
<1> HIDE DEF w, n, rest
<1>7. CursorInv(k)'
  BY <1>1, <1>2, <1>4, <1>5, CursorAssumption DEF CursorInv, ClientInv
<1>8. WireInv(k)'
  <2>1. Continues(wire[k], cursor[k])'
    <3>1. \A i \in 1..Len(rest) :
            /\ rest[i] \in 1..Len(log')
            /\ \A m \in n + 1 .. rest[i] - 1 :
                 emits'[log'[m]] = "torn" \/ \E j \in 1..i - 1 : rest[j] = m
      BY <1>2, <1>5, <1>6, ContinuesStill
    <3>2. wire'[k] = rest /\ cursor'[k] = n
      BY <1>5
    <3> QED
      BY <3>1, <3>2 DEF Continues, IsTorn
  <2>2. ASSUME NEW i \in 1..Len(rest), NEW j \in 1..Len(rest), i < j
        PROVE  rest[i] < rest[j]
    BY <1>2, <1>3, <2>2
  <2>3. ASSUME NEW i \in 1..Len(rest)
        PROVE  n < rest[i]
    BY <1>2, <1>3
  <2> QED
    BY <1>5, <2>1, <2>2, <2>3 DEF WireInv
<1>9. StreamInv(k)'
  <2> SUFFICES ASSUME loop[k] = "open" PROVE StreamInv(k)'
    BY <1>5 DEF StreamInv
  <2>1. /\ last[k] \in cursor[k]..Len(log) /\ upto[k] \in 0..Len(log) /\ last[k] \in Nat
        /\ upto[k] \in Nat
        /\ \A i \in 1..Len(w) : w[i] <= last[k]
        /\ \A m \in cursor[k] + 1 .. last[k] : IsTorn(m) \/ \E j \in 1..Len(w) : w[j] = m
    BY DEF ClientInv, StreamInv, TypeOK, w
  <2>2. last'[k] \in cursor'[k]..Len(log') /\ upto'[k] \in 0..Len(log')
    BY <1>1, <1>2, <1>4, <1>5, <2>1
  <2>3. ASSUME NEW i \in 1..Len(rest)
        PROVE  rest[i] <= last[k]
    <3>1. i + 1 \in 1..Len(w) /\ rest[i] = w[i + 1]
      BY <1>2
    <3> QED
      BY <2>1, <3>1
  <2>4. ASSUME NEW m \in n + 1 .. last[k], ~IsTorn(m)
        PROVE  \E j \in 1..Len(rest) : rest[j] = m
    <3>1. PICK j \in 1..Len(w) : w[j] = m
      BY <1>1, <1>2, <1>4, <2>1, <2>4
    <3>2. j \in 2..Len(w)
      BY <1>2, <2>1, <3>1
    <3> QED
      BY <1>2, <3>1, <3>2
  <2>5. Base(k)' = Base(k) /\ Base(k) \in Nat /\ queue[k] \in Seq(Nat)
    BY <1>5, <2>1 DEF Base, TypeOK
  <2>6. k \notin full => /\ Continues(queue[k], Base(k))'
                         /\ \A m \in Base(k) + 1 .. Len(log) :
                              Published(log[m]) => \E j \in 1..Len(queue[k]) : queue[k][j] = m
    <3> SUFFICES ASSUME k \notin full
                 PROVE  /\ Continues(queue[k], Base(k))'
                        /\ \A m \in Base(k) + 1 .. Len(log) :
                             Published(log[m]) => \E j \in 1..Len(queue[k]) : queue[k][j] = m
      OBVIOUS
    <3>1. /\ Continues(queue[k], Base(k))
          /\ \A m \in Base(k) + 1 .. Len(log) :
               Published(log[m]) => \E j \in 1..Len(queue[k]) : queue[k][j] = m
      BY DEF ClientInv, StreamInv
    <3>2. \A i \in 1..Len(queue[k]) :
            /\ queue[k][i] \in 1..Len(log')
            /\ \A m \in Base(k) + 1 .. queue[k][i] - 1 :
                 emits'[log'[m]] = "torn" \/ \E j \in 1..i - 1 : queue[k][j] = m
      BY <1>5, <2>5, <3>1, ContinuesStill
    <3>3. queue'[k] = queue[k] /\ Base(k)' = Base(k)
      BY <1>5, <2>5
    <3>4. Continues(queue[k], Base(k))'
      BY <3>2, <3>3 DEF Continues, IsTorn
    <3> QED
      BY <3>1, <3>4
  <2>7. \A m \in cursor'[k] + 1 .. last'[k] :
          IsTorn(m)' \/ \E j \in 1..Len(wire'[k]) : wire'[k][j] = m
    BY <1>5, <2>4 DEF IsTorn
  <2>8. k \notin full' =>
          \A m \in Base(k)' + 1 .. Len(log') :
            Published(log[m])' => \E j \in 1..Len(queue'[k]) : queue'[k][j] = m
    BY <1>5, <2>5, <2>6 DEF Published
  <2>9. \A i \in 1..Len(wire'[k]) : wire'[k][i] <= last'[k]
    BY <1>5, <2>3
  <2> QED
    BY <1>5, <2>2, <2>6, <2>7, <2>8, <2>9 DEF StreamInv, Published, IsTorn
<1> QED
  BY <1>7, <1>8, <1>9 DEF ClientInv


\* A client that has left its stream has an empty wire.
LEMMA LeaveClient ==
  ASSUME TypeOK, NEW k \in Clients, ClientInv(k), loop[k] # "unused",
         UNCHANGED <<log, cursor>>, loop'[k] \in {"fetching", "over"}, wire'[k] = <<>>
  PROVE  ClientInv(k)'
BY DEF ClientInv, CursorInv, WireInv, StreamInv, Continues

LEMMA ConnectClient ==
  ASSUME TypeOK, NEW k \in Clients, Connect(k), ClientInv(k)
  PROVE  ClientInv(k)'
<1>1. PICK n \in 0..Len(log) : cursor' = [cursor EXCEPT ![k] = n]
  BY DEF Connect
<1>2. /\ loop'[k] = "fetching" /\ cursor'[k] = n /\ n \in Nat /\ wire[k] = <<>>
      /\ UNCHANGED <<log, wire>>
  BY <1>1 DEF Connect, TypeOK, ClientInv, CursorInv
<1> QED
  BY <1>2, CursorAssumption DEF ClientInv, CursorInv, WireInv, StreamInv, Continues

LEMMA RestartClient ==
  ASSUME TypeOK, NEW k \in Clients, Restart, ClientInv(k)
  PROVE  ClientInv(k)'
<1>1. /\ UNCHANGED <<log, wire, cursor>> /\ Len(log) \in Nat
      /\ loop'[k] = IF loop[k] = "open" THEN "ended" ELSE loop[k]
  BY DEF Restart, TypeOK
<1>2. \A m \in 1..Len(log) : IsTorn(m) => IsTorn(m)'
  <2>1. \A m \in 1..Len(log) : log[m] \in Events /\ log[m] \in Persisted
    BY DEF TypeOK, Persisted
  <2>2. \A e \in Events : emits[e] = "torn" /\ e \in Persisted => emits'[e] = "torn"
    BY DEF Restart
  <2> QED
    BY <1>1, <2>1, <2>2 DEF IsTorn
<1>3. WireInv(k)'
  BY <1>1, <1>2, WireLater DEF ClientInv
<1> QED
  BY <1>1, <1>3 DEF ClientInv, CursorInv, StreamInv

\* A step of client k leaves the others and the emits alone and keeps its own
\* invariant.
LEMMA ClientStep ==
  ASSUME TypeOK, NEW k \in Clients, ClientInv(k),
         Serve(k) \/ Follow(k) \/ Connect(k) \/ Break_(k) \/ Close(k)
  PROVE  /\ UNCHANGED <<log, emits>>
         /\ ClientInv(k)'
         /\ \A j \in Clients \ {k} : UNCHANGED ClientVars(j)
<1>1. CASE Open(k)
  <2>1. UNCHANGED <<log, emits>> /\ ClientInv(k)'
    BY <1>1, OpenClient DEF Open
  <2>2. \A j \in Clients \ {k} : UNCHANGED ClientVars(j)
    BY <1>1 DEF Open, StreamIs, ClientVars, TypeOK
  <2> QED
    BY <2>1, <2>2
<1>2. CASE SendHistory(k)
  BY <1>2, SendHistoryClient DEF SendHistory, ClientVars, TypeOK
<1>3. CASE SendLive(k)
  BY <1>3, SendLiveClient DEF SendLive, ClientVars, TypeOK
<1>4. CASE EndStream(k)
  <2>1. UNCHANGED <<log, emits>> /\ ClientInv(k)'
    BY <1>4, EndStreamClient DEF EndStream
  <2>2. \A j \in Clients \ {k} : UNCHANGED ClientVars(j)
    BY <1>4 DEF EndStream, NoStream, StreamIs, ClientVars, TypeOK
  <2> QED
    BY <2>1, <2>2
<1>5. CASE ReadFrame(k)
  BY <1>5, ReadFrameClient DEF ReadFrame, streamVars, ClientVars, TypeOK
<1>6. CASE Disconnect(k) /\ loop[k] # "unused"
  <2>1. /\ UNCHANGED <<log, emits, cursor>> /\ loop'[k] \in {"fetching", "over"}
        /\ wire'[k] = <<>>
    BY <1>6 DEF Disconnect, TypeOK
  <2>2. \A j \in Clients \ {k} : UNCHANGED ClientVars(j)
    BY <1>6 DEF Disconnect, NoStream, StreamIs, ClientVars, TypeOK
  <2> QED
    BY <1>6, <2>1, <2>2, LeaveClient
<1>7. CASE Connect(k)
  BY <1>7, ConnectClient DEF Connect, streamVars, ClientVars, TypeOK
<1>8. CASE Close(k)
  <2>1. /\ UNCHANGED <<log, emits, cursor>> /\ loop'[k] = "over" /\ loop[k] # "unused"
        /\ wire'[k] = <<>>
    BY <1>8 DEF Close, TypeOK
  <2>2. \A j \in Clients \ {k} : UNCHANGED ClientVars(j)
    BY <1>8 DEF Close, NoStream, StreamIs, ClientVars, TypeOK
  <2> QED
    BY <2>1, <2>2, LeaveClient
<1> QED
  BY <1>1, <1>2, <1>3, <1>4, <1>5, <1>6, <1>7, <1>8 DEF Serve, Follow, StreamClosed, Break_

-----------------------------------------------------------------------------
(* The inductive invariant. *)

LEMMA InitIndInv == Init => IndInv
<1> SUFFICES ASSUME Init PROVE IndInv
  OBVIOUS
<1>1. TypeOK
  BY DEF Init, TypeOK, Emits, Loops
<1>2. EmitInv
  BY DEF Init, EmitInv, Published, Persisted
<1>3. \A k \in Clients : CursorInv(k) /\ WireInv(k) /\ StreamInv(k)
  BY DEF Init, CursorInv, WireInv, StreamInv, Continues
<1> QED
  BY <1>1, <1>2, <1>3 DEF IndInv

LEMMA NextIndInv == IndInv /\ [Next]_vars => IndInv'
<1> SUFFICES ASSUME IndInv, [Next]_vars PROVE IndInv'
  OBVIOUS
<1>0. TypeOK /\ EmitInv /\ \A k \in Clients : ClientInv(k) /\ CursorInv(k)
  BY DEF IndInv, ClientInv
<1>1. SUFFICES TypeOK' /\ EmitInv' /\ \A k \in Clients : ClientInv(k)'
  BY DEF IndInv, ClientInv
<1>2. ASSUME NEW e \in Events, BeginEmit(e) \/ WriteEvent(e) \/ Publish(e) \/ CancelEmit(e)
      PROVE  TypeOK' /\ EmitInv' /\ \A k \in Clients : ClientInv(k)'
  <2>1. TypeOK' /\ EmitInv'
    BY <1>0, <1>2, EmitType, EmitStep
  <2>2. ASSUME NEW k \in Clients PROVE ClientInv(k)'
    BY <1>0, <1>2, ClientsWhileEmitting, ClientsWhilePublishing
  <2> QED
    BY <2>1, <2>2
<1>3. ASSUME NEW k \in Clients, Serve(k) \/ Follow(k) \/ Connect(k) \/ Break_(k) \/ Close(k)
      PROVE  TypeOK' /\ EmitInv' /\ \A j \in Clients : ClientInv(j)'
  <2>1. /\ UNCHANGED <<log, emits>> /\ ClientInv(k)'
        /\ \A j \in Clients \ {k} : UNCHANGED ClientVars(j)
    BY <1>0, <1>3, ClientStep
  <2>2. ASSUME NEW j \in Clients PROVE ClientInv(j)'
    BY <1>0, <2>1, Untouched
  <2>3. TypeOK'
    BY <1>0, <1>3, ServeType, ClientType
  <2>4. EmitInv'
    BY <1>0, <2>1 DEF EmitInv, Published, IsTorn, Persisted
  <2> QED
    BY <2>2, <2>3, <2>4
<1>4. CASE Restart
  BY <1>0, <1>4, RestartType, EmitRestart, RestartClient
<1>5. CASE UNCHANGED vars
  <2>1. UNCHANGED <<log, emits>> /\ \A k \in Clients : UNCHANGED ClientVars(k)
    BY <1>5 DEF vars, streamVars, ClientVars
  <2>2. TypeOK'
    BY <1>0, <1>5 DEF TypeOK, vars, streamVars
  <2>3. EmitInv'
    BY <1>0, <2>1 DEF EmitInv, Published, IsTorn, Persisted
  <2> QED
    BY <1>0, <2>1, <2>2, <2>3, Untouched
<1> QED
  BY <1>2, <1>3, <1>4, <1>5 DEF Next

\* The inductive invariant holds: the emit lock, the log, every wire, history
\* and queue are as IndInv says, whatever is cancelled, broken or restarted.
THEOREM Invariance == Spec => []IndInv
<1>1. Init => IndInv
  BY InitIndInv
<1>2. IndInv /\ [Next]_vars => IndInv'
  BY NextIndInv
<1> QED
  BY <1>1, <1>2, PTL DEF Spec

\* The variables keep their types: no sequence number is read from a cursor
\* that is not set (api/events.py:42, event_client.ts:43).
THEOREM TypeCorrect == Spec => []TypeOK
<1>1. IndInv => TypeOK
  BY DEF IndInv
<1> QED
  BY <1>1, Invariance, PTL

\* A stream sends no event twice and none out of order, although a history
\* and a queue overlap and an outbox event is published twice
\* (api/events.py:68-93).
THEOREM NoDuplicates == Spec => []SentOnce
<1>1. IndInv => SentOnce
  BY DEF IndInv, WireInv, SentOnce
<1> QED
  BY <1>1, Invariance, PTL

\* Publication follows the log: below a published event everything is
\* published or torn (runtime/service.py:107-138).
THEOREM LogOrder == Spec => []PublishOrder
<1>1. IndInv => PublishOrder
  <2> SUFFICES ASSUME IndInv, NEW m \in 1..Len(log), NEW n \in 1..Len(log),
                      m < n, Published(log[n])
               PROVE  Published(log[m]) \/ emits[log[m]] = "torn"
    BY DEF PublishOrder
  <2>1. m \in 1..n - 1 /\ emits[log[n]] \in {"writing", "out", "again"}
    BY DEF Published, IndInv, TypeOK
  <2> QED
    BY <2>1, BelowPublished DEF IndInv, IsTorn
<1> QED
  BY <1>1, Invariance, PTL


-----------------------------------------------------------------------------
(* EventStream implements EventFeed. *)

LEMMA TornBy ==
  ASSUME TypeOK, NEW e \in Events, emits'[e] \in {"torn", "dropped"},
         \A f \in Events : f # e => (emits'[f] \in {"torn", "dropped"} <=> emits[f] \in {"torn", "dropped"})
  PROVE  Torn' = Torn \cup {e}
BY DEF Torn

LEMMA TornSame ==
  ASSUME \A f \in Events : emits'[f] \in {"torn", "dropped"} <=> emits[f] \in {"torn", "dropped"}
  PROVE  Torn' = Torn
BY DEF Torn

LEMMA EmitFeeds ==
  ASSUME TypeOK, NEW e \in Events, BeginEmit(e) \/ WriteEvent(e) \/ Publish(e) \/ CancelEmit(e)
  PROVE  Feed!Next \/ UNCHANGED <<log, Torn, cursor>>
<1>1. CASE BeginEmit(e) \/ Publish(e)
  <2>1. UNCHANGED <<log, cursor>>
    BY <1>1 DEF BeginEmit, Publish
  <2>2. \A f \in Events : emits'[f] \in {"torn", "dropped"} <=> emits[f] \in {"torn", "dropped"}
    BY <1>1 DEF BeginEmit, Publish, TypeOK
  <2> QED
    BY <2>1, <2>2, TornSame
<1>2. CASE WriteEvent(e)
  <2>1. Torn' = Torn
    BY <1>2 DEF WriteEvent, Torn
  <2>2. Feed!Append_(e)
    BY <1>2, <2>1 DEF WriteEvent, Feed!Append_, Feed!Persisted, Persisted
  <2> QED
    BY <2>2 DEF Feed!Next
<1>3. CASE CancelEmit(e)
  <2>1. /\ UNCHANGED <<log, cursor>> /\ emits'[e] = "torn"
        /\ \A f \in Events : f # e => emits'[f] = emits[f]
    BY <1>3 DEF CancelEmit, TypeOK
  <2>2. Torn' = Torn \cup {e}
    BY <2>1, TornBy
  <2>3. Feed!Tear(e)
    BY <2>1, <2>2 DEF Feed!Tear
  <2> QED
    BY <2>3 DEF Feed!Next
<1> QED
  BY <1>1, <1>2, <1>3

\* A restart tears the one event that was being emitted, if it was not written.
LEMMA RestartFeeds ==
  ASSUME TypeOK, EmitInv, Restart
  PROVE  Feed!Next \/ UNCHANGED <<log, Torn, cursor>>
<1>0. UNCHANGED <<log, cursor>>
  BY DEF Restart
<1>1. ASSUME NEW f \in Events
      PROVE  emits'[f] \in {"torn", "dropped"} <=>
               \/ emits[f] \in {"torn", "dropped"}
               \/ emits[f] = "writing" /\ f \notin Persisted /\ f \notin Outbox
  BY DEF Restart, EmitInv
<1>2. CASE \E e \in Events : emits[e] = "writing" /\ e \notin Persisted /\ e \notin Outbox
  <2>1. PICK e \in Events : emits[e] = "writing" /\ e \notin Persisted /\ e \notin Outbox
    BY <1>2
  <2>2. \A f \in Events : f # e => emits[f] # "writing"
    BY <2>1 DEF EmitInv
  <2>3. Torn' = Torn \cup {e}
    BY <1>1, <2>1, <2>2, TornBy
  <2>4. Feed!Tear(e)
    BY <1>0, <2>3 DEF Feed!Tear
  <2> QED
    BY <2>4 DEF Feed!Next
<1>3. CASE ~\E e \in Events : emits[e] = "writing" /\ e \notin Persisted /\ e \notin Outbox
  BY <1>0, <1>1, <1>3, TornSame
<1> QED
  BY <1>2, <1>3

LEMMA ClientFeeds ==
  ASSUME TypeOK, NEW k \in Clients, ClientInv(k), UNCHANGED <<log, emits>>,
         Serve(k) \/ Follow(k) \/ Connect(k) \/ Break_(k) \/ Close(k)
  PROVE  Feed!Next \/ UNCHANGED <<log, Torn, cursor>>
<1>0. Torn' = Torn
  BY DEF Torn
<1>1. CASE Connect(k)
  <2>1. cursor[k] = None /\ \E n \in 0..Len(log) : cursor' = [cursor EXCEPT ![k] = n]
    BY <1>1 DEF Connect, ClientInv, CursorInv
  <2>2. Feed!Start(k)
    BY <1>0, <2>1 DEF Feed!Start
  <2> QED
    BY <2>2 DEF Feed!Next
<1>2. CASE ReadFrame(k)
  <2> DEFINE n == Head(wire[k])
  <2>1. /\ wire[k] \in Seq(Nat) /\ wire[k] # <<>> /\ loop[k] # "unused"
        /\ cursor' = [cursor EXCEPT ![k] = IF n > cursor[k] THEN n ELSE cursor[k]]
    BY <1>2 DEF ReadFrame, TypeOK
  <2>2. wire[k][1] = n /\ 1 \in 1..Len(wire[k]) /\ n \in Nat
    BY <2>1, TailEntries
  <2>3. /\ cursor[k] < n /\ n \in 1..Len(log)
        /\ \A m \in cursor[k] + 1 .. n - 1 : IsTorn(m)
    BY <2>2 DEF ClientInv, WireInv, Continues
  <2>4. cursor[k] \in Nat /\ cursor[k] # None /\ Len(log) \in Nat
    BY <2>1, CursorAssumption DEF ClientInv, CursorInv, TypeOK
  <2> HIDE DEF n
  <2>5. n \in cursor[k] + 1 .. Len(log) /\ cursor' = [cursor EXCEPT ![k] = n]
    BY <2>1, <2>2, <2>3, <2>4
  <2>6. ASSUME NEW m \in cursor[k] + 1 .. n - 1
        PROVE  log[m] \in Torn
    <3>1. m \in 1..Len(log) /\ IsTorn(m)
      BY <2>2, <2>3, <2>4
    <3> QED
      BY <3>1 DEF Torn, IsTorn, TypeOK
  <2>7. Feed!Read(k)
    BY <1>0, <2>4, <2>5, <2>6 DEF Feed!Read
  <2> QED
    BY <2>7 DEF Feed!Next
<1>3. CASE UNCHANGED cursor
  BY <1>0, <1>3
<1> QED
  BY <1>1, <1>2, <1>3
     DEF Serve, Open, SendHistory, SendLive, EndStream, Follow, StreamClosed, Break_, Disconnect, Close

\* A client reads the log in order, nothing twice, and passes over torn events
\* only, through overflows, reconnections and restarts: the streams implement
\* EventFeed.
THEOREM Refinement == Spec => ReadsTheFeed
<1>1. Init => Feed!Init
  <2> SUFFICES ASSUME Init PROVE Feed!Init
    OBVIOUS
  <2>1. Torn = {}
    BY DEF Init, Torn
  <2> QED
    BY <2>1 DEF Init, Feed!Init
<1>2. IndInv /\ [Next]_vars => [Feed!Next]_<<log, Torn, cursor>>
  <2> SUFFICES ASSUME IndInv, [Next]_vars PROVE Feed!Next \/ UNCHANGED <<log, Torn, cursor>>
    OBVIOUS
  <2>0. TypeOK /\ EmitInv /\ \A k \in Clients : ClientInv(k)
    BY DEF IndInv, ClientInv
  <2>1. CASE \E e \in Events : BeginEmit(e) \/ WriteEvent(e) \/ Publish(e) \/ CancelEmit(e)
    BY <2>0, <2>1, EmitFeeds
  <2>2. CASE \E k \in Clients : Serve(k) \/ Follow(k) \/ Connect(k) \/ Break_(k) \/ Close(k)
    BY <2>0, <2>2, ClientStep, ClientFeeds
  <2>3. CASE Restart
    BY <2>0, <2>3, RestartFeeds
  <2>4. CASE UNCHANGED vars
    BY <2>4 DEF vars, streamVars, Torn
  <2> QED
    BY <2>1, <2>2, <2>3, <2>4 DEF Next
<1> QED
  BY <1>1, <1>2, Invariance, PTL DEF Spec, ReadsTheFeed, Feed!Spec, Feed!feedVars

=============================================================================
