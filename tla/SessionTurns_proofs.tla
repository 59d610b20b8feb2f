------------------------- MODULE SessionTurns_proofs -------------------------
(* Proofs about SessionTurns, for all sessions, commands and bounds.        *)
EXTENDS SessionTurns, TLAPS

USE DEF traces

(* Rows stay rows under the updates the handlers and the turns make. *)

LEMMA MsgsUpdate ==
  ASSUME NEW row \in Row, NEW msgs \in Seq(Message)
  PROVE  /\ [row EXCEPT !.msgs = msgs] \in Row
         /\ [row EXCEPT !.msgs = msgs].active = row.active
BY DEF Row

LEMMA MarkUpdate ==
  ASSUME NEW row \in Row, NEW mark \in Commands \cup {None}
  PROVE  /\ [row EXCEPT !.active = mark] \in Row
         /\ [row EXCEPT !.active = mark].active = mark
BY DEF Row

LEMMA CfgUpdate ==
  ASSUME NEW row \in Row, NEW c \in Commands
  PROVE  /\ [row EXCEPT !.cfg = c] \in Row
         /\ [row EXCEPT !.cfg = c].active = row.active
BY DEF Row

LEMMA RepairUpdate ==
  ASSUME NEW row \in Row, NEW t \in Commands, NEW status \in Statuses
  PROVE  LET repaired == [row EXCEPT !.active = None, !.last = [trace |-> t, status |-> status]]
         IN  repaired \in Row /\ repaired.active = None /\ repaired.last.trace = t
BY DEF Row

LEMMA FinishUpdate ==
  ASSUME NEW row \in Row, NEW msgs \in Seq(Message), NEW mark \in Commands \cup {None},
         NEW t \in Commands, NEW status \in Statuses
  PROVE  [row EXCEPT !.msgs = msgs, !.active = mark,
                      !.last = [trace |-> t, status |-> status]] \in Row
BY DEF Row

LEMMA SaidMessage ==
  ASSUME NEW role \in {"user", "assistant", "partial", "summary"},
         NEW by \in Commands \cup {None}
  PROVE  Said(role, by) \in Message
BY DEF Said, Message

LEMMA NoCtxType == NoCtx \in Ctx
BY DEF NoCtx, Ctx, Routes

LEMMA NewCtxType ==
  ASSUME NEW append \in BOOLEAN, NEW route \in Routes
  PROVE  /\ [NoCtx EXCEPT !.append = append] \in Ctx
         /\ [NoCtx EXCEPT !.append = append, !.route = route] \in Ctx
BY DEF NoCtx, Ctx, Routes

(* Histories stay sequences of messages. *)

LEMMA CompactedType ==
  ASSUME NEW msgs \in Seq(Message)
  PROVE  Compacted(msgs) \in Seq(Message)
<1>1. CASE Len(msgs) <= Keep
  BY <1>1 DEF Compacted
<1>2. CASE ~(Len(msgs) <= Keep)
  <2>1. SubSeq(msgs, Len(msgs) - Keep + 1, Len(msgs)) \in Seq(Message)
    BY <1>2, KeepAssumption
  <2>2. <<Said("summary", None)>> \in Seq(Message)
    BY SaidMessage
  <2> QED BY <1>2, <2>1, <2>2 DEF Compacted
<1> QED BY <1>1, <1>2

LEMMA WithoutAtType ==
  ASSUME NEW msgs \in Seq(Message), NEW i \in 1..Len(msgs)
  PROVE  WithoutAt(msgs, i) \in Seq(Message)
<1>1. SubSeq(msgs, 1, i - 1) \in Seq(Message)
  OBVIOUS
<1>2. SubSeq(msgs, i + 1, Len(msgs)) \in Seq(Message)
  OBVIOUS
<1> QED BY <1>1, <1>2 DEF WithoutAt

-----------------------------------------------------------------------------
(* Type correctness. *)

LEMMA InitType == Init => TypeOK
BY DEF Init, TypeOK, NoCtx, Ctx, Routes, Places, Live, Waiting, Statuses

LEMMA BeginTurnType ==
  ASSUME TypeOK, NEW c \in Commands, NEW s \in Sessions, NEW session \in Row,
         NEW append \in BOOLEAN, NEW route \in Routes,
         BeginTurn(c, s, session, append, route), UNCHANGED <<gateway, born, cancels, traces>>
  PROVE  TypeOK'
<1> USE DEF BeginTurn, TypeOK
<1>1. [session EXCEPT !.active = c] \in Row
  BY MarkUpdate
<1>2. store' \in [Sessions -> Row \cup {None}] /\ obj' \in [Commands -> Row \cup {None}]
  BY <1>1 DEF Save
<1>3. /\ locked' \in SUBSET Sessions
      /\ tasks' \in [Sessions -> Commands \cup {None}]
      /\ home' \in [Commands -> Sessions \cup {None}]
  OBVIOUS
<1>4. pc' \in [Commands -> Places]
  BY DEF Places, Live
<1>5. ctx' \in [Commands -> Ctx]
  BY NewCtxType
<1> QED BY <1>2, <1>3, <1>4, <1>5

LEMMA RewriteType ==
  ASSUME TypeOK, NEW c \in Commands, NEW s \in Sessions, NEW msgs, NEW append \in BOOLEAN,
         [store[s] EXCEPT !.msgs = msgs] \in Row, Rewrite(c, s, msgs, append)
  PROVE  TypeOK'
<1> USE DEF Rewrite, TypeOK
<1>1. store' \in [Sessions -> Row \cup {None}]
  BY DEF Save
<1>2. pc' \in [Commands -> Places]
  BY DEF Places, Waiting
<1>3. home' \in [Commands -> Sessions \cup {None}]
  OBVIOUS
<1>4. obj' \in [Commands -> Row \cup {None}]
  OBVIOUS
<1>5. ctx' \in [Commands -> Ctx]
  <2>1. "chat" \in Routes
    BY DEF Routes
  <2> QED BY <2>1, NewCtxType
<1> QED BY <1>1, <1>2, <1>3, <1>4, <1>5

LEMMA HandleType ==
  ASSUME TypeOK, NEW c \in Commands, NEW s \in Sessions, Handle(c, s)
  PROVE  TypeOK'
<1> USE DEF TypeOK, Save
<1>1. CASE NewSession(c, s)
  <2>1. \A mode \in Modes :
          [mode |-> mode, msgs |-> <<>>, active |-> None, last |-> None, cfg |-> None] \in Row
    BY DEF Row
  <2> QED BY <1>1, <2>1 DEF NewSession, Reply, Places
<1>2. CASE SendMessage(c, s)
  <2>1. store[s] \in Row
    BY <1>2 DEF SendMessage, Receive
  <2>2. PICK route \in Routes : BeginTurn(c, s, store[s], TRUE, route)
    BY <1>2 DEF SendMessage, Routes
  <2> QED BY <1>2, <2>1, <2>2, BeginTurnType DEF SendMessage
<1>3. CASE EditMessage(c, s)
  <2>1. store[s] \in Row
    BY <1>3 DEF EditMessage, Receive
  <2>2. \A i \in 1..Len(store[s].msgs) : SubSeq(store[s].msgs, 1, i - 1) \in Seq(Message)
    BY <2>1 DEF Row
  <2>3. \A i \in 1..Len(store[s].msgs) :
          [store[s] EXCEPT !.msgs = SubSeq(store[s].msgs, 1, i - 1)] \in Row
    BY <2>1, <2>2, MsgsUpdate
  <2>4. PICK i \in 1..Len(store[s].msgs) :
          Rewrite(c, s, SubSeq(store[s].msgs, 1, i - 1), TRUE)
    BY <1>3 DEF EditMessage
  <2> QED BY <2>3, <2>4, RewriteType
<1>4. CASE Regenerate(c, s)
  <2>1. store[s] \in Row
    BY <1>4 DEF Regenerate, Receive
  <2>2. SubSeq(store[s].msgs, 1, Len(store[s].msgs) - 1) \in Seq(Message)
    BY <2>1, <1>4 DEF Row, Regenerate
  <2>3. [store[s] EXCEPT !.msgs = SubSeq(store[s].msgs, 1, Len(store[s].msgs) - 1)] \in Row
    BY <2>1, <2>2, MsgsUpdate
  <2> QED BY <1>4, <2>3, RewriteType DEF Regenerate
<1>5. CASE DeleteMessage(c, s)
  <2>1. store[s] \in Row
    BY <1>5 DEF DeleteMessage, Receive
  <2>2. \A i \in 1..Len(store[s].msgs) : WithoutAt(store[s].msgs, i) \in Seq(Message)
    BY <2>1, WithoutAtType DEF Row
  <2>3. \A i \in 1..Len(store[s].msgs) :
          [store[s] EXCEPT !.msgs = WithoutAt(store[s].msgs, i)] \in Row
    BY <2>1, <2>2, MsgsUpdate
  <2> QED BY <1>5, <2>3 DEF DeleteMessage, Reply, Places
<1>6. CASE CompactSession(c, s)
  <2>1. store[s] \in Row
    BY <1>6 DEF CompactSession, Receive
  <2>2. [store[s] EXCEPT !.msgs = Compacted(store[s].msgs)] \in Row
    BY <2>1, CompactedType, MsgsUpdate DEF Row
  <2> QED BY <1>6, <2>2 DEF CompactSession, Reply, Places
<1>7. CASE ForkSession(c, s)
  BY <1>7 DEF ForkSession, Reply, Places
<1>8. CASE RenameSession(c, s)
  BY <1>8, CfgUpdate DEF RenameSession, Receive, Reply, Places
<1>9. CASE SetModel(c, s)
  <2>1. [store[s] EXCEPT !.cfg = c] \in Row
    BY <1>9, CfgUpdate DEF SetModel, Receive
  <2> DEFINE row == [store[s] EXCEPT !.cfg = c]
  <2>0. /\ store' = store \/ store' = [store EXCEPT ![s] = row]
        /\ obj' = obj \/ obj' = [obj EXCEPT ![c] = row]
    BY <1>9 DEF SetModel, Reply
  <2>a. row \in Row
    BY <2>1
  <2> HIDE DEF row
  <2>2. store' \in [Sessions -> Row \cup {None}] /\ obj' \in [Commands -> Row \cup {None}]
    <3>1. store' \in [Sessions -> Row \cup {None}]
      BY <2>0, <2>a
    <3>2. obj' \in [Commands -> Row \cup {None}]
      BY <2>0, <2>a
    <3> QED BY <3>1, <3>2
  <2>3. pc' \in [Commands -> Places] /\ home' \in [Commands -> Sessions \cup {None}]
    BY <1>9 DEF SetModel, Reply, Places, Waiting
  <2>4. ctx' = ctx
    BY <1>9 DEF SetModel, Reply
  <2> QED BY <1>9, <2>2, <2>3, <2>4 DEF SetModel
<1>10. CASE DeleteSession(c, s)
  BY <1>10 DEF DeleteSession, Erase, Reply, Places
<1>11. CASE ResumeSession(c, s)
  <2>1. store[s] \in Row /\ store[s].active \in Commands
    BY <1>11 DEF ResumeSession, Receive, Row
  <2>2. [store[s] EXCEPT !.active = None,
           !.last = [trace |-> store[s].active, status |-> "interrupted"]] \in Row
    BY <2>1, RepairUpdate DEF Statuses
  <2>3. pc' \in [Commands -> Places]
    BY <1>11 DEF ResumeSession, Repair, Places, Waiting
  <2>4. store' \in [Sessions -> Row \cup {None}] /\ obj' \in [Commands -> Row \cup {None}]
    BY <1>11, <2>2 DEF ResumeSession, Repair
  <2> QED BY <1>11, <2>3, <2>4 DEF ResumeSession, Repair
<1>12. CASE CancelTurn(c, s)
  BY <1>12 DEF CancelTurn, Reply, Places
<1> QED
  BY <1>1, <1>2, <1>3, <1>4, <1>5, <1>6, <1>7, <1>8, <1>9, <1>10, <1>11, <1>12 DEF Handle

LEMMA EmittedType ==
  ASSUME TypeOK, NEW s \in Sessions, NEW t, NEW status \in Statuses
  PROVE  [ended EXCEPT ![s][t] = @ \cup {status}] \in [Sessions -> [Commands -> SUBSET Statuses]]
<1>1. [ended[s] EXCEPT ![t] = @ \cup {status}] \in [Commands -> SUBSET Statuses]
  <2>1. ended[s] \in [Commands -> SUBSET Statuses]
    BY DEF TypeOK
  <2>2. CASE t \in Commands
    BY <2>1, <2>2
  <2>3. CASE t \notin Commands
    <3>1. [ended[s] EXCEPT ![t] = @ \cup {status}] = ended[s]
      BY <2>1, <2>3
    <3> QED BY <2>1, <3>1
  <2> QED BY <2>2, <2>3
<1> QED BY <1>1 DEF TypeOK

\* The events of a turn stay of their types.
LEMMA PersistsType ==
  ASSUME TypeOK, NEW t \in Commands, home[t] \in Sessions, NEW e \in TurnEvents, Persists(t, e)
  PROVE  ended' \in [Sessions -> [Commands -> SUBSET Statuses]] /\ late' \in [Commands -> Nat]
<1>1. ended' \in [Sessions -> [Commands -> SUBSET Statuses]]
  <2>1. CASE e \in Statuses
    BY <2>1, EmittedType DEF Persists
  <2>2. CASE e \notin Statuses
    BY <2>2 DEF Persists, TypeOK
  <2> QED BY <2>1, <2>2
<1>2. late' \in [Commands -> Nat]
  BY DEF Persists, TypeOK
<1> QED BY <1>1, <1>2

LEMMA TearsType ==
  ASSUME TypeOK, NEW t \in Commands, TearsEmit(t)
  PROVE  torn' \in [Commands -> SUBSET TurnEvents] /\ UNCHANGED <<ended, late>>
<1>1. Emitting(t) \in TurnEvents
  BY DEF Emitting, Outcome, TurnEvents
<1> QED BY <1>1 DEF TearsEmit, Tears, TypeOK

LEMMA ContinueType ==
  ASSUME TypeOK, Held, NEW c \in Commands, ContinueHandler(c)
  PROVE  TypeOK'
<1> USE DEF TypeOK
<1>1. pc[c] \in Waiting => home[c] \in Sessions /\ obj[c] \in Row
  BY DEF Held
<1>2. CASE StartRewritten(c)
  <2>1. ctx[c].append \in BOOLEAN /\ "chat" \in Routes
    BY DEF Ctx, Routes
  <2> QED BY <1>1, <1>2, <2>1, BeginTurnType DEF StartRewritten, Waiting
<1>3. CASE RefuseRewritten(c)
  BY <1>3, NoCtxType DEF RefuseRewritten, Return, Places
<1>4. CASE SaveModel(c)
  BY <1>1, <1>4, NoCtxType DEF SaveModel, Return, Save, Places, Waiting
<1>5. CASE ReportInterrupted(c)
  <2>1. home[c] \in Sessions /\ "interrupted" \in Statuses
    BY <1>1, <1>5 DEF ReportInterrupted, Waiting, Statuses
  <2>2. ended' \in [Sessions -> [Commands -> SUBSET Statuses]]
    BY <1>5, <2>1, EmittedType DEF ReportInterrupted
  <2> QED BY <1>5, <2>2, NoCtxType DEF ReportInterrupted, Return, Places
<1> QED BY <1>2, <1>3, <1>4, <1>5 DEF ContinueHandler

LEMMA SaidType ==
  ASSUME NEW row \in Row, NEW role \in {"user", "assistant", "partial"}, NEW t \in Commands
  PROVE  Append(row.msgs, Said(role, t)) \in Seq(Message)
<1>1. row.msgs \in Seq(Message) /\ Said(role, t) \in Message
  BY SaidMessage DEF Row
<1> QED BY <1>1

LEMMA FinishType ==
  ASSUME TypeOK, Held, NEW t \in Commands, pc[t] \in Live, NEW status \in Statuses,
         Finish(t, status)
  PROVE  /\ store' \in [Sessions -> Row \cup {None}]
         /\ locked' \in SUBSET Sessions
         /\ tasks' \in [Sessions -> Commands \cup {None}]
         /\ pc' \in [Commands -> Places]
         /\ obj' \in [Commands -> Row \cup {None}]
         /\ ctx' \in [Commands -> Ctx]
<1> USE DEF TypeOK, Finish, Leave, Goto
<1>1. obj[t] \in Row
  BY DEF Held
<1> DEFINE partial == ctx[t].route # "study" /\ ctx[t].capture /\ ~ctx[t].saved
           kept == IF partial THEN Append(obj[t].msgs, Said("partial", t)) ELSE obj[t].msgs
           mark == IF obj[t].active = t THEN None ELSE obj[t].active
<1>2. kept \in Seq(Message)
  BY <1>1, SaidType DEF Row
<1>3. mark \in Commands \cup {None}
  BY <1>1 DEF Row
<1> HIDE DEF kept, mark
<1>4. [obj[t] EXCEPT !.msgs = kept, !.active = mark,
                     !.last = [trace |-> t, status |-> status]] \in Row
  BY <1>1, <1>2, <1>3, FinishUpdate
<1>5. store' \in [Sessions -> Row \cup {None}]
  BY <1>4 DEF Save, kept, mark
<1> QED BY <1>5, NoCtxType DEF Places

LEMMA AdvanceType ==
  ASSUME TypeOK, Held, NEW t \in Commands,
         AdvanceTurn(t) \/ StreamDelta(t) \/ ResearchProgress(t)
  PROVE  TypeOK'
<1> USE DEF TypeOK, Goto, At
<1>1. pc[t] \in Live => home[t] \in Sessions /\ obj[t] \in Row
  BY DEF Held
<1>2. CASE StartTurn(t)
  <2>1. home[t] \in Sessions /\ obj[t] \in Row
    BY <1>1, <1>2 DEF StartTurn, Live
  <2>2. [obj[t] EXCEPT !.msgs = Append(@, Said("user", t))] \in Row
    BY <2>1, SaidType, MsgsUpdate
  <2> QED BY <1>2, <2>1, <2>2 DEF StartTurn, Save, Places, Live
<1>a. ASSUME pc[t] \in Live, NEW e \in TurnEvents, Emitted(t, e)
      PROVE  /\ ended' \in [Sessions -> [Commands -> SUBSET Statuses]]
             /\ late' \in [Commands -> Nat]
             /\ torn' \in [Commands -> SUBSET TurnEvents]
  BY <1>1, <1>a, PersistsType DEF Emitted
<1>b. "said" \in TurnEvents
  BY DEF TurnEvents
<1>3. CASE EnterTurn(t)
  BY <1>1, <1>3, <1>a, <1>b DEF EnterTurn, Save, Places, Live
<1>4. CASE StreamDelta(t)
  BY <1>4, <1>a, <1>b DEF StreamDelta, Ctx, Live
<1>5. CASE ResearchProgress(t)
  BY <1>1, <1>5 DEF ResearchProgress, Save, Live
<1>6. CASE AnswerTurn(t)
  <2>1. obj[t] \in Row
    BY <1>1, <1>6 DEF AnswerTurn, Live
  <2>2. [obj[t] EXCEPT !.msgs = Append(@, Said("assistant", t))] \in Row
    BY <2>1, SaidType, MsgsUpdate
  <2>3. ctx' \in [Commands -> Ctx]
    BY <1>6 DEF AnswerTurn, Ctx
  <2> QED BY <1>6, <2>2, <2>3 DEF AnswerTurn, Places, Live
<1>7. CASE AnnounceAnswer(t)
  BY <1>7, <1>a, <1>b DEF AnnounceAnswer, Places, Live
<1>8. CASE FailTurn(t)
  BY <1>1, <1>8 DEF FailTurn, SaveResearch, Save, Places, Live
<1>9. CASE ReportFailure(t)
  BY <1>9, <1>a, <1>b DEF ReportFailure, Places, Live
<1>10. CASE AppendTerminal(t)
  <2>1. pc[t] \in Live /\ Outcome[pc[t]] \in TurnEvents
    BY <1>10 DEF AppendTerminal, Outcome, TurnEvents, Live
  <2> QED BY <1>10, <2>1, <1>a DEF AppendTerminal
<1>11. CASE CompleteTurn(t)
  <2>1. pc[t] \in Live /\ Outcome[pc[t]] \in Statuses
    BY <1>11 DEF CompleteTurn, Outcome, Statuses, Live
  <2> QED BY <1>11, <2>1, FinishType DEF CompleteTurn
<1>12. CASE CancelBody(t)
  <2>1. torn' \in [Commands -> SUBSET TurnEvents] /\ UNCHANGED <<ended, late>>
    BY <1>12, TearsType DEF CancelBody
  <2> QED BY <1>1, <1>12, <2>1 DEF CancelBody, SaveResearch, Save, Places, Live
<1>13. CASE CancelHandler(t)
  <2>1. PICK status \in Statuses : Finish(t, status)
    BY <1>13 DEF CancelHandler, Statuses
  <2>2. pc[t] \in Live
    BY <1>13 DEF CancelHandler, Live
  <2>3. torn' \in [Commands -> SUBSET TurnEvents] /\ UNCHANGED <<ended, late>>
    BY <1>13, TearsType DEF CancelHandler
  <2> QED BY <1>13, <2>1, <2>2, <2>3, FinishType DEF CancelHandler
<1>14. CASE CancelUnstarted(t)
  BY <1>14, NoCtxType DEF CancelUnstarted, Leave, Places
<1> QED
  BY <1>2, <1>3, <1>4, <1>5, <1>6, <1>7, <1>8, <1>9, <1>10, <1>11, <1>12, <1>13, <1>14
  DEF AdvanceTurn

LEMMA LandsType ==
  ASSUME TypeOK, NEW t \in Commands, home[t] \in Sessions, TornLands(t)
  PROVE  TypeOK'
<1>1. PICK e \in torn[t] : Persists(t, e) /\ torn' = [torn EXCEPT ![t] = @ \ {e}]
  BY DEF TornLands
<1>2. e \in TurnEvents
  BY DEF TypeOK
<1>3. ended' \in [Sessions -> [Commands -> SUBSET Statuses]] /\ late' \in [Commands -> Nat]
  BY <1>1, <1>2, PersistsType
<1>4. torn' \in [Commands -> SUBSET TurnEvents]
  BY <1>1 DEF TypeOK
<1> QED BY <1>3, <1>4 DEF TornLands, TypeOK

LEMMA ProcessType ==
  ASSUME TypeOK, Crash \/ Shutdown \/ Exit \/ Start
  PROVE  TypeOK'
<1> USE DEF TypeOK
<1>1. ASSUME ProcessEnds PROVE TypeOK'
  <2>1. pc' \in [Commands -> Places]
    BY <1>1 DEF ProcessEnds, Places
  <2> QED BY <1>1, <2>1, NoCtxType DEF ProcessEnds
<1>2. CASE Crash
  BY <1>1, <1>2 DEF Crash
<1>3. CASE Exit
  BY <1>1, <1>3 DEF Exit
<1>4. CASE Shutdown
  BY <1>4 DEF Shutdown
<1>5. CASE Start
  BY <1>5 DEF Start
<1> QED BY <1>2, <1>3, <1>4, <1>5

LEMMA NextType ==
  ASSUME TypeOK, Held, Accounts, [Next]_vars
  PROVE  TypeOK'
<1>1. CASE UNCHANGED vars
  BY <1>1 DEF vars, TypeOK
<1>2. ASSUME NEW t \in Commands, TornLands(t) PROVE TypeOK'
  <2>1. home[t] \in Sessions
    <3>1. PICK e \in torn[t] : Persists(t, e)
      BY <1>2 DEF TornLands
    <3>2. Account(t)
      BY DEF Accounts
    <3> QED BY <3>1, <3>2 DEF Account, TypeOK
  <2> QED BY <1>2, <2>1, LandsType
<1> QED BY <1>1, <1>2, HandleType, ContinueType, AdvanceType, ProcessType DEF Next

-----------------------------------------------------------------------------
(* The inductive invariant.  Every action is one of six kinds of step: a     *)
(* handler returns at once, waits, or returns after its wait; a turn begins, *)
(* moves between two awaits, or leaves; one lemma for each.                  *)

LEMMA InitInd == Init => IndInv
<1> SUFFICES ASSUME Init PROVE IndInv
  OBVIOUS
<1>1. TypeOK
  BY InitType
<1>2. Held /\ LockHasOwner /\ Owned
  BY NoneAssumption DEF Init, Held, LockHasOwner, Owned, Running, Live, Waiting
<1>3. Marks
  BY DEF Init, Marks, Running, Live, Waiting
<1>4. Ends
  BY DEF Init, Ends
<1> QED BY <1>1, <1>2, <1>3, <1>4 DEF IndInv

\* A handler that replies in one step, having replaced the row of s.
LEMMA ReplyStep ==
  ASSUME IndInv, TypeOK', NEW c \in Commands, NEW s \in Sessions, NEW row,
         pc[c] = "unused", Reply(c), Save(s, row), born \subseteq born',
         row # None => row \in Row /\ s \in born' /\ MarkedAt(row, s, Live \cup Killed),
         UNCHANGED <<locked, tasks>>,
         \A x \in Sessions, t \in Commands : ended'[x][t] \subseteq ended[x][t]
  PROVE  IndInv'
<1> USE DEF IndInv, TypeOK, Reply, Save
<1>1. Held'
  BY DEF Held, Live, Waiting
<1>2. LockHasOwner' /\ Owned'
  BY DEF LockHasOwner, Owned, Running, Live
<1>3. Marks'
  <2>1. ASSUME NEW x \in Sessions, store'[x] # None
        PROVE  MarkedAt(store[x], x, Live \cup Killed)'
    <3>1. CASE x = s
      <4>1. row \in Row /\ MarkedAt(row, s, Live \cup Killed) /\ store'[x] = row
        BY <2>1, <3>1
      <4>2. row.active \in Commands \cup {None}
        BY <4>1 DEF Row
      <4> QED BY <3>1, <4>1, <4>2 DEF MarkedAt, Begun, Live, Killed
    <3>2. CASE x # s
      <4>1. store[x] \in Row /\ MarkedAt(store[x], x, Live \cup Killed) /\ store'[x] = store[x]
        BY <2>1, <3>2 DEF Marks
      <4>2. store[x].active \in Commands \cup {None}
        BY <4>1 DEF Row
      <4> QED BY <4>1, <4>2 DEF MarkedAt, Begun, Live, Killed
    <3> QED BY <3>1, <3>2
  <2>2. ASSUME NEW d \in Commands, pc'[d] \in Waiting
        PROVE  MarkedAt(obj[d], home[d], Killed)'
    <3>1. obj[d] \in Row /\ MarkedAt(obj[d], home[d], Killed)
      BY <2>2 DEF Marks, Held, Waiting
    <3>2. obj[d].active \in Commands \cup {None}
      BY <3>1 DEF Row
    <3> QED BY <3>1, <3>2 DEF MarkedAt, Begun, Live, Killed
  <2>3. \A t \in Commands : Running(t)' => obj'[t].active = t
    BY DEF Marks, Running, Live
  <2> QED BY <2>1, <2>2, <2>3 DEF Marks
<1>4. Ends'
  BY DEF Ends, Begun, Terminal, Live, Killed, Outcome
<1> QED BY <1>1, <1>2, <1>3, <1>4

\* A handler that stops at an await with the object it works on.
LEMMA WaitStep ==
  ASSUME IndInv, TypeOK', NEW c \in Commands, NEW s \in Sessions, NEW row \in Row,
         NEW place \in Waiting,
         pc[c] = "unused", s \in born, MarkedAt(row, s, Killed),
         pc' = [pc EXCEPT ![c] = place], home' = [home EXCEPT ![c] = s],
         obj' = [obj EXCEPT ![c] = row],
         UNCHANGED store \/ Save(s, row),
         place = "reporting" =>
           /\ row.last.trace \in Commands
           /\ pc[row.last.trace] \in Begun
           /\ home[row.last.trace] = s => pc[row.last.trace] \in Killed,
         UNCHANGED <<born, locked, tasks, ended>>
  PROVE  IndInv'
<1> USE DEF IndInv, TypeOK, Save
<1>1. Held'
  BY DEF Held, Live, Waiting
<1>2. LockHasOwner' /\ Owned'
  BY DEF LockHasOwner, Owned, Running, Live, Waiting
<1>3. Marks'
  <2>0. row.active \in Commands \cup {None}
    BY DEF Row
  <2>1. ASSUME NEW x \in Sessions, store'[x] # None
        PROVE  MarkedAt(store[x], x, Live \cup Killed)'
    <3>1. CASE store'[x] = row /\ x = s
      BY <3>1, <2>0 DEF MarkedAt, Begun, Live, Killed
    <3>2. CASE store'[x] = store[x]
      <4>1. store[x] \in Row /\ MarkedAt(store[x], x, Live \cup Killed)
        BY <2>1, <3>2 DEF Marks
      <4>2. store[x].active \in Commands \cup {None}
        BY <4>1 DEF Row
      <4> QED BY <3>2, <4>1, <4>2 DEF MarkedAt, Begun, Live, Killed
    <3> QED BY <3>1, <3>2
  <2>2. ASSUME NEW d \in Commands, pc'[d] \in Waiting
        PROVE  MarkedAt(obj[d], home[d], Killed)'
    <3>1. CASE d = c
      BY <3>1, <2>0 DEF MarkedAt, Begun, Live, Killed
    <3>2. CASE d # c
      <4>1. obj[d] \in Row /\ MarkedAt(obj[d], home[d], Killed)
        BY <2>2, <3>2 DEF Marks, Held
      <4>2. obj[d].active \in Commands \cup {None}
        BY <4>1 DEF Row
      <4> QED BY <3>2, <4>1, <4>2 DEF MarkedAt, Begun, Live, Killed
    <3> QED BY <3>1, <3>2
  <2>3. \A t \in Commands : Running(t)' => obj'[t].active = t
    BY DEF Marks, Running, Live, Waiting
  <2> QED BY <2>1, <2>2, <2>3 DEF Marks
<1>4. Ends'
  <2>1. ASSUME NEW x \in Sessions, NEW t \in Commands, ended'[x][t] # {}
        PROVE  /\ pc'[t] \in Begun
               /\ home'[t] = x => pc'[t] \in Terminal
               /\ "interrupted" \in ended'[x][t] /\ home'[t] = x => pc'[t] \in Killed
    BY <2>1 DEF Ends, Begun, Terminal, Live, Killed, Outcome
  <2>2. ASSUME NEW d \in Commands, pc'[d] = "reporting"
        PROVE  /\ obj'[d].last.trace \in Commands
               /\ pc'[obj'[d].last.trace] \in Begun
               /\ home'[obj'[d].last.trace] = home'[d] => pc'[obj'[d].last.trace] \in Killed
    BY <2>2 DEF Ends, Begun, Live, Killed
  <2> QED BY <2>1, <2>2 DEF Ends
<1> QED BY <1>1, <1>2, <1>3, <1>4

\* A handler that returns after its wait.
LEMMA ReturnStep ==
  ASSUME IndInv, TypeOK', NEW c \in Commands, NEW place \in {"replied", "refused"},
         pc[c] \in Waiting, Return(c, place),
         UNCHANGED store \/ Save(home[c], obj[c]),
         \/ UNCHANGED ended
         \/ /\ pc[c] = "reporting"
            /\ ended' = [ended EXCEPT ![home[c]][obj[c].last.trace] = @ \cup {"interrupted"}],
         UNCHANGED <<born, locked, tasks>>
  PROVE  IndInv'
<1> USE DEF IndInv, TypeOK, Save, Return
<1>0. home[c] \in Sessions /\ home[c] \in born /\ obj[c] \in Row
  BY NoneAssumption DEF Held
<1>1. Held'
  BY <1>0 DEF Held, Live, Waiting
<1>2. LockHasOwner' /\ Owned'
  BY DEF LockHasOwner, Owned, Running, Live, Waiting
<1>3. Marks'
  <2>0. obj[c].active \in Commands \cup {None} /\ MarkedAt(obj[c], home[c], Killed)
    BY <1>0 DEF Row, Marks
  <2>1. ASSUME NEW x \in Sessions, store'[x] # None
        PROVE  MarkedAt(store[x], x, Live \cup Killed)'
    <3>1. CASE store'[x] = obj[c] /\ x = home[c]
      BY <3>1, <2>0 DEF MarkedAt, Begun, Live, Killed, Waiting
    <3>2. CASE store'[x] = store[x]
      <4>1. store[x] \in Row /\ MarkedAt(store[x], x, Live \cup Killed)
        BY <2>1, <3>2 DEF Marks
      <4>2. store[x].active \in Commands \cup {None}
        BY <4>1 DEF Row
      <4> QED BY <3>2, <4>1, <4>2 DEF MarkedAt, Begun, Live, Killed, Waiting
    <3> QED BY <1>0, <3>1, <3>2
  <2>2. ASSUME NEW d \in Commands, pc'[d] \in Waiting
        PROVE  MarkedAt(obj[d], home[d], Killed)'
    <3>1. d # c
      BY <2>2 DEF Waiting
    <3>2. obj[d] \in Row /\ MarkedAt(obj[d], home[d], Killed)
      BY <2>2, <3>1 DEF Marks, Held
    <3>3. obj[d].active \in Commands \cup {None}
      BY <3>2 DEF Row
    <3> QED BY <3>1, <3>2, <3>3 DEF MarkedAt, Begun, Live, Killed, Waiting
  <2>3. \A t \in Commands : Running(t)' => obj'[t].active = t
    BY DEF Marks, Running, Live
  <2> QED BY <2>1, <2>2, <2>3 DEF Marks
<1>4. Ends'
  <2>1. ASSUME NEW x \in Sessions, NEW t \in Commands, ended'[x][t] # {}
        PROVE  /\ pc'[t] \in Begun
               /\ home'[t] = x => pc'[t] \in Terminal
               /\ "interrupted" \in ended'[x][t] /\ home'[t] = x => pc'[t] \in Killed
    <3>1. CASE ended'[x][t] = ended[x][t]
      BY <2>1, <3>1 DEF Ends, Begun, Terminal, Live, Killed, Outcome, Waiting
    <3>2. CASE pc[c] = "reporting" /\ x = home[c] /\ t = obj[c].last.trace
      BY <3>2 DEF Ends, Begun, Terminal, Live, Killed, Outcome, Waiting
    <3> QED BY <1>0, <3>1, <3>2
  <2>2. ASSUME NEW d \in Commands, pc'[d] = "reporting"
        PROVE  /\ obj'[d].last.trace \in Commands
               /\ pc'[obj'[d].last.trace] \in Begun
               /\ home'[obj'[d].last.trace] = home'[d] => pc'[obj'[d].last.trace] \in Killed
    BY <2>2 DEF Ends, Begun, Live, Killed, Waiting
  <2> QED BY <2>1, <2>2 DEF Ends
<1> QED BY <1>1, <1>2, <1>3, <1>4

\* A turn begins in an idle session.
LEMMA BeginStep ==
  ASSUME IndInv, TypeOK', NEW c \in Commands, NEW s \in Sessions, NEW session \in Row,
         NEW append \in BOOLEAN, NEW route,
         pc[c] \in {"unused", "rewritten"}, s \in born, Idle(s),
         BeginTurn(c, s, session, append, route), UNCHANGED <<born, ended>>
  PROVE  IndInv'
<1> USE DEF IndInv, TypeOK, Save
<1> DEFINE marked == [session EXCEPT !.active = c]
<1>0. /\ marked \in Row
      /\ marked.active = c
      /\ store' = [store EXCEPT ![s] = marked]
      /\ obj' = [obj EXCEPT ![c] = marked]
      /\ pc' = [pc EXCEPT ![c] = "created"]
      /\ home' = [home EXCEPT ![c] = s]
      /\ tasks' = [tasks EXCEPT ![s] = c]
      /\ locked' = locked \cup {s}
  BY MarkUpdate DEF BeginTurn
<1> HIDE DEF marked
<1>1. Held'
  BY <1>0, NoneAssumption DEF Held, Live, Waiting
<1>2. LockHasOwner'
  BY <1>0, NoneAssumption DEF LockHasOwner, Live
<1>3. Owned'
  <2>1. \A t \in Commands : Running(t) => home[t] # s /\ home[t] \in Sessions
    BY NoneAssumption DEF Owned, Running, Idle, LockHasOwner, Held
  <2>2. ASSUME NEW t \in Commands, Running(t)'
        PROVE  tasks'[home'[t]] = t
    <3>1. CASE t = c
      BY <1>0, <3>1
    <3>2. CASE t # c
      <4>1. Running(t)
        BY <1>0, <2>2, <3>2 DEF Running
      <4> QED BY <1>0, <2>1, <3>2, <4>1 DEF Owned
    <3> QED BY <3>1, <3>2
  <2> QED BY <2>2 DEF Owned
<1>4. Marks'
  <2>1. ASSUME NEW x \in Sessions, store'[x] # None
        PROVE  MarkedAt(store[x], x, Live \cup Killed)'
    <3>1. CASE x = s
      BY <1>0, <3>1 DEF MarkedAt, Begun, Live, Killed
    <3>2. CASE x # s
      <4>1. store[x] \in Row /\ MarkedAt(store[x], x, Live \cup Killed) /\ store'[x] = store[x]
        BY <1>0, <2>1, <3>2 DEF Marks
      <4>2. store[x].active \in Commands \cup {None}
        BY <4>1 DEF Row
      <4> QED BY <1>0, <4>1, <4>2 DEF MarkedAt, Begun, Live, Killed
    <3> QED BY <3>1, <3>2
  <2>2. ASSUME NEW d \in Commands, pc'[d] \in Waiting
        PROVE  MarkedAt(obj[d], home[d], Killed)'
    <3>0. d # c /\ pc[d] \in Waiting
      BY <1>0, <2>2 DEF Waiting
    <3>1. obj[d] \in Row /\ MarkedAt(obj[d], home[d], Killed) /\ obj'[d] = obj[d] /\ home'[d] = home[d]
      BY <1>0, <3>0 DEF Marks, Held
    <3>2. obj[d].active \in Commands \cup {None}
      BY <3>1 DEF Row
    <3> QED BY <1>0, <3>0, <3>1, <3>2 DEF MarkedAt, Begun, Live, Killed
  <2>3. \A t \in Commands : Running(t)' => obj'[t].active = t
    BY <1>0 DEF Marks, Running
  <2> QED BY <2>1, <2>2, <2>3 DEF Marks
<1>5. Ends'
  <2>1. ASSUME NEW x \in Sessions, NEW t \in Commands, ended'[x][t] # {}
        PROVE  /\ pc'[t] \in Begun
               /\ home'[t] = x => pc'[t] \in Terminal
               /\ "interrupted" \in ended'[x][t] /\ home'[t] = x => pc'[t] \in Killed
    <3>1. ended[x][t] # {} /\ ended'[x][t] = ended[x][t]
      BY <2>1
    <3>2. t # c
      BY <3>1 DEF Ends, Begun, Live, Killed
    <3> QED BY <1>0, <3>1, <3>2 DEF Ends
  <2>2. ASSUME NEW d \in Commands, pc'[d] = "reporting"
        PROVE  /\ obj'[d].last.trace \in Commands
               /\ pc'[obj'[d].last.trace] \in Begun
               /\ home'[obj'[d].last.trace] = home'[d] => pc'[obj'[d].last.trace] \in Killed
    <3>1. d # c /\ pc[d] = "reporting" /\ obj'[d] = obj[d] /\ home'[d] = home[d]
      BY <1>0, <2>2
    <3>2. obj[d].last.trace # c /\ obj[d].last.trace \in Commands
      BY <3>1 DEF Ends, Begun, Live, Killed
    <3> QED BY <1>0, <3>1, <3>2 DEF Ends
  <2> QED BY <2>1, <2>2 DEF Ends
<1> QED BY <1>1, <1>2, <1>3, <1>4, <1>5

\* The events a turn emits are those of its own trace, and never interrupted.
LEMMA EmittedOnly ==
  ASSUME TypeOK, NEW t \in Commands, home[t] \in Sessions,
         \/ UNCHANGED ended
         \/ \E said \in TurnEvents : Persists(t, said),
         NEW x \in Sessions, NEW u \in Commands
  PROVE  \/ ended'[x][u] = ended[x][u]
         \/ /\ ~ UNCHANGED ended
            /\ x = home[t] /\ u = t
            /\ "interrupted" \in ended'[x][u] => "interrupted" \in ended[x][u]
<1>1. CASE UNCHANGED ended
  BY <1>1
<1>2. ASSUME NEW said \in TurnEvents, Persists(t, said), ~ UNCHANGED ended
      PROVE  \/ ended'[x][u] = ended[x][u]
             \/ /\ x = home[t] /\ u = t
                /\ "interrupted" \in ended'[x][u] => "interrupted" \in ended[x][u]
  <2>0. ended' = [ended EXCEPT ![home[t]][t] = @ \cup {said}] /\ said # "interrupted"
    BY <1>2 DEF Persists, TurnEvents
  <2>1. CASE x = home[t] /\ u = t
    BY <2>0, <2>1 DEF TypeOK
  <2>2. CASE x = home[t] /\ u # t
    BY <2>0, <2>2 DEF TypeOK
  <2>3. CASE x # home[t]
    BY <2>0, <2>3 DEF TypeOK
  <2> QED BY <2>1, <2>2, <2>3
<1> QED BY <1>1, <1>2

\* A turn goes from one await to the next.
LEMMA MoveStep ==
  ASSUME IndInv, TypeOK', NEW t \in Commands, NEW place \in Live, NEW row \in Row,
         pc[t] \in Live, pc[t] \in Terminal => place \in Terminal,
         pc' = [pc EXCEPT ![t] = place],
         row.active = t, obj' = [obj EXCEPT ![t] = row],
         UNCHANGED store \/ Save(home[t], row),
         \/ UNCHANGED ended
         \/ place \in Terminal /\ \E said \in TurnEvents : Persists(t, said),
         UNCHANGED <<born, locked, tasks, home>>
  PROVE  IndInv'
<1> USE DEF IndInv, TypeOK, Save
<1>0. home[t] \in Sessions /\ home[t] \in born
  BY NoneAssumption DEF Held
<1>1. Held'
  BY <1>0 DEF Held, Live, Waiting
<1>2. LockHasOwner' /\ Owned'
  BY DEF LockHasOwner, Owned, Running
<1>3. Marks'
  <2>1. ASSUME NEW x \in Sessions, store'[x] # None
        PROVE  MarkedAt(store[x], x, Live \cup Killed)'
    <3>1. CASE store'[x] = row /\ x = home[t]
      BY <3>1 DEF MarkedAt, Begun
    <3>2. CASE store'[x] = store[x]
      <4>1. store[x] \in Row /\ MarkedAt(store[x], x, Live \cup Killed)
        BY <2>1, <3>2 DEF Marks
      <4>2. store[x].active \in Commands \cup {None}
        BY <4>1 DEF Row
      <4> QED BY <3>2, <4>1, <4>2 DEF MarkedAt, Begun
    <3> QED BY <1>0, <3>1, <3>2
  <2>2. ASSUME NEW d \in Commands, pc'[d] \in Waiting
        PROVE  MarkedAt(obj[d], home[d], Killed)'
    <3>0. d # t /\ pc[d] \in Waiting
      BY <2>2 DEF Waiting, Live
    <3>1. obj[d] \in Row /\ MarkedAt(obj[d], home[d], Killed)
      BY <3>0 DEF Marks, Held
    <3>2. obj[d].active \in Commands \cup {None} /\ obj[d].active # None => obj[d].active # t \/ home[t] # home[d]
      BY <3>1 DEF Row, MarkedAt, Killed, Live
    <3> QED BY <3>0, <3>1, <3>2 DEF MarkedAt, Begun
  <2>3. \A u \in Commands : Running(u)' => obj'[u].active = u
    BY DEF Marks, Running
  <2> QED BY <2>1, <2>2, <2>3 DEF Marks
<1>4. Ends'
  <2>1. ASSUME NEW x \in Sessions, NEW u \in Commands, ended'[x][u] # {}
        PROVE  /\ pc'[u] \in Begun
               /\ home'[u] = x => pc'[u] \in Terminal
               /\ "interrupted" \in ended'[x][u] /\ home'[u] = x => pc'[u] \in Killed
    <3>1. CASE ended'[x][u] = ended[x][u]
      <4>1. /\ pc[u] \in Begun
            /\ home[u] = x => pc[u] \in Terminal
            /\ "interrupted" \in ended[x][u] /\ home[u] = x => pc[u] \in Killed
        BY <2>1, <3>1 DEF Ends
      <4> QED BY <3>1, <4>1 DEF Begun, Killed, Live
    <3>2. CASE /\ x = home[t] /\ u = t /\ place \in Terminal
               /\ "interrupted" \in ended'[x][u] => "interrupted" \in ended[x][u]
      BY <3>2 DEF Ends, Begun, Killed, Live
    <3>3. ended'[x][u] = ended[x][u] \/
            /\ x = home[t] /\ u = t /\ place \in Terminal
            /\ "interrupted" \in ended'[x][u] => "interrupted" \in ended[x][u]
      BY <1>0, EmittedOnly
    <3> QED BY <3>1, <3>2, <3>3
  <2>2. ASSUME NEW d \in Commands, pc'[d] = "reporting"
        PROVE  /\ obj'[d].last.trace \in Commands
               /\ pc'[obj'[d].last.trace] \in Begun
               /\ home'[obj'[d].last.trace] = home'[d] => pc'[obj'[d].last.trace] \in Killed
    <3>1. d # t /\ pc[d] = "reporting" /\ obj'[d] = obj[d]
      BY <2>2 DEF Live
    <3> QED BY <3>1 DEF Ends, Begun, Live, Killed
  <2> QED BY <2>1, <2>2 DEF Ends
<1> QED BY <1>1, <1>2, <1>3, <1>4

\* The finally block: the turn is over and its session free.
LEMMA FinishStep ==
  ASSUME IndInv, TypeOK', NEW t \in Commands, pc[t] \in Live,
         NEW status \in Statuses, Finish(t, status),
         UNCHANGED <<born, home, ended>>
  PROVE  IndInv'
<1> USE DEF IndInv, TypeOK
<1>0. home[t] \in Sessions /\ home[t] \in born /\ obj[t] \in Row /\ obj[t].active = t
  BY NoneAssumption DEF Held, Marks, Running
<1> DEFINE partial == ctx[t].route # "study" /\ ctx[t].capture /\ ~ctx[t].saved
           kept == IF partial THEN Append(obj[t].msgs, Said("partial", t)) ELSE obj[t].msgs
           final == [obj[t] EXCEPT !.msgs = kept, !.active = None,
                                   !.last = [trace |-> t, status |-> status]]
<1>a. kept \in Seq(Message)
  BY <1>0, SaidType DEF Row
<1> HIDE DEF kept
<1>b. final \in Row /\ final.active = None
  <2> HIDE DEF TypeOK, IndInv
  <2>1. DOMAIN obj[t] = {"mode", "msgs", "active", "last", "cfg"}
    BY <1>0 DEF Row
  <2>2. final.active = None
    BY <2>1
  <2>3. final \in Row
    BY <1>0, <1>a DEF Row
  <2> QED BY <2>2, <2>3
<1>c. store' = [store EXCEPT ![home[t]] = final]
  BY <1>0 DEF Finish, Save, kept
<1>d. /\ locked' = locked \ {home[t]}
      /\ tasks' = [tasks EXCEPT ![home[t]] = None]
      /\ pc' = [pc EXCEPT ![t] = "done"]
      /\ obj' = [obj EXCEPT ![t] = None]
  BY DEF Finish, Leave, Goto
<1> HIDE DEF final
<1>1. Held'
  BY <1>0, <1>b, <1>c, <1>d DEF Held, Live, Waiting
<1>2. LockHasOwner'
  BY <1>0, <1>d, NoneAssumption DEF LockHasOwner, Live
<1>3. Owned'
  <2>1. ASSUME NEW u \in Commands, Running(u)'
        PROVE  tasks'[home'[u]] = u
    <3>1. u # t /\ Running(u)
      BY <1>d, <2>1 DEF Running, Live
    <3>2. tasks[home[u]] = u /\ tasks[home[t]] = t /\ home[u] \in Sessions
      BY <3>1 DEF Owned, Running, Held
    <3> QED BY <1>d, <3>1, <3>2
  <2> QED BY <2>1 DEF Owned
<1>4. Marks'
  <2>1. ASSUME NEW x \in Sessions, store'[x] # None
        PROVE  MarkedAt(store[x], x, Live \cup Killed)'
    <3>1. CASE x = home[t]
      BY <1>b, <1>c, <3>1 DEF MarkedAt
    <3>2. CASE x # home[t]
      <4>1. store[x] \in Row /\ MarkedAt(store[x], x, Live \cup Killed) /\ store'[x] = store[x]
        BY <1>c, <2>1, <3>2 DEF Marks
      <4>2. store[x].active \in Commands \cup {None}
        BY <4>1 DEF Row
      <4> QED BY <1>d, <3>2, <4>1, <4>2 DEF MarkedAt, Begun
    <3> QED BY <3>1, <3>2
  <2>2. ASSUME NEW d \in Commands, pc'[d] \in Waiting
        PROVE  MarkedAt(obj[d], home[d], Killed)'
    <3>0. d # t /\ pc[d] \in Waiting /\ obj'[d] = obj[d]
      BY <1>d, <2>2 DEF Waiting
    <3>1. obj[d] \in Row /\ MarkedAt(obj[d], home[d], Killed)
      BY <3>0 DEF Marks, Held
    <3>2. obj[d].active \in Commands \cup {None} /\ obj[d].active # None => obj[d].active # t \/ home[t] # home[d]
      BY <3>1 DEF Row, MarkedAt, Killed, Live
    <3> QED BY <1>d, <3>0, <3>1, <3>2 DEF MarkedAt, Begun
  <2>3. \A u \in Commands : Running(u)' => obj'[u].active = u
    BY <1>d DEF Marks, Running, Live
  <2> QED BY <2>1, <2>2, <2>3 DEF Marks
<1>5. Ends'
  <2>1. ASSUME NEW x \in Sessions, NEW u \in Commands, ended'[x][u] # {}
        PROVE  /\ pc'[u] \in Begun
               /\ home'[u] = x => pc'[u] \in Terminal
               /\ "interrupted" \in ended'[x][u] /\ home'[u] = x => pc'[u] \in Killed
    <3>1. /\ pc[u] \in Begun
          /\ home[u] = x => pc[u] \in Terminal
          /\ "interrupted" \in ended[x][u] /\ home[u] = x => pc[u] \in Killed
      BY <2>1 DEF Ends
    <3> QED BY <1>d, <3>1 DEF Begun, Terminal, Killed, Live
  <2>2. ASSUME NEW d \in Commands, pc'[d] = "reporting"
        PROVE  /\ obj'[d].last.trace \in Commands
               /\ pc'[obj'[d].last.trace] \in Begun
               /\ home'[obj'[d].last.trace] = home'[d] => pc'[obj'[d].last.trace] \in Killed
    <3>1. d # t /\ pc[d] = "reporting" /\ obj'[d] = obj[d]
      BY <1>d, <2>2
    <3> QED BY <1>d, <3>1 DEF Ends, Begun, Live, Killed
  <2> QED BY <2>1, <2>2 DEF Ends
<1> QED BY <1>1, <1>2, <1>3, <1>4, <1>5

\* Turns are killed, and waiting handlers lost, where they stand: every turn
\* of a session that stays locked was cancelled before its first step.
LEMMA KillStep ==
  ASSUME IndInv, TypeOK', NEW Dead \in SUBSET Commands, NEW place \in Killed,
         \A c \in Dead : pc[c] \in Live \cup Waiting,
         pc' = [c \in Commands |-> IF c \notin Dead THEN pc[c]
                                   ELSE IF pc[c] \in Live THEN place ELSE "lost"],
         \A c \in Commands \ Dead : pc[c] \in Live \cup Waiting => obj'[c] = obj[c],
         \A c \in Commands : home'[c] = home[c] \/ (home'[c] = None /\ pc[c] \in Waiting /\ c \in Dead),
         \/ /\ \A c \in Commands : pc[c] \in Live \cup Waiting => c \in Dead
            /\ locked' = {}
            /\ tasks' = [s \in Sessions |-> None]
         \/ /\ \A c \in Dead : pc[c] \in Live
            /\ place = "strangled"
            /\ UNCHANGED <<locked, tasks>>,
         UNCHANGED <<store, born, ended>>
  PROVE  IndInv'
<1> USE DEF IndInv, TypeOK
<1>0. \A c \in Commands : /\ pc'[c] \in Live \cup Waiting => c \notin Dead /\ pc[c] = pc'[c]
                          /\ pc[c] \in Begun => pc'[c] \in Begun /\ home'[c] = home[c]
                          /\ pc[c] \in Killed => pc'[c] \in Killed
                          /\ pc[c] \in Terminal => pc'[c] \in Terminal
                          /\ pc[c] \in Live \cup Killed => pc'[c] \in Live \cup Killed
  BY DEF Live, Waiting, Killed, Begun, Terminal, Outcome
<1>1. Held'
  BY <1>0 DEF Held
<1>2. LockHasOwner' /\ Owned'
  <2>1. CASE /\ \A c \in Commands : pc[c] \in Live \cup Waiting => c \in Dead
             /\ locked' = {}
             /\ tasks' = [s \in Sessions |-> None]
    BY <1>0, <2>1 DEF LockHasOwner, Owned, Running
  <2>2. CASE /\ \A c \in Dead : pc[c] \in Live
             /\ place = "strangled"
             /\ UNCHANGED <<locked, tasks>>
    <3>1. home' = home
      <4>1. \A c \in Commands : home'[c] = home[c]
        BY <2>2 DEF Live, Waiting
      <4> QED BY <4>1
    <3>2. Owned'
      BY <1>0, <2>2, <3>1 DEF Owned, Running
    <3>3. \A c \in Commands :
            pc[c] \in Live \cup {"strangled"} => pc'[c] \in Live \cup {"strangled"}
      BY <2>2 DEF Live
    <3>4. LockHasOwner'
      BY <2>2, <3>1, <3>3, NoneAssumption DEF LockHasOwner
    <3> QED BY <3>2, <3>4
  <2> QED BY <2>1, <2>2
<1>3. Marks'
  <2>1. ASSUME NEW x \in Sessions, store'[x] # None
        PROVE  MarkedAt(store[x], x, Live \cup Killed)'
    <3>1. store[x] \in Row /\ MarkedAt(store[x], x, Live \cup Killed)
      BY <2>1 DEF Marks
    <3>2. store[x].active \in Commands \cup {None}
      BY <3>1 DEF Row
    <3> QED BY <1>0, <3>1, <3>2 DEF MarkedAt
  <2>2. ASSUME NEW d \in Commands, pc'[d] \in Waiting
        PROVE  MarkedAt(obj[d], home[d], Killed)'
    <3>0. d \notin Dead /\ pc[d] \in Waiting /\ obj'[d] = obj[d] /\ home'[d] = home[d]
      BY <1>0, <2>2
    <3>1. obj[d] \in Row /\ MarkedAt(obj[d], home[d], Killed)
      BY <3>0 DEF Marks, Held
    <3>2. obj[d].active \in Commands \cup {None}
      BY <3>1 DEF Row
    <3> QED BY <1>0, <3>0, <3>1, <3>2 DEF MarkedAt
  <2>3. \A u \in Commands : Running(u)' => obj'[u].active = u
    BY <1>0 DEF Marks, Running
  <2> QED BY <2>1, <2>2, <2>3 DEF Marks
<1>4. Ends'
  <2>1. ASSUME NEW x \in Sessions, NEW u \in Commands, ended'[x][u] # {}
        PROVE  /\ pc'[u] \in Begun
               /\ home'[u] = x => pc'[u] \in Terminal
               /\ "interrupted" \in ended'[x][u] /\ home'[u] = x => pc'[u] \in Killed
    BY <1>0, <2>1 DEF Ends
  <2>2. ASSUME NEW d \in Commands, pc'[d] = "reporting"
        PROVE  /\ obj'[d].last.trace \in Commands
               /\ pc'[obj'[d].last.trace] \in Begun
               /\ home'[obj'[d].last.trace] = home'[d] => pc'[obj'[d].last.trace] \in Killed
    <3>1. d \notin Dead /\ pc[d] = "reporting" /\ obj'[d] = obj[d] /\ home'[d] = home[d]
      BY <1>0, <2>2 DEF Waiting
    <3> QED BY <1>0, <3>1 DEF Ends
  <2> QED BY <2>1, <2>2 DEF Ends
<1> QED BY <1>1, <1>2, <1>3, <1>4

-----------------------------------------------------------------------------
(* Every action is one of these steps. *)

\* The turn that the row of an idle session names was killed.
LEMMA IdleMark ==
  ASSUME IndInv, NEW s \in Sessions, store[s] # None, Idle(s)
  PROVE  store[s] \in Row /\ s \in born /\ MarkedAt(store[s], s, Killed)
<1>1. store[s] \in Row /\ s \in born /\ MarkedAt(store[s], s, Live \cup Killed)
  BY DEF IndInv, TypeOK, Held, Marks
<1>2. \A t \in Commands : home[t] = s => pc[t] \notin Live
  BY NoneAssumption DEF IndInv, Owned, Running, LockHasOwner, Idle
<1>3. store[s].active \in Commands \cup {None}
  BY <1>1 DEF Row
<1> QED BY <1>1, <1>2, <1>3 DEF MarkedAt

\* An update that keeps the mark keeps what the mark says.
LEMMA MarkKept ==
  ASSUME NEW row, NEW new, new.active = row.active, NEW s, NEW places,
         MarkedAt(row, s, places)
  PROVE  MarkedAt(new, s, places)
BY DEF MarkedAt

LEMMA HandleInd ==
  ASSUME IndInv, NEW c \in Commands, NEW s \in Sessions, Handle(c, s)
  PROVE  IndInv'
<1>0. TypeOK /\ TypeOK'
  BY HandleType DEF IndInv
<1>a. store[s] # None => store[s] \in Row /\ s \in born /\ MarkedAt(store[s], s, Live \cup Killed)
  BY DEF IndInv, TypeOK, Held, Marks
<1>1. CASE NewSession(c, s)
  <2>1. PICK mode \in Modes :
          Save(s, [mode |-> mode, msgs |-> <<>>, active |-> None, last |-> None, cfg |-> None])
    BY <1>1 DEF NewSession
  <2> DEFINE row == [mode |-> mode, msgs |-> <<>>, active |-> None, last |-> None, cfg |-> None]
  <2>2. row \in Row /\ MarkedAt(row, s, Live \cup Killed)
    BY DEF Row, MarkedAt
  <2>3. /\ pc[c] = "unused" /\ Reply(c) /\ born \subseteq born' /\ s \in born'
        /\ UNCHANGED <<locked, tasks, ended>>
    BY <1>1 DEF NewSession
  <2> HIDE DEF row
  <2>4. Save(s, row)
    BY <2>1 DEF row
  <2> QED BY <1>0, <2>2, <2>3, <2>4, ReplyStep
<1>2. CASE SendMessage(c, s)
  <2>1. /\ store[s] # None /\ pc[c] = "unused" /\ Idle(s)
        /\ UNCHANGED <<born, ended>>
    BY <1>2 DEF SendMessage, Receive
  <2>2. PICK append \in BOOLEAN, route \in Routes : BeginTurn(c, s, store[s], append, route)
    BY <1>2 DEF SendMessage, Routes
  <2> QED BY <1>0, <1>a, <2>1, <2>2, BeginStep
<1>3. CASE EditMessage(c, s)
  <2>1. PICK i \in 1..Len(store[s].msgs) : Rewrite(c, s, SubSeq(store[s].msgs, 1, i - 1), TRUE)
    BY <1>3 DEF EditMessage
  <2> DEFINE row == [store[s] EXCEPT !.msgs = SubSeq(store[s].msgs, 1, i - 1)]
  <2>2. store[s] # None /\ pc[c] = "unused" /\ Idle(s)
    BY <1>3 DEF EditMessage, Receive
  <2>3. store[s] \in Row /\ s \in born /\ MarkedAt(store[s], s, Killed)
    BY <2>2, IdleMark
  <2>4. SubSeq(store[s].msgs, 1, i - 1) \in Seq(Message)
    BY <2>3 DEF Row
  <2>5. row \in Row /\ row.active = store[s].active
    BY <2>3, <2>4, MsgsUpdate
  <2>6. /\ Save(s, row)
        /\ pc' = [pc EXCEPT ![c] = "rewritten"]
        /\ home' = [home EXCEPT ![c] = s]
        /\ obj' = [obj EXCEPT ![c] = row]
        /\ UNCHANGED <<born, locked, tasks, ended>>
    BY <2>1 DEF Rewrite
  <2> HIDE DEF row
  <2>7. MarkedAt(row, s, Killed)
    BY <2>3, <2>5, MarkKept
  <2> QED BY <1>0, <2>2, <2>3, <2>5, <2>6, <2>7, WaitStep DEF Waiting
<1>4. CASE Regenerate(c, s)
  <2> DEFINE msgs == SubSeq(store[s].msgs, 1, Len(store[s].msgs) - 1)
             row == [store[s] EXCEPT !.msgs = msgs]
  <2>2. /\ store[s] # None /\ pc[c] = "unused" /\ Idle(s)
        /\ Rewrite(c, s, msgs, FALSE)
    BY <1>4 DEF Regenerate, Receive
  <2>3. store[s] \in Row /\ s \in born /\ MarkedAt(store[s], s, Killed)
    BY <2>2, IdleMark
  <2>4. msgs \in Seq(Message)
    BY <2>3, <1>4 DEF Row, Regenerate
  <2> HIDE DEF msgs
  <2>5. row \in Row /\ row.active = store[s].active
    BY <2>3, <2>4, MsgsUpdate
  <2>6. /\ Save(s, row)
        /\ pc' = [pc EXCEPT ![c] = "rewritten"]
        /\ home' = [home EXCEPT ![c] = s]
        /\ obj' = [obj EXCEPT ![c] = row]
        /\ UNCHANGED <<born, locked, tasks, ended>>
    BY <2>2 DEF Rewrite
  <2> HIDE DEF row
  <2>7. MarkedAt(row, s, Killed)
    BY <2>3, <2>5, MarkKept
  <2> QED BY <1>0, <2>2, <2>3, <2>5, <2>6, <2>7, WaitStep DEF Waiting
<1>5. CASE DeleteMessage(c, s)
  <2>1. PICK i \in 1..Len(store[s].msgs) :
          Save(s, [store[s] EXCEPT !.msgs = WithoutAt(store[s].msgs, i)])
    BY <1>5 DEF DeleteMessage
  <2> DEFINE row == [store[s] EXCEPT !.msgs = WithoutAt(store[s].msgs, i)]
  <2>2. /\ store[s] # None /\ pc[c] = "unused" /\ Reply(c)
        /\ UNCHANGED <<born, locked, tasks, ended>>
    BY <1>5 DEF DeleteMessage, Receive
  <2>3. WithoutAt(store[s].msgs, i) \in Seq(Message)
    BY <1>a, <2>2, WithoutAtType DEF Row
  <2>4. row \in Row /\ row.active = store[s].active /\ Save(s, row)
    BY <1>a, <2>1, <2>2, <2>3, MsgsUpdate
  <2> HIDE DEF row
  <2>5. MarkedAt(row, s, Live \cup Killed)
    BY <1>a, <2>2, <2>4, MarkKept
  <2> QED BY <1>0, <1>a, <2>2, <2>4, <2>5, ReplyStep
<1>6. CASE CompactSession(c, s)
  <2> DEFINE row == [store[s] EXCEPT !.msgs = Compacted(store[s].msgs)]
  <2>2. /\ store[s] # None /\ pc[c] = "unused" /\ Reply(c) /\ Save(s, row)
        /\ UNCHANGED <<born, locked, tasks, ended>>
    BY <1>6 DEF CompactSession, Receive
  <2>3. Compacted(store[s].msgs) \in Seq(Message)
    BY <1>a, <2>2, CompactedType DEF Row
  <2>4. row \in Row /\ row.active = store[s].active
    BY <1>a, <2>2, <2>3, MsgsUpdate
  <2> HIDE DEF row
  <2>5. MarkedAt(row, s, Live \cup Killed)
    BY <1>a, <2>2, <2>4, MarkKept
  <2> QED BY <1>0, <1>a, <2>2, <2>4, <2>5, ReplyStep
<1>7. CASE ForkSession(c, s)
  <2>1. PICK f \in Sessions \ born : Save(f, store[s]) /\ born' = born \cup {f} /\ Reply(c)
    BY <1>7 DEF ForkSession
  <2>2. store[s] # None /\ pc[c] = "unused" /\ UNCHANGED <<locked, tasks, ended>>
    BY <1>7 DEF ForkSession, Receive
  <2>3. store[s].active \in Commands \cup {None}
    BY <1>a, <2>2 DEF Row
  <2>4. MarkedAt(store[s], f, Live \cup Killed)
    BY <1>a, <2>1, <2>2, <2>3, NoneAssumption DEF MarkedAt, IndInv, Held
  <2> QED BY <1>0, <1>a, <2>1, <2>2, <2>4, ReplyStep
<1>8. CASE RenameSession(c, s)
  <2> DEFINE row == [store[s] EXCEPT !.cfg = c]
  <2>2. /\ store[s] # None /\ pc[c] = "unused" /\ Reply(c) /\ Save(s, row)
        /\ UNCHANGED <<born, locked, tasks, ended>>
    BY <1>8 DEF RenameSession, Receive
  <2>4. row \in Row /\ row.active = store[s].active
    BY <1>a, <2>2, CfgUpdate
  <2> HIDE DEF row
  <2>5. MarkedAt(row, s, Live \cup Killed)
    BY <1>a, <2>2, <2>4, MarkKept
  <2> QED BY <1>0, <1>a, <2>2, <2>4, <2>5, ReplyStep
<1>9. CASE SetModel(c, s)
  <2> DEFINE row == [store[s] EXCEPT !.cfg = c]
  <2>2. /\ store[s] # None /\ pc[c] = "unused" /\ Idle(s)
        /\ UNCHANGED <<born, locked, tasks, ended>>
        /\ \/ Reply(c) /\ Save(s, row)
           \/ /\ pc' = [pc EXCEPT ![c] = "resolving"]
              /\ home' = [home EXCEPT ![c] = s]
              /\ obj' = [obj EXCEPT ![c] = row]
              /\ UNCHANGED store
    BY <1>9 DEF SetModel, Receive
  <2>3. row \in Row /\ row.active = store[s].active
    BY <1>a, <2>2, CfgUpdate
  <2> HIDE DEF row
  <2>4. MarkedAt(row, s, Killed) /\ MarkedAt(row, s, Live \cup Killed)
    BY <1>a, <2>2, <2>3, IdleMark, MarkKept
  <2>5. CASE Reply(c) /\ Save(s, row)
    BY <1>0, <1>a, <2>2, <2>3, <2>4, <2>5, ReplyStep
  <2>6. CASE /\ pc' = [pc EXCEPT ![c] = "resolving"]
             /\ home' = [home EXCEPT ![c] = s]
             /\ obj' = [obj EXCEPT ![c] = row]
             /\ UNCHANGED store
    BY <1>0, <1>a, <2>2, <2>3, <2>4, <2>6, WaitStep DEF Waiting
  <2> QED BY <2>2, <2>5, <2>6
<1>10. CASE DeleteSession(c, s)
  <2>1. /\ pc[c] = "unused" /\ Reply(c) /\ Save(s, None)
        /\ UNCHANGED <<born, locked, tasks>>
    BY <1>10 DEF DeleteSession, Erase, Receive
  <2>2. \A x \in Sessions, t \in Commands : ended'[x][t] \subseteq ended[x][t]
    BY <1>0, <1>10 DEF DeleteSession, Erase, TypeOK
  <2> QED BY <1>0, <2>1, <2>2, ReplyStep
<1>11. CASE ResumeSession(c, s)
  <2> DEFINE row == [store[s] EXCEPT !.active = None,
                       !.last = [trace |-> store[s].active, status |-> "interrupted"]]
  <2>2. /\ store[s] # None /\ store[s].active # None /\ pc[c] = "unused" /\ Idle(s)
        /\ Save(s, row)
        /\ pc' = [pc EXCEPT ![c] = "reporting"]
        /\ home' = [home EXCEPT ![c] = s]
        /\ obj' = [obj EXCEPT ![c] = row]
        /\ UNCHANGED <<born, locked, tasks, ended>>
    BY <1>11 DEF ResumeSession, Repair, Receive
  <2>3. store[s] \in Row /\ s \in born /\ MarkedAt(store[s], s, Killed)
    BY <2>2, IdleMark
  <2>4. store[s].active \in Commands
    BY <2>2, <2>3 DEF Row
  <2>5. row \in Row /\ row.active = None /\ row.last.trace = store[s].active
    BY <2>3, <2>4, RepairUpdate DEF Statuses
  <2> HIDE DEF row
  <2>6. /\ pc[row.last.trace] \in Begun
        /\ home[row.last.trace] = s => pc[row.last.trace] \in Killed
    BY <2>2, <2>3, <2>5 DEF MarkedAt
  <2>7. MarkedAt(row, s, Killed)
    BY <2>5 DEF MarkedAt
  <2> QED BY <1>0, <2>2, <2>3, <2>4, <2>5, <2>6, <2>7, WaitStep DEF Waiting
<1>12. CASE CancelTurn(c, s)
  <2>1. /\ pc[c] = "unused" /\ Reply(c) /\ UNCHANGED <<store, born, locked, tasks, ended>>
    BY <1>12 DEF CancelTurn
  <2>2. Save(s, store[s])
    BY <1>0, <2>1 DEF Save, TypeOK
  <2> QED BY <1>0, <1>a, <2>1, <2>2, ReplyStep
<1> QED
  BY <1>1, <1>2, <1>3, <1>4, <1>5, <1>6, <1>7, <1>8, <1>9, <1>10, <1>11, <1>12 DEF Handle

LEMMA ContinueInd ==
  ASSUME IndInv, NEW c \in Commands, ContinueHandler(c)
  PROVE  IndInv'
<1>0. TypeOK /\ TypeOK'
  BY ContinueType DEF IndInv
<1>1. CASE StartRewritten(c)
  <2>1. pc[c] = "rewritten" /\ Idle(home[c])
        /\ BeginTurn(c, home[c], obj[c], ctx[c].append, "chat")
        /\ UNCHANGED <<born, ended>>
    BY <1>1 DEF StartRewritten
  <2>2. home[c] \in Sessions /\ home[c] \in born /\ obj[c] \in Row
    BY <2>1, NoneAssumption DEF IndInv, Held, Waiting
  <2>3. ctx[c].append \in BOOLEAN
    BY <1>0 DEF TypeOK, Ctx
  <2> QED BY <1>0, <2>1, <2>2, <2>3, BeginStep
<1>2. CASE RefuseRewritten(c)
  BY <1>0, <1>2, ReturnStep DEF RefuseRewritten, Waiting
<1>3. CASE SaveModel(c)
  BY <1>0, <1>3, ReturnStep DEF SaveModel, Waiting
<1>4. CASE ReportInterrupted(c)
  BY <1>0, <1>4, ReturnStep DEF ReportInterrupted, Waiting
<1> QED BY <1>1, <1>2, <1>3, <1>4 DEF ContinueHandler

LEMMA AdvanceInd ==
  ASSUME IndInv, NEW t \in Commands,
         AdvanceTurn(t) \/ StreamDelta(t) \/ ResearchProgress(t)
  PROVE  IndInv'
<1>0. TypeOK /\ TypeOK'
  BY AdvanceType DEF IndInv
<1>a. pc[t] \in Live => /\ home[t] \in Sessions
                        /\ obj[t] \in Row
                        /\ obj[t].active = t
                        /\ obj = [obj EXCEPT ![t] = obj[t]]
                        /\ pc = [pc EXCEPT ![t] = pc[t]]
  BY <1>0 DEF IndInv, Held, Marks, Running, TypeOK
<1>1. CASE StartTurn(t)
  <2> DEFINE row == IF ctx[t].append
                    THEN [obj[t] EXCEPT !.msgs = Append(obj[t].msgs, Said("user", t))]
                    ELSE obj[t]
  <2>1. /\ pc[t] = "created" /\ pc[t] \in Live
        /\ pc' = [pc EXCEPT ![t] = "starting"]
        /\ obj' = [obj EXCEPT ![t] = row] /\ Save(home[t], row)
        /\ UNCHANGED <<born, locked, tasks, home, ended>>
    BY <1>1 DEF StartTurn, At, Goto, Live
  <2>2. row \in Row /\ row.active = t
    BY <1>a, <2>1, SaidType, MsgsUpdate
  <2> HIDE DEF row
  <2>3. "starting" \in Live /\ pc[t] \notin Terminal
    BY <2>1 DEF Live, Terminal, Outcome, Killed
  <2> QED BY <1>0, <2>1, <2>2, <2>3, MoveStep
<1>2. CASE EnterTurn(t)
  <2>0. Emitted(t, "said")
    BY <1>2 DEF EnterTurn
  <2>1. /\ pc[t] \in Live /\ "running" \in Live /\ pc[t] \notin Terminal
        /\ pc' = [pc EXCEPT ![t] = "running"] /\ obj' = obj /\ Save(home[t], obj[t])
        /\ UNCHANGED <<born, locked, tasks, home>>
    BY <1>2 DEF EnterTurn, At, Goto, Live, Terminal, Outcome, Killed
  <2>2. UNCHANGED ended
    BY <2>0 DEF Emitted, Persists, Statuses
  <2> QED BY <1>0, <1>a, <2>1, <2>2, MoveStep
<1>3. CASE StreamDelta(t)
  <2>0. Emitted(t, "said")
    BY <1>3 DEF StreamDelta
  <2>1. pc[t] \in Live /\ pc' = pc /\ obj' = obj
        /\ UNCHANGED <<store, born, locked, tasks, home>>
    BY <1>3 DEF StreamDelta, At, Live
  <2>2. UNCHANGED ended
    BY <2>0 DEF Emitted, Persists, Statuses
  <2> QED BY <1>0, <1>a, <2>1, <2>2, MoveStep
<1>4. CASE ResearchProgress(t)
  <2>1. pc[t] \in Live /\ pc' = pc /\ obj' = obj /\ Save(home[t], obj[t])
        /\ UNCHANGED <<born, locked, tasks, home, ended>>
    BY <1>4 DEF ResearchProgress, At, Live
  <2> QED BY <1>0, <1>a, <2>1, MoveStep
<1>5. CASE AnswerTurn(t)
  <2> DEFINE row == [obj[t] EXCEPT !.msgs = Append(obj[t].msgs, Said("assistant", t))]
  <2>1. /\ pc[t] = "running" /\ pc[t] \in Live
        /\ pc' = [pc EXCEPT ![t] = "answered"]
        /\ obj' = [obj EXCEPT ![t] = row]
        /\ UNCHANGED <<store, born, locked, tasks, home, ended>>
    BY <1>0, <1>5 DEF AnswerTurn, At, Goto, Live, TypeOK
  <2>2. row \in Row /\ row.active = t
    BY <1>a, <2>1, SaidType, MsgsUpdate
  <2> HIDE DEF row
  <2>3. "answered" \in Live /\ pc[t] \notin Terminal
    BY <2>1 DEF Live, Terminal, Outcome, Killed
  <2> QED BY <1>0, <2>1, <2>2, <2>3, MoveStep
<1>6. CASE AnnounceAnswer(t)
  <2>0. Emitted(t, "said")
    BY <1>6 DEF AnnounceAnswer
  <2>1. /\ pc[t] \in Live /\ "completing" \in Live /\ pc[t] \notin Terminal
        /\ pc' = [pc EXCEPT ![t] = "completing"] /\ obj' = obj
        /\ UNCHANGED <<store, born, locked, tasks, home>>
    BY <1>6 DEF AnnounceAnswer, At, Goto, Live, Terminal, Outcome, Killed
  <2>2. UNCHANGED ended
    BY <2>0 DEF Emitted, Persists, Statuses
  <2> QED BY <1>0, <1>a, <2>1, <2>2, MoveStep
<1>7. CASE FailTurn(t)
  <2>1. /\ pc[t] \in Live /\ "failing" \in Live /\ pc[t] \notin Terminal
        /\ pc' = [pc EXCEPT ![t] = "failing"] /\ obj' = obj
        /\ UNCHANGED store \/ Save(home[t], obj[t])
        /\ UNCHANGED <<born, locked, tasks, home, ended>>
    BY <1>7 DEF FailTurn, SaveResearch, At, Goto, Live, Terminal, Outcome, Killed
  <2> QED BY <1>0, <1>a, <2>1, MoveStep
<1>8. CASE ReportFailure(t)
  <2>0. Emitted(t, "said")
    BY <1>8 DEF ReportFailure
  <2>1. /\ pc[t] \in Live /\ "failed" \in Live /\ pc[t] \notin Terminal
        /\ pc' = [pc EXCEPT ![t] = "failed"] /\ obj' = obj
        /\ UNCHANGED <<store, born, locked, tasks, home>>
    BY <1>8 DEF ReportFailure, At, Goto, Live, Terminal, Outcome, Killed
  <2>2. UNCHANGED ended
    BY <2>0 DEF Emitted, Persists, Statuses
  <2> QED BY <1>0, <1>a, <2>1, <2>2, MoveStep
<1>9. CASE AppendTerminal(t)
  <2>1. /\ pc[t] \in Live /\ pc[t] \in Terminal
        /\ Outcome[pc[t]] \in TurnEvents /\ Persists(t, Outcome[pc[t]])
        /\ pc' = pc /\ obj' = obj
        /\ UNCHANGED <<store, born, locked, tasks, home>>
    BY <1>9 DEF AppendTerminal, Emitted, Live, Terminal, Outcome, TurnEvents
  <2> QED BY <1>0, <1>a, <2>1, MoveStep
<1>10. CASE CompleteTurn(t)
  <2>1. /\ pc[t] \in Live /\ Outcome[pc[t]] \in Statuses
        /\ Finish(t, Outcome[pc[t]])
        /\ UNCHANGED <<born, home, ended>>
    BY <1>10 DEF CompleteTurn, Live, Outcome, Statuses
  <2> QED BY <1>0, <2>1, FinishStep
<1>11. CASE CancelBody(t)
  <2>1. /\ pc[t] \in Live /\ "cancelling" \in Live /\ "cancelling" \in Terminal
        /\ pc' = [pc EXCEPT ![t] = "cancelling"] /\ obj' = obj
        /\ UNCHANGED store \/ Save(home[t], obj[t])
        /\ UNCHANGED <<born, locked, tasks, home>>
    BY <1>11 DEF CancelBody, SaveResearch, Goto, Live, Terminal, Outcome
  <2>2. UNCHANGED ended
    BY <1>0, <1>11, TearsType DEF CancelBody
  <2> QED BY <1>0, <1>a, <2>1, <2>2, MoveStep
<1>12. CASE CancelHandler(t)
  <2>1. PICK status \in Statuses : Finish(t, status)
    BY <1>12 DEF CancelHandler, Statuses
  <2>2. pc[t] \in Live /\ UNCHANGED <<born, home>>
    BY <1>12 DEF CancelHandler, Live
  <2>3. UNCHANGED ended
    BY <1>0, <1>12, TearsType DEF CancelHandler
  <2> QED BY <1>0, <2>1, <2>2, <2>3, FinishStep
<1>13. CASE CancelUnstarted(t)
  <2>1. /\ pc[t] = "created" /\ pc[t] \in Live
        /\ pc' = [pc EXCEPT ![t] = "strangled"]
        /\ obj' = [obj EXCEPT ![t] = None]
        /\ UNCHANGED <<store, born, locked, tasks, home, ended>>
    BY <1>13 DEF CancelUnstarted, Leave, Goto, Live
  <2>2. pc' = [c \in Commands |-> IF c \notin {t} THEN pc[c]
                                  ELSE IF pc[c] \in Live THEN "strangled" ELSE "lost"]
    BY <1>0, <2>1 DEF TypeOK
  <2>3. "strangled" \in Killed
    BY DEF Killed
  <2>4. \A c \in Commands \ {t} : obj'[c] = obj[c]
    BY <1>0, <2>1 DEF TypeOK
  <2>5. {t} \in SUBSET Commands /\ \A c \in {t} : pc[c] \in Live
    BY <2>1
  <2> QED BY <1>0, <2>1, <2>2, <2>3, <2>4, <2>5, KillStep
<1> QED
  BY <1>1, <1>2, <1>3, <1>4, <1>5, <1>6, <1>7, <1>8, <1>9, <1>10, <1>11, <1>12, <1>13
  DEF AdvanceTurn

LEMMA ProcessInd ==
  ASSUME IndInv, Crash \/ Shutdown \/ Exit \/ Start
  PROVE  IndInv'
<1>0. TypeOK /\ TypeOK'
  BY ProcessType DEF IndInv
<1>1. ASSUME ProcessEnds PROVE IndInv'
  <2> DEFINE Dead == {c \in Commands : pc[c] \in Live \cup Waiting}
  <2>1. pc' = [c \in Commands |-> IF c \notin Dead THEN pc[c]
                                  ELSE IF pc[c] \in Live THEN "dead" ELSE "lost"]
    BY <1>0, <1>1 DEF ProcessEnds, TypeOK, Live, Waiting
  <2>2. /\ \A c \in Commands : home'[c] = home[c] \/ (home'[c] = None /\ pc[c] \in Waiting /\ c \in Dead)
        /\ locked' = {} /\ tasks' = [s \in Sessions |-> None]
        /\ UNCHANGED <<store, born, ended>>
    BY <1>1 DEF ProcessEnds
  <2>3. /\ Dead \in SUBSET Commands
        /\ \A c \in Dead : pc[c] \in Live \cup Waiting
        /\ \A c \in Commands : pc[c] \in Live \cup Waiting => c \in Dead
        /\ \A c \in Commands \ Dead : pc[c] \in Live \cup Waiting => obj'[c] = obj[c]
        /\ "dead" \in Killed
    BY DEF Killed
  <2> HIDE DEF Dead
  <2> QED BY <1>0, <2>1, <2>2, <2>3, KillStep
<1>2. CASE Crash
  BY <1>1, <1>2 DEF Crash
<1>3. CASE Exit
  BY <1>1, <1>3 DEF Exit
<1>4. ASSUME UNCHANGED <<store, born, locked, tasks, pc, home, obj, ended>> PROVE IndInv'
  <2>1. Held' /\ LockHasOwner' /\ Owned'
    BY <1>4 DEF IndInv, Held, LockHasOwner, Owned, Running
  <2>2. Marks'
    BY <1>4 DEF IndInv, Marks, MarkedAt, Running
  <2>3. Ends'
    BY <1>4 DEF IndInv, Ends
  <2> QED BY <1>0, <2>1, <2>2, <2>3 DEF IndInv
<1>5. CASE Shutdown
  BY <1>4, <1>5 DEF Shutdown
<1>6. CASE Start
  BY <1>4, <1>6 DEF Start
<1> QED BY <1>2, <1>3, <1>5, <1>6

LEMMA StutterInd == IndInv /\ UNCHANGED vars => IndInv'
<1> SUFFICES ASSUME IndInv, UNCHANGED vars PROVE IndInv'
  OBVIOUS
<1>1. TypeOK' /\ Held' /\ LockHasOwner' /\ Owned'
  BY DEF vars, IndInv, TypeOK, Held, LockHasOwner, Owned, Running
<1>2. Marks'
  BY DEF vars, IndInv, Marks, MarkedAt, Running
<1>3. Ends'
  BY DEF vars, IndInv, Ends
<1> QED BY <1>1, <1>2, <1>3 DEF IndInv

\* A torn append that lands adds a status to a turn that is over.
LEMMA LandsInd ==
  ASSUME IndInv, Accounts, NEW t \in Commands, TornLands(t)
  PROVE  IndInv'
<1>1. PICK e \in torn[t] : Persists(t, e)
  BY DEF TornLands
<1>2. e \in TurnEvents /\ home[t] \in Sessions /\ pc[t] \in {"cancelling", "done"}
  BY DEF IndInv, TypeOK, Accounts, Account
<1>3. TypeOK /\ TypeOK'
  BY <1>2, LandsType DEF IndInv
<1>4. UNCHANGED <<store, born, locked, tasks, pc, home, obj>>
  BY DEF TornLands
<1>5. Held' /\ LockHasOwner' /\ Owned'
  BY <1>4 DEF IndInv, Held, LockHasOwner, Owned, Running
<1>6. Marks'
  BY <1>4 DEF IndInv, Marks, MarkedAt, Running
<1>7. Ends'
  <2>1. ASSUME NEW x \in Sessions, NEW u \in Commands, ended'[x][u] # {}
        PROVE  /\ pc'[u] \in Begun
               /\ home'[u] = x => pc'[u] \in Terminal
               /\ "interrupted" \in ended'[x][u] /\ home'[u] = x => pc'[u] \in Killed
    <3>1. CASE ended'[x][u] = ended[x][u]
      BY <1>4, <2>1, <3>1 DEF IndInv, Ends
    <3>2. CASE /\ x = home[t] /\ u = t
               /\ "interrupted" \in ended'[x][u] => "interrupted" \in ended[x][u]
      BY <1>2, <1>4, <3>2 DEF IndInv, Ends, Begun, Live, Terminal, Outcome
    <3> QED BY <1>1, <1>2, <1>3, <3>1, <3>2, EmittedOnly
  <2>2. ASSUME NEW d \in Commands, pc'[d] = "reporting"
        PROVE  /\ obj'[d].last.trace \in Commands
               /\ pc'[obj'[d].last.trace] \in Begun
               /\ home'[obj'[d].last.trace] = home'[d] => pc'[obj'[d].last.trace] \in Killed
    BY <1>4, <2>2 DEF IndInv, Ends
  <2> QED BY <2>1, <2>2 DEF Ends
<1> QED BY <1>3, <1>5, <1>6, <1>7 DEF IndInv

-----------------------------------------------------------------------------
(* What is told, torn and late of each turn.                                 *)

\* A command that has begun no turn has no events.
LEMMA NothingTold ==
  ASSUME IndInv, NEW t \in Commands, Account(t), pc[t] \notin Begun
  PROVE  torn[t] = {} /\ late[t] = 0 /\ \A s \in Sessions : ended[s][t] = {}
<1>1. \A s \in Sessions : ended[s][t] = {}
  BY DEF IndInv, Ends
<1>2. OwnEnds(t) = {}
  BY <1>1 DEF OwnEnds, IndInv, TypeOK
<1> QED BY <1>1, <1>2 DEF Account, Begun, Live

LEMMA UntoldAccount ==
  ASSUME TypeOK', NEW t \in Commands, torn'[t] = {}, late'[t] = 0,
         home'[t] # None => ended'[home'[t]][t] = {}
  PROVE  Account(t)'
BY DEF Account, OwnEnds, Ending

\* A turn of which nothing changes but what other sessions say of it.
LEMMA SameAccount ==
  ASSUME NEW t \in Commands, Account(t), torn'[t] = torn[t], late'[t] = late[t],
         OwnEnds(t)' = OwnEnds(t), pc'[t] = pc[t], home'[t] = home[t]
  PROVE  Account(t)'
BY DEF Account

LEMMA HandleAccount ==
  ASSUME IndInv, IndInv', Accounts, NEW c \in Commands, NEW s \in Sessions, Handle(c, s)
  PROVE  Accounts'
<1>0. TypeOK /\ TypeOK'
  BY DEF IndInv
<1>1. /\ pc[c] = "unused"
      /\ \A t \in Commands \ {c} : pc'[t] = pc[t] /\ home'[t] = home[t]
      /\ torn' = torn
      /\ \/ UNCHANGED <<ended, late>>
         \/ UNCHANGED <<home, pc>> /\ Erase(s)
         \/ Erase(s) /\ Reply(c)
  BY <1>0 DEF Handle, NewSession, SendMessage, EditMessage, Regenerate, DeleteMessage,
         CompactSession, ForkSession, RenameSession, SetModel, DeleteSession, ResumeSession,
         CancelTurn, Receive, Reply, Rewrite, Repair, BeginTurn, TypeOK
<1>2. /\ home'[c] \in Sessions \cup {None}
      /\ torn[c] = {} /\ late[c] = 0 /\ \A x \in Sessions : ended[x][c] = {}
  BY <1>0, <1>1, NothingTold DEF Accounts, Begun, Live, Killed, TypeOK
<1>3. CASE UNCHANGED <<ended, late>>
  <2>1. Account(c)'
    BY <1>0, <1>1, <1>2, <1>3, UntoldAccount
  <2>2. ASSUME NEW t \in Commands, t # c PROVE Account(t)'
    BY <1>1, <1>3, <2>2, SameAccount DEF Accounts, OwnEnds
  <2> QED BY <2>1, <2>2 DEF Accounts
<1>4. CASE Erase(s) /\ UNCHANGED <<torn>> /\ home' = home
  <2>0. ended' = [ended EXCEPT ![s] = [u \in Commands |-> {}]]
        /\ late' = [u \in Commands |-> IF home[u] = s THEN 0 ELSE late[u]]
    BY <1>4 DEF Erase
  <2>1. ASSUME NEW t \in Commands, t # c, home[t] # s PROVE Account(t)'
    <3>1. OwnEnds(t)' = OwnEnds(t)
      BY <1>0, <1>1, <2>0, <2>1 DEF OwnEnds, TypeOK
    <3> QED BY <1>0, <1>1, <2>0, <2>1, <3>1, SameAccount DEF Accounts
  <2>2. ASSUME NEW t \in Commands, t # c, home[t] = s PROVE Account(t)'
    <3>1. OwnEnds(t)' = {} /\ late'[t] = 0 /\ torn'[t] = torn[t] /\ pc'[t] = pc[t]
          /\ home'[t] = home[t]
      BY <1>0, <1>1, <1>4, <2>0, <2>2 DEF OwnEnds, TypeOK
    <3>2. Account(t)
      BY DEF Accounts
    <3> QED BY <3>1, <3>2 DEF Account, Ending
  <2>3. Account(c)'
    <3>1. home'[c] # None => ended'[home'[c]][c] = {}
      BY <1>0, <1>2, <2>0 DEF TypeOK
    <3>2. torn'[c] = {} /\ late'[c] = 0
      BY <1>2, <1>4, <2>0
    <3> QED BY <1>0, <3>1, <3>2, UntoldAccount
  <2> QED BY <2>1, <2>2, <2>3 DEF Accounts
<1> QED BY <1>1, <1>3, <1>4 DEF Reply

LEMMA ContinueAccount ==
  ASSUME IndInv, IndInv', Accounts, NEW c \in Commands, ContinueHandler(c)
  PROVE  Accounts'
<1>0. TypeOK /\ TypeOK'
  BY DEF IndInv
<1>1. /\ pc[c] \in Waiting
      /\ \A t \in Commands \ {c} : pc'[t] = pc[t] /\ home'[t] = home[t]
      /\ UNCHANGED <<torn, late>>
      /\ \/ UNCHANGED ended
         \/ /\ pc[c] = "reporting"
            /\ home' = [home EXCEPT ![c] = None]
            /\ ended' = [ended EXCEPT ![home[c]][obj[c].last.trace] = @ \cup {"interrupted"}]
  BY <1>0 DEF ContinueHandler, StartRewritten, RefuseRewritten, SaveModel, ReportInterrupted,
         Return, BeginTurn, Waiting, TypeOK
<1>2. /\ home'[c] \in Sessions \cup {None}
      /\ torn[c] = {} /\ late[c] = 0 /\ \A x \in Sessions : ended[x][c] = {}
  BY <1>0, <1>1, NothingTold DEF Accounts, Begun, Live, Killed, Waiting, TypeOK
<1>3. CASE UNCHANGED ended
  <2>1. Account(c)'
    BY <1>0, <1>1, <1>2, <1>3, UntoldAccount
  <2>2. ASSUME NEW t \in Commands, t # c PROVE Account(t)'
    BY <1>1, <1>3, <2>2, SameAccount DEF Accounts, OwnEnds
  <2> QED BY <2>1, <2>2 DEF Accounts
<1>4. CASE /\ pc[c] = "reporting"
           /\ home' = [home EXCEPT ![c] = None]
           /\ ended' = [ended EXCEPT ![home[c]][obj[c].last.trace] = @ \cup {"interrupted"}]
  <2>0. PICK u \in Commands : u = obj[c].last.trace
    BY <1>4 DEF IndInv, Ends
  <2>1. /\ pc[u] \in Begun
        /\ home[u] = home[c] => pc[u] \in Killed
        /\ home[c] \in Sessions
    BY <1>4, <2>0 DEF IndInv, Ends, Held, Waiting
  <2>2. u # c
    BY <1>4, <2>1 DEF Begun, Live, Killed
  <2>3. ended' = [ended EXCEPT ![home[c]][u] = @ \cup {"interrupted"}]
    BY <1>4, <2>0
  <2>4. Account(c)'
    <3>1. home'[c] = None
      BY <1>0, <1>4 DEF TypeOK
    <3> QED BY <1>0, <1>1, <1>2, <3>1, UntoldAccount
  <2>5. ASSUME NEW t \in Commands, t # c, t # u \/ home[t] # home[c] PROVE Account(t)'
    <3>1. OwnEnds(t)' = OwnEnds(t)
      BY <1>0, <1>1, <2>1, <2>3, <2>5 DEF OwnEnds, TypeOK
    <3> QED BY <1>1, <2>5, <3>1, SameAccount DEF Accounts
  <2>6. ASSUME home[u] = home[c] PROVE Account(u)'
    <3>1. Account(u) /\ pc[u] \in Killed
      BY <2>1, <2>6 DEF Accounts
    <3>2. torn'[u] = {} /\ late'[u] = late[u] /\ pc'[u] = pc[u] /\ torn[u] = {}
      BY <1>1, <2>1, <2>2, <3>1 DEF Account, Killed
    <3>3. OwnEnds(u) \subseteq OwnEnds(u)'
      <4>1. home'[u] = home[u] /\ home[u] \in Sessions
        BY <1>1, <2>1, <2>2, <2>6
      <4>2. ended'[home[u]][u] = ended[home[u]][u] \cup {"interrupted"}
        BY <1>0, <2>1, <2>3, <2>6, <4>1 DEF TypeOK
      <4> QED BY <4>1, <4>2 DEF OwnEnds
    <3>4. pc'[u] \in Killed
      BY <3>1, <3>2
    <3>5. late'[u] # 0 => late'[u] = 1 /\ torn'[u] = {} /\ "cancelled" \in OwnEnds(u)'
      BY <3>1, <3>2, <3>3 DEF Account
    <3> QED BY <3>2, <3>4, <3>5 DEF Account, Killed
  <2>7. ASSUME NEW t \in Commands PROVE Account(t)'
    BY <2>4, <2>5, <2>6
  <2> QED BY <2>7 DEF Accounts
<1> QED BY <1>1, <1>3, <1>4

\* What an append does to the account of its turn.
LEMMA PersistsOwn ==
  ASSUME TypeOK, NEW t \in Commands, home[t] \in Sessions, home' = home,
         NEW e \in TurnEvents, Persists(t, e)
  PROVE  /\ OwnEnds(t)' = OwnEnds(t) \cup ({e} \cap Statuses)
         /\ late'[t] = IF OwnEnds(t) = {} THEN late[t] ELSE late[t] + 1
         /\ \A u \in Commands \ {t} : OwnEnds(u)' = OwnEnds(u) /\ late'[u] = late[u]
<1>0. OwnEnds(t) = ended[home[t]][t]
  BY NoneAssumption DEF OwnEnds
<1>1. late'[t] = IF OwnEnds(t) = {} THEN late[t] ELSE late[t] + 1
  BY <1>0 DEF Persists, TypeOK
<1>2. CASE e \in Statuses
  <2>1. ended' = [ended EXCEPT ![home[t]][t] = @ \cup {e}]
    BY <1>2 DEF Persists
  <2>2. OwnEnds(t)' = OwnEnds(t) \cup {e}
    BY <2>1, NoneAssumption DEF OwnEnds, TypeOK
  <2>3. ASSUME NEW u \in Commands \ {t} PROVE OwnEnds(u)' = OwnEnds(u) /\ late'[u] = late[u]
    BY <2>1 DEF OwnEnds, TypeOK, Persists
  <2> QED BY <1>1, <1>2, <2>2, <2>3
<1>3. CASE e \notin Statuses
  <2>1. ended' = ended
    BY <1>3 DEF Persists
  <2>2. ASSUME NEW u \in Commands PROVE OwnEnds(u)' = OwnEnds(u)
    BY <2>1 DEF OwnEnds
  <2>3. ASSUME NEW u \in Commands \ {t} PROVE late'[u] = late[u]
    BY DEF TypeOK, Persists
  <2> QED BY <1>1, <1>3, <2>2, <2>3
<1> QED BY <1>2, <1>3

\* A turn moves without an event, or with one that is not its status, before
\* its end.
LEMMA MovedAccount ==
  ASSUME TypeOK, NEW t \in Commands, Account(t), pc[t] \in Live, OwnEnds(t) = {},
         pc[t] # "cancelling",
         OwnEnds(t)' = {}, torn'[t] = torn[t], late'[t] = late[t]
  PROVE  Account(t)'
BY DEF Account, Live, Ending

LEMMA AdvanceAccount ==
  ASSUME IndInv, IndInv', Accounts, NEW t \in Commands,
         AdvanceTurn(t) \/ StreamDelta(t) \/ ResearchProgress(t)
  PROVE  Accounts'
<1>0. /\ TypeOK /\ TypeOK' /\ Account(t)
      /\ pc[t] \in Live => home[t] \in Sessions
  BY DEF IndInv, Held, Accounts
<1>a. pc[t] \in Live /\ pc[t] \notin DOMAIN Outcome => OwnEnds(t) = {}
  BY <1>0 DEF IndInv, Ends, OwnEnds, Terminal, Killed, Live, Outcome
<1>b. pc[t] \in Live /\ home' = home
  BY DEF AdvanceTurn, StreamDelta, ResearchProgress, StartTurn, EnterTurn, AnswerTurn,
         AnnounceAnswer, FailTurn, ReportFailure, AppendTerminal, CompleteTurn, CancelBody,
         CancelHandler, CancelUnstarted, At, Live, Outcome
<1>c. \A u \in Commands \ {t} : pc'[u] = pc[u]
  BY <1>0 DEF AdvanceTurn, StreamDelta, ResearchProgress, StartTurn, EnterTurn, AnswerTurn,
         AnnounceAnswer, FailTurn, ReportFailure, AppendTerminal, CompleteTurn, CancelBody,
         CancelHandler, CancelUnstarted, Goto, Leave, Finish, TypeOK
<1>d. ASSUME Account(t)',
             \A u \in Commands \ {t} :
               torn'[u] = torn[u] /\ late'[u] = late[u] /\ OwnEnds(u)' = OwnEnds(u)
      PROVE  Accounts'
  BY <1>b, <1>c, <1>d, SameAccount DEF Accounts
<1>1. CASE UNCHANGED traces /\ pc[t] \notin DOMAIN Outcome
  <2>1. \A u \in Commands : OwnEnds(u)' = OwnEnds(u)
    BY <1>b, <1>1 DEF OwnEnds
  <2>2. Account(t)'
    <3>1. OwnEnds(t) = {} /\ OwnEnds(t)' = {} /\ torn'[t] = torn[t] /\ late'[t] = late[t]
          /\ pc[t] # "cancelling"
      BY <1>a, <1>b, <1>1, <2>1 DEF Outcome
    <3> QED BY <1>0, <1>b, <3>1, MovedAccount
  <2> QED BY <1>d, <1>1, <2>1, <2>2
<1>2. CASE Emitted(t, "said") /\ pc[t] \notin DOMAIN Outcome
  <2>1. "said" \in TurnEvents /\ "said" \notin Statuses /\ Persists(t, "said") /\ torn' = torn
    BY <1>2 DEF TurnEvents, Statuses, Emitted
  <2>2. /\ OwnEnds(t)' = OwnEnds(t)
        /\ OwnEnds(t) = {} => late'[t] = late[t]
        /\ \A u \in Commands \ {t} : OwnEnds(u)' = OwnEnds(u) /\ late'[u] = late[u]
    BY <1>0, <1>b, <2>1, PersistsOwn
  <2>3. Account(t)'
    <3>1. OwnEnds(t) = {} /\ OwnEnds(t)' = {} /\ torn'[t] = torn[t] /\ late'[t] = late[t]
          /\ pc[t] # "cancelling"
      BY <1>a, <1>b, <1>2, <2>1, <2>2 DEF Outcome
    <3> QED BY <1>0, <1>b, <3>1, MovedAccount
  <2> QED BY <1>d, <2>1, <2>2, <2>3
<1>3. CASE AppendTerminal(t)
  <2>1. /\ Outcome[pc[t]] \in TurnEvents \cap Statuses
        /\ Persists(t, Outcome[pc[t]]) /\ torn' = torn /\ pc' = pc
        /\ pc[t] \in {"completing", "failed", "cancelling"}
    BY <1>3 DEF AppendTerminal, Emitted, Outcome, TurnEvents, Statuses
  <2>2. /\ OwnEnds(t)' = OwnEnds(t) \cup {Outcome[pc[t]]}
        /\ late'[t] = IF OwnEnds(t) = {} THEN late[t] ELSE late[t] + 1
        /\ \A u \in Commands \ {t} : OwnEnds(u)' = OwnEnds(u) /\ late'[u] = late[u]
    BY <1>0, <1>b, <2>1, PersistsOwn
  <2>3. Outcome[pc[t]] \notin OwnEnds(t)
    BY <1>0, <1>3, <1>b, NoneAssumption DEF AppendTerminal, OwnEnds
  <2>4. late[t] \in Nat /\ torn'[t] = torn[t] /\ pc'[t] = pc[t] /\ home'[t] = home[t]
    BY <1>0, <1>b, <2>1 DEF TypeOK
  <2>5. Account(t)'
    <3>1. CASE pc[t] = "completing"
      BY <1>0, <2>2, <2>3, <2>4, <3>1 DEF Account, Outcome, Ending, Killed
    <3>2. CASE pc[t] = "failed"
      BY <1>0, <2>2, <2>3, <2>4, <3>2 DEF Account, Outcome, Ending, Killed
    <3>3. CASE pc[t] = "cancelling"
      <4>1. Outcome[pc[t]] = "cancelled" /\ "cancelled" \notin OwnEnds(t)
        BY <2>3, <3>3 DEF Outcome
      <4>2. late[t] = 0 /\ "cancelled" \notin torn[t] /\ "failed" \notin torn[t]
        BY <1>0, <3>3, <4>1 DEF Account
      <4>3. OwnEnds(t) = {} \/ OwnEnds(t) = {"ok"}
        BY <1>0, <3>3, <4>1 DEF Account
      <4>4. OwnEnds(t) = {"ok"} => torn[t] = {}
        BY <1>0, <3>3, <4>2 DEF Account, Ending, Killed
      <4>5. torn[t] \subseteq {"said"} \/ torn[t] \subseteq {"ok"}
        BY <1>0, <3>3, <4>2 DEF Account, Ending, Killed
      <4> QED BY <1>0, <2>2, <2>4, <3>3, <4>1, <4>2, <4>3, <4>4, <4>5 DEF Account, Ending, Killed
    <3> QED BY <2>1, <3>1, <3>2, <3>3
  <2> QED BY <1>d, <2>1, <2>2, <2>5
<1>4. CASE CompleteTurn(t)
  <2>1. /\ UNCHANGED traces /\ pc'[t] = "done"
        /\ pc[t] \in {"completing", "failed", "cancelling"}
    BY <1>0, <1>4 DEF CompleteTurn, Finish, Leave, Goto, Outcome, TypeOK
  <2>2. \A u \in Commands : OwnEnds(u)' = OwnEnds(u)
    BY <1>b, <2>1 DEF OwnEnds
  <2>3. Account(t)'
    BY <1>0, <1>b, <2>1, <2>2 DEF Account, Killed
  <2> QED BY <1>d, <2>1, <2>2, <2>3
<1>5. ASSUME TearsEmit(t), pc[t] \in {"starting", "running", "answered", "failing", "completing", "failed", "cancelling"},
             pc'[t] = IF pc[t] \in {"failing", "failed", "cancelling"} THEN "done" ELSE "cancelling"
      PROVE  Accounts'
  <2>0. UNCHANGED <<ended, late>> /\ \A u \in Commands \ {t} : torn'[u] = torn[u]
    BY <1>0, <1>5 DEF TearsEmit, Tears, TypeOK
  <2>1. \A u \in Commands : OwnEnds(u)' = OwnEnds(u)
    BY <1>b, <2>0 DEF OwnEnds
  <2>2. \/ torn'[t] = torn[t]
        \/ torn'[t] = torn[t] \cup {Emitting(t)} /\ Emitting(t) \notin OwnEnds(t)
    BY <1>0, <1>5, <1>b, NoneAssumption DEF TearsEmit, Tears, OwnEnds, TypeOK
  <2>3. Account(t)'
    <3>1. CASE pc[t] \in {"starting", "running", "answered", "failing"}
      <4>1. OwnEnds(t) = {} /\ Emitting(t) = "said" /\ torn[t] = {} /\ late[t] = 0
        BY <1>0, <1>a, <1>b, <3>1 DEF Emitting, Outcome, Account
      <4>2. torn'[t] \subseteq {"said"} /\ late'[t] = 0 /\ OwnEnds(t)' = {} /\ home'[t] # None
        BY <1>0, <1>b, <2>0, <2>1, <2>2, <4>1, NoneAssumption
      <4> QED BY <1>5, <3>1, <4>2 DEF Account, Ending, Killed
    <3>2. CASE pc[t] = "completing"
      <4>1. Emitting(t) = "ok" /\ torn[t] = {} /\ OwnEnds(t) \subseteq {"ok"} /\ late[t] = 0
        BY <1>0, <3>2 DEF Emitting, Outcome, Account
      <4>2. torn'[t] \subseteq {"ok"} /\ torn'[t] \cap OwnEnds(t) = {} /\ late'[t] = 0
            /\ OwnEnds(t)' \subseteq {"ok"} /\ home'[t] # None
        BY <1>0, <1>b, <2>0, <2>1, <2>2, <4>1, NoneAssumption
      <4> QED BY <1>5, <2>1, <3>2, <4>2 DEF Account, Ending, Killed
    <3>3. CASE pc[t] = "failed"
      <4>1. Emitting(t) = "failed" /\ torn[t] = {} /\ OwnEnds(t) \subseteq {"failed"} /\ late[t] = 0
        BY <1>0, <3>3 DEF Emitting, Outcome, Account
      <4>2. torn'[t] \subseteq {"failed"} /\ torn'[t] \cap OwnEnds(t) = {} /\ late'[t] = 0
            /\ OwnEnds(t)' \subseteq {"failed"} /\ home'[t] # None
        BY <1>0, <1>b, <2>0, <2>1, <2>2, <4>1, NoneAssumption
      <4> QED BY <1>5, <2>1, <3>3, <4>2 DEF Account, Ending, Killed
    <3>4. CASE pc[t] = "cancelling"
      <4>1. Emitting(t) = "cancelled" /\ pc'[t] = "done" /\ home'[t] # None
        BY <1>0, <1>b, <1>5, <3>4, NoneAssumption DEF Emitting, Outcome
      <4>2. CASE torn'[t] = torn[t]
        BY <1>0, <2>0, <2>1, <3>4, <4>1, <4>2 DEF Account, Ending, Killed
      <4>3. CASE torn'[t] = torn[t] \cup {"cancelled"} /\ "cancelled" \notin OwnEnds(t)
        <5>1. late[t] = 0 /\ OwnEnds(t) \subseteq {"ok"}
          BY <1>0, <3>4, <4>3 DEF Account
        <5>2. Ending(torn'[t] \cup OwnEnds(t))
          BY <1>0, <3>4, <4>3, <5>1 DEF Account, Ending, Killed
        <5> QED BY <1>0, <2>0, <2>1, <3>4, <4>1, <4>3, <5>1, <5>2 DEF Account, Killed
      <4> QED BY <2>2, <4>1, <4>2, <4>3
    <3> QED BY <1>5, <3>1, <3>2, <3>3, <3>4
  <2> QED BY <1>d, <2>0, <2>1, <2>3
<1>6. CASE CancelBody(t)
  BY <1>0, <1>5, <1>6 DEF CancelBody, Goto, TypeOK
<1>7. CASE CancelHandler(t)
  BY <1>0, <1>5, <1>7 DEF CancelHandler, Finish, Leave, Goto, TypeOK
<1>8. CASE EnterTurn(t) \/ StreamDelta(t) \/ AnnounceAnswer(t) \/ ReportFailure(t)
  BY <1>2, <1>8 DEF EnterTurn, StreamDelta, AnnounceAnswer, ReportFailure, At, Outcome
<1>9. CASE StartTurn(t) \/ ResearchProgress(t) \/ AnswerTurn(t) \/ FailTurn(t) \/ CancelUnstarted(t)
  BY <1>1, <1>9 DEF StartTurn, ResearchProgress, AnswerTurn, FailTurn, CancelUnstarted, At, Outcome
<1> QED BY <1>3, <1>4, <1>6, <1>7, <1>8, <1>9 DEF AdvanceTurn

\* The event that lands is the last, or the turn's own status.
LEMMA LandsAccount ==
  ASSUME IndInv, IndInv', Accounts, NEW t \in Commands, TornLands(t)
  PROVE  Accounts'
<1>0. TypeOK /\ TypeOK' /\ Account(t)
  BY DEF IndInv, Accounts
<1>1. PICK e \in torn[t] : Persists(t, e) /\ torn' = [torn EXCEPT ![t] = @ \ {e}]
  BY DEF TornLands
<1>2. /\ e \in TurnEvents /\ home[t] \in Sessions /\ pc[t] \in {"cancelling", "done"}
      /\ late[t] = 0 /\ e \notin OwnEnds(t)
      /\ UNCHANGED <<pc, home>>
  BY <1>0 DEF TypeOK, Account, TornLands
<1>3. /\ OwnEnds(t)' = OwnEnds(t) \cup ({e} \cap Statuses)
      /\ late'[t] = IF OwnEnds(t) = {} THEN late[t] ELSE late[t] + 1
      /\ \A u \in Commands \ {t} : OwnEnds(u)' = OwnEnds(u) /\ late'[u] = late[u]
  BY <1>0, <1>1, <1>2, PersistsOwn
<1>4. torn'[t] = torn[t] \ {e} /\ \A u \in Commands \ {t} : torn'[u] = torn[u]
  BY <1>0, <1>1 DEF TypeOK
<1>5. Account(t)'
  <2>0. Ending(torn[t] \cup OwnEnds(t))
    BY <1>0, <1>2 DEF Account, Killed
  <2>1. Ending(torn'[t] \cup OwnEnds(t)') /\ torn'[t] \cap OwnEnds(t)' = {}
    <3>1. torn'[t] \cup OwnEnds(t)' \subseteq torn[t] \cup OwnEnds(t)
      BY <1>3, <1>4
    <3>2. torn'[t] \cap OwnEnds(t)' = {}
      BY <1>0, <1>3, <1>4 DEF Account
    <3> QED BY <2>0, <3>1, <3>2 DEF Ending
  <2>2. ASSUME OwnEnds(t) # {}
        PROVE  late'[t] = 1 /\ torn'[t] = {} /\ "cancelled" \in OwnEnds(t)'
    <3>1. OwnEnds(t) \subseteq Statuses
      BY <1>0, <1>2 DEF OwnEnds, TypeOK
    <3>2. PICK f \in OwnEnds(t) : TRUE
      BY <2>2
    <3>3. f # e /\ f # "said"
      BY <1>2, <3>1, <3>2 DEF Statuses
    <3>4. \/ e = "cancelled" /\ f = "ok"
          \/ f = "cancelled" /\ e \in {"said", "ok"}
      BY <2>0, <3>2, <3>3 DEF Ending
    <3>5. torn'[t] = {}
      <4>1. ASSUME NEW g \in torn[t], g # e PROVE FALSE
        BY <1>0, <2>0, <3>2, <3>4, <4>1 DEF Account, Ending
      <4> QED BY <1>4, <4>1
    <3>6. "cancelled" \in OwnEnds(t)'
      BY <1>3, <3>2, <3>4 DEF Statuses
    <3> QED BY <1>2, <1>3, <2>2, <3>5, <3>6
  <2>3. pc[t] = "cancelling" => OwnEnds(t)' \subseteq {"ok", "cancelled"}
    <3>1. pc[t] = "cancelling" => e \notin {"failed", "cancelled"}
      BY <1>0, <1>1 DEF Account
    <3> QED BY <1>0, <1>2, <1>3, <3>1 DEF Account, TurnEvents, Statuses
  <2>4. /\ torn'[t] \cap {"failed", "cancelled"} # {} => pc'[t] = "done"
        /\ torn'[t] # {} => home'[t] # None /\ pc'[t] \in {"cancelling", "done"}
    BY <1>0, <1>2, <1>4, NoneAssumption DEF Account
  <2>5. late'[t] # 0 => late'[t] = 1 /\ torn'[t] = {} /\ "cancelled" \in OwnEnds(t)'
    BY <1>2, <1>3, <2>2
  <2> QED BY <1>2, <2>1, <2>3, <2>4, <2>5 DEF Account
<1>6. ASSUME NEW u \in Commands, u # t PROVE Account(u)'
  BY <1>2, <1>3, <1>4, <1>6, SameAccount DEF Accounts
<1> QED BY <1>5, <1>6 DEF Accounts

LEMMA ProcessAccount ==
  ASSUME IndInv, IndInv', Accounts, Crash \/ Shutdown \/ Exit \/ Start
  PROVE  Accounts'
<1>0. TypeOK /\ TypeOK'
  BY DEF IndInv
<1>1. ASSUME ProcessEnds PROVE Accounts'
  <2> SUFFICES ASSUME NEW t \in Commands PROVE Account(t)'
    BY DEF Accounts
  <2>1. torn'[t] = {} /\ UNCHANGED <<ended, late>> /\ Account(t)
    BY <1>1 DEF ProcessEnds, Accounts
  <2>2. CASE pc[t] \in Waiting
    <3>1. late'[t] = 0 /\ home'[t] = None
      BY <1>1, <2>1, <2>2, NothingTold DEF ProcessEnds, Waiting, Begun, Live, Killed
    <3> QED BY <1>0, <2>1, <3>1, UntoldAccount
  <2>3. CASE pc[t] \notin Waiting
    <3>1. home'[t] = home[t] /\ (pc'[t] = pc[t] \/ pc'[t] = "dead")
      BY <1>1, <2>3 DEF ProcessEnds
    <3>2. OwnEnds(t)' = OwnEnds(t)
      BY <2>1, <3>1 DEF OwnEnds
    <3> QED BY <2>1, <3>1, <3>2 DEF Account, Ending, Killed
  <2> QED BY <2>2, <2>3
<1>2. ASSUME UNCHANGED <<pc, home, traces>> PROVE Accounts'
  BY <1>2, SameAccount DEF Accounts, OwnEnds
<1> QED BY <1>1, <1>2 DEF Crash, Exit, Shutdown, Start

LEMMA NextAccount == IndInv /\ IndInv' /\ Accounts /\ [Next]_vars => Accounts'
<1>1. ASSUME Accounts, UNCHANGED vars PROVE Accounts'
  BY <1>1, SameAccount DEF Accounts, OwnEnds, vars
<1> QED
  BY <1>1, HandleAccount, ContinueAccount, AdvanceAccount, LandsAccount, ProcessAccount DEF Next

\* Every step keeps the inductive invariant.
LEMMA NextInd == IndInv /\ Accounts /\ [Next]_vars => IndInv'
<1> SUFFICES ASSUME IndInv, Accounts, [Next]_vars PROVE IndInv'
  OBVIOUS
<1>1. CASE UNCHANGED vars
  BY <1>1, StutterInd
<1>2. CASE Next
  BY <1>2, HandleInd, ContinueInd, AdvanceInd, LandsInd, ProcessInd DEF Next
<1> QED BY <1>1, <1>2

-----------------------------------------------------------------------------
(* What holds in every reachable state, for all sessions and commands. *)

\* The inductive invariant holds in every reachable state of the gateway,
\* through every interleaving of handlers, turns, cancels, crashes and starts.
THEOREM Invariance == Spec => [](IndInv /\ Accounts)
<1>1. Init => Accounts
  BY DEF Init, Accounts, Account, OwnEnds, Ending
<1> QED BY <1>1, InitInd, NextInd, NextAccount, PTL DEF Spec

\* The state of the gateway and of its store is always of its declared type.
THEOREM TypeCorrect == Spec => []TypeOK
<1>1. IndInv => TypeOK
  BY DEF IndInv
<1> QED BY <1>1, Invariance, PTL

\* Two turns never run in one session (_begin_turn's check under turn_lock).
THEOREM OneTurn == Spec => []OneTurnPerSession
<1>1. IndInv => OneTurnPerSession
  BY DEF IndInv, Owned, OneTurnPerSession
<1> QED BY <1>1, Invariance, PTL

\* active_turns and turn_tasks agree, and a locked session is locked by its
\* own turn, which runs or was cancelled before its first step.
THEOREM Locks == Spec => []LockHasOwner
<1>1. IndInv => LockHasOwner
  BY DEF IndInv
<1> QED BY <1>1, Invariance, PTL

\* No row of a turn's own session names it once its finally block has run.
THEOREM NotMarked == Spec => []FinishedNotMarked
<1>1. IndInv => FinishedNotMarked
  <2> SUFFICES ASSUME IndInv, NEW s \in Sessions, NEW t \in Commands,
                      store[s] # None, pc[t] = "done", home[t] = s
               PROVE  store[s].active # t
    BY DEF FinishedNotMarked
  <2>1. MarkedAt(store[s], s, Live \cup Killed)
    BY DEF IndInv, Marks
  <2> QED BY <2>1, NoneAssumption DEF MarkedAt, Live, Killed
<1> QED BY <1>1, Invariance, PTL

\* In its own session a turn is reported interrupted only if the process
\* ended, or its task was cancelled, under it.
THEOREM Interrupted == Spec => []InterruptedOnlyIfKilled
<1>1. IndInv => InterruptedOnlyIfKilled
  BY DEF IndInv, TypeOK, Ends, Killed, InterruptedOnlyIfKilled
<1> QED BY <1>1, Invariance, PTL

\* No turn streams or asks a model once its agent.turn.completed is persisted,
\* and what its worker threads still append after it is one event, of a turn
\* that was cancelled.
THEOREM TerminalLast == Spec => []TerminalIsLast
<1>1. IndInv /\ Accounts => TerminalIsLast
  <2> SUFFICES ASSUME IndInv, Accounts, NEW t \in Commands
               PROVE  /\ home[t] # None /\ ended[home[t]][t] # {} => pc[t] \in Terminal
                      /\ late[t] # 0 => late[t] = 1 /\ "cancelled" \in ended[home[t]][t]
    BY DEF TerminalIsLast, Terminal, Outcome, Killed
  <2>1. home[t] # None /\ ended[home[t]][t] # {} => pc[t] \in Terminal
    BY DEF IndInv, TypeOK, Ends
  <2>2. late[t] # 0 => late[t] = 1 /\ "cancelled" \in ended[home[t]][t]
    BY DEF Accounts, Account, OwnEnds
  <2> QED BY <2>1, <2>2
<1> QED BY <1>1, Invariance, PTL


-----------------------------------------------------------------------------
(* The histories: what each handler and each turn does to an answer, and to *)
(* the prompt the model is asked with.                                      *)

LEMMA PrefixHistory ==
  ASSUME NEW msgs \in Seq(Message), NEW n \in Nat, n <= Len(msgs)
  PROVE  /\ OneAnswerEach(msgs) => OneAnswerEach(SubSeq(msgs, 1, n))
         /\ \A t : AnsweredIn(SubSeq(msgs, 1, n), t) => AnsweredIn(msgs, t)
<1>1. Len(SubSeq(msgs, 1, n)) = n /\ \A i \in 1..n : SubSeq(msgs, 1, n)[i] = msgs[i]
  OBVIOUS
<1>2. 1..n \subseteq 1..Len(msgs)
  OBVIOUS
<1>3. OneAnswerEach(msgs) => OneAnswerEach(SubSeq(msgs, 1, n))
  BY <1>1, <1>2 DEF OneAnswerEach, IsAssistant
<1>4. \A t : AnsweredIn(SubSeq(msgs, 1, n), t) => AnsweredIn(msgs, t)
  BY <1>1, <1>2 DEF AnsweredIn, IsAssistant
<1> QED BY <1>3, <1>4

\* A sequence each of whose answers comes from its own place of another one.
LEMMA PickedHistory ==
  ASSUME NEW msgs \in Seq(Message), NEW picked \in Seq(Message), NEW from,
         \A i \in 1..Len(picked) : IsAssistant(picked[i]) =>
           from[i] \in 1..Len(msgs) /\ picked[i] = msgs[from[i]],
         \A i, j \in 1..Len(picked) : from[i] = from[j] => i = j
  PROVE  /\ OneAnswerEach(msgs) => OneAnswerEach(picked)
         /\ \A t : AnsweredIn(picked, t) => AnsweredIn(msgs, t)
<1>1. OneAnswerEach(msgs) => OneAnswerEach(picked)
  <2> SUFFICES ASSUME OneAnswerEach(msgs), NEW i \in 1..Len(picked), NEW j \in 1..Len(picked),
                      IsAssistant(picked[i]), IsAssistant(picked[j]), picked[i].by = picked[j].by
               PROVE  i = j
    BY DEF OneAnswerEach
  <2>1. /\ from[i] \in 1..Len(msgs) /\ picked[i] = msgs[from[i]]
        /\ from[j] \in 1..Len(msgs) /\ picked[j] = msgs[from[j]]
    OBVIOUS
  <2>2. from[i] = from[j]
    BY <2>1, Zenon DEF OneAnswerEach
  <2> QED BY <2>2
<1>2. \A t : AnsweredIn(picked, t) => AnsweredIn(msgs, t)
  BY DEF AnsweredIn, IsAssistant
<1> QED BY <1>1, <1>2

LEMMA JoinedHistories ==
  ASSUME NEW a \in Seq(Message), NEW b \in Seq(Message)
  PROVE  /\ a \o b \in Seq(Message)
         /\ Len(a \o b) = Len(a) + Len(b)
         /\ \A i \in 1..Len(a) : (a \o b)[i] = a[i]
         /\ \A i \in 1..Len(b) : (a \o b)[i + Len(a)] = b[i]
OBVIOUS

LEMMA WithoutAtHistory ==
  ASSUME NEW msgs \in Seq(Message), NEW k \in 1..Len(msgs)
  PROVE  /\ OneAnswerEach(msgs) => OneAnswerEach(WithoutAt(msgs, k))
         /\ \A t : AnsweredIn(WithoutAt(msgs, k), t) => AnsweredIn(msgs, t)
<1> DEFINE before == SubSeq(msgs, 1, k - 1)
           after == SubSeq(msgs, k + 1, Len(msgs))
           from == [i \in 1..(Len(msgs) - 1) |-> IF i < k THEN i ELSE i + 1]
           picked == WithoutAt(msgs, k)
<1>1. /\ before \in Seq(Message) /\ Len(before) = k - 1
      /\ \A i \in 1..(k - 1) : before[i] = msgs[i]
  OBVIOUS
<1>2. /\ after \in Seq(Message) /\ Len(after) = Len(msgs) - k
      /\ \A i \in 1..(Len(msgs) - k) : after[i] = msgs[k + i]
  OBVIOUS
<1>3. picked = before \o after
  BY DEF WithoutAt
<1> HIDE DEF before, after, picked
<1>4. picked \in Seq(Message)
  BY <1>1, <1>2, <1>3
<1>5. Len(picked) = Len(msgs) - 1
  BY <1>1, <1>2, <1>3
<1>6. \A i \in 1..(Len(msgs) - 1) : picked[i] = msgs[from[i]]
  <2> SUFFICES ASSUME NEW i \in 1..(Len(msgs) - 1)
               PROVE  picked[i] = msgs[from[i]]
    OBVIOUS
  <2>1. CASE i < k
    <3>1. i \in 1..(k - 1) /\ from[i] = i
      BY <2>1
    <3>2. picked[i] = before[i]
      BY <3>1, <1>1, <1>2, <1>3
    <3> HIDE DEF from
    <3> QED BY <3>1, <3>2, <1>1
  <2>2. CASE ~(i < k)
    <3>1. i - (k - 1) \in 1..(Len(msgs) - k) /\ from[i] = i + 1 /\ k + (i - (k - 1)) = i + 1
      BY <2>2
    <3>2. after[i - (k - 1)] = msgs[i + 1]
      BY <3>1, <1>2
    <3> HIDE DEF from
    <3>3. picked[i] = after[i - (k - 1)]
      BY <2>2, <3>1, <1>1, <1>2, <1>3
    <3> QED BY <3>1, <3>2, <3>3
  <2> QED BY <2>1, <2>2
<1>7. \A i \in 1..(Len(msgs) - 1) : from[i] \in 1..Len(msgs)
  OBVIOUS
<1>8. \A i, j \in 1..(Len(msgs) - 1) : from[i] = from[j] => i = j
  OBVIOUS
<1> HIDE DEF from
<1>9. \A i \in 1..Len(picked) : IsAssistant(picked[i]) =>
        from[i] \in 1..Len(msgs) /\ picked[i] = msgs[from[i]]
  BY <1>5, <1>6, <1>7
<1>10. \A i, j \in 1..Len(picked) : from[i] = from[j] => i = j
  BY <1>5, <1>8
<1>11. OneAnswerEach(msgs) => OneAnswerEach(picked)
  BY <1>4, <1>9, <1>10, PickedHistory
<1>12. \A t : AnsweredIn(picked, t) => AnsweredIn(msgs, t)
  BY <1>4, <1>9, <1>10, PickedHistory
<1> QED BY <1>11, <1>12 DEF picked

LEMMA CompactedHistory ==
  ASSUME NEW msgs \in Seq(Message)
  PROVE  /\ OneAnswerEach(msgs) => OneAnswerEach(Compacted(msgs))
         /\ \A t : AnsweredIn(Compacted(msgs), t) => AnsweredIn(msgs, t)
<1>1. CASE Len(msgs) <= Keep
  BY <1>1 DEF Compacted
<1>2. CASE ~(Len(msgs) <= Keep)
  <2> DEFINE kept == SubSeq(msgs, Len(msgs) - Keep + 1, Len(msgs))
             head == <<Said("summary", None)>>
             from == [i \in 1..(Keep + 1) |-> (Len(msgs) - Keep) + (i - 1)]
             picked == Compacted(msgs)
  <2>1. kept \in Seq(Message) /\ Len(kept) = Keep
        /\ \A i \in 1..Keep : kept[i] = msgs[(Len(msgs) - Keep) + i]
    BY <1>2, KeepAssumption
  <2>2. head \in Seq(Message) /\ Len(head) = 1 /\ ~IsAssistant(head[1])
    BY SaidMessage DEF Said, IsAssistant
  <2>3. picked = head \o kept
    BY <1>2 DEF Compacted
  <2> HIDE DEF kept, head, picked
  <2>3a. /\ head \in Seq(Message) /\ kept \in Seq(Message)
         /\ Len(head) = 1 /\ Len(kept) = Keep
    BY <2>1, <2>2
  <2>3b. /\ picked \in Seq(Message) /\ Len(picked) = Len(head) + Len(kept)
         /\ \A i \in 1..Len(head) : picked[i] = head[i]
         /\ \A i \in 1..Len(kept) : picked[i + Len(head)] = kept[i]
    BY <2>3, <2>3a, JoinedHistories
  <2>4. picked \in Seq(Message) /\ Len(picked) = Keep + 1 /\ picked[1] = head[1]
    BY <2>3a, <2>3b, KeepAssumption
  <2>5. \A i \in 1..Keep : picked[i + 1] = kept[i]
    BY <2>3a, <2>3b, KeepAssumption
  <2>6. ASSUME NEW i \in 1..(Keep + 1), IsAssistant(picked[i])
        PROVE  from[i] \in 1..Len(msgs) /\ picked[i] = msgs[from[i]]
    <3>1. i # 1
      BY <2>2, <2>4, <2>6
    <3>2. /\ i - 1 \in 1..Keep /\ (i - 1) + 1 = i
          /\ (Len(msgs) - Keep) + (i - 1) \in 1..Len(msgs)
      BY <1>2, <3>1, KeepAssumption
    <3>3. from[i] = (Len(msgs) - Keep) + (i - 1)
      OBVIOUS
    <3> HIDE DEF from
    <3>4. picked[i] = kept[i - 1]
      BY <3>2, <2>5
    <3>5. kept[i - 1] = msgs[(Len(msgs) - Keep) + (i - 1)]
      BY <3>2, <2>1
    <3> QED BY <3>2, <3>3, <3>4, <3>5
  <2>7. \A i, j \in 1..(Keep + 1) : from[i] = from[j] => i = j
    BY KeepAssumption
  <2> HIDE DEF from
  <2>8. \A i \in 1..Len(picked) : IsAssistant(picked[i]) =>
          from[i] \in 1..Len(msgs) /\ picked[i] = msgs[from[i]]
    BY <2>4, <2>6
  <2>9. \A i, j \in 1..Len(picked) : from[i] = from[j] => i = j
    BY <2>4, <2>7
  <2>10. OneAnswerEach(msgs) => OneAnswerEach(picked)
    BY <2>4, <2>8, <2>9, PickedHistory
  <2>11. \A t : AnsweredIn(picked, t) => AnsweredIn(msgs, t)
    BY <2>4, <2>8, <2>9, PickedHistory
  <2> QED BY <2>10, <2>11 DEF picked
<1> QED BY <1>1, <1>2

\* A prompt is no answer, and what is appended comes last.
LEMMA PromptHistory ==
  ASSUME NEW msgs \in Seq(Message), NEW c \in Commands
  PROVE  /\ OneAnswerEach(msgs) => OneAnswerEach(Append(msgs, Said("user", c)))
         /\ \A t : AnsweredIn(Append(msgs, Said("user", c)), t) => AnsweredIn(msgs, t)
         /\ PromptAtEnd(Append(msgs, Said("user", c)))
<1> DEFINE all == Append(msgs, Said("user", c))
<1>1. /\ Len(all) = Len(msgs) + 1
      /\ \A i \in 1..Len(msgs) : all[i] = msgs[i]
      /\ all[Len(msgs) + 1] = Said("user", c)
      /\ all # <<>>
  OBVIOUS
<1>2. \A i \in 1..Len(all) : IsAssistant(all[i]) => i \in 1..Len(msgs)
  BY <1>1 DEF Said, IsAssistant
<1>3. all[Len(all)].role = "user"
  BY <1>1 DEF Said
<1> HIDE DEF all
<1>4. OneAnswerEach(msgs) => OneAnswerEach(all)
  BY <1>1, <1>2 DEF OneAnswerEach
<1>5. \A t : AnsweredIn(all, t) => AnsweredIn(msgs, t)
  BY <1>1, <1>2 DEF AnsweredIn
<1> QED BY <1>1, <1>3, <1>4, <1>5 DEF all, PromptAtEnd

\* The first answer of a turn in a history.
LEMMA AnswerHistory ==
  ASSUME NEW msgs \in Seq(Message), NEW c \in Commands, NEW role \in {"assistant", "partial"},
         ~AnsweredIn(msgs, c)
  PROVE  /\ OneAnswerEach(msgs) => OneAnswerEach(Append(msgs, Said(role, c)))
         /\ \A t : AnsweredIn(Append(msgs, Said(role, c)), t) => AnsweredIn(msgs, t) \/ t = c
<1> DEFINE all == Append(msgs, Said(role, c))
<1>1. /\ Len(all) = Len(msgs) + 1
      /\ \A i \in 1..Len(msgs) : all[i] = msgs[i]
      /\ all[Len(msgs) + 1].by = c
  BY DEF Said
<1>2. \A i \in 1..Len(all) : i \in 1..Len(msgs) \/ i = Len(msgs) + 1
  BY <1>1
<1>3. \A i \in 1..Len(msgs) : IsAssistant(msgs[i]) => msgs[i].by # c
  BY DEF AnsweredIn
<1> HIDE DEF all
<1>4. OneAnswerEach(msgs) => OneAnswerEach(all)
  BY <1>1, <1>2, <1>3 DEF OneAnswerEach
<1>5. \A t : AnsweredIn(all, t) => AnsweredIn(msgs, t) \/ t = c
  BY <1>1, <1>2 DEF AnsweredIn
<1> QED BY <1>4, <1>5 DEF all

\* A history whose answers are by commands received, c among them.
CleanBut(msgs, c) ==
  OneAnswerEach(msgs) /\ \A t \in Commands : AnsweredIn(msgs, t) => t = c \/ pc[t] # "unused"

\* A step of one command: nobody else's objects change, and the rows stored
\* after it are clean.
LEMMA StepHistory ==
  ASSUME Histories, NEW c \in Commands,
         \A d \in Commands : d # c => pc'[d] = pc[d] /\ obj'[d] = obj[d] /\ ctx'[d] = ctx[d],
         pc'[c] # "unused",
         \A s \in Sessions : store'[s] # None => CleanBut(store'[s].msgs, c),
         pc'[c] \in Live \cup Waiting => CleanBut(obj'[c].msgs, c),
         pc'[c] \in Unanswered => ~AnsweredIn(obj'[c].msgs, c),
         pc'[c] \in Live /\ AnsweredIn(obj'[c].msgs, c) => ctx'[c].saved \/ ctx'[c].route = "study",
         pc'[c] \in {"starting", "running"} => PromptAtEnd(obj'[c].msgs),
         pc'[c] \in {"rewritten", "created"} /\ ~ctx'[c].append => PromptAtEnd(obj'[c].msgs)
  PROVE  Histories'
<1>1. \A t \in Commands : pc[t] # "unused" => pc'[t] # "unused"
  OBVIOUS
<1>2. \A s \in Sessions : store'[s] # None => Clean(store[s].msgs)'
  BY <1>1 DEF Clean, CleanBut
<1>3. \A d \in Commands : pc'[d] \in Live \cup Waiting => Clean(obj[d].msgs)'
  <2> SUFFICES ASSUME NEW d \in Commands, pc'[d] \in Live \cup Waiting
               PROVE  Clean(obj[d].msgs)'
    OBVIOUS
  <2>1. CASE d = c
    BY <2>1, <1>1 DEF Clean, CleanBut
  <2>2. CASE d # c
    <3>1. Clean(obj[d].msgs) /\ obj'[d] = obj[d]
      BY <2>2 DEF Histories
    <3> QED BY <3>1, <1>1 DEF Clean
  <2> QED BY <2>1, <2>2
<1>4. \A t \in Commands : pc'[t] \in Unanswered => ~AnsweredIn(obj'[t].msgs, t)
  BY DEF Histories
<1>5. \A t \in Commands :
        pc'[t] \in Live /\ AnsweredIn(obj'[t].msgs, t) => ctx'[t].saved \/ ctx'[t].route = "study"
  BY DEF Histories, Running
<1>6. \A t \in Commands : Asked(t)' => PromptAtEnd(obj'[t].msgs)
  BY DEF Histories, Asked
<1> QED BY <1>2, <1>3, <1>4, <1>5, <1>6 DEF Histories, Running

\* One row is saved, and it is clean.
LEMMA SavedHistory ==
  ASSUME TypeOK, Histories, NEW c \in Commands, NEW s \in Sessions, NEW row, Save(s, row),
         row # None => CleanBut(row.msgs, c)
  PROVE  \A r \in Sessions : store'[r] # None => CleanBut(store'[r].msgs, c)
<1>1. \A r \in Sessions : store'[r] = IF r = s THEN row ELSE store[r]
  BY DEF Save, TypeOK
<1>2. \A r \in Sessions : store[r] # None => CleanBut(store[r].msgs, c)
  BY DEF Histories, Clean, CleanBut
<1> QED BY <1>1, <1>2

LEMMA UnsavedHistory ==
  ASSUME Histories, NEW c \in Commands, UNCHANGED store
  PROVE  \A r \in Sessions : store'[r] # None => CleanBut(store'[r].msgs, c)
BY DEF Histories, Clean, CleanBut

\* What a command loads from the store is clean, and has no answer of its own.
LEMMA LoadedHistory ==
  ASSUME TypeOK, Histories, NEW c \in Commands, NEW s \in Sessions, store[s] # None
  PROVE  /\ store[s] \in Row
         /\ store[s].msgs \in Seq(Message)
         /\ CleanBut(store[s].msgs, c)
         /\ pc[c] = "unused" => ~AnsweredIn(store[s].msgs, c)
<1>1. store[s] \in Row
  BY DEF TypeOK
<1>2. Clean(store[s].msgs)
  BY DEF Histories
<1> QED BY <1>1, <1>2 DEF Row, Clean, CleanBut

\* What a handler or a turn holds in memory is clean.
LEMMA HeldHistory ==
  ASSUME Held, Histories, NEW c \in Commands, pc[c] \in Live \cup Waiting
  PROVE  /\ home[c] \in Sessions
         /\ obj[c] \in Row
         /\ obj[c].msgs \in Seq(Message)
         /\ CleanBut(obj[c].msgs, c)
<1>1. home[c] \in Sessions /\ obj[c] \in Row /\ Clean(obj[c].msgs)
  BY DEF Held, Histories
<1> QED BY <1>1 DEF Row, Clean, CleanBut

\* The history of a row is its own field.
LEMMA OtherFields ==
  ASSUME NEW row \in Row, NEW msgs, NEW mark, NEW last, NEW cfg
  PROVE  /\ [row EXCEPT !.active = mark].msgs = row.msgs
         /\ [row EXCEPT !.cfg = cfg].msgs = row.msgs
         /\ [row EXCEPT !.active = mark, !.last = last].msgs = row.msgs
         /\ [row EXCEPT !.msgs = msgs].msgs = msgs
         /\ [row EXCEPT !.msgs = msgs, !.active = mark, !.last = last].msgs = msgs
BY DEF Row

\* A command that was answered at once.
LEMMA RepliedHistory ==
  ASSUME TypeOK, Histories, NEW c \in Commands, Reply(c),
         \A s \in Sessions : store'[s] # None => CleanBut(store'[s].msgs, c)
  PROVE  Histories'
<1>1. \A d \in Commands : d # c => pc'[d] = pc[d] /\ obj'[d] = obj[d] /\ ctx'[d] = ctx[d]
  BY DEF Reply, TypeOK
<1>2. pc'[c] = "replied"
  BY DEF Reply, TypeOK
<1> QED BY <1>1, <1>2, StepHistory DEF Live, Waiting, Unanswered

\* _begin_turn of an object that holds no answer of the new turn.
LEMMA BeginHistory ==
  ASSUME TypeOK, Histories, NEW c \in Commands, NEW s \in Sessions, NEW session \in Row,
         NEW append \in BOOLEAN, NEW route \in Routes, BeginTurn(c, s, session, append, route),
         CleanBut(session.msgs, c), ~AnsweredIn(session.msgs, c),
         ~append => PromptAtEnd(session.msgs)
  PROVE  Histories'
<1> DEFINE marked == [session EXCEPT !.active = c]
<1>1. marked.msgs = session.msgs
  BY OtherFields
<1>2. Save(s, marked)
  BY DEF BeginTurn
<1>3. \A d \in Commands : d # c => pc'[d] = pc[d] /\ obj'[d] = obj[d] /\ ctx'[d] = ctx[d]
  BY DEF BeginTurn, TypeOK
<1>4. pc'[c] = "created" /\ obj'[c] = marked
  BY DEF BeginTurn, TypeOK
<1>5. ctx'[c].append = append
  BY DEF BeginTurn, TypeOK, NoCtx
<1> HIDE DEF marked
<1>6. \A r \in Sessions : store'[r] # None => CleanBut(store'[r].msgs, c)
  BY <1>1, <1>2, SavedHistory
<1> QED BY <1>1, <1>3, <1>4, <1>5, <1>6, StepHistory

\* A handler that goes on holding what it saved, or what it will save.
LEMMA WaitingHistory ==
  ASSUME TypeOK, Histories, NEW c \in Commands, NEW place \in {"resolving", "reporting"},
         NEW session, CleanBut(session.msgs, c),
         pc' = [pc EXCEPT ![c] = place], obj' = [obj EXCEPT ![c] = session], ctx' = ctx,
         \A s \in Sessions : store'[s] # None => CleanBut(store'[s].msgs, c)
  PROVE  Histories'
<1>1. \A d \in Commands : d # c => pc'[d] = pc[d] /\ obj'[d] = obj[d] /\ ctx'[d] = ctx[d]
  BY DEF TypeOK
<1>2. pc'[c] = place /\ obj'[c] = session
  BY DEF TypeOK
<1> QED BY <1>1, <1>2, StepHistory DEF Live, Unanswered

LEMMA ReturnedHistory ==
  ASSUME TypeOK, Histories, NEW c \in Commands, NEW place \in {"replied", "refused"},
         Return(c, place),
         \A s \in Sessions : store'[s] # None => CleanBut(store'[s].msgs, c)
  PROVE  Histories'
<1>1. \A d \in Commands : d # c => pc'[d] = pc[d] /\ obj'[d] = obj[d] /\ ctx'[d] = ctx[d]
  BY DEF Return, TypeOK
<1>2. pc'[c] = place
  BY DEF Return, TypeOK
<1> QED BY <1>1, <1>2, StepHistory DEF Live, Waiting, Unanswered

\* message.edit and message.regenerate: the history is cut, and ends with
\* the prompt when none will be appended.
LEMMA RewrittenHistory ==
  ASSUME TypeOK, Histories, NEW c \in Commands, NEW s \in Sessions, store[s] # None,
         pc[c] = "unused", NEW n \in Nat, n <= Len(store[s].msgs), NEW append \in BOOLEAN,
         Rewrite(c, s, SubSeq(store[s].msgs, 1, n), append),
         ~append => n > 0 /\ store[s].msgs[n].role = "user"
  PROVE  Histories'
<1> DEFINE msgs == SubSeq(store[s].msgs, 1, n)
           session == [store[s] EXCEPT !.msgs = msgs]
<1>1. /\ store[s] \in Row /\ store[s].msgs \in Seq(Message)
      /\ CleanBut(store[s].msgs, c) /\ ~AnsweredIn(store[s].msgs, c)
  BY LoadedHistory
<1>2. /\ OneAnswerEach(store[s].msgs) => OneAnswerEach(msgs)
      /\ \A t : AnsweredIn(msgs, t) => AnsweredIn(store[s].msgs, t)
  BY <1>1, PrefixHistory
<1>3. ~append => PromptAtEnd(msgs)
  BY <1>1 DEF PromptAtEnd
<1>4. session.msgs = msgs
  BY <1>1, OtherFields
<1>5. Save(s, session)
  BY DEF Rewrite
<1>6. \A d \in Commands : d # c => pc'[d] = pc[d] /\ obj'[d] = obj[d] /\ ctx'[d] = ctx[d]
  BY DEF Rewrite, TypeOK
<1>7. pc'[c] = "rewritten" /\ obj'[c] = session
  BY DEF Rewrite, TypeOK
<1>8. ctx'[c].append = append
  BY DEF Rewrite, TypeOK, NoCtx
<1> HIDE DEF msgs, session
<1>9. CleanBut(msgs, c) /\ ~AnsweredIn(msgs, c)
  BY <1>1, <1>2 DEF CleanBut
<1>10. \A r \in Sessions : store'[r] # None => CleanBut(store'[r].msgs, c)
  BY <1>4, <1>5, <1>9, SavedHistory
<1> QED BY <1>3, <1>4, <1>6, <1>7, <1>8, <1>9, <1>10, StepHistory DEF Live

LEMMA HandleHistory ==
  ASSUME TypeOK, Histories, NEW c \in Commands, NEW s \in Sessions, Handle(c, s)
  PROVE  Histories'
<1>1. CASE NewSession(c, s)
  <2>1. PICK mode \in Modes :
          Save(s, [mode |-> mode, msgs |-> <<>>, active |-> None, last |-> None, cfg |-> None])
    BY <1>1 DEF NewSession
  <2>2. CleanBut(<<>>, c)
    BY DEF CleanBut, OneAnswerEach, AnsweredIn
  <2>3. \A r \in Sessions : store'[r] # None => CleanBut(store'[r].msgs, c)
    BY <2>1, <2>2, SavedHistory
  <2> QED BY <1>1, <2>3, RepliedHistory DEF NewSession
<1>2. CASE SendMessage(c, s)
  <2>1. store[s] # None /\ pc[c] = "unused"
    BY <1>2 DEF SendMessage, Receive
  <2>2. PICK route \in Routes : BeginTurn(c, s, store[s], TRUE, route)
    BY <1>2 DEF SendMessage, Routes
  <2>3. store[s] \in Row /\ CleanBut(store[s].msgs, c) /\ ~AnsweredIn(store[s].msgs, c)
    BY <2>1, LoadedHistory
  <2> QED BY <2>2, <2>3, BeginHistory
<1>3. CASE EditMessage(c, s)
  <2>1. store[s] # None /\ pc[c] = "unused"
    BY <1>3 DEF EditMessage, Receive
  <2>2. PICK i \in 1..Len(store[s].msgs) : Rewrite(c, s, SubSeq(store[s].msgs, 1, i - 1), TRUE)
    BY <1>3 DEF EditMessage
  <2>3. i - 1 \in Nat /\ i - 1 <= Len(store[s].msgs)
    BY <2>1, LoadedHistory
  <2> QED BY <2>1, <2>2, <2>3, RewrittenHistory
<1>4. CASE Regenerate(c, s)
  <2> DEFINE n == Len(store[s].msgs) - 1
  <2>1. store[s] # None /\ pc[c] = "unused"
    BY <1>4 DEF Regenerate, Receive
  <2>2. /\ Len(store[s].msgs) > 1 /\ store[s].msgs[n].role = "user"
        /\ Rewrite(c, s, SubSeq(store[s].msgs, 1, n), FALSE)
    BY <1>4 DEF Regenerate
  <2>3. n \in Nat /\ n > 0 /\ n <= Len(store[s].msgs)
    <3>1. store[s].msgs \in Seq(Message)
      BY <2>1, LoadedHistory
    <3> QED BY <2>2, <3>1
  <2> HIDE DEF n
  <2> QED BY <2>1, <2>2, <2>3, RewrittenHistory
<1>5. CASE DeleteMessage(c, s)
  <2>1. store[s] # None /\ Reply(c)
    BY <1>5 DEF DeleteMessage, Receive
  <2>2. store[s] \in Row /\ store[s].msgs \in Seq(Message) /\ CleanBut(store[s].msgs, c)
    BY <2>1, LoadedHistory
  <2>3. PICK i \in 1..Len(store[s].msgs) :
          Save(s, [store[s] EXCEPT !.msgs = WithoutAt(store[s].msgs, i)])
    BY <1>5 DEF DeleteMessage
  <2>4. CleanBut(WithoutAt(store[s].msgs, i), c)
    BY <2>2, WithoutAtHistory DEF CleanBut
  <2>5. [store[s] EXCEPT !.msgs = WithoutAt(store[s].msgs, i)].msgs = WithoutAt(store[s].msgs, i)
    BY <2>2, OtherFields
  <2>6. \A r \in Sessions : store'[r] # None => CleanBut(store'[r].msgs, c)
    BY <2>3, <2>4, <2>5, SavedHistory
  <2> QED BY <2>1, <2>6, RepliedHistory
<1>6. CASE CompactSession(c, s)
  <2>1. store[s] # None /\ Reply(c)
    BY <1>6 DEF CompactSession, Receive
  <2>2. store[s] \in Row /\ store[s].msgs \in Seq(Message) /\ CleanBut(store[s].msgs, c)
    BY <2>1, LoadedHistory
  <2>3. Save(s, [store[s] EXCEPT !.msgs = Compacted(store[s].msgs)])
    BY <1>6 DEF CompactSession
  <2>4. CleanBut(Compacted(store[s].msgs), c)
    BY <2>2, CompactedHistory DEF CleanBut
  <2>5. [store[s] EXCEPT !.msgs = Compacted(store[s].msgs)].msgs = Compacted(store[s].msgs)
    BY <2>2, OtherFields
  <2>6. \A r \in Sessions : store'[r] # None => CleanBut(store'[r].msgs, c)
    BY <2>3, <2>4, <2>5, SavedHistory
  <2> QED BY <2>1, <2>6, RepliedHistory
<1>7. CASE ForkSession(c, s)
  <2>1. store[s] # None /\ Reply(c)
    BY <1>7 DEF ForkSession, Receive
  <2>2. CleanBut(store[s].msgs, c)
    BY <2>1, LoadedHistory
  <2>3. PICK f \in Sessions : Save(f, store[s])
    BY <1>7 DEF ForkSession
  <2>4. \A r \in Sessions : store'[r] # None => CleanBut(store'[r].msgs, c)
    BY <2>2, <2>3, SavedHistory
  <2> QED BY <2>1, <2>4, RepliedHistory
<1>8. CASE RenameSession(c, s)
  <2>1. store[s] # None /\ Reply(c) /\ Save(s, [store[s] EXCEPT !.cfg = c])
    BY <1>8 DEF RenameSession, Receive
  <2>2. [store[s] EXCEPT !.cfg = c].msgs = store[s].msgs /\ CleanBut(store[s].msgs, c)
    BY <2>1, LoadedHistory, OtherFields
  <2>3. \A r \in Sessions : store'[r] # None => CleanBut(store'[r].msgs, c)
    BY <2>1, <2>2, SavedHistory
  <2> QED BY <2>1, <2>3, RepliedHistory
<1>9. CASE SetModel(c, s)
  <2> DEFINE session == [store[s] EXCEPT !.cfg = c]
  <2>1. store[s] # None
    BY <1>9 DEF SetModel, Receive
  <2>2. CleanBut(session.msgs, c)
    BY <2>1, LoadedHistory, OtherFields
  <2>3. CASE Save(s, session) /\ Reply(c)
    <3> HIDE DEF session
    <3>1. \A r \in Sessions : store'[r] # None => CleanBut(store'[r].msgs, c)
      BY <2>2, <2>3, SavedHistory
    <3> QED BY <2>3, <3>1, RepliedHistory
  <2>4. CASE /\ pc' = [pc EXCEPT ![c] = "resolving"]
             /\ obj' = [obj EXCEPT ![c] = session]
             /\ UNCHANGED <<store, ctx>>
    <3> HIDE DEF session
    <3>1. \A r \in Sessions : store'[r] # None => CleanBut(store'[r].msgs, c)
      BY <2>4, UnsavedHistory
    <3> QED BY <2>2, <2>4, <3>1, WaitingHistory
  <2> QED BY <1>9, <2>3, <2>4 DEF SetModel
<1>10. CASE DeleteSession(c, s)
  <2>1. \A r \in Sessions : store'[r] # None => CleanBut(store'[r].msgs, c)
    BY <1>10, SavedHistory DEF DeleteSession, Erase
  <2> QED BY <1>10, <2>1, RepliedHistory DEF DeleteSession
<1>11. CASE ResumeSession(c, s)
  <2> DEFINE session == [store[s] EXCEPT !.active = None,
                          !.last = [trace |-> store[s].active, status |-> "interrupted"]]
  <2>1. store[s] # None /\ Repair(c, s)
    BY <1>11 DEF ResumeSession, Receive
  <2>2. CleanBut(session.msgs, c)
    BY <2>1, LoadedHistory, OtherFields
  <2>3. /\ Save(s, session) /\ obj' = [obj EXCEPT ![c] = session]
        /\ pc' = [pc EXCEPT ![c] = "reporting"] /\ ctx' = ctx
    BY <2>1 DEF Repair
  <2> HIDE DEF session
  <2>4. \A r \in Sessions : store'[r] # None => CleanBut(store'[r].msgs, c)
    BY <2>2, <2>3, SavedHistory
  <2> QED BY <2>2, <2>3, <2>4, WaitingHistory
<1>12. CASE CancelTurn(c, s)
  <2>1. \A r \in Sessions : store'[r] # None => CleanBut(store'[r].msgs, c)
    BY <1>12, UnsavedHistory DEF CancelTurn
  <2> QED BY <1>12, <2>1, RepliedHistory DEF CancelTurn
<1> QED
  BY <1>1, <1>2, <1>3, <1>4, <1>5, <1>6, <1>7, <1>8, <1>9, <1>10, <1>11, <1>12 DEF Handle

LEMMA ContinueHistory ==
  ASSUME TypeOK, Held, Histories, NEW c \in Commands, ContinueHandler(c)
  PROVE  Histories'
<1>1. pc[c] \in Waiting
  BY DEF ContinueHandler, StartRewritten, RefuseRewritten, SaveModel, ReportInterrupted, Waiting
<1>2. /\ home[c] \in Sessions /\ obj[c] \in Row /\ CleanBut(obj[c].msgs, c)
  BY <1>1, HeldHistory
<1>3. UNCHANGED store => \A r \in Sessions : store'[r] # None => CleanBut(store'[r].msgs, c)
  BY UnsavedHistory
<1>4. CASE StartRewritten(c)
  <2>1. ~AnsweredIn(obj[c].msgs, c) /\ (~ctx[c].append => PromptAtEnd(obj[c].msgs))
    BY <1>4 DEF StartRewritten, Histories, Unanswered, Asked
  <2>2. ctx[c].append \in BOOLEAN /\ "chat" \in Routes
    BY DEF TypeOK, Ctx, Routes
  <2> QED BY <1>2, <1>4, <2>1, <2>2, BeginHistory DEF StartRewritten
<1>5. CASE RefuseRewritten(c)
  BY <1>3, <1>5, ReturnedHistory DEF RefuseRewritten
<1>6. CASE SaveModel(c)
  <2>1. Save(home[c], obj[c]) => \A r \in Sessions : store'[r] # None => CleanBut(store'[r].msgs, c)
    BY <1>2, SavedHistory
  <2> QED BY <1>3, <1>6, <2>1, ReturnedHistory DEF SaveModel
<1>7. CASE ReportInterrupted(c)
  BY <1>3, <1>7, ReturnedHistory DEF ReportInterrupted
<1> QED BY <1>4, <1>5, <1>6, <1>7 DEF ContinueHandler

\* A turn that moves on with its object and ctx, and may save the object.
LEMMA MovedHistory ==
  ASSUME TypeOK, Held, Histories, NEW t \in Commands, pc[t] \in Live,
         NEW place \in Live \ {"created", "starting"},
         place = "running" => pc[t] \in {"starting", "running"},
         pc' = [pc EXCEPT ![t] = place], obj' = obj,
         \A d \in Commands : /\ ctx'[d].saved = ctx[d].saved /\ ctx'[d].route = ctx[d].route
                             /\ d # t => ctx'[d] = ctx[d],
         Save(home[t], obj[t]) \/ UNCHANGED store
  PROVE  Histories'
<1>1. home[t] \in Sessions /\ CleanBut(obj[t].msgs, t)
  BY HeldHistory
<1>2. \A r \in Sessions : store'[r] # None => CleanBut(store'[r].msgs, t)
  BY <1>1, SavedHistory, UnsavedHistory
<1>3. \A d \in Commands : d # t => pc'[d] = pc[d] /\ obj'[d] = obj[d] /\ ctx'[d] = ctx[d]
  BY DEF TypeOK
<1>4. pc'[t] = place /\ pc'[t] # "unused"
  BY DEF TypeOK, Live
<1>5. pc'[t] \in Unanswered => place = "running"
  BY <1>4 DEF Unanswered, Live
<1>6. pc'[t] \in Unanswered => ~AnsweredIn(obj'[t].msgs, t)
  BY <1>5 DEF Histories, Unanswered
<1>7. AnsweredIn(obj'[t].msgs, t) => ctx'[t].saved \/ ctx'[t].route = "study"
  BY DEF Histories, Running
<1>8. place = "running" => PromptAtEnd(obj'[t].msgs)
  BY DEF Histories, Asked
<1>9. /\ pc'[t] \in {"starting", "running"} => PromptAtEnd(obj'[t].msgs)
      /\ pc'[t] \in {"rewritten", "created"} => FALSE
  BY <1>4, <1>8 DEF Live
<1> QED BY <1>1, <1>2, <1>3, <1>4, <1>6, <1>7, <1>9, StepHistory

\* The finally block keeps a partial answer only where there is no answer.
LEMMA FinishHistory ==
  ASSUME TypeOK, Held, Histories, NEW t \in Commands, pc[t] \in Live,
         NEW status, Finish(t, status)
  PROVE  Histories'
<1> DEFINE partial == ctx[t].route # "study" /\ ctx[t].capture /\ ~ctx[t].saved
           kept == IF partial THEN Append(obj[t].msgs, Said("partial", t)) ELSE obj[t].msgs
           mark == IF obj[t].active = t THEN None ELSE obj[t].active
           row == [obj[t] EXCEPT !.msgs = kept, !.active = mark,
                                 !.last = [trace |-> t, status |-> status]]
<1>1. /\ home[t] \in Sessions /\ obj[t] \in Row /\ obj[t].msgs \in Seq(Message)
      /\ CleanBut(obj[t].msgs, t)
  BY HeldHistory
<1>2. Save(home[t], row) /\ Leave(t, "done")
  BY DEF Finish
<1>3. partial => ~AnsweredIn(obj[t].msgs, t)
  BY DEF Histories, Running
<1>4. CleanBut(kept, t)
  <2>1. CASE partial
    <3>1. CleanBut(Append(obj[t].msgs, Said("partial", t)), t)
      BY <1>1, <1>3, <2>1, AnswerHistory DEF CleanBut
    <3> QED BY <2>1, <3>1
  <2>2. CASE ~partial
    BY <1>1, <2>2
  <2> QED BY <2>1, <2>2
<1> HIDE DEF partial, kept, mark
<1>5. row.msgs = kept
  BY <1>1, OtherFields
<1> HIDE DEF row
<1>6. \A r \in Sessions : store'[r] # None => CleanBut(store'[r].msgs, t)
  BY <1>1, <1>2, <1>4, <1>5, SavedHistory
<1>7. \A d \in Commands : d # t => pc'[d] = pc[d] /\ obj'[d] = obj[d] /\ ctx'[d] = ctx[d]
  BY <1>2 DEF Leave, Goto, TypeOK
<1>8. pc'[t] = "done"
  BY <1>2 DEF Leave, Goto, TypeOK
<1> QED BY <1>6, <1>7, <1>8, StepHistory DEF Live, Waiting, Unanswered

LEMMA AdvanceHistory ==
  ASSUME TypeOK, Held, Histories, NEW t \in Commands,
         AdvanceTurn(t) \/ StreamDelta(t) \/ ResearchProgress(t)
  PROVE  Histories'
<1>a. pc[t] \in Live => /\ home[t] \in Sessions
                        /\ obj[t] \in Row /\ obj[t].msgs \in Seq(Message)
                        /\ CleanBut(obj[t].msgs, t)
  BY HeldHistory
<1>b. pc = [pc EXCEPT ![t] = pc[t]]
  BY DEF TypeOK
<1>1. CASE StartTurn(t)
  <2> DEFINE asked == [obj[t] EXCEPT !.msgs = Append(obj[t].msgs, Said("user", t))]
             session == IF ctx[t].append THEN asked ELSE obj[t]
  <2>1. /\ pc[t] = "created" /\ pc[t] \in Live /\ pc' = [pc EXCEPT ![t] = "starting"]
        /\ obj' = [obj EXCEPT ![t] = session] /\ Save(home[t], session) /\ ctx' = ctx
    BY <1>1 DEF StartTurn, At, Goto, Live
  <2>2. asked.msgs = Append(obj[t].msgs, Said("user", t))
    BY <1>a, <2>1, OtherFields
  <2>3. ~AnsweredIn(obj[t].msgs, t) /\ (~ctx[t].append => PromptAtEnd(obj[t].msgs))
    BY <2>1 DEF Histories, Unanswered, Asked
  <2> HIDE DEF asked
  <2>4. CleanBut(asked.msgs, t) /\ ~AnsweredIn(asked.msgs, t) /\ PromptAtEnd(asked.msgs)
    BY <1>a, <2>1, <2>2, <2>3, PromptHistory DEF CleanBut
  <2>5. CleanBut(session.msgs, t) /\ ~AnsweredIn(session.msgs, t) /\ PromptAtEnd(session.msgs)
    BY <1>a, <2>1, <2>3, <2>4
  <2> HIDE DEF session
  <2>6. \A r \in Sessions : store'[r] # None => CleanBut(store'[r].msgs, t)
    BY <1>a, <2>1, <2>5, SavedHistory
  <2>7. \A d \in Commands : d # t => pc'[d] = pc[d] /\ obj'[d] = obj[d] /\ ctx'[d] = ctx[d]
    BY <2>1 DEF TypeOK
  <2>8. pc'[t] = "starting" /\ obj'[t] = session
    BY <2>1 DEF TypeOK
  <2> QED BY <2>5, <2>6, <2>7, <2>8, StepHistory
<1>2. CASE EnterTurn(t)
  <2>1. /\ pc[t] = "starting" /\ pc[t] \in Live /\ "running" \in Live \ {"created", "starting"}
        /\ pc' = [pc EXCEPT ![t] = "running"] /\ obj' = obj /\ ctx' = ctx /\ Save(home[t], obj[t])
    BY <1>2 DEF EnterTurn, At, Goto, Live
  <2> QED BY <2>1, MovedHistory
<1>3. CASE StreamDelta(t)
  <2>1. /\ pc[t] = "running" /\ pc[t] \in Live \ {"created", "starting"}
        /\ pc' = pc /\ obj' = obj /\ UNCHANGED store
    BY <1>3 DEF StreamDelta, At, Live
  <2>2. \A d \in Commands : /\ ctx'[d].saved = ctx[d].saved /\ ctx'[d].route = ctx[d].route
                            /\ d # t => ctx'[d] = ctx[d]
    BY <1>3 DEF StreamDelta, TypeOK, Ctx
  <2> QED BY <1>b, <2>1, <2>2, MovedHistory
<1>4. CASE ResearchProgress(t)
  <2>1. /\ pc[t] = "running" /\ pc[t] \in Live \ {"created", "starting"}
        /\ pc' = pc /\ obj' = obj /\ ctx' = ctx /\ Save(home[t], obj[t])
    BY <1>4 DEF ResearchProgress, At, Live
  <2> QED BY <1>b, <2>1, MovedHistory
<1>5. CASE AnswerTurn(t)
  <2> DEFINE msgs == Append(obj[t].msgs, Said("assistant", t))
             row == [obj[t] EXCEPT !.msgs = msgs]
  <2>1. /\ pc[t] = "running" /\ pc[t] \in Live
        /\ pc' = [pc EXCEPT ![t] = "answered"]
        /\ obj' = [obj EXCEPT ![t] = row]
        /\ ctx' = [ctx EXCEPT ![t].saved = (ctx[t].route # "study")]
        /\ UNCHANGED store
    BY <1>5 DEF AnswerTurn, At, Goto, Live, TypeOK
  <2>2. row.msgs = msgs
    BY <1>a, <2>1, OtherFields
  <2>3. ~AnsweredIn(obj[t].msgs, t)
    BY <2>1 DEF Histories, Unanswered
  <2>4. CleanBut(msgs, t)
    BY <1>a, <2>1, <2>3, AnswerHistory DEF CleanBut
  <2> HIDE DEF msgs, row
  <2>5. \A r \in Sessions : store'[r] # None => CleanBut(store'[r].msgs, t)
    BY <2>1, UnsavedHistory
  <2>6. \A d \in Commands : d # t => pc'[d] = pc[d] /\ obj'[d] = obj[d] /\ ctx'[d] = ctx[d]
    BY <2>1 DEF TypeOK
  <2>7. pc'[t] = "answered" /\ obj'[t] = row
    BY <2>1 DEF TypeOK
  <2>8. ctx'[t].saved \/ ctx'[t].route = "study"
    BY <2>1 DEF TypeOK, Ctx
  <2> QED BY <2>2, <2>4, <2>5, <2>6, <2>7, <2>8, StepHistory DEF Unanswered
<1>6. CASE AnnounceAnswer(t)
  <2>1. /\ pc[t] \in Live /\ "completing" \in Live \ {"created", "starting"}
        /\ pc' = [pc EXCEPT ![t] = "completing"] /\ obj' = obj /\ ctx' = ctx /\ UNCHANGED store
    BY <1>6 DEF AnnounceAnswer, At, Goto, Live
  <2> QED BY <2>1, MovedHistory
<1>7. CASE FailTurn(t)
  <2>1. /\ pc[t] \in Live /\ "failing" \in Live \ {"created", "starting"}
        /\ pc' = [pc EXCEPT ![t] = "failing"] /\ obj' = obj /\ ctx' = ctx
        /\ Save(home[t], obj[t]) \/ UNCHANGED store
    BY <1>7 DEF FailTurn, SaveResearch, At, Goto, Live
  <2> QED BY <2>1, MovedHistory
<1>8. CASE ReportFailure(t)
  <2>1. /\ pc[t] \in Live /\ "failed" \in Live \ {"created", "starting"}
        /\ pc' = [pc EXCEPT ![t] = "failed"] /\ obj' = obj /\ ctx' = ctx /\ UNCHANGED store
    BY <1>8 DEF ReportFailure, At, Goto, Live
  <2> QED BY <2>1, MovedHistory
<1>9. CASE AppendTerminal(t)
  <2>1. /\ pc[t] \in Live \ {"created", "starting"} /\ pc[t] # "running"
        /\ pc' = pc /\ obj' = obj /\ ctx' = ctx /\ UNCHANGED store
    BY <1>9 DEF AppendTerminal, Outcome, Live
  <2> QED BY <1>b, <2>1, MovedHistory
<1>10. CASE CompleteTurn(t)
  <2>1. pc[t] \in Live /\ Finish(t, Outcome[pc[t]])
    BY <1>10 DEF CompleteTurn, Live, Outcome
  <2> QED BY <2>1, FinishHistory
<1>11. CASE CancelBody(t)
  <2>1. /\ pc[t] \in Live /\ "cancelling" \in Live \ {"created", "starting"}
        /\ pc' = [pc EXCEPT ![t] = "cancelling"] /\ obj' = obj /\ ctx' = ctx
        /\ Save(home[t], obj[t]) \/ UNCHANGED store
    BY <1>11 DEF CancelBody, SaveResearch, Goto, Live
  <2> QED BY <2>1, MovedHistory
<1>12. CASE CancelHandler(t)
  <2>1. pc[t] \in Live /\ \E status : Finish(t, status)
    BY <1>12 DEF CancelHandler, Live
  <2> QED BY <2>1, FinishHistory
<1>13. CASE CancelUnstarted(t)
  <2>1. \A d \in Commands : d # t => pc'[d] = pc[d] /\ obj'[d] = obj[d] /\ ctx'[d] = ctx[d]
    BY <1>13 DEF CancelUnstarted, Leave, Goto, TypeOK
  <2>2. pc'[t] = "strangled" /\ UNCHANGED store
    BY <1>13 DEF CancelUnstarted, Leave, Goto, TypeOK
  <2>3. \A r \in Sessions : store'[r] # None => CleanBut(store'[r].msgs, t)
    BY <2>2, UnsavedHistory
  <2> QED BY <2>1, <2>2, <2>3, StepHistory DEF Live, Waiting, Unanswered
<1> QED
  BY <1>1, <1>2, <1>3, <1>4, <1>5, <1>6, <1>7, <1>8, <1>9, <1>10, <1>11, <1>12, <1>13
  DEF AdvanceTurn

LEMMA ProcessHistory ==
  ASSUME Histories, Crash \/ Shutdown \/ Exit \/ Start
  PROVE  Histories'
<1>1. ASSUME ProcessEnds PROVE Histories'
  <2>1. \A c \in Commands : /\ pc[c] # "unused" => pc'[c] # "unused"
                            /\ pc'[c] \notin Live \cup Waiting
                            /\ pc'[c] \notin Unanswered
    BY <1>1 DEF ProcessEnds, Live, Waiting, Unanswered
  <2>2. \A s \in Sessions : store'[s] # None => Clean(store[s].msgs)'
    BY <1>1, <2>1 DEF ProcessEnds, Histories, Clean
  <2>3. \A c \in Commands : ~Running(c)' /\ ~Asked(c)'
    BY <2>1 DEF Running, Asked, Unanswered
  <2> QED BY <2>1, <2>2, <2>3 DEF Histories
<1>2. CASE Crash
  BY <1>1, <1>2 DEF Crash
<1>3. CASE Exit
  BY <1>1, <1>3 DEF Exit
<1>4. ASSUME UNCHANGED <<store, pc, obj, ctx>> PROVE Histories'
  BY <1>4 DEF Histories, Clean, Running, Asked
<1>5. CASE Shutdown
  BY <1>4, <1>5 DEF Shutdown
<1>6. CASE Start
  BY <1>4, <1>6 DEF Start
<1> QED BY <1>2, <1>3, <1>5, <1>6

LEMMA LandsHistory ==
  ASSUME Histories, NEW t \in Commands, TornLands(t)
  PROVE  Histories'
BY DEF TornLands, Histories, Clean, Running, Asked

LEMMA NextHistory == IndInv /\ Histories /\ [Next]_vars => Histories'
<1> SUFFICES ASSUME IndInv, Histories, [Next]_vars PROVE Histories'
  OBVIOUS
<1>1. TypeOK /\ Held
  BY DEF IndInv
<1>2. CASE UNCHANGED vars
  BY <1>2 DEF vars, Histories, Clean, Running, Asked
<1>3. CASE Next
  BY <1>1, <1>3, HandleHistory, ContinueHistory, AdvanceHistory, LandsHistory, ProcessHistory DEF Next
<1> QED BY <1>2, <1>3

LEMMA InitHistory == Init => Histories
BY DEF Init, Histories, Live, Waiting, Unanswered, Asked, Running

\* The histories in the store and in memory agree, in every reachable state,
\* with where the turns that wrote them stand.
LEMMA HistoriesHold == Spec => [](IndInv /\ Histories)
BY Invariance, InitHistory, NextHistory, PTL DEF Spec

\* The model is always asked with the user's prompt last, however edits,
\* regenerations, cancels and crashes interleave with the turn.
THEOREM Prompted == Spec => []PromptLast
<1>1. Histories => PromptLast
  BY DEF Histories, PromptLast, Asked
<1> QED BY <1>1, HistoriesHold, PTL

\* No stored history holds two answers of one turn, whatever was cut,
\* compacted, forked, cancelled or saved from an older object.
THEOREM Answered == Spec => []OneAnswerPerTurn
<1>1. Histories => OneAnswerPerTurn
  BY DEF Histories, OneAnswerPerTurn, Clean
<1> QED BY <1>1, HistoriesHold, PTL
=============================================================================
