-------------------------- MODULE BatchRuns_proofs --------------------------
(***************************************************************************)
(* Proofs about the batches that spend authorized calls: the inductive     *)
(* invariants of the campaigns and repairs (CampaignInd), of what they may *)
(* spend (BudgetInd) and of the full-text batch with its review (TrialInd),*)
(* and what follows from them.                                             *)
(***************************************************************************)
EXTENDS BatchRuns, SequenceTheorems, FiniteSetTheorems, NaturalsInduction,
        WellFoundedInduction, TLAPS

(* Campaigns and repairs ----------------------------------------------------- *)

States == {None, "open", "stopped", "completed"}
Summaries == {None, "incomplete", "completed_with_failures", "completed"}
RunType == [manifest : BOOLEAN, cells : Nat, calls : Nat, held : Nat,
            failed : BOOLEAN, many : BOOLEAN, quiet : BOOLEAN, summary : Summaries]
Planners == Campaigns \union Repairs

LEMMA KindFacts ==
  /\ None \notin Batches /\ Measures \subseteq Batches /\ Campaigns \subseteq Batches
  /\ Repairs \subseteq Batches /\ Batches = Measures \union Planners
  /\ \A b \in Planners : b \notin Measures
  /\ \A b \in Repairs : b \notin Campaigns
BY CampaignAssumption DEF Batches, Planners

\* The phases of a batch, one by one.
LEMMA PhasesOfMeasure ==
  ASSUME NEW b \in Measures
  PROVE  /\ Phases(b) = <<"preflight">> /\ Len(Phases(b)) = 1 /\ DOMAIN Phases(b) = 1..1
         /\ Phases(b)[1] = "preflight"
BY DEF Phases

LEMMA PhasesOfCampaign ==
  ASSUME NEW b \in Campaigns
  PROVE  /\ Len(Phases(b)) = 4 /\ DOMAIN Phases(b) = 1..4
         /\ Phases(b)[1] = "preflight" /\ Phases(b)[2] = "main"
         /\ Phases(b)[3] = "cited" /\ Phases(b)[4] = "silent"
<1>1. Phases(b) = <<"preflight", "main">> \o <<"cited", "silent">>
  BY KindFacts DEF Phases, Rag, Planners
<1>2. /\ <<"preflight", "main">> \in Seq({"preflight", "main", "cited", "silent"})
      /\ <<"cited", "silent">> \in Seq({"preflight", "main", "cited", "silent"})
  OBVIOUS
<1>3. Len(<<"preflight", "main">>) = 2 /\ Len(<<"cited", "silent">>) = 2
  OBVIOUS
<1>4. /\ Phases(b) \in Seq({"preflight", "main", "cited", "silent"}) /\ Len(Phases(b)) = 4
      /\ \A i \in 1..4 : Phases(b)[i] = IF i <= 2 THEN <<"preflight", "main">>[i]
                                                  ELSE <<"cited", "silent">>[i - 2]
  BY <1>1, <1>2, <1>3, ConcatProperties
<1> QED BY <1>4

LEMMA PhasesOfRepair ==
  ASSUME NEW b \in Repairs
  PROVE  /\ Len(Phases(b)) = 4 /\ DOMAIN Phases(b) = 1..4
         /\ Phases(b)[1] = "check" /\ Phases(b)[2] = "recheck"
         /\ Phases(b)[3] = "cited" /\ Phases(b)[4] = "silent"
<1>1. Phases(b) = <<"check", "recheck">> \o <<"cited", "silent">>
  BY KindFacts DEF Phases, Rag, Checks, Planners
<1>2. /\ <<"check", "recheck">> \in Seq({"check", "recheck", "cited", "silent"})
      /\ <<"cited", "silent">> \in Seq({"check", "recheck", "cited", "silent"})
  OBVIOUS
<1>3. Len(<<"check", "recheck">>) = 2 /\ Len(<<"cited", "silent">>) = 2
  OBVIOUS
<1>4. /\ Phases(b) \in Seq({"check", "recheck", "cited", "silent"}) /\ Len(Phases(b)) = 4
      /\ \A i \in 1..4 : Phases(b)[i] = IF i <= 2 THEN <<"check", "recheck">>[i]
                                                  ELSE <<"cited", "silent">>[i - 2]
  BY <1>1, <1>2, <1>3, ConcatProperties
<1> QED BY <1>4

LEMMA NameFacts ==
  /\ ToSet(Rag) = {"cited", "silent"} /\ ToSet(Checks) = {"check", "recheck"}
  /\ Names = {"preflight", "main", "cited", "silent", "check", "recheck"}
  /\ Last(Rag) = "silent" /\ Last(Checks) = "recheck"
<1>1. ToSet(Rag) = {"cited", "silent"}
  BY DEF ToSet, Rag
<1>2. ToSet(Checks) = {"check", "recheck"}
  BY DEF ToSet, Checks
<1>3. Last(Rag) = "silent" /\ Last(Checks) = "recheck"
  BY DEF Last, Rag, Checks
<1> QED BY <1>1, <1>2, <1>3 DEF Names

\* What the proofs need to know of the phases.
LEMMA PhaseFacts ==
  ASSUME NEW b \in Planners
  PROVE  /\ Len(Phases(b)) = 4 /\ DOMAIN Phases(b) = 1..4
         /\ \A i, j \in 1..4 : Phases(b)[i] = Phases(b)[j] => i = j
         /\ \A i \in 1..4 : Phases(b)[i] \in {"preflight", "main"} \union ToSet(Checks) => i <= 2
         /\ \A i \in 1..4 : Phases(b)[i] = Last(Rag) <=> i = 4
         /\ \A i \in 1..4 : <<b, Phases(b)[i]>> \in RunIds
<1>1. b \in Campaigns \/ b \in Repairs
  BY DEF Planners
<1>2. /\ Len(Phases(b)) = 4 /\ DOMAIN Phases(b) = 1..4
      /\ \/ /\ Phases(b)[1] = "preflight" /\ Phases(b)[2] = "main"
            /\ Phases(b)[3] = "cited" /\ Phases(b)[4] = "silent"
         \/ /\ Phases(b)[1] = "check" /\ Phases(b)[2] = "recheck"
            /\ Phases(b)[3] = "cited" /\ Phases(b)[4] = "silent"
  BY <1>1, PhasesOfCampaign, PhasesOfRepair
<1>3. \A i \in 1..4 : i = 1 \/ i = 2 \/ i = 3 \/ i = 4
  OBVIOUS
<1>4. \A i, j \in 1..4 : Phases(b)[i] = Phases(b)[j] => i = j
  BY <1>2, <1>3
<1>5. \A i \in 1..4 : Phases(b)[i] \in {"preflight", "main"} \union ToSet(Checks) => i <= 2
  BY <1>2, <1>3, NameFacts
<1>6. \A i \in 1..4 : Phases(b)[i] = Last(Rag) <=> i = 4
  BY <1>2, <1>3, NameFacts
<1>7. \A i \in 1..4 : <<b, Phases(b)[i]>> \in RunIds
  <2>1. \A i \in 1..4 : Phases(b)[i] \in Names /\ Phases(b)[i] \in ToSet(Phases(b))
    BY <1>2, <1>3, NameFacts DEF ToSet
  <2> QED BY <2>1, KindFacts DEF RunIds, Planners
<1> QED BY <1>2, <1>4, <1>5, <1>6, <1>7

\* A run whose summary is written keeps what it is judged by.
Sticks ==
  \A id \in RunIds : runs[id].summary # None =>
    /\ runs'[id].summary # None
    /\ runs'[id].cells = runs[id].cells /\ runs'[id].calls = runs[id].calls
    /\ runs'[id].failed = runs[id].failed /\ runs'[id].many = runs[id].many
    /\ runs'[id].quiet = runs[id].quiet

LEMMA RunsStick == ASSUME UNCHANGED runs PROVE Sticks
BY DEF Sticks

\* The run a phase is judged by.
JudgedBy(b, p) ==
  IF p = "preflight" /\ b \in Campaigns /\ approved[b] # None THEN <<approved[b], p>> ELSE <<b, p>>

LEMMA JudgedByFacts ==
  ASSUME CampaignTypeOK, NEW b \in Planners, NEW j \in 1..4
  PROVE  /\ JudgedBy(b, Phases(b)[j]) \in RunIds
         /\ At(b, Phases(b)[j]) = runs[JudgedBy(b, Phases(b)[j])]
<1>1. <<b, Phases(b)[j]>> \in RunIds
  BY PhaseFacts
<1>2. CASE Phases(b)[j] = "preflight" /\ b \in Campaigns /\ approved[b] # None
  <2>1. approved[b] \in Measures
    BY <1>2, KindFacts DEF CampaignTypeOK
  <2>2. <<approved[b], "preflight">> \in RunIds
    <3>1. "preflight" \in ToSet(Phases(approved[b]))
      BY <2>1, PhasesOfMeasure DEF ToSet
    <3> QED BY <2>1, <3>1, KindFacts, NameFacts DEF RunIds
  <2> QED BY <1>2, <2>2 DEF JudgedBy, At, Own
<1>3. CASE ~(Phases(b)[j] = "preflight" /\ b \in Campaigns /\ approved[b] # None)
  BY <1>1, <1>3 DEF JudgedBy, At, Own
<1> QED BY <1>2, <1>3

LEMMA JudgedByFactsNext ==
  ASSUME NEW b \in Planners, NEW j \in 1..4, approved'[b] = approved[b]
  PROVE  At(b, Phases(b)[j])' = runs'[JudgedBy(b, Phases(b)[j])]
BY DEF JudgedBy, At, Own, Phases

LEMMA JudgedIsSame ==
  ASSUME NEW p, NEW r, NEW q, q.summary # None, q.cells = r.cells, q.calls = r.calls,
         q.failed = r.failed, q.many = r.many, q.quiet = r.quiet, Judged(p, r)
  PROVE  Judged(p, q)
BY DEF Judged, Passed, PreflightPassed, MainPassed, RagPassed, CheckPassed

LEMMA JudgedStays ==
  ASSUME CampaignTypeOK, Sticks, NEW b \in Planners, NEW j \in 1..4, approved'[b] = approved[b],
         JudgedAt(b, j)
  PROVE  JudgedAt(b, j)'
<1>1. PICK id \in RunIds : id = JudgedBy(b, Phases(b)[j])
  BY JudgedByFacts
<1>2. At(b, Phases(b)[j]) = runs[id] /\ At(b, Phases(b)[j])' = runs'[id]
  BY <1>1, JudgedByFacts, JudgedByFactsNext
<1>3. PICK r, q, p : r = runs[id] /\ q = runs'[id] /\ p = Phases(b)[j]
  OBVIOUS
<1>4. Judged(p, r)
  BY <1>2, <1>3 DEF JudgedAt
<1>5. r.summary # None
  BY <1>4 DEF Judged
<1>6. Judged(p, q)
  BY <1>3, <1>4, <1>5, JudgedIsSame DEF Sticks
<1>7. Phases(b)' = Phases(b)
  BY DEF Phases
<1> QED BY <1>2, <1>3, <1>6, <1>7 DEF JudgedAt, Judged, Passed, PreflightPassed, MainPassed, RagPassed, CheckPassed

\* Steps that begin no run and complete no batch keep the gates.
GatesAt(b, j) ==
  \/ JudgedAt(b, j)
  \/ /\ \A i \in j + 1 .. 4 : ~Own(b, Phases(b)[i]).manifest
     /\ state[b] # "completed"

LEMMA GatesByPhase ==
  /\ GatesHold <=> \A b \in Planners : \A j \in 1..4 : GatesAt(b, j)
  /\ GatesHold' <=> \A b \in Planners : \A j \in 1..4 : GatesAt(b, j)'
<1>1. \A b \in Planners : Len(Phases(b)) = 4
  BY PhaseFacts
<1> QED BY <1>1 DEF GatesHold, GatesAt, JudgedAt, Planners, Phases

LEMMA GateStays ==
  ASSUME CampaignTypeOK, Sticks, \A id \in RunIds : runs'[id].manifest => runs[id].manifest,
         NEW b \in Planners, NEW j \in 1..4, approved'[b] = approved[b], GatesAt(b, j),
         state'[b] = "completed" => state[b] = "completed"
  PROVE  GatesAt(b, j)'
<1>1. CASE JudgedAt(b, j)
  BY <1>1, JudgedStays DEF GatesAt
<1>2. CASE /\ \A i \in j + 1 .. 4 : ~Own(b, Phases(b)[i]).manifest
           /\ state[b] # "completed"
  <2>1. \A i \in j + 1 .. 4 : i \in 1..4
    OBVIOUS
  <2>2. \A i \in j + 1 .. 4 : ~runs'[<<b, Phases(b)[i]>>].manifest
    BY <1>2, <2>1, PhaseFacts DEF Own
  <2> QED BY <1>2, <2>2 DEF GatesAt, Own, Phases
<1> QED BY <1>1, <1>2 DEF GatesAt

\* A step that begins no run, completes no batch and judges nothing.
Steady ==
  /\ approved' = approved /\ Sticks
  /\ \A id \in RunIds : runs'[id].manifest => runs[id].manifest
  /\ \A id \in RunIds : runs'[id] = runs[id] \/ state[id[1]] # None
  /\ \A b \in Batches : /\ state'[b] = "completed" => state[b] = "completed"
                        /\ state'[b] = None => state[b] = None

LEMMA GatesStay == ASSUME CampaignTypeOK, GatesHold, Steady PROVE GatesHold'
BY GatesByPhase, GateStays, KindFacts DEF Steady

LEMMA RunIdFacts == \A id \in RunIds : id[1] \in Batches /\ id[2] \in Names /\ id = <<id[1], id[2]>>
BY DEF RunIds

\* The phases passed stay passed while the script stays where it is.
LEMMA PhasesStay ==
  ASSUME CampaignTypeOK, PhasesKept, Steady,
         active' # None => active' = active /\ phase' = phase,
         pc' = "finish" => pc = "finish" /\ active \in Planners /\ active' = active /\ phase' = phase
  PROVE  PhasesKept'
<1>1. \A id \in RunIds : state'[id[1]] = None => runs'[id] = NoRun
  BY RunIdFacts DEF Steady, PhasesKept
<1>2. ASSUME active' \in Planners, NEW j \in DOMAIN Phases(active'), j < phase'
      PROVE  active' = active /\ JudgedAt(active, j)'
  <2>1. active' = active /\ phase' = phase /\ active \in Planners
    BY <1>2, KindFacts DEF Planners
  <2>2. PICK b \in Planners : b = active
    BY <2>1
  <2>3. j \in 1..4 /\ j < phase
    BY <1>2, <2>1, <2>2, PhaseFacts
  <2>4. JudgedAt(b, j)
    BY <1>2, <2>1, <2>2, <2>3, PhaseFacts DEF PhasesKept, Planners
  <2>5. JudgedAt(b, j)'
    BY <2>3, <2>4, JudgedStays DEF Steady
  <2> QED BY <2>1, <2>2, <2>5 DEF JudgedAt
<1>3. ASSUME pc' = "finish" PROVE phase' = Len(Phases(active')) /\ JudgedAt(active, phase)'
  <2>1. pc = "finish" /\ active \in Planners /\ active' = active /\ phase' = phase
    BY <1>3
  <2>2. PICK b \in Planners, j \in 1..4 : b = active /\ j = phase /\ phase = Len(Phases(active))
    <3>1. phase = Len(Phases(active)) /\ Len(Phases(active)) = 4
      BY <2>1, PhaseFacts DEF PhasesKept
    <3>2. phase \in 1..4
      BY <3>1
    <3> QED BY <2>1, <3>1, <3>2
  <2>3. JudgedAt(b, j)'
    BY <2>1, <2>2, JudgedStays DEF Steady, PhasesKept
  <2> QED BY <2>1, <2>2, <2>3 DEF JudgedAt, Phases
<1> QED BY <1>1, <1>2, <1>3 DEF PhasesKept, Planners, Phases

\* The script at work.
LEMMA AtWork ==
  ASSUME CampaignTypeOK, ScriptKept, pc # "idle"
  PROVE  /\ active \in Batches /\ active # None /\ state[active] # None
         /\ phase \in DOMAIN Phases(active)
         /\ <<active, Name>> \in RunIds /\ Current = runs[<<active, Name>>] /\ Current \in RunType
         /\ active \notin Measures => active \in Planners /\ phase \in 1..4
         /\ active \in Measures => phase = 1 /\ Name = "preflight"
<1>1. active \in Batches /\ active # None /\ state[active] # None /\ phase \in DOMAIN Phases(active)
  BY DEF CampaignTypeOK, ScriptKept
<1>2. active \notin Measures => active \in Planners /\ phase \in 1..4
  BY <1>1, KindFacts, PhaseFacts
<1>3. active \in Measures => phase = 1 /\ Name = "preflight"
  BY <1>1, PhasesOfMeasure DEF Name
<1>4. <<active, Name>> \in RunIds
  <2>1. CASE active \in Measures
    <3>1. "preflight" \in ToSet(Phases(active))
      BY <2>1, PhasesOfMeasure DEF ToSet
    <3> QED BY <1>1, <1>3, <2>1, <3>1, NameFacts DEF RunIds
  <2>2. CASE active \notin Measures
    BY <1>2, <2>2, PhaseFacts DEF Name
  <2> QED BY <2>1, <2>2
<1>5. Current = runs[<<active, Name>>] /\ Current \in RunType
  BY <1>4 DEF Current, Own, CampaignTypeOK, RunType, Summaries
<1> QED BY <1>1, <1>2, <1>3, <1>4, <1>5

(* The steps of a script ----------------------------------------------------- *)

PointerType == [batch : Measures \union {None},
                state : {None, "running", "interrupted", "cleanup_unconfirmed", "completed",
                         "stopped_after_preflight"}]
PointerKept ==
  /\ pointer.batch = None => pointer.state = None
  /\ pointer.batch # None => state[pointer.batch] # None

CampaignKept == CampaignTypeOK /\ ScriptKept /\ PhasesKept /\ GatesHold

LEMMA StateIsSet ==
  ASSUME CampaignTypeOK, NEW b \in Batches, NEW s \in {"open", "stopped", "completed"},
         state' = [state EXCEPT ![b] = s]
  PROVE  /\ state' \in [Batches -> {None, "open", "stopped", "completed"}] /\ state'[b] = s
         /\ \A c \in Batches : c # b => state'[c] = state[c]
         /\ \A c \in Batches : state'[c] = None => state[c] = None
BY DEF CampaignTypeOK, None

\* What every step keeps that leaves the runs alone.
LEMMA RunsAlone ==
  ASSUME CampaignTypeOK, UNCHANGED <<approved, runs>>,
         \/ state' = state
         \/ \E b \in Batches, s \in {"open", "stopped"} : state' = [state EXCEPT ![b] = s]
  PROVE  Steady /\ state' \in [Batches -> {None, "open", "stopped", "completed"}]
<1>1. Sticks
  BY RunsStick
<1>2. CASE state' = state
  BY <1>1, <1>2 DEF Steady, CampaignTypeOK
<1>3. CASE \E b \in Batches, s \in {"open", "stopped"} : state' = [state EXCEPT ![b] = s]
  <2>1. PICK b \in Batches, s \in {"open", "stopped"} : state' = [state EXCEPT ![b] = s]
    BY <1>3
  <2>2. /\ state' \in [Batches -> {None, "open", "stopped", "completed"}]
        /\ \A c \in Batches : c # b => state'[c] = state[c]
        /\ \A c \in Batches : state'[c] = None => state[c] = None
        /\ state'[b] = s
    BY <2>1, StateIsSet
  <2>3. \A c \in Batches : state'[c] = "completed" => state[c] = "completed"
    BY <2>2
  <2> QED BY <1>1, <2>2, <2>3 DEF Steady
<1> QED BY <1>2, <1>3

\* A script ends.
LEMMA ScriptEnds ==
  ASSUME CampaignKept, Idle, Steady,
         state' \in [Batches -> {None, "open", "stopped", "completed"}],
         runs' \in [RunIds -> RunType], populated' = populated,
         gateway' \in [Measures -> SUBSET {"script", "orphan"}],
         pointer' \in PointerType, pointer'.batch = pointer.batch,
         pointer'.state = pointer.state \/ pointer.batch # None
  PROVE  CampaignKept'
<1> USE DEF CampaignKept
<1>1. pc' = "idle" /\ active' = None
  BY DEF Idle
<1>2. CampaignTypeOK'
  BY <1>1 DEF CampaignTypeOK, Steady, RunType, Summaries, PointerType
<1>3. PhasesKept'
  BY <1>1, PhasesStay
<1>4. GatesHold'
  BY GatesStay
<1>5. ScriptKept'
  <2>1. pointer.batch # None => state'[pointer.batch] # None
    <3>1. pointer.batch # None => pointer.batch \in Batches
      BY KindFacts DEF CampaignTypeOK
    <3> QED BY <3>1 DEF ScriptKept, Steady
  <2>2. active' \notin Measures
    BY <1>1, KindFacts
  <2> QED BY <1>1, <2>1, <2>2 DEF ScriptKept
<1> QED BY <1>2, <1>3, <1>4, <1>5

LEMMA ClosedTyped ==
  ASSUME CampaignTypeOK, NEW confirmed \in BOOLEAN, Closed(confirmed)
  PROVE  gateway' \in [Measures -> SUBSET {"script", "orphan"}]
<1>1. CASE active \notin Measures
  BY <1>1 DEF Closed, CampaignTypeOK
<1>2. CASE active \in Measures
  <2>1. gateway[active] \subseteq {"script", "orphan"}
    BY <1>2 DEF CampaignTypeOK
  <2>2. Remaining(gateway[active], confirmed) \in SUBSET {"script", "orphan"}
    BY <2>1 DEF Remaining
  <2>3. gateway' = [gateway EXCEPT ![active] = Remaining(gateway[active], confirmed)]
    BY <1>2 DEF Closed
  <2> QED BY <1>2, <2>2, <2>3 DEF CampaignTypeOK
<1> QED BY <1>1, <1>2

LEMMA InterruptedTyped ==
  ASSUME CampaignTypeOK, ScriptKept, NEW confirmed \in BOOLEAN, Interrupted(confirmed)
  PROVE  /\ pointer' \in PointerType /\ pointer'.batch = pointer.batch
         /\ pointer'.state = pointer.state \/ pointer.batch # None
<1>1. CASE active \notin Measures
  BY <1>1 DEF Interrupted, CampaignTypeOK, PointerType
<1>2. CASE active \in Measures
  <2>1. PICK s \in {"interrupted", "cleanup_unconfirmed"} : pointer' = [pointer EXCEPT !.state = s]
    BY <1>2 DEF Interrupted
  <2>2. pointer.batch # None
    BY <1>2 DEF ScriptKept
  <2> QED BY <2>1, <2>2 DEF CampaignTypeOK, PointerType
<1> QED BY <1>1, <1>2

LEMMA RunsTyped == CampaignTypeOK => runs \in [RunIds -> RunType]
BY DEF CampaignTypeOK, RunType, Summaries

LEMMA PointerSame ==
  CampaignTypeOK /\ pointer' = pointer => pointer' \in PointerType /\ pointer'.batch = pointer.batch
BY DEF CampaignTypeOK, PointerType

LEMMA RaiseKeeps ==
  ASSUME CampaignKept, pc # "idle", Raise
  PROVE  CampaignKept'
<1> USE DEF CampaignKept
<1>1. PICK confirmed \in BOOLEAN :
        /\ Idle /\ Closed(confirmed) /\ Interrupted(confirmed)
        /\ state' = [state EXCEPT ![active] =
                       IF Preparing \/ (@ = "stopped" /\ Name \notin {"preflight", "main"})
                         THEN @ ELSE "open"]
        /\ UNCHANGED <<approved, runs, populated, order, starts, over>>
  BY DEF Raise
<1>2. active \in Batches
  BY AtWork
<1>3. state' = state \/ state' = [state EXCEPT ![active] = "open"]
  BY <1>1, <1>2 DEF CampaignTypeOK
<1>4. Steady /\ state' \in [Batches -> {None, "open", "stopped", "completed"}]
  BY <1>1, <1>2, <1>3, RunsAlone
<1> QED BY <1>1, <1>4, RunsTyped, ClosedTyped, InterruptedTyped, ScriptEnds

LEMMA EndsKeep ==
  ASSUME CampaignKept,
         Killed \/ StopAtFingerprint \/ End \/ (CloseMeasure /\ pc' = "idle") \/ (LaunchRepair /\ Idle)
  PROVE  CampaignKept'
<1> USE DEF CampaignKept
<1>0. pc # "idle"
  BY DEF Killed, StopAtFingerprint, End, CloseMeasure, LaunchRepair, Preparing
<1>1. active \in Batches
  BY <1>0, AtWork
<1>2. CASE Killed
  BY <1>2, RunsAlone, RunsTyped, ClosedTyped, PointerSame, ScriptEnds DEF Killed
<1>3. CASE StopAtFingerprint
  <2>1. gateway' \in [Measures -> SUBSET {"script", "orphan"}]
    BY <1>3 DEF StopAtFingerprint, CampaignTypeOK
  <2> QED BY <1>1, <1>3, <2>1, RunsAlone, RunsTyped, PointerSame, ScriptEnds DEF StopAtFingerprint
<1>4. CASE End
  <2>1. PICK confirmed \in BOOLEAN :
          /\ Closed(confirmed)
          /\ state' = IF confirmed \/ active \in Repairs THEN state
                      ELSE [state EXCEPT ![active] = "open"]
    BY <1>4 DEF End
  <2>2. Idle /\ UNCHANGED <<approved, runs, populated, pointer>>
    BY <1>4 DEF End
  <2> QED BY <1>1, <2>1, <2>2, RunsAlone, RunsTyped, ClosedTyped, PointerSame, ScriptEnds
<1>5. CASE CloseMeasure /\ pc' = "idle"
  <2>1. PICK confirmed \in BOOLEAN :
          /\ Closed(confirmed) /\ Interrupted(confirmed)
          /\ IF confirmed THEN pc' = "finalize" /\ UNCHANGED <<active, phase>> ELSE Idle
    BY <1>5 DEF CloseMeasure
  <2>2. Idle /\ UNCHANGED <<state, approved, runs, populated>>
    BY <1>5, <2>1 DEF CloseMeasure
  <2> QED BY <2>1, <2>2, RunsAlone, RunsTyped, ClosedTyped, InterruptedTyped, ScriptEnds
<1>6. CASE LaunchRepair /\ Idle
  <2>1. gateway' \in [Measures -> SUBSET {"script", "orphan"}]
    BY <1>6 DEF LaunchRepair, CampaignTypeOK
  <2> QED BY <1>6, <2>1, RunsAlone, RunsTyped, PointerSame, ScriptEnds DEF LaunchRepair
<1> QED BY <1>2, <1>3, <1>4, <1>5, <1>6

LEMMA FinalizeKeeps ==
  ASSUME CampaignKept, Finalize
  PROVE  CampaignKept'
<1> USE DEF CampaignKept
<1>0. pc = "finalize" /\ active \in Measures
  BY DEF Finalize, ScriptKept
<1>1. /\ <<active, Name>> \in RunIds /\ Current = runs[<<active, Name>>] /\ Current \in RunType
      /\ state[active] # None
  BY <1>0, AtWork
<1>2. PICK s \in {"completed", "completed_with_failures"} :
        runs' = [runs EXCEPT ![<<active, Name>>] = [Current EXCEPT !.summary = s]]
  BY DEF Finalize, Update
<1>3. PICK t \in {"completed", "stopped_after_preflight"} : pointer' = [pointer EXCEPT !.state = t]
  BY DEF Finalize
<1>4. Idle /\ UNCHANGED <<state, approved, populated, gateway>>
  BY DEF Finalize
<1>5. PICK id \in RunIds : id = <<active, Name>>
  BY <1>1
<1>6. PICK r \in RunType : r = runs[id]
  BY <1>1, <1>5
<1>7. [r EXCEPT !.summary = s] \in RunType
  BY DEF RunType, Summaries
<1>8. /\ runs' \in [RunIds -> RunType] /\ runs'[id] = [r EXCEPT !.summary = s]
      /\ \A q \in RunIds : q # id => runs'[q] = runs[q]
  BY <1>1, <1>2, <1>5, <1>6, <1>7, RunsTyped
<1>9. /\ runs'[id].summary # None /\ runs'[id].manifest = r.manifest
      /\ runs'[id].cells = r.cells /\ runs'[id].calls = r.calls
      /\ runs'[id].failed = r.failed /\ runs'[id].many = r.many /\ runs'[id].quiet = r.quiet
  BY <1>8 DEF RunType, None
<1>10. Sticks
  BY <1>6, <1>8, <1>9 DEF Sticks
<1>11. Steady
  <2>1. \A q \in RunIds : runs'[q].manifest => runs[q].manifest
    BY <1>6, <1>8, <1>9
  <2>2. \A q \in RunIds : runs'[q] = runs[q] \/ state[q[1]] # None
    BY <1>1, <1>5, <1>8
  <2> QED BY <1>4, <1>10, <2>1, <2>2 DEF Steady
<1>12. pointer' \in PointerType /\ pointer'.batch = pointer.batch /\ pointer.batch # None
  BY <1>0, <1>3 DEF CampaignTypeOK, PointerType, ScriptKept
<1>13. /\ state' \in [Batches -> {None, "open", "stopped", "completed"}]
       /\ gateway' \in [Measures -> SUBSET {"script", "orphan"}]
  BY <1>4 DEF CampaignTypeOK
<1> QED BY <1>4, <1>8, <1>11, <1>12, <1>13, ScriptEnds

\* A script starts at the first phase of its batch.
LEMMA StartsKeep ==
  ASSUME CampaignKept, NEW b \in Batches, NEW at \in {"fresh", "prepare", "finalize"}, Begin(b, at),
         runs' = runs, state'[b] # None,
         \A c \in Batches : /\ state'[c] = None => state[c] = None
                            /\ state'[c] = "completed" => state[c] = "completed",
         state' \in [Batches -> {None, "open", "stopped", "completed"}],
         approved' \in [Batches -> Measures \union {None}],
         \A c \in Batches : approved'[c] = approved[c] \/ (state[c] = None /\ state'[c] # "completed"),
         pointer' \in PointerType, pointer'.batch = None => pointer'.state = None,
         pointer'.batch = pointer.batch \/ pointer'.batch = b,
         b \in Measures => pointer'.batch # None /\ at # "fresh",
         at = "finalize" => b \in Measures,
         b \in Measures /\ at = "prepare" => Own(b, "preflight").summary = None,
         UNCHANGED <<populated, gateway>>
  PROVE  CampaignKept'
<1> USE DEF CampaignKept
<1>1. active' = b /\ phase' = 1 /\ pc' = at /\ b # None
  BY KindFacts DEF Begin
<1>2. CampaignTypeOK'
  BY <1>1 DEF CampaignTypeOK, PointerType
<1>a. DOMAIN Phases(b) = 1..1 \/ DOMAIN Phases(b) = 1..4
  <2>1. b \in Measures \/ b \in Planners
    BY KindFacts
  <2>2. CASE b \in Measures
    BY <2>2, PhasesOfMeasure
  <2>3. CASE b \in Planners
    BY <2>3, PhaseFacts
  <2> QED BY <2>1, <2>2, <2>3
<1>3. ScriptKept'
  <2>1. 1 \in DOMAIN Phases(b)
    BY <1>a
  <2>2. pointer'.batch # None => state'[pointer'.batch] # None
    BY KindFacts DEF CampaignTypeOK, ScriptKept
  <2>3. ASSUME b \in Measures, at = "prepare" PROVE Current'.summary = None
    <3>1. Name' = "preflight"
      BY <1>1, <2>3, PhasesOfMeasure DEF Name, Phases
    <3>2. Current' = Own(b, "preflight")
      BY <1>1, <3>1 DEF Current, Own
    <3> QED BY <2>3, <3>2
  <2>4. DOMAIN Phases(active') = DOMAIN Phases(b)
    BY <1>1
  <2> QED BY <1>1, <2>1, <2>2, <2>3, <2>4 DEF ScriptKept, Phases
<1>4. PhasesKept'
  <2>1. \A id \in RunIds : state'[id[1]] = None => runs'[id] = NoRun
    BY RunIdFacts DEF PhasesKept
  <2>2. ~\E j \in DOMAIN Phases(active') : j < phase'
    <3>1. \A j \in DOMAIN Phases(b) : ~(j < 1)
      BY <1>a
    <3> QED BY <1>1, <3>1
  <2> QED BY <1>1, <2>1, <2>2 DEF PhasesKept, Phases
<1>5. GatesHold'
  <2> SUFFICES ASSUME NEW c \in Planners, NEW j \in 1..4 PROVE GatesAt(c, j)'
    BY GatesByPhase
  <2>1. c \in Batches /\ GatesAt(c, j)
    BY GatesByPhase, KindFacts
  <2>2. CASE approved'[c] = approved[c]
    BY <2>1, <2>2, RunsStick, GateStays
  <2>3. CASE state[c] = None /\ state'[c] # "completed"
    <3>1. \A i \in j + 1 .. 4 : i \in 1..4
      OBVIOUS
    <3>2. \A i \in j + 1 .. 4 : <<c, Phases(c)[i]>> \in RunIds
      BY <3>1, PhaseFacts
    <3>3. \A i \in j + 1 .. 4 : runs[<<c, Phases(c)[i]>>] = NoRun
      BY <2>3, <3>2 DEF PhasesKept
    <3>4. \A i \in j + 1 .. 4 : ~runs'[<<c, Phases(c)[i]>>].manifest
      BY <3>3 DEF NoRun
    <3> QED BY <2>3, <3>4 DEF GatesAt, Own, Phases
  <2> QED BY <2>1, <2>2, <2>3
<1> QED BY <1>2, <1>3, <1>4, <1>5

LEMMA OpenedState ==
  ASSUME CampaignTypeOK, NEW b \in Batches, state' = [state EXCEPT ![b] = "open"]
  PROVE  /\ state' \in [Batches -> {None, "open", "stopped", "completed"}] /\ state'[b] # None
         /\ state'[b] # "completed"
         /\ \A c \in Batches : /\ state'[c] = None => state[c] = None
                               /\ state'[c] = "completed" => state[c] = "completed"
BY StateIsSet DEF None

LEMMA StartMeasureKeeps ==
  ASSUME CampaignKept, NEW b \in Measures, StartMeasure(b)
  PROVE  CampaignKept'
<1> USE DEF CampaignKept
<1>1. /\ Begin(b, "prepare") /\ state[b] = None
      /\ state' = [state EXCEPT ![b] = "open"]
      /\ pointer' = [batch |-> b, state |-> "running"]
      /\ UNCHANGED <<approved, runs, populated, gateway>>
  BY DEF StartMeasure
<1>2. b \in Batches /\ b # None
  BY KindFacts
<1>3. pointer' \in PointerType /\ pointer'.batch = b
  BY <1>1 DEF PointerType
<1>4. Own(b, "preflight").summary = None
  <2>1. <<b, "preflight">> \in RunIds
    <3>1. "preflight" \in ToSet(Phases(b))
      BY PhasesOfMeasure DEF ToSet
    <3> QED BY <1>2, <3>1, NameFacts DEF RunIds
  <2>2. runs[<<b, "preflight">>] = NoRun
    BY <1>1, <2>1 DEF PhasesKept
  <2> QED BY <2>2 DEF Own, NoRun
<1>5. approved' \in [Batches -> Measures \union {None}]
  BY <1>1 DEF CampaignTypeOK
<1> QED BY <1>1, <1>2, <1>3, <1>4, <1>5, OpenedState, StartsKeep

LEMMA ResumeMeasureKeeps ==
  ASSUME CampaignKept, ResumeMeasure
  PROVE  CampaignKept'
<1> USE DEF CampaignKept
<1>1. pointer.state = "interrupted"
  BY DEF ResumeMeasure, Resumable
<1>2. pointer.batch \in Measures /\ pointer.batch # None /\ state[pointer.batch] # None
  BY <1>1 DEF ScriptKept, CampaignTypeOK, None
<1>3. PICK b \in Measures : b = pointer.batch
  BY <1>2
<1>4. b \in Batches
  BY KindFacts
<1>5. UNCHANGED <<state, approved, runs, populated, gateway>>
  BY DEF ResumeMeasure
<1>6. /\ state' \in [Batches -> {None, "open", "stopped", "completed"}]
      /\ approved' \in [Batches -> Measures \union {None}]
  BY <1>5 DEF CampaignTypeOK
<1>7. CASE Own(pointer.batch, "preflight").summary # None
  <2>1. Begin(b, "finalize") /\ pointer' = pointer
    BY <1>3, <1>7 DEF ResumeMeasure
  <2>2. pointer' \in PointerType
    BY <2>1 DEF CampaignTypeOK, PointerType
  <2> QED BY <1>2, <1>3, <1>4, <1>5, <1>6, <2>1, <2>2, StartsKeep
<1>8. CASE Own(pointer.batch, "preflight").summary = None
  <2>1. Begin(b, "prepare") /\ pointer' = [pointer EXCEPT !.state = "running"]
    BY <1>3, <1>8 DEF ResumeMeasure
  <2>2. pointer' \in PointerType /\ pointer'.batch = b
    BY <1>3, <2>1 DEF CampaignTypeOK, PointerType
  <2>3. Own(b, "preflight").summary = None
    BY <1>3, <1>8
  <2> QED BY <1>2, <1>3, <1>4, <1>5, <1>6, <2>1, <2>2, <2>3, StartsKeep
<1> QED BY <1>7, <1>8

LEMMA StartPlannerKeeps ==
  ASSUME CampaignKept, NEW b \in Planners,
         StartCampaign(b) \/ ResumeCampaign(b) \/ StartRepair(b) \/ ResumeRepair(b)
  PROVE  CampaignKept'
<1> USE DEF CampaignKept
<1>1. b \in Batches /\ b \notin Measures
  BY KindFacts
<1>2. pointer' = pointer /\ UNCHANGED <<runs, populated, gateway>>
  BY DEF StartCampaign, ResumeCampaign, StartRepair, ResumeRepair
<1>3. /\ pointer' \in PointerType /\ (pointer'.batch = None => pointer'.state = None)
      /\ pointer'.batch = pointer.batch
  BY <1>2 DEF CampaignTypeOK, PointerType, ScriptKept
<1>4. CASE StartCampaign(b)
  <2>1. /\ Begin(b, "prepare") /\ state[b] = None /\ state' = [state EXCEPT ![b] = "open"]
    BY <1>4 DEF StartCampaign
  <2>2. PICK a \in Measures \union {None} : approved' = [approved EXCEPT ![b] = a]
    BY <1>4 DEF StartCampaign
  <2>3. /\ approved' \in [Batches -> Measures \union {None}]
        /\ \A c \in Batches : c # b => approved'[c] = approved[c]
    BY <2>2 DEF CampaignTypeOK
  <2>4. /\ state' \in [Batches -> {None, "open", "stopped", "completed"}] /\ state'[b] # None
        /\ state'[b] # "completed"
        /\ \A c \in Batches : /\ state'[c] = None => state[c] = None
                              /\ state'[c] = "completed" => state[c] = "completed"
    BY <1>1, <2>1, OpenedState
  <2>5. \A c \in Batches : approved'[c] = approved[c] \/ (state[c] = None /\ state'[c] # "completed")
    BY <2>1, <2>3, <2>4
  <2> QED BY <1>1, <1>2, <1>3, <2>1, <2>3, <2>4, <2>5, StartsKeep
<1>5. CASE ResumeCampaign(b)
  <2>1. Begin(b, "prepare") /\ state' = [state EXCEPT ![b] = "open"] /\ approved' = approved
    BY <1>5 DEF ResumeCampaign
  <2>2. approved' \in [Batches -> Measures \union {None}]
    BY <2>1 DEF CampaignTypeOK
  <2> QED BY <1>1, <1>2, <1>3, <2>1, <2>2, OpenedState, StartsKeep
<1>6. CASE StartRepair(b)
  <2>1. Begin(b, "fresh") /\ state' = [state EXCEPT ![b] = "open"] /\ approved' = approved
    BY <1>6 DEF StartRepair
  <2>2. approved' \in [Batches -> Measures \union {None}]
    BY <2>1 DEF CampaignTypeOK
  <2> QED BY <1>1, <1>2, <1>3, <2>1, <2>2, OpenedState, StartsKeep
<1>7. CASE ResumeRepair(b)
  <2>1. Begin(b, "prepare") /\ state[b] # None /\ state' = state /\ approved' = approved
    BY <1>7 DEF ResumeRepair
  <2>2. /\ state' \in [Batches -> {None, "open", "stopped", "completed"}]
        /\ approved' \in [Batches -> Measures \union {None}]
    BY <2>1 DEF CampaignTypeOK
  <2> QED BY <1>1, <1>2, <1>3, <2>1, <2>2, StartsKeep
<1> QED BY <1>4, <1>5, <1>6, <1>7

\* The script goes on with the phase it is at.
LEMMA StaysKeep ==
  ASSUME CampaignKept, pc # "idle", Steady, UNCHANGED <<active, phase>>,
         pc' \in {"phase", "manifest", "cells", "cell", "judge", "end", "close", "finalize"},
         state' \in [Batches -> {None, "open", "stopped", "completed"}],
         runs' \in [RunIds -> RunType], populated' \subseteq Batches,
         gateway' \in [Measures -> SUBSET {"script", "orphan"}],
         pointer' \in PointerType, pointer'.batch = pointer.batch,
         pointer'.state = pointer.state \/ pointer.batch # None,
         active \in Measures => pc' \notin {"judge", "end"},
         pc' \in {"close", "finalize"} => active \in Measures,
         active \in Measures /\ pc' = "phase" => Current'.summary = None,
         pc' \in {"manifest", "cells", "cell"} => ~UsesApproved /\ Current'.summary = None,
         pc' = "judge" => At(active, Name)'.summary # None
  PROVE  CampaignKept'
<1> USE DEF CampaignKept
<1>1. /\ active \in Batches /\ active # None /\ state[active] # None
      /\ phase \in DOMAIN Phases(active)
  BY AtWork
<1>2. CampaignTypeOK'
  BY DEF CampaignTypeOK, Steady, RunType, Summaries, PointerType
<1>3. PhasesKept'
  BY PhasesStay
<1>4. GatesHold'
  BY GatesStay
<1>5. ScriptKept'
  <2>1. pointer.batch # None => state'[pointer.batch] # None
    <3>1. pointer.batch # None => pointer.batch \in Batches
      BY KindFacts DEF CampaignTypeOK
    <3> QED BY <3>1 DEF ScriptKept, Steady
  <2>2. state'[active] # None
    BY <1>1 DEF Steady
  <2>3. Phases(active') = Phases(active) /\ Phases(active)' = Phases(active)
    BY DEF Phases
  <2>4. UsesApproved' <=> UsesApproved
    BY DEF UsesApproved, Name, Phases, Steady
  <2>5. pc' # "idle" <=> active' # None
    BY <1>1
  <2>6. pc' \notin {"fresh", "prepare", "finish"}
    OBVIOUS
  <2>7. pointer.batch = None => pointer'.state = None
    BY DEF ScriptKept
  <2>8. active \in Measures => pointer.batch # None
    BY DEF ScriptKept
  <2> QED BY <1>1, <2>1, <2>2, <2>3, <2>4, <2>5, <2>6, <2>7, <2>8 DEF ScriptKept
<1> QED BY <1>2, <1>3, <1>4, <1>5

LEMMA CurrentSame ==
  ASSUME UNCHANGED <<active, phase, runs>> PROVE Current' = Current /\ Name' = Name
BY DEF Current, Own, Name, Phases

\* The run at work, while it has no summary.
LEMMA UpdateSteady ==
  ASSUME CampaignTypeOK, ScriptKept, pc # "idle", Current.summary = None,
         UNCHANGED <<active, phase, state, approved>>,
         NEW r \in RunType, Update(r), r.manifest => Current.manifest
  PROVE  Steady /\ runs' \in [RunIds -> RunType] /\ Current' = r /\ Own(active, Name)' = r
<1>1. /\ <<active, Name>> \in RunIds /\ Current = runs[<<active, Name>>]
      /\ state[active] # None
  BY AtWork
<1>2. PICK id \in RunIds : id = <<active, Name>>
  BY <1>1
<1>3. runs' = [runs EXCEPT ![id] = r]
  BY <1>2 DEF Update
<1>4. runs' \in [RunIds -> RunType] /\ runs'[id] = r /\ \A q \in RunIds : q # id => runs'[q] = runs[q]
  BY <1>3, RunsTyped
<1>5. Sticks
  BY <1>1, <1>2, <1>4 DEF Sticks
<1>6. \A q \in RunIds : runs'[q].manifest => runs[q].manifest
  BY <1>1, <1>2, <1>4
<1>7. \A q \in RunIds : runs'[q] = runs[q] \/ state[q[1]] # None
  BY <1>1, <1>2, <1>4
<1>8. Steady
  BY <1>5, <1>6, <1>7 DEF Steady
<1>9. Name' = Name
  BY DEF Name, Phases
<1> QED BY <1>2, <1>4, <1>8, <1>9 DEF Current, Own

\* Steps that touch the script's place only, its batch's state or its gateway.
LEMMA AloneTyped ==
  ASSUME CampaignTypeOK, ScriptKept, UNCHANGED <<approved, runs, populated, pointer>>
  PROVE  /\ runs' \in [RunIds -> RunType] /\ populated' \subseteq Batches
         /\ pointer' \in PointerType /\ pointer'.batch = pointer.batch
         /\ pointer'.state = pointer.state
BY DEF CampaignTypeOK, RunType, Summaries, PointerType

LEMMA LaunchesKeep ==
  ASSUME CampaignKept, LaunchMeasure \/ LaunchCampaign \/ (LaunchRepair /\ ~Idle)
  PROVE  CampaignKept'
<1> USE DEF CampaignKept
<1>0. pc # "idle"
  BY DEF LaunchMeasure, LaunchCampaign, LaunchRepair, Preparing
<1>1. active \in Batches
  BY <1>0, AtWork
<1>2. CASE LaunchMeasure
  <2>1. gateway' \in [Measures -> SUBSET {"script", "orphan"}]
    <3>1. active \in Measures /\ gateway[active] \union {"script"} \in SUBSET {"script", "orphan"}
      BY <1>2 DEF LaunchMeasure, CampaignTypeOK
    <3>2. gateway' = [gateway EXCEPT ![active] = gateway[active] \union {"script"}]
      BY <1>2 DEF LaunchMeasure
    <3> QED BY <3>1, <3>2 DEF CampaignTypeOK
  <2>2. /\ UNCHANGED <<active, phase, state, approved, runs, populated, pointer>>
        /\ pc' = "phase" /\ pc = "prepare" /\ active \in Measures
    BY <1>2 DEF LaunchMeasure
  <2>3. Current'.summary = None
    BY <2>2, CurrentSame DEF ScriptKept
  <2> QED BY <1>0, <2>1, <2>2, <2>3, RunsAlone, AloneTyped, StaysKeep
<1>3. CASE LaunchCampaign
  <2>1. /\ UNCHANGED <<active, phase, approved, runs, populated, gateway, pointer>>
        /\ pc' = "phase" /\ active \in Campaigns /\ state' = [state EXCEPT ![active] = "open"]
    BY <1>3 DEF LaunchCampaign
  <2>2. gateway' \in [Measures -> SUBSET {"script", "orphan"}]
    BY <2>1 DEF CampaignTypeOK
  <2>3. active \notin Measures
    BY <2>1, KindFacts DEF Planners
  <2> QED BY <1>0, <1>1, <2>1, <2>2, <2>3, RunsAlone, AloneTyped, StaysKeep
<1>4. CASE LaunchRepair /\ ~Idle
  <2>1. /\ UNCHANGED <<active, phase, state, approved, runs, populated, gateway, pointer>>
        /\ pc' = "phase" /\ active \in Repairs
    BY <1>4 DEF LaunchRepair
  <2>2. gateway' \in [Measures -> SUBSET {"script", "orphan"}]
    BY <2>1 DEF CampaignTypeOK
  <2>3. active \notin Measures
    BY <2>1, KindFacts DEF Planners
  <2> QED BY <1>0, <2>1, <2>2, <2>3, RunsAlone, AloneTyped, StaysKeep
<1> QED BY <1>2, <1>3, <1>4

\* The summaries a phase takes over, and the runs it opens.
LEMMA TakesKeep ==
  ASSUME CampaignKept, ApprovedGate \/ TakeSummary \/ OpenRun
  PROVE  CampaignKept'
<1> USE DEF CampaignKept
<1>0. pc = "phase"
  BY DEF ApprovedGate, TakeSummary, OpenRun
<1>2. CASE Raise
  BY <1>0, <1>2, RaiseKeeps
<1>3. CASE ApprovedGate /\ ~Raise
  <2>1. /\ UsesApproved /\ RoundCompleted(approved[active]) /\ pc' = "judge"
        /\ UNCHANGED <<active, phase, state, approved, runs, populated, gateway, pointer>>
    BY <1>3 DEF ApprovedGate
  <2>2. gateway' \in [Measures -> SUBSET {"script", "orphan"}]
    BY <2>1 DEF CampaignTypeOK
  <2>3. active \notin Measures
    BY <2>1, KindFacts DEF Planners, UsesApproved
  <2>4. At(active, Name)'.summary # None
    <3>1. At(active, Name) = Own(approved[active], "preflight")
      BY <2>1 DEF At, UsesApproved
    <3>2. Own(approved[active], "preflight").summary = "completed"
      BY <2>1 DEF RoundCompleted
    <3>3. At(active, Name)' = At(active, Name)
      BY <2>1 DEF At, Own, Name, Phases
    <3> QED BY <3>1, <3>2, <3>3 DEF None
  <2> QED BY <1>0, <2>1, <2>2, <2>3, <2>4, RunsAlone, AloneTyped, StaysKeep
<1>4. CASE TakeSummary /\ ~Raise
  <2>1. /\ ~UsesApproved /\ Current.summary # None /\ pc' = "judge"
        /\ UNCHANGED <<active, phase, state, approved, runs, populated, gateway, pointer>>
    BY <1>4 DEF TakeSummary
  <2>2. gateway' \in [Measures -> SUBSET {"script", "orphan"}]
    BY <2>1 DEF CampaignTypeOK
  <2>3. active \notin Measures
    BY <1>0, <2>1 DEF ScriptKept
  <2>4. At(active, Name)'.summary # None
    <3>1. At(active, Name) = Current
      BY <2>1 DEF At, UsesApproved, Current
    <3>2. At(active, Name)' = At(active, Name)
      BY <2>1 DEF At, Own, Name, Phases
    <3> QED BY <2>1, <3>1, <3>2
  <2> QED BY <1>0, <2>1, <2>2, <2>3, <2>4, RunsAlone, AloneTyped, StaysKeep
<1>5. CASE OpenRun /\ ~Raise
  <2>1. /\ ~UsesApproved /\ Current.summary = None /\ pc' \in {"cells", "manifest"}
        /\ populated' = IF CopiesLibrary THEN populated \union {active} ELSE populated
        /\ UNCHANGED <<active, phase, state, approved, runs, gateway, pointer>>
    BY <1>5 DEF OpenRun
  <2>2. gateway' \in [Measures -> SUBSET {"script", "orphan"}]
    BY <2>1 DEF CampaignTypeOK
  <2>3. populated' \subseteq Batches
    <3>1. active \in Batches
      BY <1>0, AtWork
    <3> QED BY <2>1, <3>1 DEF CampaignTypeOK
  <2>4. Current'.summary = None
    BY <2>1, CurrentSame
  <2>5. /\ runs' \in [RunIds -> RunType]
        /\ pointer' \in PointerType /\ pointer'.batch = pointer.batch
        /\ pointer'.state = pointer.state
    BY <2>1 DEF CampaignTypeOK, RunType, Summaries, PointerType
  <2> QED BY <1>0, <2>1, <2>2, <2>3, <2>4, <2>5, RunsAlone, StaysKeep
<1> QED BY <1>2, <1>3, <1>4, <1>5

LEMMA RunTypeSteps ==
  ASSUME NEW r \in RunType
  PROVE  /\ [r EXCEPT !.held = 1] \in RunType
         /\ [r EXCEPT !.held = 1].summary = r.summary /\ [r EXCEPT !.held = 1].manifest = r.manifest
         /\ \A s \in Summaries : /\ [r EXCEPT !.summary = s] \in RunType
                                 /\ [r EXCEPT !.summary = s].summary = s
                                 /\ [r EXCEPT !.summary = s].manifest = r.manifest
BY DEF RunType

LEMMA CellsKeep ==
  ASSUME CampaignKept, BeginCell \/ EndCell
  PROVE  CampaignKept'
<1> USE DEF CampaignKept
<1>0. /\ pc \in {"cells", "cell"} /\ pc' \in {"cells", "cell"}
      /\ UNCHANGED <<active, phase, state, approved, populated, gateway, pointer>>
  BY DEF BeginCell, EndCell
<1>1. Current \in RunType /\ Current.summary = None /\ ~UsesApproved
  BY <1>0, AtWork DEF ScriptKept
<1>2. PICK c \in RunType : c = Current
  BY <1>1
<1>3. \E r \in RunType : Update(r) /\ r.summary = None /\ r.manifest = c.manifest
  <2>1. CASE BeginCell
    <3>1. Update([c EXCEPT !.held = 1])
      BY <1>2, <2>1 DEF BeginCell
    <3> QED BY <1>1, <1>2, <3>1, RunTypeSteps
  <2>2. CASE EndCell
    <3>1. PICK o \in Outcomes[Name] :
            Update([c EXCEPT !.held = 0, !.cells = c.cells + 1, !.calls = c.calls + o.calls,
                      !.failed = c.failed \/ o.failed, !.many = c.many \/ o.calls > 1,
                      !.quiet = c.quiet \/ o.calls = 0])
      BY <1>2, <2>2 DEF EndCell
    <3>2. o.calls \in Nat /\ o.failed \in BOOLEAN
      <4>1. Name \in Names
        BY <1>0, AtWork, RunIdFacts
      <4> QED BY <4>1, CampaignAssumption
    <3> DEFINE r == [c EXCEPT !.held = 0, !.cells = c.cells + 1, !.calls = c.calls + o.calls,
                      !.failed = c.failed \/ o.failed, !.many = c.many \/ o.calls > 1,
                      !.quiet = c.quiet \/ o.calls = 0]
    <3>3. r \in RunType /\ r.summary = c.summary /\ r.manifest = c.manifest
      <4>1. /\ c.cells + 1 \in Nat /\ c.calls + o.calls \in Nat
            /\ (c.failed \/ o.failed) \in BOOLEAN /\ (c.many \/ o.calls > 1) \in BOOLEAN
            /\ (c.quiet \/ o.calls = 0) \in BOOLEAN
        BY <3>2 DEF RunType
      <4>2. PICK e, f, g \in BOOLEAN : /\ e = (c.failed \/ o.failed) /\ f = (c.many \/ o.calls > 1)
                                      /\ g = (c.quiet \/ o.calls = 0)
        BY <4>1
      <4>3. PICK m, n \in Nat : m = c.cells + 1 /\ n = c.calls + o.calls
        BY <4>1
      <4>4. r = [c EXCEPT !.held = 0, !.cells = m, !.calls = n, !.failed = e, !.many = f, !.quiet = g]
        BY <4>2, <4>3
      <4> HIDE DEF r
      <4> QED BY <4>4 DEF RunType
    <3> HIDE DEF r
    <3>4. Update(r)
      BY <3>1 DEF r
    <3> QED BY <1>1, <1>2, <3>3, <3>4
  <2> QED BY <2>1, <2>2
<1>4. PICK r \in RunType : Update(r) /\ r.summary = None /\ r.manifest = c.manifest
  BY <1>3
<1>5. Steady /\ runs' \in [RunIds -> RunType] /\ Current' = r
  BY <1>0, <1>1, <1>2, <1>4, UpdateSteady
<1>6. /\ state' \in [Batches -> {None, "open", "stopped", "completed"}]
      /\ gateway' \in [Measures -> SUBSET {"script", "orphan"}] /\ populated' \subseteq Batches
      /\ pointer' \in PointerType /\ pointer'.batch = pointer.batch /\ pointer'.state = pointer.state
  BY <1>0 DEF CampaignTypeOK, PointerType
<1>7. Current'.summary = None
  BY <1>4, <1>5
<1> QED BY <1>0, <1>1, <1>5, <1>6, <1>7, StaysKeep

LEMMA EndRunKeeps ==
  ASSUME CampaignKept, EndRun
  PROVE  CampaignKept'
<1> USE DEF CampaignKept
<1>0. /\ pc = "cells" /\ pc' = IF active \in Measures THEN "close" ELSE "judge"
      /\ UNCHANGED <<active, phase, state, approved, populated, gateway, pointer>>
  BY DEF EndRun
<1>1. Current \in RunType /\ Current.summary = None /\ ~UsesApproved
  BY <1>0, AtWork DEF ScriptKept
<1>2. PICK c \in RunType : c = Current
  BY <1>1
<1>3. PICK s \in {"incomplete", "completed_with_failures", "completed"} :
        Update([c EXCEPT !.summary = s])
  BY <1>2 DEF EndRun
<1>4. PICK r \in RunType : r = [c EXCEPT !.summary = s] /\ r.summary = s /\ r.manifest = c.manifest
  <2>1. s \in Summaries
    BY DEF Summaries
  <2>2. PICK r \in RunType : r = [c EXCEPT !.summary = s]
    BY <2>1, RunTypeSteps
  <2> QED BY <2>1, <2>2, RunTypeSteps
<1>5. Steady /\ runs' \in [RunIds -> RunType] /\ Own(active, Name)' = r
  BY <1>0, <1>1, <1>2, <1>3, <1>4, UpdateSteady
<1>6. /\ state' \in [Batches -> {None, "open", "stopped", "completed"}]
      /\ gateway' \in [Measures -> SUBSET {"script", "orphan"}] /\ populated' \subseteq Batches
      /\ pointer' \in PointerType /\ pointer'.batch = pointer.batch /\ pointer'.state = pointer.state
  BY <1>0 DEF CampaignTypeOK, PointerType
<1>7. At(active, Name)'.summary # None
  <2>1. At(active, Name)' = Own(active, Name)'
    BY <1>0, <1>1 DEF At, UsesApproved, Name, Phases
  <2> QED BY <1>4, <1>5, <2>1 DEF None
<1> QED BY <1>0, <1>5, <1>6, <1>7, StaysKeep

LEMMA CloseMeasureKeeps ==
  ASSUME CampaignKept, CloseMeasure
  PROVE  CampaignKept'
<1> USE DEF CampaignKept
<1>0. PICK confirmed \in BOOLEAN :
        /\ Closed(confirmed) /\ Interrupted(confirmed)
        /\ IF confirmed THEN pc' = "finalize" /\ UNCHANGED <<active, phase>> ELSE Idle
  BY DEF CloseMeasure
<1>1. pc = "close" /\ UNCHANGED <<state, approved, runs, populated>>
  BY DEF CloseMeasure
<1>2. CASE confirmed = FALSE
  <2>1. pc' = "idle"
    BY <1>0, <1>2 DEF Idle
  <2> QED BY <2>1, EndsKeep
<1>3. CASE confirmed = TRUE
  <2>1. pc' = "finalize" /\ UNCHANGED <<active, phase>>
    BY <1>0, <1>3
  <2>2. active \in Measures
    BY <1>1 DEF ScriptKept
  <2>3. /\ gateway' \in [Measures -> SUBSET {"script", "orphan"}]
        /\ pointer' \in PointerType /\ pointer'.batch = pointer.batch
        /\ pointer'.state = pointer.state \/ pointer.batch # None
    BY <1>0, ClosedTyped, InterruptedTyped
  <2>4. populated' \subseteq Batches /\ runs' \in [RunIds -> RunType]
    BY <1>1, RunsTyped DEF CampaignTypeOK
  <2>5. Steady /\ state' \in [Batches -> {None, "open", "stopped", "completed"}]
    BY <1>1, RunsAlone
  <2> QED BY <1>1, <2>1, <2>2, <2>3, <2>4, <2>5, StaysKeep
<1> QED BY <1>2, <1>3

\* A run begins only after the phases before it have passed.
LEMMA ManifestKeeps ==
  ASSUME CampaignKept, WriteManifest
  PROVE  CampaignKept'
<1> USE DEF CampaignKept
<1>0. /\ pc = "manifest" /\ pc' = "cells"
      /\ UNCHANGED <<active, phase, state, approved, populated, gateway, pointer>>
  BY DEF WriteManifest
<1>1. /\ Current \in RunType /\ Current.summary = None /\ ~UsesApproved
      /\ <<active, Name>> \in RunIds /\ Current = runs[<<active, Name>>]
      /\ active \in Batches /\ active # None /\ state[active] # None
  BY <1>0, AtWork DEF ScriptKept
<1>2. PICK c \in RunType, id \in RunIds : c = Current /\ id = <<active, Name>>
  BY <1>1
<1>3. PICK r \in RunType : r = [c EXCEPT !.manifest = TRUE] /\ r.summary = c.summary
  <2>1. [c EXCEPT !.manifest = TRUE] \in RunType /\ [c EXCEPT !.manifest = TRUE].summary = c.summary
    BY DEF RunType
  <2> QED BY <2>1
<1>4. runs' = [runs EXCEPT ![id] = r]
  BY <1>2, <1>3 DEF WriteManifest, Update
<1>5. runs' \in [RunIds -> RunType] /\ runs'[id] = r /\ \A q \in RunIds : q # id => runs'[q] = runs[q]
  BY <1>4, RunsTyped
<1>6. Sticks
  BY <1>1, <1>2, <1>5 DEF Sticks
<1>7. Name' = Name /\ Current' = r
  BY <1>0, <1>2, <1>5 DEF Name, Phases, Current, Own
<1>8. CampaignTypeOK'
  BY <1>0, <1>5 DEF CampaignTypeOK, RunType, Summaries
<1>9. ScriptKept'
  <2>1. Phases(active') = Phases(active) /\ (UsesApproved' <=> UsesApproved)
    BY <1>0, <1>7 DEF Phases, UsesApproved
  <2>2. Current'.summary = None
    BY <1>1, <1>2, <1>3, <1>7
  <2> QED BY <1>0, <1>1, <2>1, <2>2 DEF ScriptKept, Phases
<1>10. PhasesKept'
  <2>1. \A q \in RunIds : state'[q[1]] = None => runs'[q] = NoRun
    BY <1>0, <1>1, <1>2, <1>5 DEF PhasesKept
  <2>2. ASSUME active \in Planners, NEW j \in 1..4, j < phase
        PROVE  JudgedAt(active, j)'
    <3>1. PICK b \in Planners : b = active
      BY <2>2
    <3>2. JudgedAt(b, j)
      BY <2>2, <3>1, PhaseFacts DEF PhasesKept, Planners
    <3>3. JudgedAt(b, j)'
      BY <1>0, <1>6, <3>2, JudgedStays
    <3> QED BY <1>0, <3>1, <3>3 DEF JudgedAt
  <2>3. active \in Planners => DOMAIN Phases(active) = 1..4
    BY PhaseFacts
  <2>4. ASSUME active' \in Campaigns \union Repairs, NEW j \in DOMAIN Phases(active'), j < phase'
        PROVE  JudgedAt(active, j)'
    <3>1. active \in Planners /\ j \in 1..4 /\ j < phase
      BY <1>0, <2>3, <2>4 DEF Planners
    <3> QED BY <2>2, <3>1
  <2>5. pc' # "finish"
    BY <1>0
  <2> QED BY <1>0, <2>1, <2>4, <2>5 DEF PhasesKept, Phases, JudgedAt
<1>11. GatesHold'
  <2> SUFFICES ASSUME NEW b \in Planners, NEW j \in 1..4 PROVE GatesAt(b, j)'
    BY GatesByPhase
  <2>1. GatesAt(b, j)
    BY GatesByPhase
  <2>2. CASE JudgedAt(b, j)
    BY <1>0, <1>6, <2>2, JudgedStays DEF GatesAt
  <2>3. CASE ~JudgedAt(b, j)
    <3>1. (\A i \in j + 1 .. 4 : ~Own(b, Phases(b)[i]).manifest) /\ state[b] # "completed"
      BY <2>1, <2>3 DEF GatesAt
    <3>2. ASSUME NEW i \in j + 1 .. 4
          PROVE  ~runs'[<<b, Phases(b)[i]>>].manifest
      <4>1. i \in 1..4 /\ j < i
        OBVIOUS
      <4>2. <<b, Phases(b)[i]>> \in RunIds /\ ~runs[<<b, Phases(b)[i]>>].manifest
        BY <3>1, <4>1, PhaseFacts DEF Own
      <4>3. <<b, Phases(b)[i]>> # id
        <5>1. CASE b = active
          <6>1. phase \in 1..4
            BY <1>0, <5>1, KindFacts, AtWork
          <6>2. ~(j < phase)
            BY <2>3, <5>1, PhaseFacts DEF PhasesKept, Planners
          <6>3. i # phase
            BY <4>1, <6>1, <6>2
          <6>4. Phases(b)[i] # Phases(b)[phase]
            BY <4>1, <6>1, <6>3, PhaseFacts
          <6>5. Name = Phases(b)[phase]
            BY <5>1 DEF Name
          <6> QED BY <1>2, <6>4, <6>5
        <5>2. CASE b # active
          BY <1>2, <5>2
        <5> QED BY <5>1, <5>2
      <4> QED BY <1>5, <4>2, <4>3
    <3> QED BY <1>0, <3>1, <3>2 DEF GatesAt, Own, Phases
  <2> QED BY <2>2, <2>3
<1> QED BY <1>8, <1>9, <1>10, <1>11

(* The gates ----------------------------------------------------------------- *)

\* At a gate is a campaign or a repair, with a summary; if it is good it is judged.
LEMMA AtTheGate ==
  ASSUME CampaignKept, pc = "judge"
  PROVE  /\ active \in Planners /\ phase \in 1..4 /\ state[active] # None
         /\ Good => JudgedAt(active, phase)
         /\ \A j \in 1..4 : j < phase => JudgedAt(active, j)
<1> USE DEF CampaignKept
<1>1. active \notin Measures
  BY DEF ScriptKept
<1>2. active \in Planners /\ phase \in 1..4 /\ state[active] # None
  BY <1>1, AtWork
<1>3. At(active, Name).summary # None
  BY DEF ScriptKept
<1>4. Good => JudgedAt(active, phase)
  BY <1>3 DEF Good, JudgedAt, Judged, Name
<1>5. DOMAIN Phases(active) = 1..4
  BY <1>2, PhaseFacts
<1> QED BY <1>2, <1>4, <1>5 DEF PhasesKept, Planners

LEMMA GateMoves ==
  ASSUME CampaignTypeOK, ScriptKept, active \in Planners, active' = active, phase' \in 1..4,
         pc # "idle", pc' \in {"phase", "finish", "end"},
         state' \in [Batches -> {None, "open", "stopped", "completed"}],
         \A b \in Batches : state'[b] = None => state[b] = None,
         UNCHANGED <<approved, runs, populated, gateway, pointer>>
  PROVE  CampaignTypeOK' /\ ScriptKept'
<1>1. /\ active \in Batches /\ active # None /\ active \notin Measures /\ state'[active] # None
      /\ DOMAIN Phases(active) = 1..4
  BY KindFacts, AtWork, PhaseFacts
<1>2. CampaignTypeOK'
  BY DEF CampaignTypeOK
<1>3. pointer.batch # None => state'[pointer.batch] # None
  BY KindFacts DEF CampaignTypeOK, ScriptKept
<1>4. ScriptKept'
  BY <1>1, <1>3 DEF ScriptKept, Phases
<1> QED BY <1>2, <1>4

\* The phase has passed: the script goes on.
LEMMA PassesKeep ==
  ASSUME CampaignKept, PassPreflight \/ PassMatrix \/ PassCheck \/ PassCondition
  PROVE  CampaignKept'
<1> USE DEF CampaignKept
<1>0. pc = "judge" /\ Good /\ UNCHANGED <<active, approved, runs, populated, gateway, pointer>>
  BY DEF PassPreflight, PassMatrix, PassCheck, PassCondition, AtGate, GateFrame
<1>1. /\ active \in Planners /\ phase \in 1..4 /\ state[active] # None
      /\ JudgedAt(active, phase)
      /\ \A j \in 1..4 : j < phase => JudgedAt(active, j)
  BY <1>0, AtTheGate
<1>2. PICK b \in Planners, k \in 1..4 : b = active /\ k = phase
  BY <1>1
<1>3. b \in Batches
  BY KindFacts
<1>4. state' = state \/ state' = [state EXCEPT ![b] = "open"]
  BY <1>2 DEF PassPreflight, PassMatrix, PassCheck, PassCondition, Mark
<1>5. Steady /\ state' \in [Batches -> {None, "open", "stopped", "completed"}]
  BY <1>0, <1>3, <1>4, RunsAlone
<1>6. \/ phase' = k + 1 /\ pc' = "phase" /\ k <= 3
      \/ phase' = k /\ pc' = "finish" /\ k = 4
  <2>1. Name = Phases(b)[k]
    BY <1>2 DEF Name
  <2>2. CASE PassPreflight \/ PassMatrix \/ PassCheck
    <3>1. Name \in {"preflight", "main"} \union ToSet(Checks)
      BY <2>2 DEF PassPreflight, PassMatrix, PassCheck, AtGate
    <3>2. k <= 2
      BY <2>1, <3>1, PhaseFacts
    <3>3. Proceed
      BY <2>2 DEF PassPreflight, PassMatrix, PassCheck
    <3> QED BY <1>2, <3>2, <3>3 DEF Proceed
  <2>3. CASE PassCondition
    <3>1. Name = Last(Rag) <=> k = 4
      BY <2>1, PhaseFacts
    <3>2. IF Name = Last(Rag) THEN phase' = phase /\ pc' = "finish" ELSE Proceed
      BY <2>3 DEF PassCondition
    <3> QED BY <1>2, <3>1, <3>2 DEF Proceed
  <2> QED BY <2>2, <2>3 DEF PassPreflight, PassMatrix, PassCheck, PassCondition
<1>7. \A j \in 1..4 : j <= k => JudgedAt(b, j)
  BY <1>1, <1>2
<1>8. \A j \in 1..4 : j <= k => JudgedAt(b, j)'
  BY <1>0, <1>5, <1>7, JudgedStays DEF Steady
<1>9. CampaignTypeOK' /\ ScriptKept'
  <2>1. phase' \in 1..4 /\ pc' \in {"phase", "finish", "end"}
    BY <1>6
  <2>2. \A c \in Batches : state'[c] = None => state[c] = None
    BY <1>5 DEF Steady
  <2> QED BY <1>0, <1>1, <1>5, <2>1, <2>2, GateMoves
<1>10. PhasesKept'
  <2>1. \A q \in RunIds : state'[q[1]] = None => runs'[q] = NoRun
    BY <1>0, <1>5, RunIdFacts DEF PhasesKept, Steady
  <2>2. Len(Phases(b)) = 4 /\ DOMAIN Phases(b) = 1..4
    BY PhaseFacts
  <2>3. \A j \in 1..4 : j < phase' => j <= k
    BY <1>6
  <2>4. \A j \in 1..4 : j < phase' => JudgedAt(b, j)'
    BY <1>8, <2>3
  <2>5. pc' = "finish" => phase' = 4 /\ JudgedAt(b, 4)'
    BY <1>6, <1>8
  <2>6. active' = b
    BY <1>0, <1>2
  <2> QED BY <2>1, <2>2, <2>4, <2>5, <2>6 DEF PhasesKept, Phases, JudgedAt
<1>11. GatesHold'
  BY <1>5, GatesStay
<1> QED BY <1>9, <1>10, <1>11

LEMMA StopsKeep ==
  ASSUME CampaignKept,
         \/ StopAfterPreflight \/ StopAfterMatrix \/ StopAfterChecks \/ StopAtCondition
         \/ ExceedsAtGate
  PROVE  CampaignKept'
<1> USE DEF CampaignKept
<1>0. pc = "judge"
  BY DEF StopAfterPreflight, StopAfterMatrix, StopAfterChecks, StopAtCondition, AtGate, ExceedsAtGate
<1>1. CASE ExceedsAtGate
  BY <1>0, <1>1, RaiseKeeps DEF ExceedsAtGate
<1>2. CASE StopAfterPreflight \/ StopAfterMatrix \/ StopAfterChecks \/ StopAtCondition
  <2>1. /\ phase' = phase /\ pc' = "end" /\ state' = [state EXCEPT ![active] = "stopped"]
        /\ UNCHANGED <<active, approved, runs, populated, gateway, pointer>>
    BY <1>2 DEF StopAfterPreflight, StopAfterMatrix, StopAfterChecks, StopAtCondition, Close, Mark,
                GateFrame
  <2>2. active \in Batches /\ active \notin Measures
    BY <1>0, AtTheGate, KindFacts
  <2>3. gateway' \in [Measures -> SUBSET {"script", "orphan"}]
    BY <2>1 DEF CampaignTypeOK
  <2> QED BY <1>0, <2>1, <2>2, <2>3, RunsAlone, AloneTyped, StaysKeep
<1> QED BY <1>1, <1>2

\* A batch is complete when all its phases have passed.
LEMMA FinishesKeep ==
  ASSUME CampaignKept, FinishCampaign \/ FinishRepair
  PROVE  CampaignKept'
<1> USE DEF CampaignKept
<1>0. /\ pc = "finish" /\ phase' = phase /\ pc' = "end"
      /\ state' = [state EXCEPT ![active] = "completed"] /\ active \in Planners
      /\ UNCHANGED <<active, approved, runs, populated, gateway, pointer>>
  BY DEF FinishCampaign, FinishRepair, Close, Mark, GateFrame, Planners
<1>1. PICK b \in Planners : b = active
  BY <1>0
<1>2. b \in Batches /\ Len(Phases(b)) = 4 /\ DOMAIN Phases(b) = 1..4
  BY KindFacts, PhaseFacts
<1>3. phase = 4 /\ JudgedAt(b, 4) /\ \A j \in 1..4 : j < phase => JudgedAt(b, j)
  BY <1>0, <1>1, <1>2 DEF PhasesKept, Planners
<1>4. \A j \in 1..4 : JudgedAt(b, j)
  BY <1>3
<1>5. Sticks
  BY <1>0, RunsStick
<1>6. \A j \in 1..4 : JudgedAt(b, j)'
  BY <1>0, <1>4, <1>5, JudgedStays
<1>7. /\ state' \in [Batches -> {None, "open", "stopped", "completed"}]
      /\ \A c \in Batches : c # b => state'[c] = state[c]
      /\ \A c \in Batches : state'[c] = None => state[c] = None
  BY <1>0, <1>1, <1>2, StateIsSet
<1>8. CampaignTypeOK' /\ ScriptKept'
  BY <1>0, <1>3, <1>7, GateMoves
<1>9. PhasesKept'
  <2>1. \A q \in RunIds : state'[q[1]] = None => runs'[q] = NoRun
    BY <1>0, <1>7, RunIdFacts DEF PhasesKept
  <2> QED BY <1>0, <1>1, <1>2, <1>6, <2>1 DEF PhasesKept, Phases, JudgedAt
<1>10. GatesHold'
  <2> SUFFICES ASSUME NEW c \in Planners, NEW j \in 1..4 PROVE GatesAt(c, j)'
    BY GatesByPhase
  <2>1. CASE c = b
    BY <1>6, <2>1 DEF GatesAt
  <2>2. CASE c # b
    <3>1. GatesAt(c, j) /\ c \in Batches /\ state'[c] = state[c]
      BY <1>7, <2>2, GatesByPhase, KindFacts
    <3>2. \A id \in RunIds : runs'[id].manifest => runs[id].manifest
      BY <1>0
    <3> QED BY <1>0, <1>5, <3>1, <3>2, GateStays
  <2> QED BY <2>1, <2>2
<1> QED BY <1>8, <1>9, <1>10

(* The campaign -------------------------------------------------------------- *)

LEMMA CampaignBegins == CampaignInit => CampaignInd
<1> SUFFICES ASSUME CampaignInit PROVE CampaignInd
  OBVIOUS
<1>1. CampaignTypeOK
  BY KindFacts DEF CampaignInit, CampaignTypeOK, NoRun
<1>2. ScriptKept
  <2>1. active = None /\ pc = "idle" /\ pointer.batch = None /\ pointer.state = None
    BY DEF CampaignInit
  <2>2. active \notin Measures
    BY <2>1, KindFacts
  <2> QED BY <2>1, <2>2 DEF ScriptKept
<1>3. PhasesKept
  <2>1. active \notin Campaigns \union Repairs /\ pc # "finish"
    BY KindFacts DEF CampaignInit
  <2>2. \A id \in RunIds : runs[id] = NoRun
    BY DEF CampaignInit
  <2> QED BY <2>1, <2>2 DEF PhasesKept
<1>4. GatesHold
  <2> SUFFICES ASSUME NEW b \in Planners, NEW j \in 1..4 PROVE GatesAt(b, j)
    BY GatesByPhase
  <2>1. \A i \in j + 1 .. 4 : i \in 1..4
    OBVIOUS
  <2>2. \A i \in j + 1 .. 4 : <<b, Phases(b)[i]>> \in RunIds
    BY <2>1, PhaseFacts
  <2>3. \A i \in j + 1 .. 4 : ~Own(b, Phases(b)[i]).manifest
    BY <2>2 DEF CampaignInit, Own, NoRun
  <2>4. state[b] = None
    BY KindFacts DEF CampaignInit
  <2> QED BY <2>3, <2>4 DEF GatesAt, None
<1> QED BY <1>1, <1>2, <1>3, <1>4 DEF CampaignInd

\* Nothing changes but what is left of a gateway.
LEMMA GatewayKeeps ==
  ASSUME CampaignKept, gateway' \in [Measures -> SUBSET {"script", "orphan"}],
         UNCHANGED <<pc, active, phase, state, approved, runs, populated, pointer>>
  PROVE  CampaignKept'
<1> USE DEF CampaignKept
<1>1. CampaignTypeOK'
  BY DEF CampaignTypeOK
<1>2. ScriptKept'
  BY DEF ScriptKept, Phases, Current, Own, Name, At, UsesApproved
<1>3. Steady
  BY RunsStick DEF Steady
<1>4. PhasesKept'
  <2>1. pc = "finish" => active \in Planners
    BY AtWork DEF ScriptKept
  <2> QED BY <1>3, <2>1, PhasesStay
<1>5. GatesHold'
  BY <1>3, GatesStay
<1> QED BY <1>1, <1>2, <1>4, <1>5

LEMMA CampaignKeeps == CampaignInd /\ CampaignNext => CampaignInd'
<1> SUFFICES ASSUME CampaignKept, CampaignNext PROVE CampaignKept'
  BY DEF CampaignInd, CampaignKept
<1>1. CASE \E b \in Measures : StartMeasure(b)
  BY <1>1, StartMeasureKeeps
<1>2. CASE \E b \in Planners : \/ StartCampaign(b) \/ ResumeCampaign(b)
                               \/ StartRepair(b) \/ ResumeRepair(b)
  BY <1>2, StartPlannerKeeps
<1>3. CASE ResumeMeasure
  BY <1>3, ResumeMeasureKeeps
<1>4. CASE LaunchMeasure \/ LaunchCampaign \/ LaunchRepair
  BY <1>4, LaunchesKeep, EndsKeep
<1>5. CASE StopAtFingerprint \/ End \/ Killed
  BY <1>5, EndsKeep
<1>6. CASE ApprovedGate \/ TakeSummary \/ OpenRun
  BY <1>6, TakesKeep
<1>7. CASE WriteManifest
  BY <1>7, ManifestKeeps
<1>8. CASE BeginCell \/ EndCell \/ EndRun
  BY <1>8, CellsKeep, EndRunKeeps
<1>9. CASE PassPreflight \/ PassMatrix \/ PassCheck \/ PassCondition
  BY <1>9, PassesKeep
<1>10. CASE \/ StopAfterPreflight \/ StopAfterMatrix \/ StopAfterChecks \/ StopAtCondition
            \/ ExceedsAtGate
  BY <1>10, StopsKeep
<1>11. CASE FinishCampaign \/ FinishRepair
  BY <1>11, FinishesKeep
<1>12. CASE CloseMeasure \/ Finalize
  BY <1>12, CloseMeasureKeeps, FinalizeKeeps
<1>13. CASE Fails
  BY <1>13, RaiseKeeps DEF Fails
<1>14. CASE OrphanEnds
  <2>1. PICK b \in Measures : gateway' = [gateway EXCEPT ![b] = gateway[b] \ {"orphan"}]
    BY <1>14 DEF OrphanEnds
  <2>2. gateway[b] \ {"orphan"} \in SUBSET {"script", "orphan"}
    BY DEF CampaignKept, CampaignTypeOK
  <2>3. gateway' \in [Measures -> SUBSET {"script", "orphan"}]
    BY <2>1, <2>2 DEF CampaignKept, CampaignTypeOK
  <2> QED BY <1>14, <2>3, GatewayKeeps DEF OrphanEnds
<1> QED BY <1>1, <1>2, <1>3, <1>4, <1>5, <1>6, <1>7, <1>8, <1>9, <1>10, <1>11, <1>12, <1>13, <1>14
        DEF CampaignNext, Planners

LEMMA CampaignStutters == CampaignInd /\ UNCHANGED campaignVars => CampaignInd'
<1> SUFFICES ASSUME CampaignKept, UNCHANGED campaignVars PROVE CampaignKept'
  BY DEF CampaignInd, CampaignKept
<1>1. gateway' \in [Measures -> SUBSET {"script", "orphan"}]
  BY DEF CampaignKept, CampaignTypeOK, campaignVars
<1> QED BY <1>1, GatewayKeeps DEF campaignVars

LEMMA AtMostOne ==
  ASSUME NEW S, \A a, b \in S : a = b
  PROVE  Cardinality(S) <= 1
<1>1. CASE S = {}
  BY <1>1, FS_EmptySet
<1>2. CASE S # {}
  <2>1. PICK a : a \in S
    BY <1>2
  <2>2. S = {a}
    BY <2>1
  <2> QED BY <2>2, FS_Singleton
<1> QED BY <1>1, <1>2

(* Sums: SumFunction adds a function's values along a chain of subsets, each *)
(* without one chosen member of the one before.                              *)
Some(T) == CHOOSE x \in T : TRUE
Step(g, f, T) == IF T = {} THEN 0 ELSE f[Some(T)] + g[T \ {Some(T)}]
Sums(g, f, S) == g = [T \in SUBSET S |-> Step(g, f, T)]

LEMMA SumIsChosen ==
  ASSUME NEW f
  PROVE  SumFunction(f) = (CHOOSE g : Sums(g, f, DOMAIN f))[DOMAIN f]
  BY DEF SumFunction, SumFunctionOnSet, FoldFunctionOnSet, MapThenFoldSet, Sums, Step, Some

LEMMA SomeMember == ASSUME NEW T, T # {} PROVE Some(T) \in T
  BY DEF Some

LEMMA FewerMembers ==
  ASSUME NEW T, IsFiniteSet(T), T # {}
  PROVE  /\ IsFiniteSet(T \ {Some(T)}) /\ Cardinality(T) \in Nat /\ Cardinality(T) # 0
         /\ Cardinality(T \ {Some(T)}) = Cardinality(T) - 1
  BY SomeMember, FS_RemoveElement, FS_CardinalityType, FS_EmptySet

LEMMA LeastOf ==
  ASSUME NEW S \in SUBSET Nat, S # {}
  PROVE  \E m \in S : \A n \in S : m <= n
<1> DEFINE Less == OpToRel(<, Nat)
<1>1. IsWellFoundedOn(Less, Nat)
  BY NatLessThanWellFounded
<1>2. ASSUME NEW m \in Nat, NEW n \in Nat, n < m PROVE <<n, m>> \in Less
  BY <1>2 DEF OpToRel
<1> HIDE DEF Less
<1>3. PICK m \in S : \A n \in S : ~ (<<n, m>> \in Less)
  BY <1>1, WFMin
<1>4. ASSUME NEW n \in S PROVE m <= n
  <2>1. m \in Nat /\ n \in Nat
    OBVIOUS
  <2>2. ~ (n < m)
    BY <1>2, <1>3, <2>1
  <2> QED BY <2>1, <2>2
<1> QED BY <1>4

(* What holds of {} and of every set when it holds of the set without the    *)
(* chosen member holds of all: there is no smallest exception.               *)
LEMMA ByShrinking ==
  ASSUME NEW S, IsFiniteSet(S), NEW Fine, {} \in Fine,
         \A T \in SUBSET S : T # {} /\ T \ {Some(T)} \in Fine => T \in Fine
  PROVE  \A T \in SUBSET S : T \in Fine
<1> DEFINE Bad == {n \in Nat : \E T \in SUBSET S : T \notin Fine /\ Cardinality(T) = n}
<1>1. ASSUME NEW T \in SUBSET S PROVE IsFiniteSet(T) /\ Cardinality(T) \in Nat
  BY FS_Subset, FS_CardinalityType
<1>2. ASSUME Bad # {} PROVE FALSE
  <2>1. PICK n \in Bad : \A m \in Bad : n <= m
    BY <1>2, LeastOf
  <2>2. PICK T \in SUBSET S : T \notin Fine /\ Cardinality(T) = n
    BY <2>1
  <2>3. T # {}
    BY <2>2
  <2>4. Cardinality(T \ {Some(T)}) = n - 1 /\ T \ {Some(T)} \in SUBSET S /\ n # 0
    BY <1>1, <2>2, <2>3, FewerMembers
  <2>5. n - 1 \notin Bad /\ n - 1 \in Nat
    BY <2>1, <2>4
  <2> QED BY <2>2, <2>3, <2>4, <2>5
<1>3. \A T \in SUBSET S : Cardinality(T) \notin Bad
  BY <1>2
<1> QED BY <1>1, <1>3

(* The chain of sums exists: step by step for sets of at most n members.     *)
Upto(f, S, n) ==
  \E g \in [SUBSET S -> Int] :
    \A T \in SUBSET S : Cardinality(T) <= n => g[T] = Step(g, f, T)

LEMMA SumsUpTo ==
  ASSUME NEW S, IsFiniteSet(S), NEW f \in [S -> Int]
  PROVE  \A n \in Nat : Upto(f, S, n)
<1> DEFINE Bad == {n \in Nat : ~Upto(f, S, n)}
<1>1. ASSUME NEW T \in SUBSET S PROVE IsFiniteSet(T) /\ Cardinality(T) \in Nat
  BY FS_Subset, FS_CardinalityType
<1>2. Upto(f, S, 0)
  <2> DEFINE z == [T \in SUBSET S |-> 0]
  <2>1. ASSUME NEW T \in SUBSET S, Cardinality(T) <= 0 PROVE z[T] = Step(z, f, T)
    <3>1. T = {}
      BY <1>1, <2>1, FS_EmptySet
    <3> QED BY <3>1 DEF Step
  <2>2. z \in [SUBSET S -> Int]
    OBVIOUS
  <2> HIDE DEF z
  <2> QED BY <2>1, <2>2 DEF Upto
<1>3. ASSUME NEW n \in Nat, Upto(f, S, n) PROVE Upto(f, S, n + 1)
  <2>1. PICK g \in [SUBSET S -> Int] :
          \A T \in SUBSET S : Cardinality(T) <= n => g[T] = Step(g, f, T)
    BY <1>3 DEF Upto
  <2> DEFINE h == [T \in SUBSET S |-> Step(g, f, T)]
  <2>2. ASSUME NEW T \in SUBSET S, T # {}
        PROVE  Some(T) \in S /\ T \ {Some(T)} \in SUBSET S
    BY <2>2, SomeMember
  <2>3. h \in [SUBSET S -> Int]
    BY <2>2 DEF Step
  <2>4. ASSUME NEW T \in SUBSET S, Cardinality(T) <= n + 1 PROVE h[T] = Step(h, f, T)
    <3>1. CASE T = {}
      BY <3>1 DEF Step
    <3>2. CASE T # {}
      <4>1. Cardinality(T \ {Some(T)}) <= n
        BY <1>1, <2>4, <3>2, FewerMembers
      <4>2. h[T \ {Some(T)}] = g[T \ {Some(T)}]
        BY <2>1, <2>2, <3>2, <4>1
      <4>3. h[T] = Step(g, f, T)
        OBVIOUS
      <4> QED BY <3>2, <4>2, <4>3 DEF Step
    <3> QED BY <3>1, <3>2
  <2> HIDE DEF h
  <2> QED BY <2>3, <2>4 DEF Upto
<1>4. ASSUME Bad # {} PROVE FALSE
  <2>1. PICK n \in Bad : \A m \in Bad : n <= m
    BY <1>4, LeastOf
  <2>2. n # 0 /\ n - 1 \in Nat /\ n - 1 \notin Bad
    BY <1>2, <2>1
  <2>3. Upto(f, S, (n - 1) + 1) /\ (n - 1) + 1 = n
    BY <1>3, <2>2
  <2> QED BY <2>1, <2>3
<1> QED BY <1>4

LEMMA SumsExist ==
  ASSUME NEW S, IsFiniteSet(S), NEW f \in [S -> Int]
  PROVE  \E g \in [SUBSET S -> Int] : Sums(g, f, S)
<1>1. Cardinality(S) \in Nat
  BY FS_CardinalityType
<1>b. Upto(f, S, Cardinality(S))
  BY <1>1, SumsUpTo
<1>2. PICK g \in [SUBSET S -> Int] :
        \A T \in SUBSET S : Cardinality(T) <= Cardinality(S) => g[T] = Step(g, f, T)
  BY <1>b DEF Upto
<1>3. ASSUME NEW T \in SUBSET S PROVE g[T] = Step(g, f, T)
  <2>1. Cardinality(T) <= Cardinality(S)
    BY FS_Subset
  <2> QED BY <1>2, <2>1
<1> QED BY <1>3 DEF Sums

(* A sum is the end of some chain.                                           *)
LEMMA SumEnds ==
  ASSUME NEW S, IsFiniteSet(S), NEW f \in [S -> Int]
  PROVE  \E g \in [SUBSET S -> Int] : Sums(g, f, S) /\ SumFunction(f) = g[S]
<1> DEFINE c == CHOOSE g : Sums(g, f, S)
<1>1. DOMAIN f = S
  OBVIOUS
<1>2. PICK g \in [SUBSET S -> Int] : Sums(g, f, S)
  BY SumsExist
<1>3. Sums(c, f, S)
  BY <1>2
<1>4. SumFunction(f) = c[S]
  BY <1>1, SumIsChosen
<1> HIDE DEF c
<1> DEFINE Fine == {T \in SUBSET S : c[T] = g[T]}
<1>5. {} \in Fine
  BY <1>2, <1>3 DEF Sums, Step
<1>6. ASSUME NEW T \in SUBSET S, T # {}, T \ {Some(T)} \in Fine PROVE T \in Fine
  BY <1>2, <1>3, <1>6 DEF Sums, Step
<1>7. \A T \in SUBSET S : T \in Fine
  <2> HIDE DEF Fine
  <2> QED BY <1>5, <1>6, ByShrinking
<1>8. c = g
  BY <1>2, <1>3, <1>7 DEF Sums
<1> QED BY <1>2, <1>3, <1>4, <1>8

(* Two functions that differ at one place, by d, have sums that differ by d. *)
LEMMA SumChanges ==
  ASSUME NEW S, IsFiniteSet(S), NEW f \in [S -> Int], NEW h \in [S -> Int],
         NEW a \in S, \A x \in S \ {a} : h[x] = f[x]
  PROVE  SumFunction(h) = SumFunction(f) + (h[a] - f[a])
<1>1. PICK g \in [SUBSET S -> Int] : Sums(g, f, S) /\ SumFunction(f) = g[S]
  BY SumEnds
<1>2. PICK k \in [SUBSET S -> Int] : Sums(k, h, S) /\ SumFunction(h) = k[S]
  BY SumEnds
<1> DEFINE Off(T) == IF a \in T THEN h[a] - f[a] ELSE 0
           Fine == {T \in SUBSET S : k[T] = g[T] + Off(T)}
<1>3. ASSUME NEW T \in SUBSET S
      PROVE  g[T] = Step(g, f, T) /\ k[T] = Step(k, h, T) /\ g[T] \in Int /\ k[T] \in Int
  BY <1>1, <1>2 DEF Sums
<1>4. {} \in Fine
  <2>1. g[{}] = 0 /\ k[{}] = 0
    BY <1>3 DEF Step
  <2> QED BY <2>1
<1>5. ASSUME NEW T \in SUBSET S, T # {}, T \ {Some(T)} \in Fine PROVE T \in Fine
  <2> DEFINE x == Some(T)
             U == T \ {x}
  <2>1. x \in T /\ x \in S /\ U \in SUBSET S
    BY <1>5, SomeMember
  <2>2. g[T] = f[x] + g[U] /\ k[T] = h[x] + k[U] /\ k[U] = g[U] + Off(U)
    BY <1>3, <1>5 DEF Step
  <2>3. g[U] \in Int /\ k[U] \in Int /\ f[x] \in Int /\ h[x] \in Int
        /\ h[a] \in Int /\ f[a] \in Int
    BY <1>3, <2>1
  <2>4. CASE x = a
    <3>1. Off(U) = 0 /\ Off(T) = h[a] - f[a]
      BY <2>1, <2>4
    <3>2. k[T] = g[T] + Off(T)
      <4> HIDE DEF Off, U, x
      <4> QED BY <2>2, <2>3, <2>4, <3>1
    <3> QED BY <3>2
  <2>5. CASE x # a
    <3>1. Off(U) = Off(T) /\ h[x] = f[x] /\ Off(U) \in Int
      BY <2>1, <2>3, <2>5
    <3>2. k[T] = g[T] + Off(T)
      <4> HIDE DEF Off, U, x
      <4> QED BY <2>2, <2>3, <3>1
    <3> QED BY <3>2
  <2> QED BY <2>4, <2>5
<1>6. S \in Fine
  <2> HIDE DEF Fine
  <2>1. \A T \in SUBSET S : T \in Fine
    BY <1>4, <1>5, ByShrinking
  <2> QED BY <2>1
<1> QED BY <1>1, <1>2, <1>6

\* A sum grows with its function.
LEMMA SumGrows ==
  ASSUME NEW S, IsFiniteSet(S), NEW f \in [S -> Int], NEW h \in [S -> Int],
         \A x \in S : f[x] <= h[x]
  PROVE  SumFunction(f) <= SumFunction(h) /\ SumFunction(f) \in Int /\ SumFunction(h) \in Int
<1>1. PICK g \in [SUBSET S -> Int] : Sums(g, f, S) /\ SumFunction(f) = g[S]
  BY SumEnds
<1>2. PICK k \in [SUBSET S -> Int] : Sums(k, h, S) /\ SumFunction(h) = k[S]
  BY SumEnds
<1> DEFINE Fine == {T \in SUBSET S : g[T] <= k[T]}
<1>3. ASSUME NEW T \in SUBSET S
      PROVE  g[T] = Step(g, f, T) /\ k[T] = Step(k, h, T) /\ g[T] \in Int /\ k[T] \in Int
  BY <1>1, <1>2 DEF Sums
<1>4. {} \in Fine
  <2>1. g[{}] = 0 /\ k[{}] = 0
    BY <1>3 DEF Step
  <2> QED BY <2>1
<1>5. ASSUME NEW T \in SUBSET S, T # {}, T \ {Some(T)} \in Fine PROVE T \in Fine
  <2> DEFINE x == Some(T)
             U == T \ {x}
  <2>1. x \in S /\ U \in SUBSET S
    BY <1>5, SomeMember
  <2>2. g[T] = f[x] + g[U] /\ k[T] = h[x] + k[U] /\ g[U] <= k[U] /\ f[x] <= h[x]
    BY <1>3, <1>5, <2>1 DEF Step
  <2>3. g[U] \in Int /\ k[U] \in Int /\ f[x] \in Int /\ h[x] \in Int
    BY <1>3, <2>1
  <2>4. g[T] <= k[T]
    <3> HIDE DEF U, x
    <3> QED BY <2>2, <2>3
  <2> QED BY <2>4
<1>6. S \in Fine
  <2> HIDE DEF Fine
  <2>1. \A T \in SUBSET S : T \in Fine
    BY <1>4, <1>5, ByShrinking
  <2> QED BY <2>1
<1> QED BY <1>1, <1>2, <1>6

LEMMA SumIsNat ==
  ASSUME NEW S, IsFiniteSet(S), NEW f \in [S -> Nat]
  PROVE  SumFunction(f) \in Nat
<1>0. f \in [S -> Int]
  OBVIOUS
<1>1. PICK g \in [SUBSET S -> Int] : Sums(g, f, S) /\ SumFunction(f) = g[S]
  BY <1>0, SumEnds
<1> DEFINE Fine == {T \in SUBSET S : g[T] >= 0}
<1>2. ASSUME NEW T \in SUBSET S PROVE g[T] = Step(g, f, T) /\ g[T] \in Int
  BY <1>1 DEF Sums
<1>3. {} \in Fine
  <2>1. g[{}] = 0
    BY <1>2 DEF Step
  <2> QED BY <2>1
<1>4. ASSUME NEW T \in SUBSET S, T # {}, T \ {Some(T)} \in Fine PROVE T \in Fine
  <2>1. g[T] = f[Some(T)] + g[T \ {Some(T)}]
    BY <1>2, <1>4 DEF Step
  <2>2. f[Some(T)] \in Nat
    BY <1>4, SomeMember
  <2>3. g[T \ {Some(T)}] \in Int /\ g[T \ {Some(T)}] >= 0
    BY <1>2, <1>4
  <2> QED BY <2>1, <2>2, <2>3
<1>5. S \in Fine
  <2> HIDE DEF Fine
  <2>1. \A T \in SUBSET S : T \in Fine
    BY <1>3, <1>4, ByShrinking
  <2> QED BY <2>1
<1> QED BY <1>1, <1>2, <1>5

LEMMA SumOfZeros ==
  ASSUME NEW S, IsFiniteSet(S), NEW f \in [S -> Int], \A x \in S : f[x] = 0
  PROVE  SumFunction(f) = 0
<1>1. PICK g \in [SUBSET S -> Int] : Sums(g, f, S) /\ SumFunction(f) = g[S]
  BY SumEnds
<1> DEFINE Fine == {T \in SUBSET S : g[T] = 0}
<1>2. ASSUME NEW T \in SUBSET S PROVE g[T] = Step(g, f, T)
  BY <1>1 DEF Sums
<1>3. {} \in Fine
  BY <1>2 DEF Step
<1>4. ASSUME NEW T \in SUBSET S, T # {}, T \ {Some(T)} \in Fine PROVE T \in Fine
  BY <1>2, <1>4, SomeMember DEF Step
<1>5. S \in Fine
  <2> HIDE DEF Fine
  <2>1. \A T \in SUBSET S : T \in Fine
    BY <1>3, <1>4, ByShrinking
  <2> QED BY <2>1
<1> QED BY <1>1, <1>5

\* The sum of a function of two places.
LEMMA SumOfTwo ==
  ASSUME NEW a, NEW b, a # b, NEW f \in [{a, b} -> Int]
  PROVE  SumFunction(f) = f[a] + f[b]
<1>1. IsFiniteSet({a, b})
  <2>1. {a, b} = {a} \cup {b} /\ IsFiniteSet({a}) /\ IsFiniteSet({b})
    BY FS_Singleton
  <2> QED BY <2>1, FS_Union
<1>2. PICK g \in [SUBSET {a, b} -> Int] : Sums(g, f, {a, b}) /\ SumFunction(f) = g[{a, b}]
  BY <1>1, SumEnds
<1>3. ASSUME NEW T \in SUBSET {a, b} PROVE g[T] = Step(g, f, T)
  BY <1>2 DEF Sums
<1>4. g[{}] = 0
  BY <1>3 DEF Step
<1>5. ASSUME NEW c \in {a, b} PROVE g[{c}] = f[c]
  <2>1. Some({c}) = c /\ {c} \ {c} = {} /\ {c} # {} /\ f[c] \in Int
    BY SomeMember
  <2>2. g[{c}] = Step(g, f, {c})
    BY <1>3
  <2>3. Step(g, f, {c}) = f[c] + g[{}]
    BY <2>1 DEF Step
  <2> QED BY <1>4, <2>1, <2>2, <2>3
<1>6. CASE Some({a, b}) = a
  <2>1. {a, b} \ {a} = {b} /\ {a, b} # {}
    OBVIOUS
  <2>2. g[{a, b}] = f[a] + g[{b}]
    BY <1>3, <1>6, <2>1 DEF Step
  <2> QED BY <1>2, <1>5, <2>2
<1>7. CASE Some({a, b}) = b
  <2>1. {a, b} \ {b} = {a} /\ {a, b} # {}
    OBVIOUS
  <2>2. g[{a, b}] = f[b] + g[{a}]
    BY <1>3, <1>7, <2>1 DEF Step
  <2>3. f[a] \in Int /\ f[b] \in Int
    OBVIOUS
  <2> QED BY <1>2, <1>5, <2>2, <2>3
<1> QED BY <1>6, <1>7, SomeMember

(* The authorization --------------------------------------------------------- *)

LEMMA RunIdsFinite == IsFiniteSet(RunIds)
<1>1. IsFiniteSet({"preflight", "main", "cited"}) /\ IsFiniteSet({"silent", "check", "recheck"})
  <2>1. /\ IsFiniteSet({"preflight"}) /\ IsFiniteSet({"main"}) /\ IsFiniteSet({"cited"})
        /\ IsFiniteSet({"silent"}) /\ IsFiniteSet({"check"}) /\ IsFiniteSet({"recheck"})
    BY FS_Singleton
  <2>2. /\ IsFiniteSet({"preflight"} \union {"main"}) /\ IsFiniteSet({"silent"} \union {"check"})
    BY <2>1, FS_Union
  <2>3. /\ IsFiniteSet(({"preflight"} \union {"main"}) \union {"cited"})
        /\ IsFiniteSet(({"silent"} \union {"check"}) \union {"recheck"})
    BY <2>1, <2>2, FS_Union
  <2>4. /\ ({"preflight"} \union {"main"}) \union {"cited"} = {"preflight", "main", "cited"}
        /\ ({"silent"} \union {"check"}) \union {"recheck"} = {"silent", "check", "recheck"}
    OBVIOUS
  <2> QED BY <2>3, <2>4
<1>2. IsFiniteSet(Names)
  <2>1. Names = {"preflight", "main", "cited"} \union {"silent", "check", "recheck"}
    BY NameFacts
  <2> QED BY <1>1, <2>1, FS_Union
<1>3. IsFiniteSet(Batches \X Names)
  BY <1>2, CampaignAssumption, FS_Product
<1>4. RunIds \subseteq Batches \X Names
  BY DEF RunIds
<1> QED BY <1>3, <1>4, FS_Subset

\* Which runs a batch has.
LEMMA RunsOfBatch ==
  /\ \A b \in Measures : <<b, "preflight">> \in RunIds
  /\ \A b \in Campaigns : /\ <<b, "preflight">> \in RunIds /\ <<b, "main">> \in RunIds
                          /\ <<b, "cited">> \in RunIds /\ <<b, "silent">> \in RunIds
  /\ \A b \in Repairs : /\ <<b, "check">> \in RunIds /\ <<b, "recheck">> \in RunIds
                        /\ <<b, "cited">> \in RunIds /\ <<b, "silent">> \in RunIds
<1>1. ASSUME NEW b \in Measures PROVE <<b, "preflight">> \in RunIds
  <2>1. "preflight" \in ToSet(Phases(b))
    BY PhasesOfMeasure DEF ToSet
  <2> QED BY <2>1, KindFacts, NameFacts DEF RunIds
<1>2. ASSUME NEW b \in Planners, NEW i \in 1..4 PROVE <<b, Phases(b)[i]>> \in RunIds
  BY PhaseFacts
<1>3. 1 \in 1..4 /\ 2 \in 1..4 /\ 3 \in 1..4 /\ 4 \in 1..4
  OBVIOUS
<1>4. ASSUME NEW b \in Campaigns
      PROVE  /\ <<b, "preflight">> \in RunIds /\ <<b, "main">> \in RunIds
             /\ <<b, "cited">> \in RunIds /\ <<b, "silent">> \in RunIds
  <2>1. b \in Planners
    BY DEF Planners
  <2> QED BY <1>2, <1>3, <2>1, PhasesOfCampaign
<1>5. ASSUME NEW b \in Repairs
      PROVE  /\ <<b, "check">> \in RunIds /\ <<b, "recheck">> \in RunIds
             /\ <<b, "cited">> \in RunIds /\ <<b, "silent">> \in RunIds
  <2>1. b \in Planners
    BY DEF Planners
  <2> QED BY <1>2, <1>3, <2>1, PhasesOfRepair
<1> QED BY <1>1, <1>4, <1>5

\* What a phase may still call, given its run.
LeftOf(r, p) == IF r.summary # None \/ Charged(r) >= RunBudget(p) THEN 0 ELSE RunBudget(p) - Charged(r)

LEMMA BudgetFacts ==
  /\ \A p \in Names : RunBudget(p) \in Nat
  /\ RunBudget("silent") = 0
  /\ \A p \in Names : p # "silent" => RunBudget(p) = Planned[p] /\ Expected(p) = 1
  /\ Expected("silent") = 0
<1>1. \A p \in Names : Planned[p] \in Nat
  BY CampaignAssumption
<1>2. "silent" \in Names
  BY NameFacts
<1> QED BY <1>1, <1>2 DEF RunBudget, Expected

LEMMA LeftIsLeft == \A b, p : Left(b, p) = LeftOf(At(b, p), p)
BY DEF Left, LeftOf

LEMMA LeftFacts ==
  ASSUME NEW r \in RunType, NEW p \in Names
  PROVE  /\ LeftOf(r, p) \in Nat /\ LeftOf(r, p) <= RunBudget(p) /\ Charged(r) \in Nat
         /\ r.summary # None => LeftOf(r, p) = 0
<1>1. RunBudget(p) \in Nat
  BY BudgetFacts
<1>2. Charged(r) \in Nat
  BY DEF Charged, RunType
<1> QED BY <1>1, <1>2 DEF LeftOf

\* What a run has spent.
SpentOf(r, p) == r.calls + (IF p = "silent" THEN 0 ELSE r.held)
AllSpent == SumFunction([id \in RunIds |-> Spent(id)])

LEMMA SpentFacts ==
  ASSUME CampaignTypeOK
  PROVE  /\ \A id \in RunIds : Spent(id) \in Nat /\ Spent(id) = SpentOf(runs[id], id[2])
         /\ \A id \in RunIds : Charged(runs[id]) \in Nat /\ Spent(id) <= Charged(runs[id])
         /\ \A id \in RunIds : runs[id].held \in Nat
<1>1. \A id \in RunIds : runs[id] \in RunType
  BY RunsTyped
<1> QED BY <1>1 DEF Spent, SpentOf, Charged, RunType

\* The ledger counts what is spent, and more.
LEMMA LedgerCovers ==
  ASSUME CampaignTypeOK
  PROVE  AllSpent <= Ledger /\ AllSpent \in Int /\ Ledger \in Int
<1> DEFINE f == [id \in RunIds |-> Spent(id)]
           h == [id \in RunIds |-> Charged(runs[id])]
<1>1. f \in [RunIds -> Int] /\ h \in [RunIds -> Int] /\ \A id \in RunIds : f[id] <= h[id]
  BY SpentFacts
<1>2. AllSpent = SumFunction(f) /\ Ledger = SumFunction(h)
  BY DEF AllSpent, Ledger
<1> HIDE DEF f, h
<1> QED BY <1>1, <1>2, RunIdsFinite, SumGrows

\* A step that leaves calls and reservations alone spends nothing.
LEMMA NothingSpent ==
  ASSUME \A id \in RunIds : runs'[id].calls = runs[id].calls /\ runs'[id].held = runs[id].held
  PROVE  AllSpent' = AllSpent
<1>1. \A id \in RunIds : Spent(id)' = Spent(id)
  BY DEF Spent
<1>2. [id \in RunIds |-> Spent(id)]' = [id \in RunIds |-> Spent(id)]
  BY <1>1
<1> QED BY <1>2 DEF AllSpent

LEMMA OneSpends ==
  ASSUME CampaignTypeOK, NEW id \in RunIds, NEW r \in RunType,
         runs'[id] = r, \A q \in RunIds : q # id => runs'[q] = runs[q]
  PROVE  AllSpent' = AllSpent + (SpentOf(r, id[2]) - SpentOf(runs[id], id[2]))
<1> DEFINE f == [q \in RunIds |-> Spent(q)]
           h == [q \in RunIds |-> Spent(q)']
<1>1. SpentOf(r, id[2]) \in Nat
  BY DEF SpentOf, RunType
<1>2. Spent(id)' = SpentOf(r, id[2])
  BY DEF Spent, SpentOf
<1>3. \A q \in RunIds : q # id => Spent(q)' = Spent(q)
  BY DEF Spent
<1>4. f \in [RunIds -> Int] /\ h \in [RunIds -> Int]
  BY <1>1, <1>2, <1>3, SpentFacts
<1>5. f[id] = SpentOf(runs[id], id[2]) /\ h[id] = SpentOf(r, id[2])
  BY <1>2, SpentFacts
<1>6. \A q \in RunIds \ {id} : h[q] = f[q]
  BY <1>3
<1>7. AllSpent = SumFunction(f) /\ AllSpent' = SumFunction(h)
  BY DEF AllSpent
<1> HIDE DEF f, h
<1> QED BY <1>4, <1>5, <1>6, <1>7, RunIdsFinite, SumChanges

\* The runs a script looks at have their type.
KindTypes ==
  /\ \A b \in Measures : Own(b, "preflight") \in RunType
  /\ \A b \in Campaigns : /\ At(b, "preflight") \in RunType /\ Own(b, "preflight") \in RunType
                          /\ Own(b, "main") \in RunType
                          /\ Own(b, "cited") \in RunType /\ Own(b, "silent") \in RunType
  /\ \A b \in Repairs : /\ Own(b, "check") \in RunType /\ Own(b, "recheck") \in RunType
                        /\ Own(b, "cited") \in RunType /\ Own(b, "silent") \in RunType

LEMMA KindRuns == CampaignTypeOK => KindTypes
<1> SUFFICES ASSUME CampaignTypeOK PROVE KindTypes
  OBVIOUS
<1>1. \A id \in RunIds : runs[id] \in RunType
  BY RunsTyped
<1>2. ASSUME NEW b \in Campaigns PROVE At(b, "preflight") \in RunType
  <2>1. approved[b] # None => approved[b] \in Measures
    BY KindFacts DEF CampaignTypeOK
  <2> QED BY <1>1, <2>1, RunsOfBatch DEF At, Own
<1> QED BY <1>1, <1>2, RunsOfBatch DEF Own, KindTypes

LEMMA KindRunsNext == (CampaignTypeOK => KindTypes)'
BY KindRuns, PTL

\* What the script at work may still call, by the kind of its batch.
CampaignDueOf(pre, main, cited, stuck) ==
  IF pre.summary = None THEN LeftOf(pre, "preflight")
  ELSE IF ~Passed("preflight", pre) THEN 0
  ELSE IF main.summary # None
    THEN IF Passed("main", main) THEN LeftOf(cited, "cited") ELSE 0
  ELSE IF stuck THEN 0 ELSE LeftOf(main, "main") + RagReserve
Stuck(b) == b \in populated /\ ~Own(b, "main").manifest /\ pc # "manifest"

LEMMA AtIsOwn ==
  \A b, p : p # "preflight" \/ b \notin Campaigns \/ approved[b] = None => At(b, p) = Own(b, p)
BY DEF At

DueByKind ==
  /\ active \in Measures => Due = LeftOf(Own(active, "preflight"), "preflight")
  /\ active \in Campaigns =>
       Due = CampaignDueOf(At(active, "preflight"), Own(active, "main"), Own(active, "cited"),
                           Stuck(active))
  /\ active \in Repairs /\ ~Preparing =>
       Due = LeftOf(Own(active, "check"), "check") + LeftOf(Own(active, "cited"), "cited")
  /\ active = None \/ (active \in Repairs /\ Preparing) => Due = 0

LEMMA DueIs == DueByKind
<1> USE DEF DueByKind
<1>0. "main" # "preflight" /\ "cited" # "preflight" /\ "check" # "preflight"
  OBVIOUS
<1>1. CASE active \in Measures
  <2>1. active \notin Campaigns /\ active \notin Repairs /\ active # None
    BY <1>1, KindFacts DEF Planners
  <2>2. At(active, "preflight") = Own(active, "preflight")
    BY <2>1, AtIsOwn
  <2> QED BY <1>1, <2>1, <2>2, LeftIsLeft DEF Due
<1>2. CASE active \in Campaigns
  <2>1. active \notin Measures /\ active \notin Repairs /\ active # None
    BY <1>2, KindFacts DEF Planners
  <2>2. At(active, "main") = Own(active, "main") /\ At(active, "cited") = Own(active, "cited")
    BY <1>0, AtIsOwn
  <2>3. Due = CampaignDue(active)
    BY <1>2, <2>1 DEF Due
  <2>4. CampaignDue(active) = CampaignDueOf(At(active, "preflight"), Own(active, "main"),
                                            Own(active, "cited"), Stuck(active))
    BY <2>2, LeftIsLeft DEF CampaignDue, CampaignDueOf, Stuck
  <2> QED BY <1>2, <2>1, <2>3, <2>4
<1>3. CASE active \in Repairs
  <2>1. active \notin Measures /\ active \notin Campaigns /\ active # None
    BY <1>3, KindFacts DEF Planners
  <2>2. At(active, "check") = Own(active, "check") /\ At(active, "cited") = Own(active, "cited")
    BY <1>0, AtIsOwn
  <2> QED BY <1>3, <2>1, <2>2, LeftIsLeft DEF Due
<1>4. CASE active = None
  <2>1. active \notin Measures /\ active \notin Campaigns /\ active \notin Repairs
    BY <1>4, KindFacts DEF Planners
  <2> QED BY <1>4, <2>1 DEF Due
<1>5. CASE active \notin Measures \union Campaigns \union Repairs /\ active # None
  BY <1>5
<1> QED BY <1>1, <1>2, <1>3, <1>4, <1>5

LEMMA DueIsNext == DueByKind'
BY DueIs, PTL

LEMMA DueIsNat ==
  ASSUME CampaignTypeOK PROVE Due \in Nat
<1>1. "preflight" \in Names /\ "main" \in Names /\ "cited" \in Names /\ "check" \in Names
  BY NameFacts
<1>2. RagReserve \in Nat
  BY CampaignAssumption
<1>3. CASE active \in Measures
  BY <1>1, <1>3, DueIs, KindRuns, LeftFacts DEF DueByKind, KindTypes
<1>4. CASE active \in Campaigns
  <2>1. PICK p, m, c \in RunType : /\ p = At(active, "preflight") /\ m = Own(active, "main")
                                   /\ c = Own(active, "cited")
    BY <1>4, KindRuns DEF KindTypes
  <2>2. LeftOf(p, "preflight") \in Nat /\ LeftOf(m, "main") \in Nat /\ LeftOf(c, "cited") \in Nat
    BY <1>1, LeftFacts
  <2>3. Due = CampaignDueOf(p, m, c, Stuck(active))
    BY <1>4, <2>1, DueIs DEF DueByKind
  <2> QED BY <1>2, <2>2, <2>3 DEF CampaignDueOf
<1>5. CASE active \in Repairs
  <2>1. PICK m, c \in RunType : m = Own(active, "check") /\ c = Own(active, "cited")
    BY <1>5, KindRuns DEF KindTypes
  <2>2. LeftOf(m, "check") \in Nat /\ LeftOf(c, "cited") \in Nat
    BY <1>1, LeftFacts
  <2> QED BY <1>5, <2>1, <2>2, DueIs DEF DueByKind
<1>6. CASE active = None
  BY <1>6, DueIs DEF DueByKind
<1> QED BY <1>3, <1>4, <1>5, <1>6, KindFacts DEF CampaignTypeOK, Planners

LEMMA DueTyped == CampaignTypeOK => Due \in Nat /\ AllSpent \in Int
BY DueIsNat, LedgerCovers

LEMMA DueTypedNext == (CampaignTypeOK => Due \in Nat /\ AllSpent \in Int)'
BY DueTyped, PTL

\* A step that does not spend more than it takes from what may be called.
LEMMA BudgetStays ==
  ASSUME CampaignTypeOK, CampaignTypeOK', BudgetKept, over' \in Nat,
         AllSpent' + Due' - over' <= AllSpent + Due - over
  PROVE  BudgetKept'
<1>1. AllSpent \in Int /\ Due \in Nat /\ AllSpent' \in Int /\ Due' \in Nat
  BY DueTyped, DueTypedNext
<1>2. over \in Nat /\ AllSpent + Due <= Authorized + over
  BY DEF BudgetKept, AllSpent
<1>3. Authorized \in Nat
  BY CampaignAssumption
<1>4. PICK v, d, o, w, e, p \in Int : /\ v = AllSpent /\ d = Due /\ o = over
                                     /\ w = AllSpent' /\ e = Due' /\ p = over'
  BY <1>1, <1>2
<1>5. v + d <= Authorized + o /\ w + e - p <= v + d - o
  BY <1>2, <1>4
<1>6. w + e <= Authorized + p
  BY <1>3, <1>5
<1>7. AllSpent' + Due' <= Authorized + over'
  BY <1>4, <1>6
<1> QED BY <1>7 DEF BudgetKept, AllSpent

\* What the files say of the runs while no run begins.
LEMMA FilesStay ==
  ASSUME FilesKept, runs' = runs, populated \subseteq populated'
  PROVE  FilesKept'
BY DEF FilesKept

\* A script ends.
LEMMA EndsSpendNothing ==
  ASSUME CampaignTypeOK, CampaignTypeOK', BudgetInd, Idle, over' = over, populated' = populated,
         \A id \in RunIds : /\ runs'[id].manifest = runs[id].manifest
                            /\ runs'[id].calls = runs[id].calls /\ runs'[id].held = runs[id].held
                            /\ ~runs[id].manifest => runs'[id] = runs[id]
  PROVE  BudgetInd'
<1>1. pc' = "idle" /\ active' = None
  BY DEF Idle
<1>2. Due' = 0
  BY <1>1, DueIsNext DEF DueByKind
<1>3. AllSpent' = AllSpent
  BY NothingSpent
<1>4. Due \in Nat /\ AllSpent \in Int
  BY DueTyped
<1>5. over \in Nat
  BY DEF BudgetInd, BudgetKept
<1>6. BudgetKept'
  BY <1>2, <1>3, <1>4, <1>5, BudgetStays DEF BudgetInd
<1>7. FilesKept'
  BY DEF BudgetInd, FilesKept
<1>8. BegunKept'
  BY <1>1 DEF BegunKept
<1> QED BY <1>6, <1>7, <1>8 DEF BudgetInd

\* A step that moves the script on and leaves all runs and libraries alone.
LEMMA MovesSpendNothing ==
  ASSUME CampaignTypeOK, CampaignTypeOK', BudgetInd,
         UNCHANGED <<active, approved, runs, populated, over>>,
         pc \notin {"fresh", "manifest"} \/ pc' = pc,
         pc = "prepare" => (active \notin Repairs \/ pc' = pc),
         \/ pc' \in {"phase", "judge", "finish", "end"}
         \/ (phase' = phase /\ (pc' = pc \/ (pc = "close" /\ pc' = "finalize")))
  PROVE  BudgetInd'
<1>1. AllSpent' = AllSpent /\ FilesKept'
  BY NothingSpent, FilesStay DEF BudgetInd
<1>2. Due' = Due
  <2>1. Preparing' = Preparing \/ active \notin Repairs
    BY DEF Preparing
  <2>2. At(active, "preflight")' = At(active, "preflight") /\ Stuck(active)' = Stuck(active)
    BY DEF At, Own, Stuck
  <2>3. /\ Own(active, "preflight")' = Own(active, "preflight")
        /\ Own(active, "main")' = Own(active, "main")
        /\ Own(active, "cited")' = Own(active, "cited")
        /\ Own(active, "check")' = Own(active, "check")
    BY DEF Own
  <2> QED BY <2>1, <2>2, <2>3, DueIs, DueIsNext, KindFacts DEF DueByKind, CampaignTypeOK, Planners
<1>3. BudgetKept'
  <2>1. over \in Nat
    BY DEF BudgetInd, BudgetKept
  <2> QED BY <1>1, <1>2, <2>1, DueTyped, BudgetStays DEF BudgetInd
<1>4. BegunKept'
  <2>1. CASE pc' \in {"phase", "judge", "finish", "end"}
    BY <2>1 DEF BegunKept
  <2>2. CASE phase' = phase /\ (pc' = pc \/ (pc = "close" /\ pc' = "finalize"))
    <3>1. Name' = Name /\ Current' = Current
      BY <2>2, CurrentSame
    <3> QED BY <2>2, <3>1 DEF BegunKept, BudgetInd
  <2> QED BY <2>1, <2>2
<1> QED BY <1>1, <1>3, <1>4 DEF BudgetInd

(* Starting a script.                                                        *)

LEMMA CampaignDueBounds ==
  ASSUME NEW p \in RunType, NEW m \in RunType, NEW c \in RunType, NEW stuck
  PROVE  /\ CampaignDueOf(p, m, c, stuck) \in Nat
         /\ CampaignDueOf(p, m, c, stuck) <= RunBudget("main") + RagReserve
<1>1. "preflight" \in Names /\ "main" \in Names /\ "cited" \in Names
  BY NameFacts
<1>2. /\ RunBudget("preflight") = Planned["preflight"] /\ RunBudget("main") = Planned["main"]
      /\ RunBudget("cited") = Planned["cited"]
  BY <1>1, BudgetFacts
<1>3. /\ Planned["preflight"] \in Nat /\ Planned["main"] \in Nat /\ Planned["cited"] \in Nat
      /\ RagReserve \in Nat /\ Planned["cited"] <= RagReserve
      /\ Planned["preflight"] <= Planned["main"] + RagReserve
  BY <1>1, CampaignAssumption, PreflightAssumption
<1>4. /\ LeftOf(p, "preflight") \in Nat /\ LeftOf(p, "preflight") <= Planned["preflight"]
      /\ LeftOf(m, "main") \in Nat /\ LeftOf(m, "main") <= Planned["main"]
      /\ LeftOf(c, "cited") \in Nat /\ LeftOf(c, "cited") <= Planned["cited"]
  BY <1>1, <1>2, LeftFacts
<1> QED BY <1>2, <1>3, <1>4 DEF CampaignDueOf

LEMMA BegunWithinLedger ==
  ASSUME CampaignTypeOK, NEW newRound, NEW resumed, NEW fixed, MayBegin(newRound, resumed, fixed)
  PROVE  Ledger + (RunBudget("main") + RagReserve) <= Authorized
<1>1. "preflight" \in Names /\ "main" \in Names
  BY NameFacts
<1>2. PICK rounds \in {0, 1} :
        Ledger + rounds * Planned["preflight"] + RunBudget("main") + RagReserve <= Authorized
  BY DEF MayBegin
<1>3. /\ Planned["preflight"] \in Nat /\ RunBudget("main") \in Nat /\ RagReserve \in Nat
      /\ Authorized \in Nat /\ Ledger \in Int
  BY <1>1, BudgetFacts, LedgerCovers, CampaignAssumption
<1>4. rounds * Planned["preflight"] \in Nat
  BY <1>2, <1>3
<1> QED BY <1>2, <1>3, <1>4

\* What the starting script may call is within what the ledger leaves.
LEMMA StartSpendsNothing ==
  ASSUME CampaignTypeOK, CampaignTypeOK', BudgetInd, UNCHANGED <<runs, populated, over>>,
         pc' \in {"fresh", "prepare", "phase"} \/ (pc' = "finalize" /\ Current'.manifest),
         NEW needed \in Nat, Due' <= needed, Ledger + needed <= Authorized
  PROVE  BudgetInd'
<1>1. AllSpent' = AllSpent /\ FilesKept'
  BY NothingSpent, FilesStay DEF BudgetInd
<1>2. BegunKept'
  BY DEF BegunKept
<1>3. /\ AllSpent \in Int /\ Due' \in Nat /\ over \in Nat /\ AllSpent <= Ledger /\ Ledger \in Int
      /\ Authorized \in Nat
  BY DueTyped, DueTypedNext, LedgerCovers, CampaignAssumption DEF BudgetInd, BudgetKept
<1>4. PICK v, d, o, w, l \in Int : /\ v = AllSpent /\ d = Due' /\ o = over /\ w = AllSpent'
                                   /\ l = Ledger
  BY <1>1, <1>3
<1>5. w = v /\ v <= l /\ d <= needed /\ l + needed <= Authorized /\ o >= 0
  BY <1>1, <1>3, <1>4
<1>6. w + d <= Authorized + o
  BY <1>3, <1>5
<1>7. BudgetKept'
  BY <1>3, <1>4, <1>6 DEF BudgetKept, AllSpent
<1> QED BY <1>1, <1>2, <1>7 DEF BudgetInd

LEMMA MeasureStartSpends ==
  ASSUME CampaignKept, CampaignTypeOK', BudgetInd,
         (\E b \in Measures : StartMeasure(b)) \/ ResumeMeasure
  PROVE  BudgetInd'
<1> USE DEF CampaignKept
<1>1. /\ UNCHANGED <<runs, populated, over>> /\ active' \in Measures
      /\ \/ pc' = "prepare"
         \/ pc' = "finalize" /\ Current'.manifest
      /\ \E newRound, resumed, fixed : MayBegin(newRound, resumed, fixed)
  <2>1. ASSUME NEW b \in Measures, StartMeasure(b)
        PROVE  /\ UNCHANGED <<runs, populated, over>> /\ active' \in Measures /\ pc' = "prepare"
               /\ \E newRound, resumed, fixed : MayBegin(newRound, resumed, fixed)
    BY <2>1 DEF StartMeasure, Begin
  <2>2. ASSUME ResumeMeasure
        PROVE  /\ UNCHANGED <<runs, populated, over>> /\ active' \in Measures
               /\ \/ pc' = "prepare"
                  \/ pc' = "finalize" /\ Current'.manifest
               /\ \E newRound, resumed, fixed : MayBegin(newRound, resumed, fixed)
    <3>1. /\ UNCHANGED <<runs, populated, over>> /\ active' = pointer.batch /\ phase' = 1
          /\ pc' = "prepare" \/ pc' = "finalize"
      BY <2>2 DEF ResumeMeasure, Begin
    <3>2. \E newRound, resumed, fixed : MayBegin(newRound, resumed, fixed)
      BY <2>2 DEF ResumeMeasure
    <3>3. pointer.state = "interrupted" /\ Own(pointer.batch, "preflight").manifest
      BY <2>2 DEF ResumeMeasure, Resumable
    <3>4. pointer.batch \in Measures
      BY <3>3 DEF ScriptKept, CampaignTypeOK, None
    <3>5. Name' = "preflight"
      BY <3>1, <3>4, PhasesOfMeasure DEF Name, Phases
    <3>6. Current' = Own(pointer.batch, "preflight")
      BY <3>1, <3>5 DEF Current, Own
    <3> QED BY <3>1, <3>2, <3>3, <3>4, <3>6
  <2> QED BY <2>1, <2>2
<1>2. PICK b \in Measures : b = active'
  BY <1>1
<1>3. Own(b, "preflight") \in RunType /\ Own(b, "preflight")' = Own(b, "preflight")
  BY <1>1, KindRuns DEF KindTypes, Own
<1>4. Due' = LeftOf(Own(b, "preflight"), "preflight")
  <2>1. LeftOf(Own(b, "preflight"), "preflight")' = LeftOf(Own(b, "preflight")', "preflight")
    BY DEF LeftOf, Charged
  <2> QED BY <1>2, <1>3, <2>1, DueIsNext DEF DueByKind
<1>5. "preflight" \in Names /\ "main" \in Names
  BY NameFacts
<1>6. LeftOf(Own(b, "preflight"), "preflight") <= RunBudget("preflight")
      /\ LeftOf(Own(b, "preflight"), "preflight") \in Nat
  BY <1>3, <1>5, LeftFacts
<1>7. RunBudget("preflight") = Planned["preflight"] /\ RunBudget("main") = Planned["main"]
      /\ RunBudget("preflight") \in Nat /\ RunBudget("main") \in Nat
  BY <1>5, BudgetFacts
<1>8. RunBudget("main") + RagReserve \in Nat /\ RunBudget("preflight") <= RunBudget("main") + RagReserve
  BY <1>7, CampaignAssumption, PreflightAssumption
<1>9. Due' <= RunBudget("main") + RagReserve
  BY <1>4, <1>6, <1>7, <1>8
<1>10. Ledger + (RunBudget("main") + RagReserve) <= Authorized
  BY <1>1, BegunWithinLedger
<1> QED BY <1>1, <1>8, <1>9, <1>10, StartSpendsNothing

\* The sums over two phases.
LEMMA PairSums ==
  ASSUME CampaignTypeOK, NEW b \in Planners
  PROVE  /\ SumFunction([p \in ToSet(Rag) |-> Left(b, p)])
              = LeftOf(Own(b, "cited"), "cited") + LeftOf(Own(b, "silent"), "silent")
         /\ SumFunction([p \in ToSet(Checks) |-> RunBudget(p)])
              = RunBudget("check") + RunBudget("recheck")
         /\ b \in Repairs => SumFunction([p \in ToSet(Checks) |-> Charged(Own(b, p))])
                               = Charged(Own(b, "check")) + Charged(Own(b, "recheck"))
<1>1. /\ "cited" # "silent" /\ "check" # "recheck" /\ "cited" # "preflight" /\ "silent" # "preflight"
      /\ "cited" \in Names /\ "silent" \in Names /\ "check" \in Names /\ "recheck" \in Names
  BY NameFacts
<1>2. SumFunction([p \in ToSet(Rag) |-> Left(b, p)])
        = LeftOf(Own(b, "cited"), "cited") + LeftOf(Own(b, "silent"), "silent")
  <2> DEFINE f == [p \in ToSet(Rag) |-> Left(b, p)]
  <2>1. Own(b, "cited") \in RunType /\ Own(b, "silent") \in RunType
    BY KindRuns DEF KindTypes, Planners
  <2>2. /\ Left(b, "cited") = LeftOf(Own(b, "cited"), "cited")
        /\ Left(b, "silent") = LeftOf(Own(b, "silent"), "silent")
    BY <1>1, AtIsOwn, LeftIsLeft
  <2>3. Left(b, "cited") \in Int /\ Left(b, "silent") \in Int
    BY <1>1, <2>1, <2>2, LeftFacts
  <2>4. f \in [{"cited", "silent"} -> Int]
    BY <2>3, NameFacts
  <2>5. f["cited"] = Left(b, "cited") /\ f["silent"] = Left(b, "silent")
    BY NameFacts
  <2> HIDE DEF f
  <2>6. SumFunction(f) = f["cited"] + f["silent"]
    BY <1>1, <2>4, SumOfTwo
  <2> QED BY <2>2, <2>5, <2>6 DEF f
<1>3. SumFunction([p \in ToSet(Checks) |-> RunBudget(p)]) = RunBudget("check") + RunBudget("recheck")
  <2> DEFINE f == [p \in ToSet(Checks) |-> RunBudget(p)]
  <2>1. f \in [{"check", "recheck"} -> Int]
    BY <1>1, NameFacts, BudgetFacts
  <2>2. f["check"] = RunBudget("check") /\ f["recheck"] = RunBudget("recheck")
    BY NameFacts
  <2> HIDE DEF f
  <2>3. SumFunction(f) = f["check"] + f["recheck"]
    BY <1>1, <2>1, SumOfTwo
  <2> QED BY <2>2, <2>3 DEF f
<1>4. ASSUME b \in Repairs
      PROVE  SumFunction([p \in ToSet(Checks) |-> Charged(Own(b, p))])
               = Charged(Own(b, "check")) + Charged(Own(b, "recheck"))
  <2> DEFINE f == [p \in ToSet(Checks) |-> Charged(Own(b, p))]
  <2>1. Own(b, "check") \in RunType /\ Own(b, "recheck") \in RunType
    BY <1>4, KindRuns DEF KindTypes
  <2>2. Charged(Own(b, "check")) \in Int /\ Charged(Own(b, "recheck")) \in Int
    BY <1>1, <2>1, LeftFacts
  <2>3. f \in [{"check", "recheck"} -> Int]
    BY <2>2, NameFacts
  <2>4. f["check"] = Charged(Own(b, "check")) /\ f["recheck"] = Charged(Own(b, "recheck"))
    BY NameFacts
  <2> HIDE DEF f
  <2>5. SumFunction(f) = f["check"] + f["recheck"]
    BY <1>1, <2>3, SumOfTwo
  <2> QED BY <2>4, <2>5 DEF f
<1> QED BY <1>2, <1>3, <1>4

LEMMA CampaignStartSpends ==
  ASSUME CampaignKept, CampaignTypeOK', BudgetInd, NEW b \in Campaigns,
         StartCampaign(b) \/ ResumeCampaign(b)
  PROVE  BudgetInd'
<1> USE DEF CampaignKept
<1>1. UNCHANGED <<runs, populated, over>> /\ active' = b /\ pc' = "prepare"
  BY DEF StartCampaign, ResumeCampaign, Begin
<1>2. PICK p, m, c \in RunType, stuck \in BOOLEAN :
        /\ p = At(b, "preflight")' /\ m = Own(b, "main")' /\ c = Own(b, "cited")'
        /\ stuck = Stuck(b)'
  BY KindRunsNext DEF KindTypes, Stuck
<1>3. Due' = CampaignDueOf(p, m, c, stuck)
  BY <1>1, <1>2, DueIsNext DEF DueByKind
<1>4. CASE StartCampaign(b)
  <2>1. \E newRound, resumed, fixed : MayBegin(newRound, resumed, fixed)
    BY <1>4 DEF StartCampaign
  <2>2. Ledger + (RunBudget("main") + RagReserve) <= Authorized
    BY <2>1, BegunWithinLedger
  <2>3. RunBudget("main") + RagReserve \in Nat
    BY NameFacts, BudgetFacts, CampaignAssumption
  <2> QED BY <1>1, <1>3, <2>2, <2>3, CampaignDueBounds, StartSpendsNothing
<1>5. CASE ResumeCampaign(b)
  <2>1. Ledger + ResumeNeeds(b) <= Authorized /\ approved' = approved
    BY <1>5 DEF ResumeCampaign
  <2>2. p = At(b, "preflight") /\ m = Own(b, "main") /\ c = Own(b, "cited")
    BY <1>1, <1>2, <2>1 DEF At, Own
  <2>3. PICK s \in RunType : s = Own(b, "silent")
    BY KindRuns DEF KindTypes
  <2>4. "main" # "preflight" /\ b \in Planners
    BY DEF Planners
  <2>5. Left(b, "preflight") = LeftOf(p, "preflight") /\ Left(b, "main") = LeftOf(m, "main")
    BY <2>2, <2>4, AtIsOwn, LeftIsLeft
  <2>6. SumFunction([q \in ToSet(Rag) |-> Left(b, q)]) = LeftOf(c, "cited") + LeftOf(s, "silent")
    BY <2>2, <2>3, <2>4, PairSums
  <2>7. ResumeNeeds(b) =
          IF p.summary = None THEN LeftOf(p, "preflight")
          ELSE IF ~Passed("preflight", p) THEN 0
          ELSE IF m.summary = None THEN LeftOf(m, "main") + RagReserve
          ELSE IF Passed("main", m) THEN LeftOf(c, "cited") + LeftOf(s, "silent")
          ELSE 0
    BY <2>2, <2>5, <2>6 DEF ResumeNeeds
  <2>8. /\ LeftOf(p, "preflight") \in Nat /\ LeftOf(m, "main") \in Nat /\ LeftOf(c, "cited") \in Nat
        /\ LeftOf(s, "silent") \in Nat /\ RagReserve \in Nat
    BY NameFacts, LeftFacts, CampaignAssumption
  <2>9. ResumeNeeds(b) \in Nat /\ CampaignDueOf(p, m, c, stuck) <= ResumeNeeds(b)
    BY <2>7, <2>8 DEF CampaignDueOf
  <2> QED BY <1>1, <1>3, <2>1, <2>9, StartSpendsNothing
<1> QED BY <1>4, <1>5

LEMMA RepairStartSpends ==
  ASSUME CampaignKept, CampaignTypeOK', BudgetInd, NEW b \in Repairs,
         StartRepair(b) \/ ResumeRepair(b)
  PROVE  BudgetInd'
<1> USE DEF CampaignKept
<1>1. /\ UNCHANGED <<runs, populated, over>> /\ active' = b /\ pc' \in {"fresh", "prepare"}
      /\ phase' = 1
  BY DEF StartRepair, ResumeRepair, Begin
<1>2. Due' = 0
  BY <1>1, DueIsNext DEF DueByKind, Preparing
<1>3. AllSpent' = AllSpent /\ FilesKept'
  BY <1>1, NothingSpent, FilesStay DEF BudgetInd
<1>4. BegunKept'
  BY <1>1 DEF BegunKept
<1>5. BudgetKept'
  <2>1. over \in Nat
    BY DEF BudgetInd, BudgetKept
  <2> QED BY <1>1, <1>2, <1>3, <2>1, DueTyped, BudgetStays DEF BudgetInd
<1> QED BY <1>3, <1>4, <1>5 DEF BudgetInd

\* A repair is launched with what is left of it within the ledger; its second
\* check has no files, so the reservation of the checks covers the first.
LEMMA RepairLaunchSpends ==
  ASSUME CampaignKept, CampaignTypeOK', BudgetInd, LaunchRepair, pc' = "phase"
  PROVE  BudgetInd'
<1> USE DEF CampaignKept
<1>1. /\ UNCHANGED <<active, runs, populated, over>> /\ active \in Repairs
      /\ \E needed \in Nat : RepairAllowed(active, needed)
  <2>1. (IF pc = "fresh" THEN RepairCeiling ELSE 0) \in Nat
    BY CampaignAssumption
  <2> QED BY <2>1 DEF LaunchRepair, Idle
<1>2. PICK b \in Repairs : b = active
  BY <1>1
<1>3. PICK k, l, c, s \in RunType :
        /\ k = Own(b, "check") /\ l = Own(b, "recheck")
        /\ c = Own(b, "cited") /\ s = Own(b, "silent")
  BY KindRuns DEF KindTypes
<1>4. Due' = LeftOf(k, "check") + LeftOf(c, "cited")
  <2>1. k = Own(b, "check")' /\ c = Own(b, "cited")'
    BY <1>1, <1>3 DEF Own
  <2>2. ~Preparing'
    BY DEF Preparing
  <2> QED BY <1>1, <1>2, <2>1, <2>2, DueIsNext DEF DueByKind
<1>5. l = NoRun
  <2>1. <<b, "recheck">> \in RunIds
    BY RunsOfBatch
  <2>2. PICK id \in RunIds : id = <<b, "recheck">> /\ id[2] = "recheck"
    BY <2>1
  <2> QED BY <1>3, <2>2 DEF BudgetInd, FilesKept, Own
<1>6. Charged(l) = 0 /\ l.summary = None
  BY <1>5 DEF NoRun, Charged
<1>7. /\ LeftOf(k, "check") \in Nat /\ LeftOf(c, "cited") \in Nat /\ LeftOf(s, "silent") \in Nat
      /\ Charged(k) \in Nat /\ RunBudget("check") \in Nat /\ RunBudget("recheck") \in Nat
      /\ k.summary # None => LeftOf(k, "check") = 0
  BY NameFacts, LeftFacts, BudgetFacts
<1>8. RepairNeeds(b) \in Nat /\ LeftOf(k, "check") + LeftOf(c, "cited") <= RepairNeeds(b)
  <2>1. b \in Planners
    BY DEF Planners
  <2>2. RepairNeeds(b) =
          (IF (\E p \in ToSet(Checks) : Own(b, p).summary # None)
                \/ Charged(k) + Charged(l) > RunBudget("check") + RunBudget("recheck")
             THEN 0 ELSE (RunBudget("check") + RunBudget("recheck")) - (Charged(k) + Charged(l)))
            + (LeftOf(c, "cited") + LeftOf(s, "silent"))
    BY <1>3, <2>1, PairSums DEF RepairNeeds
  <2>3. (\E p \in ToSet(Checks) : Own(b, p).summary # None) <=> k.summary # None
    BY <1>3, <1>6, NameFacts
  <2>4. LeftOf(k, "check") = IF k.summary # None \/ Charged(k) >= RunBudget("check") THEN 0
                             ELSE RunBudget("check") - Charged(k)
    BY DEF LeftOf
  <2> QED BY <1>6, <1>7, <2>2, <2>3, <2>4
<1>9. Ledger + RepairNeeds(b) <= Authorized
  <2> DEFINE f == [id \in RunIds |-> runs[id].held]
  <2>1. f \in [RunIds -> Nat]
    BY SpentFacts
  <2>2. SumFunction(f) \in Nat
    <3> HIDE DEF f
    <3> QED BY <2>1, RunIdsFinite, SumIsNat
  <2>3. PICK needed \in Nat : Ledger + SumFunction(f)
          + (IF needed > RepairNeeds(b) THEN needed ELSE RepairNeeds(b)) <= Authorized
    BY <1>1, <1>2 DEF RepairAllowed
  <2>a. Ledger \in Int
    BY LedgerCovers
  <2> HIDE DEF f
  <2>4. PICK l1, s1, n1 \in Int : l1 = Ledger /\ s1 = SumFunction(f) /\ n1 = RepairNeeds(b)
    BY <1>8, <2>2, <2>a
  <2>5. l1 + s1 + (IF needed > n1 THEN needed ELSE n1) <= Authorized /\ s1 >= 0
    BY <2>2, <2>3, <2>4
  <2>6. l1 + n1 <= Authorized
    BY <2>5, CampaignAssumption
  <2> QED BY <2>4, <2>6
<1> QED BY <1>1, <1>4, <1>8, <1>9, StartSpendsNothing

(* Runs.                                                                     *)

\* Where a campaign stands: the phases before its own are judged.
LEMMA CampaignStands ==
  ASSUME CampaignKept, active \in Campaigns, ~UsesApproved
  PROVE  \/ Name = "preflight" /\ At(active, "preflight") = Current
         \/ /\ Name = "main" /\ Own(active, "main") = Current
            /\ Judged("preflight", At(active, "preflight"))
         \/ /\ Name \in {"cited", "silent"}
            /\ Judged("preflight", At(active, "preflight")) /\ Judged("main", Own(active, "main"))
<1> USE DEF CampaignKept
<1>1. pc # "idle" /\ active \in Planners /\ active \notin Measures
  BY KindFacts DEF ScriptKept, Planners
<1>2. phase \in 1..4
  BY <1>1, AtWork
<1>3. PICK b \in Campaigns : b = active
  OBVIOUS
<1>4. /\ Phases(b)[1] = "preflight" /\ Phases(b)[2] = "main" /\ Phases(b)[3] = "cited"
      /\ Phases(b)[4] = "silent" /\ DOMAIN Phases(b) = 1..4
  BY PhasesOfCampaign
<1>5. \A j \in 1..4 : j < phase => Judged(Phases(b)[j], At(b, Phases(b)[j]))
  BY <1>3, <1>4 DEF PhasesKept, JudgedAt
<1>6. At(b, "main") = Own(b, "main")
  BY AtIsOwn
<1>7. CASE phase = 1
  <2>1. Name = "preflight"
    BY <1>3, <1>4, <1>7 DEF Name
  <2>2. approved[active] = None
    BY <2>1 DEF UsesApproved
  <2> QED BY <2>1, <2>2, AtIsOwn DEF Current
<1>8. CASE phase = 2
  <2>1. Name = "main" /\ Judged("preflight", At(b, "preflight"))
    BY <1>3, <1>4, <1>5, <1>8 DEF Name
  <2> QED BY <1>3, <2>1 DEF Current
<1>9. CASE phase \in {3, 4}
  <2>1. Name \in {"cited", "silent"}
    BY <1>3, <1>4, <1>9 DEF Name
  <2>2. 1 < phase /\ 2 < phase
    BY <1>9
  <2>3. Judged("preflight", At(b, "preflight")) /\ Judged("main", At(b, "main"))
    BY <1>4, <1>5, <2>2
  <2> QED BY <1>3, <1>6, <2>1, <2>3
<1> QED BY <1>2, <1>7, <1>8, <1>9

LEMMA RepairStands ==
  ASSUME CampaignKept, active \in Repairs
  PROVE  /\ Name \in {"check", "recheck", "cited", "silent"}
         /\ Name = "recheck" => Own(active, "check").summary # None
<1> USE DEF CampaignKept
<1>1. pc # "idle" /\ active \in Planners /\ active \notin Measures
  BY KindFacts DEF ScriptKept, Planners
<1>2. phase \in 1..4
  BY <1>1, AtWork
<1>3. PICK b \in Repairs : b = active
  OBVIOUS
<1>4. /\ Phases(b)[1] = "check" /\ Phases(b)[2] = "recheck" /\ Phases(b)[3] = "cited"
      /\ Phases(b)[4] = "silent" /\ DOMAIN Phases(b) = 1..4
  BY PhasesOfRepair
<1>5. \A j \in 1..4 : j < phase => Judged(Phases(b)[j], At(b, Phases(b)[j]))
  BY <1>3, <1>4 DEF PhasesKept, JudgedAt
<1>6. Name = Phases(b)[phase]
  BY <1>3 DEF Name
<1>7. Name \in {"check", "recheck", "cited", "silent"}
  BY <1>2, <1>4, <1>6
<1>8. ASSUME Name = "recheck" PROVE Own(b, "check").summary # None
  <2>0. \A i \in 1..4 : i = 1 \/ i = 2 \/ i = 3 \/ i = 4
    OBVIOUS
  <2>1. phase = 2
    BY <1>2, <1>4, <1>6, <1>8, <2>0
  <2>2. Judged("check", At(b, "check"))
    BY <1>4, <1>5, <2>1
  <2>3. At(b, "check") = Own(b, "check")
    BY AtIsOwn
  <2> QED BY <2>2, <2>3 DEF Judged
<1> QED BY <1>3, <1>7, <1>8

\* A run with a summary has begun.
LEMMA SummaryHasManifest ==
  ASSUME FilesKept, NEW id \in RunIds, runs[id].summary # None
  PROVE  runs[id].manifest
BY DEF FilesKept, NoRun

LEMMA OpenSpendsNothing ==
  ASSUME CampaignKept, CampaignTypeOK', BudgetInd, OpenRun, pc' # "idle"
  PROVE  BudgetInd'
<1> USE DEF CampaignKept
<1>1. /\ pc = "phase" /\ ~UsesApproved /\ Current.summary = None
      /\ ~(CopiesLibrary /\ (Current.manifest \/ active \in populated))
      /\ populated' = IF CopiesLibrary THEN populated \union {active} ELSE populated
      /\ pc' = IF Current.manifest THEN "cells" ELSE "manifest"
      /\ UNCHANGED <<active, phase, approved, runs, over>>
  BY DEF OpenRun, Raise, Idle
<1>2. Name' = Name /\ Current' = Current
  BY <1>1, CurrentSame
<1>3. AllSpent' = AllSpent /\ FilesKept'
  BY <1>1, NothingSpent, FilesStay DEF BudgetInd
<1>4. Due' = Due
  <2>1. At(active, "preflight")' = At(active, "preflight")
    BY <1>1 DEF At, Own
  <2>2. /\ Own(active, "preflight")' = Own(active, "preflight")
        /\ Own(active, "main")' = Own(active, "main")
        /\ Own(active, "cited")' = Own(active, "cited")
        /\ Own(active, "check")' = Own(active, "check")
    BY <1>1 DEF Own
  <2>3. ~Preparing /\ ~Preparing'
    BY <1>1 DEF Preparing
  <2>4. CASE active \in Campaigns
    <3>1. PICK p, m, c : /\ p = At(active, "preflight") /\ m = Own(active, "main")
                         /\ c = Own(active, "cited")
      OBVIOUS
    <3>2. /\ Due = CampaignDueOf(p, m, c, Stuck(active))
          /\ Due' = CampaignDueOf(p, m, c, Stuck(active)')
      BY <1>1, <2>1, <2>2, <2>4, <3>1, DueIs, DueIsNext DEF DueByKind
    <3>3. p.summary = None \/ m.summary # None \/ (Stuck(active)' <=> Stuck(active))
      <4>1. CASE Name = "main"
        <5>1. CopiesLibrary
          BY <2>4, <4>1 DEF CopiesLibrary
        <5> QED BY <1>1, <5>1 DEF Stuck
      <4>2. CASE Name # "main"
        BY <1>1, <2>4, <3>1, <4>2, CampaignStands DEF Judged
      <4> QED BY <4>1, <4>2
    <3> QED BY <3>2, <3>3 DEF CampaignDueOf
  <2> QED BY <1>1, <2>2, <2>3, <2>4, DueIs, DueIsNext, KindFacts
          DEF DueByKind, CampaignTypeOK, Planners
<1>5. BudgetKept'
  <2>1. over \in Nat
    BY DEF BudgetInd, BudgetKept
  <2> QED BY <1>1, <1>3, <1>4, <2>1, DueTyped, BudgetStays DEF BudgetInd
<1>6. BegunKept'
  <2>1. CASE Current.manifest
    BY <1>1, <1>2, <2>1 DEF BegunKept
  <2>2. CASE ~Current.manifest
    <3>1. active \in Batches /\ <<active, Name>> \in RunIds
      BY <1>1, AtWork
    <3>2. active \in Campaigns => Name \in {"preflight", "main", "cited", "silent"}
      BY <1>1, CampaignStands
    <3>3. active \in Measures => Name = "preflight"
      BY <1>1, AtWork
    <3>4. ASSUME active \in Repairs PROVE Name # "recheck"
      <4>1. ASSUME Name = "recheck" PROVE FALSE
        <5>1. Own(active, "check").summary # None
          BY <3>4, <4>1, RepairStands
        <5>2. PICK id \in RunIds : id = <<active, "check">> /\ id[1] = active /\ id[2] = "check"
          BY <3>4, RunsOfBatch
        <5>3. runs[id].manifest
          BY <5>1, <5>2, SummaryHasManifest DEF BudgetInd, Own
        <5>4. active \in populated
          BY <5>2, <5>3 DEF BudgetInd, FilesKept
        <5>5. CopiesLibrary
          BY <2>2, <3>4, <4>1, KindFacts, NameFacts DEF CopiesLibrary
        <5> QED BY <1>1, <5>4, <5>5
      <4> QED BY <4>1
    <3>5. ASSUME active \notin Measures, Name \in {"preflight", "main", "check"}
          PROVE  active \in populated'
      <4>1. CASE active \in Campaigns
        <5>1. CopiesLibrary
          BY <3>2, <3>5, <4>1 DEF CopiesLibrary
        <5> QED BY <1>1, <5>1
      <4>2. CASE active \in Repairs
        <5>1. Name = "check"
          BY <3>5, <4>2, RepairStands
        <5>2. CopiesLibrary
          BY <2>2, <4>2, <5>1, KindFacts, NameFacts DEF CopiesLibrary
        <5> QED BY <1>1, <5>2
      <4> QED BY <3>1, <3>5, <4>1, <4>2, KindFacts DEF Planners
    <3>6. Name # "recheck"
      BY <3>1, <3>2, <3>3, <3>4, KindFacts DEF Planners
    <3>7. pc' = "manifest" /\ active' = active
      BY <1>1, <2>2
    <3> QED BY <1>2, <3>5, <3>6, <3>7 DEF BegunKept
  <2> QED BY <2>1, <2>2
<1> QED BY <1>3, <1>5, <1>6 DEF BudgetInd

\* The run at work is written.
LEMMA CurrentWritten ==
  ASSUME CampaignKept, pc # "idle", ~UsesApproved, UNCHANGED <<active, phase, approved>>,
         NEW r \in RunType, Update(r)
  PROVE  /\ runs'[<<active, Name>>] = r
         /\ \A q \in RunIds : q # <<active, Name>> => runs'[q] = runs[q]
         /\ Name' = Name /\ Current' = r
         /\ \A n : <<active, n>> \in RunIds =>
                     Own(active, n)' = IF n = Name THEN r ELSE Own(active, n)
         /\ active \in Campaigns =>
              At(active, "preflight")' = IF Name = "preflight" THEN r ELSE At(active, "preflight")
<1> USE DEF CampaignKept
<1>1. <<active, Name>> \in RunIds /\ active \in Batches
  BY AtWork
<1>2. PICK id \in RunIds : id = <<active, Name>>
  BY <1>1
<1>3. runs' = [runs EXCEPT ![id] = r] /\ runs \in [RunIds -> RunType]
  BY <1>2, RunsTyped DEF Update
<1>4. runs'[id] = r /\ \A q \in RunIds : q # id => runs'[q] = runs[q]
  BY <1>3
<1>5. Name' = Name
  BY DEF Name, Phases
<1>6. Current' = r
  BY <1>2, <1>4, <1>5 DEF Current, Own
<1>7. \A n : <<active, n>> \in RunIds => Own(active, n)' = IF n = Name THEN r ELSE Own(active, n)
  BY <1>2, <1>4 DEF Own
<1>8. ASSUME active \in Campaigns
      PROVE  At(active, "preflight")' = IF Name = "preflight" THEN r ELSE At(active, "preflight")
  <2>1. CASE approved[active] = None
    <3>1. At(active, "preflight")' = Own(active, "preflight")'
      BY <2>1 DEF At
    <3>2. At(active, "preflight") = Own(active, "preflight")
      BY <2>1 DEF At
    <3> QED BY <1>7, <1>8, <3>1, <3>2, RunsOfBatch
  <2>2. CASE approved[active] # None
    <3>1. Name # "preflight"
      BY <1>8, <2>2 DEF UsesApproved
    <3>2. approved[active] \in Measures
      BY <1>1, <2>2 DEF CampaignTypeOK
    <3>3. <<approved[active], "preflight">> \in RunIds /\ <<approved[active], "preflight">> # id
      BY <1>2, <3>1, <3>2, RunsOfBatch
    <3>4. At(active, "preflight") = runs[<<approved[active], "preflight">>]
          /\ At(active, "preflight")' = runs'[<<approved[active], "preflight">>]
      BY <1>8, <2>2 DEF At, Own
    <3> QED BY <1>4, <3>1, <3>3, <3>4
  <2> QED BY <2>1, <2>2
<1> QED BY <1>2, <1>4, <1>5, <1>6, <1>7, <1>8

\* A run that has no summary yet moves what may be called by what it does.
LEMMA DueMoves ==
  ASSUME CampaignKept, FilesKept, BegunKept, ~UsesApproved, Current.summary = None,
         pc \in {"manifest", "cells", "cell"}, pc' \in {"cells", "cell"},
         UNCHANGED <<active, phase, approved, populated>>,
         NEW r \in RunType, Update(r), r.summary = None, r.manifest
  PROVE  Due' = Due + (IF Name = "silent" THEN 0 ELSE LeftOf(r, Name) - LeftOf(Current, Name))
<1> USE DEF CampaignKept
<1>0. pc # "idle" /\ ~Preparing /\ ~Preparing'
  BY DEF Preparing
<1>1. /\ active \in Batches /\ <<active, Name>> \in RunIds /\ Current = runs[<<active, Name>>]
      /\ Current \in RunType
  BY <1>0, AtWork
<1>2. Name \in Names
  BY <1>1, RunIdFacts
<1>3. PICK c \in RunType : c = Current
  BY <1>1
<1>4. LeftOf(r, Name) \in Nat /\ LeftOf(c, Name) \in Nat
  BY <1>2, LeftFacts
<1>5. CASE active \in Measures
  <2>1. Name = "preflight" /\ Own(active, "preflight") = c
    BY <1>0, <1>3, <1>5, AtWork DEF Current
  <2>2. Own(active, "preflight")' = r
    BY <1>0, <1>5, <2>1, CurrentWritten, RunsOfBatch
  <2>3. Due = LeftOf(c, "preflight") /\ Due' = LeftOf(r, "preflight")
    BY <1>5, <2>1, <2>2, DueIs, DueIsNext DEF DueByKind
  <2> QED BY <1>3, <1>4, <2>1, <2>3
<1>6. CASE active \in Campaigns
  <2>1. PICK p, m, d \in RunType : /\ p = At(active, "preflight") /\ m = Own(active, "main")
                                   /\ d = Own(active, "cited")
    BY <1>6, KindRuns DEF KindTypes
  <2>2. /\ At(active, "preflight")' = IF Name = "preflight" THEN r ELSE p
        /\ Own(active, "main")' = IF Name = "main" THEN r ELSE m
        /\ Own(active, "cited")' = IF Name = "cited" THEN r ELSE d
    BY <1>0, <1>6, <2>1, CurrentWritten, RunsOfBatch
  <2>3. /\ Due = CampaignDueOf(p, m, d, Stuck(active))
        /\ Due' = CampaignDueOf(At(active, "preflight")', Own(active, "main")', Own(active, "cited")',
                                Stuck(active)')
    BY <1>6, <2>1, DueIs, DueIsNext DEF DueByKind
  <2>4. /\ LeftOf(m, "main") \in Nat /\ LeftOf(d, "cited") \in Nat /\ LeftOf(p, "preflight") \in Nat
        /\ RagReserve \in Nat
    BY NameFacts, LeftFacts, CampaignAssumption
  <2>5. CASE Name = "preflight"
    <3>1. p = c
      BY <1>3, <1>6, <2>1, <2>5, CampaignStands
    <3>2. Due = LeftOf(c, "preflight")
      BY <1>3, <2>3, <3>1 DEF CampaignDueOf
    <3>3. Due' = LeftOf(r, "preflight")
      BY <2>2, <2>3, <2>5 DEF CampaignDueOf
    <3> QED BY <1>3, <1>4, <2>5, <3>2, <3>3
  <2>6. CASE Name = "main"
    <3>1. m = c /\ Judged("preflight", p)
      BY <1>3, <1>6, <2>1, <2>6, CampaignStands
    <3>2. ~Stuck(active)
      <4>1. pc = "manifest" \/ c.manifest
        BY <1>3 DEF BegunKept
      <4> QED BY <2>1, <3>1, <4>1 DEF Stuck
    <3>3. ~Stuck(active)'
      BY <2>2, <2>6 DEF Stuck
    <3>4. Due = LeftOf(c, "main") + RagReserve
      BY <1>3, <2>3, <3>1, <3>2 DEF CampaignDueOf, Judged
    <3>5. Due' = LeftOf(r, "main") + RagReserve
      BY <2>2, <2>3, <2>6, <3>1, <3>3 DEF CampaignDueOf, Judged
    <3> QED BY <1>3, <1>4, <2>4, <2>6, <3>4, <3>5
  <2>7. CASE Name \in {"cited", "silent"}
    <3>1. Judged("preflight", p) /\ Judged("main", m)
      BY <1>6, <2>1, <2>7, CampaignStands
    <3>2. Due = LeftOf(d, "cited")
      BY <2>3, <3>1 DEF CampaignDueOf, Judged
    <3>3. Due' = LeftOf(Own(active, "cited")', "cited")
      BY <2>2, <2>3, <2>7, <3>1 DEF CampaignDueOf, Judged
    <3>4. Name = "cited" => d = c
      BY <1>3, <2>1 DEF Current
    <3> QED BY <1>3, <1>4, <2>2, <2>4, <2>7, <3>2, <3>3, <3>4
  <2> QED BY <1>6, <2>5, <2>6, <2>7, CampaignStands
<1>7. CASE active \in Repairs
  <2>1. PICK k, d \in RunType : k = Own(active, "check") /\ d = Own(active, "cited")
    BY <1>7, KindRuns DEF KindTypes
  <2>2. /\ Own(active, "check")' = IF Name = "check" THEN r ELSE k
        /\ Own(active, "cited")' = IF Name = "cited" THEN r ELSE d
    BY <1>0, <1>7, <2>1, CurrentWritten, RunsOfBatch
  <2>3. /\ Due = LeftOf(k, "check") + LeftOf(d, "cited")
        /\ Due' = LeftOf(Own(active, "check")', "check") + LeftOf(Own(active, "cited")', "cited")
    BY <1>0, <1>7, <2>1, DueIs, DueIsNext DEF DueByKind
  <2>4. LeftOf(k, "check") \in Nat /\ LeftOf(d, "cited") \in Nat
    BY NameFacts, LeftFacts
  <2>5. Name \in {"check", "cited", "silent"}
    <3>1. Name # "recheck"
      <4>1. ASSUME Name = "recheck" PROVE FALSE
        <5>1. PICK id \in RunIds : id = <<active, Name>> /\ id[2] = "recheck"
          BY <1>1, <4>1
        <5> QED BY <1>1, <4>1, <5>1 DEF BegunKept, FilesKept
      <4> QED BY <4>1
    <3> QED BY <1>7, <3>1, RepairStands
  <2>6. (Name = "check" => k = c) /\ (Name = "cited" => d = c)
    BY <1>3, <2>1 DEF Current
  <2> QED BY <1>3, <1>4, <2>2, <2>3, <2>4, <2>5, <2>6
<1> QED BY <1>1, <1>5, <1>6, <1>7, KindFacts DEF Planners

LEMMA FilesWritten ==
  ASSUME CampaignKept, FilesKept, BegunKept, ~UsesApproved, pc \in {"manifest", "cells", "cell"},
         UNCHANGED <<active, phase, approved, populated>>,
         NEW r \in RunType, Update(r), r.manifest, r.held \in {0, 1}
  PROVE  FilesKept'
<1> USE DEF CampaignKept
<1>0. pc # "idle"
  OBVIOUS
<1>1. /\ active \in Batches /\ <<active, Name>> \in RunIds /\ Current = runs[<<active, Name>>]
      /\ active \in Measures => Name = "preflight"
  BY <1>0, AtWork
<1>2. PICK id \in RunIds : id = <<active, Name>> /\ id[1] = active /\ id[2] = Name
  BY <1>1
<1>3. runs'[id] = r /\ \A q \in RunIds : q # id => runs'[q] = runs[q]
  BY <1>0, <1>2, CurrentWritten
<1>4. Name # "recheck"
  <2>1. CASE pc = "manifest"
    BY <2>1 DEF BegunKept
  <2>2. CASE pc # "manifest"
    BY <1>1, <1>2, <2>2 DEF BegunKept, FilesKept
  <2> QED BY <2>1, <2>2
<1>5. /\ active \in Campaigns /\ Name \in {"preflight", "main"} => active \in populated
      /\ Name = "check" => active \in populated
  <2>1. CASE pc = "manifest"
    <3>1. Name = "check" => active \notin Measures
      BY <1>1
    <3>2. active \in Campaigns => active \notin Measures
      BY KindFacts DEF Planners
    <3> QED BY <2>1, <3>1, <3>2 DEF BegunKept
  <2>2. CASE pc # "manifest"
    <3>1. runs[id].manifest
      BY <1>1, <1>2, <2>2 DEF BegunKept
    <3> QED BY <1>2, <3>1 DEF FilesKept
  <2> QED BY <2>1, <2>2
<1>6. \A q \in RunIds : ~runs'[q].manifest => runs'[q] = NoRun
  BY <1>3 DEF FilesKept
<1>7. \A q \in RunIds : runs'[q].held \in {0, 1}
  BY <1>3 DEF FilesKept
<1>8. \A q \in RunIds : runs'[q].manifest /\ q[1] \in Campaigns /\ q[2] \in {"preflight", "main"}
                          => q[1] \in populated'
  BY <1>2, <1>3, <1>5 DEF FilesKept
<1>9. \A q \in RunIds : runs'[q].manifest /\ q[2] = "check" => q[1] \in populated'
  BY <1>2, <1>3, <1>5 DEF FilesKept
<1>10. \A q \in RunIds : q[2] = "recheck" => ~runs'[q].manifest
  BY <1>2, <1>3, <1>4 DEF FilesKept
<1> QED BY <1>6, <1>7, <1>8, <1>9, <1>10 DEF FilesKept

\* What a step of a run spends is taken from what may be called, or is over.
LEMMA RunSpends ==
  ASSUME CampaignKept, CampaignTypeOK', BudgetInd, ~UsesApproved, Current.summary = None,
         pc \in {"manifest", "cells", "cell"}, pc' \in {"cells", "cell"},
         UNCHANGED <<active, phase, approved, populated>>, over' \in Nat,
         NEW r \in RunType, Update(r), r.summary = None, r.manifest, r.held \in {0, 1},
         (SpentOf(r, Name) - SpentOf(Current, Name))
           + (IF Name = "silent" THEN 0 ELSE LeftOf(r, Name) - LeftOf(Current, Name)) <= over' - over
  PROVE  FilesKept' /\ BudgetKept' /\ Current' = r
<1> USE DEF CampaignKept
<1>0. pc # "idle" /\ FilesKept /\ BegunKept /\ BudgetKept
  BY DEF BudgetInd
<1>1. <<active, Name>> \in RunIds /\ Current = runs[<<active, Name>>] /\ Current \in RunType
  BY <1>0, AtWork
<1>2. PICK id \in RunIds : id = <<active, Name>> /\ id[2] = Name
  BY <1>1
<1>3. AllSpent' = AllSpent + (SpentOf(r, Name) - SpentOf(Current, Name))
  <2>1. runs'[id] = r /\ \A q \in RunIds : q # id => runs'[q] = runs[q]
    BY <1>0, <1>2, CurrentWritten
  <2> QED BY <1>1, <1>2, <2>1, OneSpends
<1>4. Due' = Due + (IF Name = "silent" THEN 0 ELSE LeftOf(r, Name) - LeftOf(Current, Name))
  BY <1>0, DueMoves
<1>5. Name \in Names
  BY <1>2, RunIdFacts
<1>6. PICK v, d, o, p, x, y, l, k \in Int :
        /\ v = AllSpent /\ d = Due /\ o = over /\ p = over'
        /\ x = SpentOf(r, Name) /\ y = SpentOf(Current, Name)
        /\ l = LeftOf(r, Name) /\ k = LeftOf(Current, Name)
  <2>1. AllSpent \in Int /\ Due \in Int /\ over \in Int
    BY <1>0, DueTyped DEF BudgetKept
  <2>2. SpentOf(r, Name) \in Int /\ SpentOf(Current, Name) \in Int
    BY <1>1 DEF SpentOf, RunType
  <2>3. LeftOf(r, Name) \in Int /\ LeftOf(Current, Name) \in Int
    BY <1>1, <1>5, LeftFacts
  <2> QED BY <2>1, <2>2, <2>3
<1>7. AllSpent' + Due' - over' <= AllSpent + Due - over
  <2>1. AllSpent' = v + (x - y) /\ Due' = d + (IF Name = "silent" THEN 0 ELSE l - k)
    BY <1>3, <1>4, <1>6
  <2>2. (x - y) + (IF Name = "silent" THEN 0 ELSE l - k) <= p - o
    BY <1>6
  <2>3. (v + (x - y)) + (d + (IF Name = "silent" THEN 0 ELSE l - k)) - p <= v + d - o
    BY <2>2
  <2> QED BY <1>6, <2>1, <2>3
<1>8. BudgetKept'
  BY <1>0, <1>7, BudgetStays
<1>9. FilesKept'
  BY <1>0, FilesWritten
<1>10. Current' = r
  BY <1>0, CurrentWritten
<1> QED BY <1>8, <1>9, <1>10

LEMMA ManifestSpendsNothing ==
  ASSUME CampaignKept, CampaignTypeOK', BudgetInd, WriteManifest
  PROVE  BudgetInd'
<1> USE DEF CampaignKept
<1>1. /\ pc = "manifest" /\ pc' = "cells"
      /\ UNCHANGED <<active, phase, approved, populated, over>>
  BY DEF WriteManifest
<1>2. Current \in RunType /\ Current.summary = None /\ ~UsesApproved
  BY <1>1, AtWork DEF ScriptKept
<1>3. PICK c \in RunType : c = Current
  BY <1>2
<1>4. PICK r \in RunType : /\ r = [c EXCEPT !.manifest = TRUE] /\ r.manifest
                           /\ r.summary = c.summary /\ r.calls = c.calls /\ r.held = c.held
  <2>1. /\ [c EXCEPT !.manifest = TRUE] \in RunType /\ [c EXCEPT !.manifest = TRUE].summary = c.summary
        /\ [c EXCEPT !.manifest = TRUE].calls = c.calls /\ [c EXCEPT !.manifest = TRUE].held = c.held
        /\ [c EXCEPT !.manifest = TRUE].manifest
    BY DEF RunType
  <2> QED BY <2>1
<1>5. Update(r)
  BY <1>3, <1>4 DEF WriteManifest
<1>6. r.held \in {0, 1} /\ over \in Nat
  BY <1>1, <1>3, <1>4, AtWork DEF BudgetInd, FilesKept, BudgetKept
<1>7. SpentOf(r, Name) = SpentOf(c, Name) /\ LeftOf(r, Name) = LeftOf(c, Name)
  BY <1>4 DEF SpentOf, LeftOf, Charged
<1>8. Name \in Names
  BY <1>1, AtWork, RunIdFacts
<1>9. SpentOf(c, Name) \in Int /\ LeftOf(c, Name) \in Int
  BY <1>8, LeftFacts DEF SpentOf, RunType
<1>10. (SpentOf(r, Name) - SpentOf(Current, Name))
         + (IF Name = "silent" THEN 0 ELSE LeftOf(r, Name) - LeftOf(Current, Name)) <= over' - over
  BY <1>1, <1>3, <1>6, <1>7, <1>9
<1>11. FilesKept' /\ BudgetKept' /\ Current' = r
  BY <1>1, <1>2, <1>3, <1>4, <1>5, <1>6, <1>10, RunSpends
<1>12. BegunKept'
  BY <1>1, <1>4, <1>11 DEF BegunKept
<1> QED BY <1>11, <1>12 DEF BudgetInd

LEMMA BeginCellSpends ==
  ASSUME CampaignKept, CampaignTypeOK', BudgetInd, BeginCell
  PROVE  BudgetInd'
<1> USE DEF CampaignKept
<1>1. /\ pc = "cells" /\ pc' = "cell" /\ ~OverBudget
      /\ UNCHANGED <<active, phase, approved, populated, over>>
  BY DEF BeginCell
<1>2. Current \in RunType /\ Current.summary = None /\ ~UsesApproved
  BY <1>1, AtWork DEF ScriptKept
<1>3. PICK c \in RunType : c = Current
  BY <1>2
<1>4. PICK r \in RunType : /\ r = [c EXCEPT !.held = 1] /\ r.held = 1 /\ r.manifest = c.manifest
                           /\ r.summary = c.summary /\ r.calls = c.calls
  <2>1. /\ [c EXCEPT !.held = 1] \in RunType /\ [c EXCEPT !.held = 1].summary = c.summary
        /\ [c EXCEPT !.held = 1].calls = c.calls /\ [c EXCEPT !.held = 1].held = 1
        /\ [c EXCEPT !.held = 1].manifest = c.manifest
    BY DEF RunType
  <2> QED BY <2>1
<1>5. Update(r) /\ c.manifest
  BY <1>1, <1>3, <1>4 DEF BeginCell, BudgetInd, BegunKept
<1>6. c.held \in {0, 1} /\ over \in Nat
  BY <1>1, <1>3, AtWork DEF BudgetInd, FilesKept, BudgetKept
<1>7. Name \in Names
  BY <1>1, AtWork, RunIdFacts
<1>8. (SpentOf(r, Name) - SpentOf(c, Name))
        + (IF Name = "silent" THEN 0 ELSE LeftOf(r, Name) - LeftOf(c, Name)) <= 0
  <2>1. c.calls \in Nat
    BY DEF RunType
  <2>2. CASE Name = "silent"
    BY <1>4, <2>1, <2>2 DEF SpentOf
  <2>3. CASE Name # "silent"
    <3>1. PICK n \in Nat : n = RunBudget(Name) /\ Expected(Name) = 1
      BY <1>7, <2>3, BudgetFacts
    <3>2. Charged(c) = c.calls + c.held /\ Charged(r) = c.calls + 1
      BY <1>4 DEF Charged
    <3>3. c.calls + c.held + 1 <= n
      BY <1>1, <1>3, <1>6, <2>1, <3>1, <3>2 DEF OverBudget
    <3>4. LeftOf(c, Name) = n - (c.calls + c.held) /\ LeftOf(r, Name) = n - (c.calls + 1)
      BY <1>2, <1>3, <1>4, <1>6, <2>1, <3>1, <3>2, <3>3 DEF LeftOf
    <3>5. SpentOf(c, Name) = c.calls + c.held /\ SpentOf(r, Name) = c.calls + 1
      BY <1>4, <2>3 DEF SpentOf
    <3> QED BY <1>6, <2>1, <2>3, <3>4, <3>5
  <2> QED BY <2>2, <2>3
<1>9. FilesKept' /\ BudgetKept' /\ Current' = r
  <2>1. over' - over = 0 /\ over' \in Nat
    BY <1>1, <1>6
  <2> QED BY <1>1, <1>2, <1>3, <1>4, <1>5, <1>8, <2>1, RunSpends
<1>10. BegunKept'
  BY <1>1, <1>4, <1>5, <1>9 DEF BegunKept
<1> QED BY <1>9, <1>10 DEF BudgetInd

LEMMA EndCellSpends ==
  ASSUME CampaignKept, CampaignTypeOK', BudgetInd, EndCell
  PROVE  BudgetInd'
<1> USE DEF CampaignKept
<1>1. /\ pc = "cell" /\ pc' = "cells" /\ UNCHANGED <<active, phase, approved, populated>>
  BY DEF EndCell
<1>2. Current \in RunType /\ Current.summary = None /\ ~UsesApproved
  BY <1>1, AtWork DEF ScriptKept
<1>3. PICK c \in RunType : c = Current
  BY <1>2
<1>4. Name \in Names
  BY <1>1, AtWork, RunIdFacts
<1>5. PICK o \in Outcomes[Name] :
        /\ Update([c EXCEPT !.held = 0, !.cells = c.cells + 1, !.calls = c.calls + o.calls,
                     !.failed = c.failed \/ o.failed, !.many = c.many \/ o.calls > 1,
                     !.quiet = c.quiet \/ o.calls = 0])
        /\ over' = over + (IF o.calls > Expected(Name) THEN o.calls - Expected(Name) ELSE 0)
  BY <1>3 DEF EndCell
<1>6. o.calls \in Nat /\ o.failed \in BOOLEAN
  BY <1>4, CampaignAssumption
<1>7. PICK r \in RunType :
        /\ r = [c EXCEPT !.held = 0, !.cells = c.cells + 1, !.calls = c.calls + o.calls,
                  !.failed = c.failed \/ o.failed, !.many = c.many \/ o.calls > 1,
                  !.quiet = c.quiet \/ o.calls = 0]
        /\ r.held = 0 /\ r.calls = c.calls + o.calls /\ r.summary = c.summary
        /\ r.manifest = c.manifest
  <2> DEFINE r == [c EXCEPT !.held = 0, !.cells = c.cells + 1, !.calls = c.calls + o.calls,
                    !.failed = c.failed \/ o.failed, !.many = c.many \/ o.calls > 1,
                    !.quiet = c.quiet \/ o.calls = 0]
  <2>1. /\ c.cells + 1 \in Nat /\ c.calls + o.calls \in Nat
        /\ (c.failed \/ o.failed) \in BOOLEAN /\ (c.many \/ o.calls > 1) \in BOOLEAN
        /\ (c.quiet \/ o.calls = 0) \in BOOLEAN
    BY <1>6 DEF RunType
  <2>2. PICK e, f, g \in BOOLEAN : /\ e = (c.failed \/ o.failed) /\ f = (c.many \/ o.calls > 1)
                                  /\ g = (c.quiet \/ o.calls = 0)
    BY <2>1
  <2>3. PICK m, n \in Nat : m = c.cells + 1 /\ n = c.calls + o.calls
    BY <2>1
  <2>4. r = [c EXCEPT !.held = 0, !.cells = m, !.calls = n, !.failed = e, !.many = f, !.quiet = g]
    BY <2>2, <2>3
  <2>5. r \in RunType /\ r.held = 0 /\ r.calls = n /\ r.summary = c.summary /\ r.manifest = c.manifest
    <3> HIDE DEF r
    <3> QED BY <2>4 DEF RunType
  <2> QED BY <2>3, <2>5
<1>8. Update(r) /\ c.manifest /\ c.held = 1
  BY <1>1, <1>3, <1>5, <1>7 DEF BudgetInd, BegunKept
<1>9. PICK e \in {0, 1} : e = Expected(Name) /\ (Name = "silent" <=> e = 0)
  BY <1>4, BudgetFacts
<1>10. over \in Nat /\ over' \in Nat
       /\ over' - over = IF o.calls > e THEN o.calls - e ELSE 0
  <2>1. over \in Nat
    BY DEF BudgetInd, BudgetKept
  <2>2. over' = over + (IF o.calls > e THEN o.calls - e ELSE 0)
    BY <1>5, <1>9
  <2> QED BY <1>6, <2>1, <2>2
<1>11. (SpentOf(r, Name) - SpentOf(c, Name))
         + (IF Name = "silent" THEN 0 ELSE LeftOf(r, Name) - LeftOf(c, Name)) <= over' - over
  <2>1. c.calls \in Nat
    BY DEF RunType
  <2>2. CASE Name = "silent"
    <3>1. SpentOf(r, Name) = c.calls + o.calls /\ SpentOf(c, Name) = c.calls
      BY <1>6, <1>7, <2>1, <2>2 DEF SpentOf
    <3>2. over' - over = o.calls
      BY <1>6, <1>9, <1>10, <2>2
    <3> QED BY <1>6, <2>1, <2>2, <3>1, <3>2
  <2>3. CASE Name # "silent"
    <3>1. PICK n \in Nat : n = RunBudget(Name)
      BY <1>4, BudgetFacts
    <3>2. Charged(c) = c.calls + 1 /\ Charged(r) = c.calls + o.calls
      BY <1>6, <1>7, <1>8, <2>1 DEF Charged
    <3>3. SpentOf(r, Name) = c.calls + o.calls /\ SpentOf(c, Name) = c.calls + 1
      BY <1>6, <1>7, <1>8, <2>1, <2>3 DEF SpentOf
    <3>4. LeftOf(c, Name) = IF c.calls + 1 >= n THEN 0 ELSE n - (c.calls + 1)
      BY <1>2, <1>3, <3>1, <3>2 DEF LeftOf
    <3>5. LeftOf(r, Name) = IF c.calls + o.calls >= n THEN 0 ELSE n - (c.calls + o.calls)
      BY <1>2, <1>3, <1>7, <3>1, <3>2 DEF LeftOf
    <3>6. over' - over = IF o.calls > 1 THEN o.calls - 1 ELSE 0
      BY <1>9, <1>10, <2>3
    <3>7. PICK a, b, x, y \in Int : /\ a = c.calls /\ b = o.calls /\ x = LeftOf(r, Name)
                                    /\ y = LeftOf(c, Name)
      BY <1>6, <2>1, <3>1, <3>4, <3>5
    <3>8. ((a + b) - (a + 1)) + (x - y) <= IF b > 1 THEN b - 1 ELSE 0
      BY <1>6, <2>1, <3>1, <3>4, <3>5, <3>7
    <3> QED BY <2>3, <3>3, <3>6, <3>7, <3>8
  <2> QED BY <2>2, <2>3
<1>12. FilesKept' /\ BudgetKept' /\ Current' = r
  <2>1. r.held \in {0, 1} /\ r.summary = None /\ r.manifest /\ over' \in Nat /\ Update(r)
    BY <1>2, <1>3, <1>7, <1>8, <1>10
  <2>2. (SpentOf(r, Name) - SpentOf(Current, Name))
          + (IF Name = "silent" THEN 0 ELSE LeftOf(r, Name) - LeftOf(Current, Name)) <= over' - over
    BY <1>3, <1>11
  <2> QED BY <1>1, <1>2, <2>1, <2>2, RunSpends
<1>13. BegunKept'
  BY <1>1, <1>7, <1>8, <1>12 DEF BegunKept
<1> QED BY <1>12, <1>13 DEF BudgetInd

\* A run that ends leaves no more to be called than it did: a preflight has
\* copied the library, so no matrix begins, and a condition is within the
\* reserve of the conditions.
LEMMA EndRunSpendsNothing ==
  ASSUME CampaignKept, CampaignTypeOK', BudgetInd, EndRun
  PROVE  BudgetInd'
<1> USE DEF CampaignKept
<1>0. /\ pc = "cells" /\ pc' \in {"close", "judge"} /\ FilesKept /\ BegunKept /\ BudgetKept
      /\ UNCHANGED <<active, phase, approved, populated, over>>
  BY DEF EndRun, BudgetInd
<1>1. /\ Current \in RunType /\ Current.summary = None /\ ~UsesApproved
      /\ active \in Batches /\ <<active, Name>> \in RunIds /\ Current = runs[<<active, Name>>]
  BY <1>0, AtWork DEF ScriptKept
<1>2. PICK c \in RunType : c = Current
  BY <1>1
<1>3. PICK s \in {"incomplete", "completed_with_failures", "completed"} :
        Update([c EXCEPT !.summary = s])
  BY <1>2 DEF EndRun
<1>4. PICK r \in RunType : /\ Update(r) /\ r.summary # None /\ r.manifest = c.manifest
                           /\ r.calls = c.calls /\ r.held = c.held
  <2>1. s \in Summaries /\ s # None
    BY DEF Summaries, None
  <2>2. /\ [c EXCEPT !.summary = s] \in RunType /\ [c EXCEPT !.summary = s].summary = s
        /\ [c EXCEPT !.summary = s].manifest = c.manifest
        /\ [c EXCEPT !.summary = s].calls = c.calls /\ [c EXCEPT !.summary = s].held = c.held
    BY <2>1 DEF RunType
  <2> QED BY <1>3, <2>1, <2>2
<1>5. c.manifest /\ c.held \in {0, 1}
  BY <1>0, <1>1, <1>2 DEF BegunKept, FilesKept
<1>6. FilesKept'
  BY <1>0, <1>1, <1>4, <1>5, FilesWritten
<1>7. BegunKept'
  <2>1. Current' = r
    BY <1>0, <1>1, <1>4, CurrentWritten
  <2> QED BY <1>0, <1>4, <1>5, <2>1 DEF BegunKept
<1>8. AllSpent' = AllSpent
  <2>1. PICK id \in RunIds : id = <<active, Name>>
    BY <1>1
  <2>2. runs'[id] = r /\ \A q \in RunIds : q # id => runs'[q] = runs[q]
    BY <1>0, <1>1, <1>4, <2>1, CurrentWritten
  <2>3. \A q \in RunIds : runs'[q].calls = runs[q].calls /\ runs'[q].held = runs[q].held
    BY <1>1, <1>2, <1>4, <2>1, <2>2
  <2> QED BY <2>3, NothingSpent
<1>9. "preflight" \in Names /\ "main" \in Names /\ "cited" \in Names /\ "check" \in Names
  BY NameFacts
<1>10. \A p \in Names : LeftOf(r, p) = 0
  BY <1>4, LeftFacts
<1>11. Due' <= Due
  <2>0. pc # "idle" /\ ~Preparing /\ ~Preparing'
    BY <1>0 DEF Preparing
  <2>1. CASE active \in Measures
    <3>1. Name = "preflight"
      BY <2>0, <2>1, AtWork
    <3>2. Own(active, "preflight")' = r
      BY <1>0, <1>1, <1>4, <2>0, <2>1, <3>1, CurrentWritten, RunsOfBatch
    <3>3. Due' = 0
      BY <1>0, <1>9, <1>10, <2>1, <3>2, DueIsNext DEF DueByKind
    <3> QED BY <3>3, DueTyped
  <2>2. CASE active \in Campaigns
    <3>1. PICK p, m, d \in RunType : /\ p = At(active, "preflight") /\ m = Own(active, "main")
                                     /\ d = Own(active, "cited")
      BY <2>2, KindRuns DEF KindTypes
    <3>2. /\ At(active, "preflight")' = IF Name = "preflight" THEN r ELSE p
          /\ Own(active, "main")' = IF Name = "main" THEN r ELSE m
          /\ Own(active, "cited")' = IF Name = "cited" THEN r ELSE d
      BY <1>0, <1>1, <1>4, <2>0, <2>2, <3>1, CurrentWritten, RunsOfBatch
    <3>3. /\ Due = CampaignDueOf(p, m, d, Stuck(active))
          /\ Due' = CampaignDueOf(At(active, "preflight")', Own(active, "main")',
                                  Own(active, "cited")', Stuck(active)')
      BY <1>0, <2>2, <3>1, DueIs, DueIsNext DEF DueByKind
    <3>4. CASE Name = "preflight"
      <4>1. p = c
        BY <1>1, <1>2, <2>2, <3>1, <3>4, CampaignStands
      <4>2. ~m.manifest
        <5>1. PICK b \in Planners : b = active
          BY <2>2 DEF Planners
        <5>2. Phases(b)[1] = "preflight" /\ Phases(b)[2] = "main"
          BY <2>2, <5>1, PhasesOfCampaign
        <5>3. GatesAt(b, 1)
          BY <5>1, GatesByPhase
        <5>4. ~JudgedAt(b, 1)
          BY <1>1, <1>2, <3>1, <4>1, <5>1, <5>2 DEF JudgedAt, Judged
        <5>5. 2 \in 1 + 1 .. 4
          OBVIOUS
        <5>6. ~Own(b, Phases(b)[2]).manifest
          BY <5>3, <5>4, <5>5 DEF GatesAt
        <5> QED BY <3>1, <5>1, <5>2, <5>6
      <4>3. m.summary = None
        <5>1. <<active, "main">> \in RunIds
          BY <2>2, RunsOfBatch
        <5> QED BY <1>0, <3>1, <4>2, <5>1 DEF FilesKept, Own, NoRun
      <4>4. active \in populated
        <5>1. PICK id \in RunIds : id = <<active, Name>> /\ id[1] = active /\ id[2] = Name
          BY <1>1
        <5> QED BY <1>0, <1>1, <1>2, <1>5, <2>2, <3>4, <5>1 DEF FilesKept
      <4>5. Stuck(active)'
        BY <1>0, <3>2, <3>4, <4>2, <4>4 DEF Stuck
      <4>6. Due' = 0
        BY <1>4, <3>2, <3>3, <3>4, <4>3, <4>5 DEF CampaignDueOf
      <4> QED BY <4>6, DueTyped
    <3>5. CASE Name = "main"
      <4>1. m = c /\ Judged("preflight", p)
        BY <1>1, <1>2, <2>2, <3>1, <3>5, CampaignStands
      <4>2. ~Stuck(active)
        BY <1>5, <3>1, <4>1 DEF Stuck
      <4>3. Due = LeftOf(c, "main") + RagReserve
        BY <1>1, <1>2, <3>3, <4>1, <4>2 DEF CampaignDueOf, Judged
      <4>4. Due' = IF Passed("main", r) THEN LeftOf(d, "cited") ELSE 0
        BY <1>4, <3>2, <3>3, <3>5, <4>1 DEF CampaignDueOf, Judged
      <4>5. LeftOf(d, "cited") <= RunBudget("cited") /\ LeftOf(d, "cited") \in Nat
            /\ LeftOf(c, "main") \in Nat
        BY <1>9, LeftFacts
      <4>6. RunBudget("cited") <= RagReserve /\ RagReserve \in Nat /\ RunBudget("cited") \in Nat
        BY <1>9, BudgetFacts, CampaignAssumption
      <4> QED BY <4>3, <4>4, <4>5, <4>6
    <3>6. CASE Name \in {"cited", "silent"}
      <4>1. Judged("preflight", p) /\ Judged("main", m)
        BY <1>1, <2>2, <3>1, <3>6, CampaignStands
      <4>2. Due = LeftOf(d, "cited")
        BY <3>3, <4>1 DEF CampaignDueOf, Judged
      <4>3. Due' = LeftOf(Own(active, "cited")', "cited")
        BY <3>2, <3>3, <3>6, <4>1 DEF CampaignDueOf, Judged
      <4>4. LeftOf(d, "cited") \in Nat
        BY <1>9, LeftFacts
      <4> QED BY <1>9, <1>10, <3>2, <3>6, <4>2, <4>3, <4>4
    <3> QED BY <1>1, <2>2, <3>4, <3>5, <3>6, CampaignStands
  <2>3. CASE active \in Repairs
    <3>1. PICK k, d \in RunType : k = Own(active, "check") /\ d = Own(active, "cited")
      BY <2>3, KindRuns DEF KindTypes
    <3>2. /\ Own(active, "check")' = IF Name = "check" THEN r ELSE k
          /\ Own(active, "cited")' = IF Name = "cited" THEN r ELSE d
      BY <1>0, <1>1, <1>4, <2>0, <2>3, <3>1, CurrentWritten, RunsOfBatch
    <3>3. /\ Due = LeftOf(k, "check") + LeftOf(d, "cited")
          /\ Due' = LeftOf(Own(active, "check")', "check") + LeftOf(Own(active, "cited")', "cited")
      BY <1>0, <2>0, <2>3, <3>1, DueIs, DueIsNext DEF DueByKind
    <3>4. LeftOf(k, "check") \in Nat /\ LeftOf(d, "cited") \in Nat
      BY <1>9, LeftFacts
    <3> QED BY <1>9, <1>10, <3>2, <3>3, <3>4
  <2> QED BY <1>1, <2>1, <2>2, <2>3, KindFacts DEF Planners
<1>12. BudgetKept'
  <2>1. AllSpent \in Int /\ Due \in Int /\ Due' \in Int /\ over \in Nat
    BY <1>0, DueTyped, DueTypedNext DEF BudgetKept
  <2>2. AllSpent' + Due' - over' <= AllSpent + Due - over
    <3>1. PICK v, d, e, o \in Int : v = AllSpent /\ d = Due /\ e = Due' /\ o = over
      BY <2>1
    <3>a. e <= d
      BY <1>11, <3>1
    <3>2. v + e - o <= v + d - o
      BY <3>a
    <3> QED BY <1>0, <1>8, <3>1, <3>2
  <2> QED BY <1>0, <2>1, <2>2, BudgetStays
<1> QED BY <1>6, <1>7, <1>12 DEF BudgetInd

LEMMA FinalizeSpendsNothing ==
  ASSUME CampaignKept, CampaignTypeOK', BudgetInd, Finalize
  PROVE  BudgetInd'
<1> USE DEF CampaignKept
<1>1. pc = "finalize" /\ Idle /\ UNCHANGED <<populated, over>> /\ pc # "idle"
  BY DEF Finalize
<1>2. <<active, Name>> \in RunIds /\ Current = runs[<<active, Name>>] /\ Current \in RunType
  BY <1>1, AtWork
<1>3. PICK c \in RunType, id \in RunIds : c = Current /\ id = <<active, Name>>
  BY <1>2
<1>4. c.manifest
  BY <1>1, <1>3 DEF BudgetInd, BegunKept
<1>5. PICK s \in {"completed", "completed_with_failures"} :
        runs' = [runs EXCEPT ![id] = [c EXCEPT !.summary = s]]
  BY <1>3 DEF Finalize, Update
<1>6. PICK r \in RunType : /\ r = [c EXCEPT !.summary = s] /\ r.manifest = c.manifest
                           /\ r.calls = c.calls /\ r.held = c.held
  <2>1. s \in Summaries
    BY DEF Summaries
  <2>2. /\ [c EXCEPT !.summary = s] \in RunType
        /\ [c EXCEPT !.summary = s].manifest = c.manifest
        /\ [c EXCEPT !.summary = s].calls = c.calls /\ [c EXCEPT !.summary = s].held = c.held
    BY <2>1 DEF RunType
  <2> QED BY <2>2
<1>7. runs'[id] = r /\ \A q \in RunIds : q # id => runs'[q] = runs[q]
  BY <1>5, <1>6, RunsTyped
<1>8. \A q \in RunIds : /\ runs'[q].manifest = runs[q].manifest
                        /\ runs'[q].calls = runs[q].calls /\ runs'[q].held = runs[q].held
                        /\ ~runs[q].manifest => runs'[q] = runs[q]
  BY <1>2, <1>3, <1>4, <1>6, <1>7
<1> QED BY <1>1, <1>8, EndsSpendNothing

LEMMA EndSpendsNothing ==
  ASSUME CampaignKept, CampaignTypeOK', BudgetInd, Idle, UNCHANGED <<runs, populated, over>>
  PROVE  BudgetInd'
BY EndsSpendNothing DEF CampaignKept

\* The places a script moves on from to a phase, a gate or its end.
LEMMA MoveSpendsNothing ==
  ASSUME CampaignKept, CampaignTypeOK', BudgetInd,
         UNCHANGED <<active, approved, runs, populated, over>>,
         pc' \in {"phase", "judge", "finish", "end"},
         pc \in {"phase", "judge", "finish"} \/ (pc = "prepare" /\ active \notin Repairs)
  PROVE  BudgetInd'
BY MovesSpendNothing DEF CampaignKept

LEMMA GatesSpendNothing ==
  ASSUME CampaignKept, CampaignTypeOK', BudgetInd,
         \/ PassPreflight \/ StopAfterPreflight \/ PassMatrix \/ StopAfterMatrix
         \/ PassCheck \/ StopAfterChecks \/ PassCondition \/ StopAtCondition
         \/ FinishCampaign \/ FinishRepair
  PROVE  BudgetInd'
<1>1. /\ pc \in {"judge", "finish"} /\ pc' \in {"phase", "finish", "end"}
      /\ UNCHANGED <<active, approved, runs, populated, over>>
  BY DEF PassPreflight, StopAfterPreflight, PassMatrix, StopAfterMatrix, PassCheck, StopAfterChecks,
         PassCondition, StopAtCondition, FinishCampaign, FinishRepair, AtGate, Proceed, Close,
         GateFrame
<1> QED BY <1>1, MoveSpendsNothing

LEMMA LaunchesSpend ==
  ASSUME CampaignKept, CampaignTypeOK', BudgetInd, LaunchMeasure \/ LaunchCampaign \/ LaunchRepair
  PROVE  BudgetInd'
<1>1. CASE LaunchMeasure
  <2>1. /\ pc = "prepare" /\ active \notin Repairs /\ pc' = "phase"
        /\ UNCHANGED <<active, approved, runs, populated, over>>
    BY <1>1, KindFacts DEF LaunchMeasure, Planners
  <2> QED BY <2>1, MoveSpendsNothing
<1>2. CASE LaunchCampaign
  <2>1. /\ pc = "prepare" /\ active \notin Repairs /\ pc' = "phase"
        /\ UNCHANGED <<active, approved, runs, populated, over>>
    BY <1>2, KindFacts DEF LaunchCampaign, Planners
  <2> QED BY <2>1, MoveSpendsNothing
<1>3. CASE LaunchRepair
  <2>1. UNCHANGED <<runs, populated, over>> /\ (Idle \/ pc' = "phase")
    BY <1>3 DEF LaunchRepair
  <2> QED BY <1>3, <2>1, RepairLaunchSpends, EndSpendsNothing
<1> QED BY <1>1, <1>2, <1>3

LEMMA TakesSpendNothing ==
  ASSUME CampaignKept, CampaignTypeOK', BudgetInd, ApprovedGate \/ TakeSummary \/ OpenRun
  PROVE  BudgetInd'
<1>0. Raise => Idle /\ UNCHANGED <<runs, populated, over>>
  BY DEF Raise
<1>1. CASE ApprovedGate
  <2>1. \/ Raise
        \/ /\ pc = "phase" /\ pc' = "judge"
           /\ UNCHANGED <<active, approved, runs, populated, over>>
    BY <1>1 DEF ApprovedGate
  <2> QED BY <1>0, <2>1, EndSpendsNothing, MoveSpendsNothing
<1>2. CASE TakeSummary
  <2>1. \/ Raise
        \/ /\ pc = "phase" /\ pc' = "judge"
           /\ UNCHANGED <<active, approved, runs, populated, over>>
    BY <1>2 DEF TakeSummary
  <2> QED BY <1>0, <2>1, EndSpendsNothing, MoveSpendsNothing
<1>3. CASE OpenRun
  <2>1. Raise \/ pc' # "idle"
    BY <1>3 DEF OpenRun
  <2> QED BY <1>0, <1>3, <2>1, EndSpendsNothing, OpenSpendsNothing
<1> QED BY <1>1, <1>2, <1>3

LEMMA EndingsSpendNothing ==
  ASSUME CampaignKept, CampaignTypeOK', BudgetInd,
         StopAtFingerprint \/ End \/ Killed \/ Fails \/ ExceedsAtGate \/ CloseMeasure
  PROVE  BudgetInd'
<1>1. CASE StopAtFingerprint \/ End \/ Killed \/ Fails \/ ExceedsAtGate
  <2>1. Idle /\ UNCHANGED <<runs, populated, over>>
    BY <1>1 DEF StopAtFingerprint, End, Killed, Fails, ExceedsAtGate, Raise
  <2> QED BY <2>1, EndSpendsNothing
<1>2. CASE CloseMeasure
  <2>1. /\ pc = "close" /\ UNCHANGED <<approved, runs, populated, over>>
        /\ Idle \/ (pc' = "finalize" /\ UNCHANGED <<active, phase>>)
    <3>1. pc = "close" /\ UNCHANGED <<approved, runs, populated, over>>
      BY <1>2 DEF CloseMeasure
    <3>2. PICK confirmed \in BOOLEAN :
            /\ Closed(confirmed) /\ Interrupted(confirmed)
            /\ IF confirmed THEN pc' = "finalize" /\ UNCHANGED <<active, phase>> ELSE Idle
      BY <1>2 DEF CloseMeasure
    <3> QED BY <3>1, <3>2
  <2>2. CASE Idle
    BY <2>1, <2>2, EndSpendsNothing
  <2>3. CASE pc' = "finalize" /\ UNCHANGED <<active, phase>>
    BY <2>1, <2>3, MovesSpendNothing DEF CampaignKept
  <2> QED BY <2>1, <2>2, <2>3
<1> QED BY <1>1, <1>2

LEMMA StillSpendsNothing ==
  ASSUME CampaignKept, CampaignTypeOK', BudgetInd,
         UNCHANGED <<pc, active, phase, approved, runs, populated, over>>
  PROVE  BudgetInd'
<1>1. CampaignTypeOK
  BY DEF CampaignKept
<1>2. pc' = pc /\ phase' = phase
  OBVIOUS
<1> QED BY <1>1, <1>2, MovesSpendNothing

LEMMA BudgetKeeps == CampaignInd /\ CampaignInd' /\ BudgetInd /\ CampaignNext => BudgetInd'
<1> SUFFICES ASSUME CampaignKept, CampaignTypeOK', BudgetInd, CampaignNext PROVE BudgetInd'
  BY DEF CampaignInd, CampaignKept
<1>1. CASE ResumeMeasure \/ \E b \in Measures : StartMeasure(b)
  BY <1>1, MeasureStartSpends
<1>2. CASE \E b \in Campaigns : StartCampaign(b) \/ ResumeCampaign(b)
  BY <1>2, CampaignStartSpends
<1>3. CASE \E b \in Repairs : StartRepair(b) \/ ResumeRepair(b)
  BY <1>3, RepairStartSpends
<1>4. CASE LaunchMeasure \/ LaunchCampaign \/ LaunchRepair
  BY <1>4, LaunchesSpend
<1>5. CASE StopAtFingerprint \/ End \/ Killed \/ Fails \/ ExceedsAtGate \/ CloseMeasure
  BY <1>5, EndingsSpendNothing
<1>6. CASE ApprovedGate \/ TakeSummary \/ OpenRun
  BY <1>6, TakesSpendNothing
<1>7. CASE WriteManifest \/ BeginCell \/ EndCell \/ EndRun
  BY <1>7, ManifestSpendsNothing, BeginCellSpends, EndCellSpends, EndRunSpendsNothing
<1>8. CASE \/ PassPreflight \/ StopAfterPreflight \/ PassMatrix \/ StopAfterMatrix
           \/ PassCheck \/ StopAfterChecks \/ PassCondition \/ StopAtCondition
           \/ FinishCampaign \/ FinishRepair
  BY <1>8, GatesSpendNothing
<1>9. CASE Finalize
  BY <1>9, FinalizeSpendsNothing
<1>10. CASE OrphanEnds
  <2>1. UNCHANGED <<pc, active, phase, approved, runs, populated, over>>
    BY <1>10 DEF OrphanEnds
  <2> QED BY <2>1, StillSpendsNothing
<1> QED BY <1>1, <1>2, <1>3, <1>4, <1>5, <1>6, <1>7, <1>8, <1>9, <1>10 DEF CampaignNext

LEMMA BudgetStutters == CampaignInd /\ BudgetInd /\ UNCHANGED campaignVars => BudgetInd'
<1> SUFFICES ASSUME CampaignInd, BudgetInd, UNCHANGED campaignVars PROVE BudgetInd'
  OBVIOUS
<1>1. CampaignInd'
  BY CampaignStutters
<1>2. UNCHANGED <<pc, active, phase, approved, runs, populated, over>>
  BY DEF campaignVars
<1> QED BY <1>1, <1>2, StillSpendsNothing DEF CampaignInd, CampaignKept

LEMMA BudgetBegins == CampaignInit => BudgetInd
<1> SUFFICES ASSUME CampaignInit PROVE BudgetInd
  OBVIOUS
<1>1. /\ pc = "idle" /\ active = None /\ over = 0
      /\ \A id \in RunIds : runs[id] = NoRun
  BY DEF CampaignInit
<1>2. FilesKept /\ BegunKept
  <2>1. \A id \in RunIds : runs[id].manifest = FALSE /\ runs[id].held = 0
    BY <1>1 DEF NoRun
  <2>2. FilesKept
    BY <1>1, <2>1 DEF FilesKept
  <2>3. BegunKept
    BY <1>1 DEF BegunKept
  <2> QED BY <2>2, <2>3
<1>3. Due = 0
  BY <1>1, DueIs DEF DueByKind
<1>4. AllSpent = 0
  <2> DEFINE f == [id \in RunIds |-> Spent(id)]
  <2>1. \A id \in RunIds : Spent(id) = 0
    BY <1>1 DEF Spent, NoRun
  <2>2. f \in [RunIds -> Int] /\ \A id \in RunIds : f[id] = 0
    BY <2>1
  <2>3. AllSpent = SumFunction(f)
    BY DEF AllSpent
  <2> HIDE DEF f
  <2> QED BY <2>2, <2>3, RunIdsFinite, SumOfZeros
<1>5. BudgetKept
  BY <1>1, <1>3, <1>4, CampaignAssumption DEF BudgetKept, AllSpent
<1> QED BY <1>2, <1>5 DEF BudgetInd

\* The calls made and under way are within the authorization.
LEMMA BudgetHolds == CampaignInd /\ BudgetInd => WithinAuthorization
<1> SUFFICES ASSUME CampaignInd, BudgetInd PROVE WithinAuthorization
  OBVIOUS
<1>1. AllSpent \in Int /\ Due \in Nat
  BY DueTyped DEF CampaignInd
<1>2. over \in Nat /\ AllSpent + Due <= Authorized + over
  BY DEF BudgetInd, BudgetKept, AllSpent
<1>3. Authorized \in Nat
  BY CampaignAssumption
<1>4. AllSpent <= Authorized + over
  BY <1>1, <1>2, <1>3
<1> QED BY <1>4 DEF WithinAuthorization, AllSpent

(* The full-text batch ------------------------------------------------------ *)

LEMMA LegFacts ==
  /\ DOMAIN Legs = 1..Len(Legs) /\ Len(Legs) \in Nat /\ 1 \in DOMAIN Legs
  /\ \A l \in DOMAIN Legs : Legs[l].cells \in Nat \ {0} /\ Legs[l].asks \in 0..1
<1>1. Legs \in Seq([cells : Nat \ {0}, asks : 0..1]) /\ Legs # <<>>
  BY FulltextAssumption
<1>2. Len(Legs) \in Nat /\ DOMAIN Legs = 1..Len(Legs) /\ Len(Legs) # 0
  BY <1>1, EmptySeq
<1>3. \A l \in 1..Len(Legs) : Legs[l] \in [cells : Nat \ {0}, asks : 0..1]
  BY <1>1, ElementOfSeq
<1> QED BY <1>2, <1>3

LEMMA SpotFacts ==
  /\ \A s \in Spots : s = <<s[1], s[2]>> /\ s[1] \in DOMAIN Legs /\ s[2] \in 1..Legs[s[1]].cells
  /\ \A l \in DOMAIN Legs : \A c \in 1..Legs[l].cells : <<l, c>> \in Spots
  /\ \A l \in DOMAIN Legs : <<l, 1>> \in Spots
<1>1. \A s \in Spots : s = <<s[1], s[2]>> /\ s[1] \in DOMAIN Legs /\ s[2] \in 1..Legs[s[1]].cells
  BY DEF Spots
<1>2. \A l \in DOMAIN Legs : \A c \in 1..Legs[l].cells : <<l, c>> \in Spots
  BY DEF Spots
<1>3. \A l \in DOMAIN Legs : <<l, 1>> \in Spots
  BY <1>2, LegFacts
<1> QED BY <1>1, <1>2, <1>3

LEMMA FulltextInitTyped == FulltextInit => FulltextTypeOK
<1> SUFFICES ASSUME FulltextInit PROVE FulltextTypeOK
  OBVIOUS
<1>1. Here = <<1, 1>> /\ Here \in Spots
  BY SpotFacts, LegFacts DEF FulltextInit, NotRunning, Here
<1>2. runner \in [at : {"idle", "leg", "cell", "post", "wait", "cancel", "mark", "judge", "halt"},
                  leg : DOMAIN Legs, cell : Nat \ {0}, counted : Nat, lenient : BOOLEAN]
  BY LegFacts DEF FulltextInit, NotRunning
<1>3. launches \in Nat /\ mishaps \in Nat
  BY FulltextAssumption DEF FulltextInit
<1>4. /\ doc \in [status : {"none", "prepared", "running", "stopped", "completed", "drifted"},
                  eligible : BOOLEAN, preflight : BOOLEAN]
      /\ index \in {"none", "unproved", "proved"} /\ server \in BOOLEAN
  BY DEF FulltextInit, NoDoc
<1>7. version \in 1..2 /\ tree \in 1..2 /\ pinned \in 0..2
  BY DEF FulltextInit
<1>5. begun \in [DOMAIN Legs -> [tree : 0..2, stopped : BOOLEAN]]
  BY DEF FulltextInit, NotBegun
<1>6. /\ pend \in [Spots -> {"none", "session", "turn", "terminal", "reconciled"}]
      /\ result \in [Spots -> [status : {"none", "ok", "failed"}, calls : Nat, cited : BOOLEAN]]
      /\ turnOf \in [Spots -> {"none", "running", "ok", "failed", "lost"}]
      /\ wires \in [Spots -> Nat]
      /\ request \in [Requests -> {"none", "open", "completed", "failed"}]
  BY DEF FulltextInit, NoResult
<1> QED BY <1>1, <1>2, <1>3, <1>4, <1>5, <1>6, <1>7 DEF FulltextTypeOK

Ats == {"idle", "leg", "cell", "post", "wait", "cancel", "mark", "judge", "halt"}
RunnerOK ==
  /\ runner \in [at : Ats, leg : DOMAIN Legs, cell : Nat \ {0}, counted : Nat, lenient : BOOLEAN]
  /\ Here \in Spots

\* The assignments of the runner.
LEMMA RunnerGoes ==
  ASSUME FulltextTypeOK, NEW at \in Ats, Go(at)
  PROVE  RunnerOK' /\ runner'.at = at /\ runner'.leg = runner.leg /\ Here' = Here
BY DEF FulltextTypeOK, Ats, Go, RunnerOK, Here

LEMMA RunnerRests ==
  ASSUME runner' = NotRunning
  PROVE  RunnerOK' /\ runner'.at = "idle"
<1>1. Here' = <<1, 1>>
  BY DEF NotRunning, Here
<1> QED BY <1>1, SpotFacts, LegFacts DEF NotRunning, RunnerOK, Ats

LEMMA RunnerNext ==
  ASSUME FulltextTypeOK, NextCell
  PROVE  RunnerOK' /\ runner'.at \in {"cell", "judge"} /\ runner'.leg = runner.leg
<1>1. Here \in Spots /\ runner.leg \in DOMAIN Legs /\ runner.cell \in Nat \ {0}
  BY DEF FulltextTypeOK
<1>2. runner.cell < Legs[runner.leg].cells => <<runner.leg, runner.cell + 1>> \in Spots
  BY <1>1, SpotFacts, LegFacts
<1>3. CASE runner.cell < Legs[runner.leg].cells
  <2>1. runner' = [runner EXCEPT !.at = "cell", !.cell = @ + 1, !.counted = 0]
    BY <1>3 DEF NextCell
  <2>2. Here' = <<runner.leg, runner.cell + 1>>
    BY <2>1 DEF FulltextTypeOK, Here
  <2>3. runner.cell + 1 \in Nat \ {0}
    BY <1>1
  <2>4. runner' \in [at : Ats, leg : DOMAIN Legs, cell : Nat \ {0}, counted : Nat, lenient : BOOLEAN]
    BY <2>1, <2>3 DEF FulltextTypeOK, Ats
  <2>5. Here' \in Spots
    BY <1>2, <1>3, <2>2
  <2> QED BY <2>1, <2>4, <2>5 DEF FulltextTypeOK, RunnerOK
<1>4. CASE ~(runner.cell < Legs[runner.leg].cells)
  <2>1. runner' = [runner EXCEPT !.at = "judge", !.counted = 0]
    BY <1>4 DEF NextCell
  <2>2. Here' = Here
    BY <2>1 DEF FulltextTypeOK, Here
  <2> QED BY <1>1, <2>1, <2>2 DEF FulltextTypeOK, RunnerOK, Ats
<1> QED BY <1>3, <1>4

\* How a batch ends.
LEMMA BatchEnds ==
  ASSUME FulltextTypeOK, NEW status \in {"stopped", "completed"}, NEW passed \in BOOLEAN,
         FinalizeBatch(status, passed)
  PROVE  /\ RunnerOK' /\ runner'.at = "idle"
         /\ server' \in BOOLEAN
         /\ turnOf' \in [Spots -> {"none", "running", "ok", "failed", "lost"}]
         /\ \A s \in Spots : turnOf[s] # "running" => turnOf'[s] = turnOf[s]
         /\ doc' = [doc EXCEPT !.status = status, !.preflight = passed]
         /\ doc' \in [status : {"none", "prepared", "running", "stopped", "completed", "drifted"},
                      eligible : BOOLEAN, preflight : BOOLEAN]
<1>1. RunnerOK' /\ runner'.at = "idle"
  BY RunnerRests DEF FinalizeBatch
<1>2. server' \in BOOLEAN
  BY DEF FinalizeBatch, CloseGateway
<1>3. PICK end \in {"failed", "lost"} :
        turnOf' = turnOf \/ turnOf' = [s \in Spots |-> IF turnOf[s] = "running" THEN end ELSE turnOf[s]]
  BY DEF FinalizeBatch, CloseGateway
<1>4. /\ turnOf' \in [Spots -> {"none", "running", "ok", "failed", "lost"}]
      /\ \A s \in Spots : turnOf[s] # "running" => turnOf'[s] = turnOf[s]
  BY <1>3 DEF FulltextTypeOK
<1> QED BY <1>1, <1>2, <1>4 DEF FinalizeBatch, FulltextTypeOK

\* The files and the world but for the runner.
LEMMA TypesKept == FulltextTypeOK /\ UNCHANGED batchTrialVars => FulltextTypeOK'
BY DEF FulltextTypeOK, batchTrialVars, runnerVars, filesVars, worldVars, Here

LEMMA TypesOfStarts ==
  ASSUME FulltextTypeOK, PrepareOnly \/ KilledWhileIndexing \/ StartFulltext
  PROVE  FulltextTypeOK'
<1> USE DEF FulltextTypeOK
<1>1. CASE PrepareOnly
  <2>1. doc' \in [status : {"none", "prepared", "running", "stopped", "completed", "drifted"},
                  eligible : BOOLEAN, preflight : BOOLEAN]
    BY <1>1 DEF PrepareOnly, NoDoc
  <2>2. index' = "proved" /\ pinned' \in 0..2 /\ launches' \in Nat
    BY <1>1 DEF PrepareOnly, Freeze
  <2> QED BY <1>1, <2>1, <2>2 DEF PrepareOnly, worldVars, Here
<1>2. CASE KilledWhileIndexing
  BY <1>2 DEF KilledWhileIndexing, Mishap, worldVars, Here
<1>3. CASE StartFulltext
  <2>1. doc' \in [status : {"none", "prepared", "running", "stopped", "completed", "drifted"},
                  eligible : BOOLEAN, preflight : BOOLEAN]
    BY <1>3 DEF StartFulltext, NoDoc
  <2>0. Freeze /\ launches' = launches + 1 /\ server' = TRUE
    BY <1>3 DEF StartFulltext
  <2>2. index' = "proved" /\ pinned' \in 0..2
    BY <2>0 DEF Freeze
  <2>7. launches' \in Nat
    BY <2>0
  <2>8. server' \in BOOLEAN
    BY <2>0
  <2>3. PICK lenient \in BOOLEAN : runner' = [NotRunning EXCEPT !.at = "leg", !.lenient = lenient]
    BY <1>3 DEF StartFulltext
  <2>4. Here' = <<1, 1>>
    BY <2>3 DEF NotRunning, Here
  <2>5. Here' \in Spots
    BY <2>4, SpotFacts, LegFacts
  <2>6. runner' \in [at : {"idle", "leg", "cell", "post", "wait", "cancel", "mark", "judge", "halt"},
                     leg : DOMAIN Legs, cell : Nat \ {0}, counted : Nat, lenient : BOOLEAN]
    <3>1. runner' = [at |-> "leg", leg |-> 1, cell |-> 1, counted |-> 0, lenient |-> lenient]
      BY <2>3 DEF NotRunning
    <3> QED BY <3>1, LegFacts
  <2> QED BY <1>3, <2>1, <2>2, <2>5, <2>6, <2>7, <2>8 DEF StartFulltext
<1> QED BY <1>1, <1>2, <1>3

\* A batch that stops.
LEMMA TypesOfStops ==
  ASSUME FulltextTypeOK,
         LegRefused \/ GuardFails \/ CancelNotSeen \/ FailLeg \/ RunnerRaises
  PROVE  /\ FulltextTypeOK' /\ Stopped
         /\ UNCHANGED <<result, wires>>
         /\ pend' = pend \/ pend' = [pend EXCEPT ![Here] = "turn"]
<1>1. Stopped /\ UNCHANGED <<launches, index, pinned, begun, result, request, version, tree, wires>>
  BY DEF LegRefused, GuardFails, CancelNotSeen, FailLeg, RunnerRaises
<1>2. pend' = pend \/ pend' = [pend EXCEPT ![Here] = "turn"]
  BY DEF LegRefused, GuardFails, CancelNotSeen, FailLeg, RunnerRaises
<1>3. mishaps' \in Nat
  BY DEF LegRefused, GuardFails, CancelNotSeen, FailLeg, RunnerRaises, Mishap, FulltextTypeOK
<1>4. FinalizeBatch("stopped", doc.preflight) /\ doc.preflight \in BOOLEAN
  BY <1>1 DEF Stopped, FulltextTypeOK
<1>5. /\ RunnerOK' /\ server' \in BOOLEAN
      /\ turnOf' \in [Spots -> {"none", "running", "ok", "failed", "lost"}]
      /\ doc' \in [status : {"none", "prepared", "running", "stopped", "completed", "drifted"},
                   eligible : BOOLEAN, preflight : BOOLEAN]
  BY <1>4, BatchEnds
<1>6. pend' \in [Spots -> {"none", "session", "turn", "terminal", "reconciled"}]
  BY <1>2 DEF FulltextTypeOK
<1>7. FulltextTypeOK'
  BY <1>1, <1>3, <1>5, <1>6 DEF FulltextTypeOK, RunnerOK, Ats
<1> QED BY <1>1, <1>2, <1>7

LEMMA TypesOfCells ==
  ASSUME FulltextTypeOK,
         BeginLeg \/ SkipWritten \/ EnterSpot \/ StopAtLegBudget \/ SendMessage \/ GiveUpTurn
  PROVE  FulltextTypeOK'
<1>1. CASE BeginLeg
  <2>1. runner' = [runner EXCEPT !.at = "cell", !.cell = 1] /\ begun' = [begun EXCEPT ![runner.leg].tree = tree]
    BY <1>1 DEF BeginLeg
  <2>2. Here' = <<runner.leg, 1>>
    BY <2>1 DEF FulltextTypeOK, Here
  <2>3. Here' \in Spots
    BY <2>2, SpotFacts DEF FulltextTypeOK
  <2>4. begun' \in [DOMAIN Legs -> [tree : 0..2, stopped : BOOLEAN]]
    <3>1. tree \in 0..2 /\ begun \in [DOMAIN Legs -> [tree : 0..2, stopped : BOOLEAN]]
      BY DEF FulltextTypeOK
    <3> QED BY <2>1, <3>1
  <2>5. RunnerOK'
    <3>1. runner' \in [at : Ats, leg : DOMAIN Legs, cell : Nat \ {0}, counted : Nat, lenient : BOOLEAN]
      <4>1. runner \in [at : Ats, leg : DOMAIN Legs, cell : Nat \ {0}, counted : Nat, lenient : BOOLEAN]
        BY DEF FulltextTypeOK, Ats
      <4>2. runner' = [at |-> "cell", leg |-> runner.leg, cell |-> 1, counted |-> runner.counted,
                       lenient |-> runner.lenient]
        BY <2>1, <4>1
      <4> QED BY <4>1, <4>2 DEF Ats
    <3> QED BY <3>1, <2>3 DEF RunnerOK
  <2> QED BY <1>1, <2>4, <2>5 DEF BeginLeg, FulltextTypeOK, worldVars, RunnerOK, Ats
<1>2. CASE SkipWritten
  <2>1. RunnerOK'
    <3>1. Go("judge") \/ NextCell
      BY <1>2 DEF SkipWritten
    <3> QED BY <3>1, RunnerGoes, RunnerNext DEF Ats
  <2> QED BY <1>2, <2>1 DEF SkipWritten, FulltextTypeOK, filesVars, worldVars, RunnerOK, Ats
<1>3. CASE EnterSpot
  <2>1. RunnerOK'
    BY <1>3, RunnerGoes DEF EnterSpot, Ats
  <2> QED BY <1>3, <2>1 DEF EnterSpot, FulltextTypeOK, worldVars, RunnerOK, Ats
<1>4. CASE StopAtLegBudget
  <2>1. RunnerOK'
    BY <1>4, RunnerGoes DEF StopAtLegBudget, Ats
  <2>2. begun' \in [DOMAIN Legs -> [tree : 0..2, stopped : BOOLEAN]]
    <3>1. begun \in [DOMAIN Legs -> [tree : 0..2, stopped : BOOLEAN]]
      BY DEF FulltextTypeOK
    <3>2. begun' = [begun EXCEPT ![runner.leg].stopped = TRUE]
      BY <1>4 DEF StopAtLegBudget
    <3> QED BY <3>1, <3>2
  <2> QED BY <1>4, <2>1, <2>2 DEF StopAtLegBudget, FulltextTypeOK, worldVars, RunnerOK, Ats
<1>5. CASE SendMessage
  <2>1. RunnerOK'
    BY <1>5, RunnerGoes DEF SendMessage, Ats
  <2> QED BY <1>5, <2>1 DEF SendMessage, FulltextTypeOK, RunnerOK, Ats
<1>6. CASE GiveUpTurn
  <2>1. Here' = Here
    BY <1>6 DEF GiveUpTurn, FulltextTypeOK, Here
  <2>2. wires[Here] \in Nat
    BY DEF FulltextTypeOK
  <2>3. RunnerOK'
    BY <1>6, <2>1, <2>2 DEF GiveUpTurn, FulltextTypeOK, RunnerOK, Ats
  <2> QED BY <1>6, <2>3 DEF GiveUpTurn, filesVars, worldVars, FulltextTypeOK, RunnerOK, Ats
<1> QED BY <1>1, <1>2, <1>3, <1>4, <1>5, <1>6

\* A row is written.
LEMMA RowWritten ==
  ASSUME FulltextTypeOK, NEW status \in {"ok", "failed"}, NEW calls \in Nat, WriteResult(status, calls)
  PROVE  /\ FulltextTypeOK' /\ runner'.at = "mark" /\ runner'.leg = runner.leg /\ Here' = Here
         /\ result'[Here].status = status /\ result'[Here].calls = calls
         /\ \A s \in Spots : s # Here => result'[s] = result[s]
<1>1. PICK cited \in BOOLEAN :
        result' = [result EXCEPT ![Here] = [status |-> status, calls |-> calls, cited |-> cited]]
  BY DEF WriteResult
<1>2. Go("mark") /\ UNCHANGED <<launches, doc, index, pinned, begun, pend, request, worldVars, mishaps>>
  BY DEF WriteResult
<1>3. RunnerOK' /\ runner'.at = "mark" /\ runner'.leg = runner.leg /\ Here' = Here
  BY <1>2, RunnerGoes DEF Ats
<1>4. Here \in Spots /\ result \in [Spots -> [status : {"none", "ok", "failed"}, calls : Nat, cited : BOOLEAN]]
  BY DEF FulltextTypeOK
<1>5. /\ result' \in [Spots -> [status : {"none", "ok", "failed"}, calls : Nat, cited : BOOLEAN]]
      /\ result'[Here] = [status |-> status, calls |-> calls, cited |-> cited]
      /\ \A s \in Spots : s # Here => result'[s] = result[s]
  BY <1>1, <1>4
<1>6. FulltextTypeOK'
  BY <1>2, <1>3, <1>5 DEF FulltextTypeOK, worldVars, RunnerOK, Ats
<1> QED BY <1>3, <1>5, <1>6

LEMMA EndsAreWritten ==
  ASSUME FulltextTypeOK, TurnSeenToEnd \/ CancelSeen
  PROVE  \E status \in {"ok", "failed"}, calls \in Nat :
           /\ WriteResult(status, calls)
           /\ status = "ok" => turnOf[Here] = "ok" /\ calls = wires[Here]
<1>1. wires[Here] \in Nat /\ runner.counted \in Nat
  BY DEF FulltextTypeOK
<1>2. CASE TurnSeenToEnd
  <2>1. turnOf[Here] \in {"ok", "failed"} /\ WriteResult(turnOf[Here], wires[Here])
    BY <1>2 DEF TurnSeenToEnd
  <2> QED BY <1>1, <2>1
<1>3. CASE CancelSeen
  <2>1. WriteResult("failed", runner.counted)
    BY <1>3 DEF CancelSeen
  <2> QED BY <1>1, <2>1
<1> QED BY <1>2, <1>3

LEMMA TypesOfLegs ==
  ASSUME FulltextTypeOK, MarkCell \/ HaltLeg \/ PassLeg \/ RunnerKilled
  PROVE  FulltextTypeOK'
<1>0. begun \in [DOMAIN Legs -> [tree : 0..2, stopped : BOOLEAN]] /\ runner.leg \in DOMAIN Legs
  BY DEF FulltextTypeOK
<1>1. CASE MarkCell
  <2>1. Go("judge") \/ Go("halt") \/ NextCell
    BY <1>1 DEF MarkCell
  <2>2. RunnerOK'
    BY <2>1, RunnerGoes, RunnerNext DEF Ats
  <2>3. begun' \in [DOMAIN Legs -> [tree : 0..2, stopped : BOOLEAN]]
    <3>1. begun' = [begun EXCEPT ![runner.leg].stopped = @ \/ result[Here].calls > 1]
      BY <1>1 DEF MarkCell
    <3>2. begun[runner.leg].stopped \in BOOLEAN
      BY <1>0
    <3> DEFINE stops == begun[runner.leg].stopped \/ result[Here].calls > 1
    <3>3. stops \in BOOLEAN
      BY <3>2
    <3>4. begun' = [begun EXCEPT ![runner.leg].stopped = stops]
      BY <3>1
    <3> HIDE DEF stops
    <3> QED BY <1>0, <3>3, <3>4
  <2>4. pend' \in [Spots -> {"none", "session", "turn", "terminal", "reconciled"}]
    BY <1>1 DEF MarkCell, FulltextTypeOK
  <2>5. UNCHANGED <<launches, doc, index, pinned, result, request, worldVars, mishaps>>
    BY <1>1 DEF MarkCell
  <2> QED BY <2>2, <2>3, <2>4, <2>5 DEF FulltextTypeOK, worldVars, RunnerOK, Ats
<1>2. CASE HaltLeg
  <2>1. RunnerOK'
    BY <1>2, RunnerGoes DEF HaltLeg, Ats
  <2>2. begun' \in [DOMAIN Legs -> [tree : 0..2, stopped : BOOLEAN]]
    BY <1>0, <1>2 DEF HaltLeg
  <2>3. UNCHANGED <<launches, doc, index, pinned, pend, result, request, worldVars, mishaps>>
    BY <1>2 DEF HaltLeg
  <2> QED BY <2>1, <2>2, <2>3 DEF FulltextTypeOK, worldVars, RunnerOK, Ats
<1>3. CASE PassLeg
  <2>1. UNCHANGED <<launches, index, pinned, begun, pend, result, request, version, tree, wires, mishaps>>
    BY <1>3 DEF PassLeg
  <2>2. CASE runner.leg < Len(Legs)
    <3>1. /\ runner' = [runner EXCEPT !.at = "leg", !.leg = @ + 1, !.cell = 1]
          /\ doc' = [doc EXCEPT !.preflight = TRUE] /\ UNCHANGED <<server, turnOf>>
      BY <1>3, <2>2 DEF PassLeg
    <3>2. runner.leg + 1 \in DOMAIN Legs
      BY <1>0, <2>2, LegFacts
    <3>3. runner' = [at |-> "leg", leg |-> runner.leg + 1, cell |-> 1, counted |-> runner.counted,
                     lenient |-> runner.lenient]
      BY <3>1 DEF FulltextTypeOK
    <3>4. Here' = <<runner.leg + 1, 1>>
      BY <3>3 DEF Here
    <3>5. RunnerOK'
      BY <3>2, <3>3, <3>4, SpotFacts DEF FulltextTypeOK, RunnerOK, Ats
    <3> QED BY <2>1, <3>1, <3>5 DEF FulltextTypeOK, RunnerOK, Ats
  <2>3. CASE ~(runner.leg < Len(Legs))
    <3>1. FinalizeBatch("completed", TRUE)
      BY <1>3, <2>3 DEF PassLeg
    <3> QED BY <2>1, <3>1, BatchEnds DEF FulltextTypeOK, RunnerOK, Ats
  <2> QED BY <2>2, <2>3
<1>4. CASE RunnerKilled
  <2>1. RunnerOK'
    BY <1>4, RunnerRests DEF RunnerKilled
  <2>2. mishaps' \in Nat /\ UNCHANGED <<launches, filesVars, worldVars>>
    BY <1>4 DEF RunnerKilled, Mishap, FulltextTypeOK
  <2> QED BY <2>1, <2>2 DEF FulltextTypeOK, filesVars, worldVars, RunnerOK, Ats
<1> QED BY <1>1, <1>2, <1>3, <1>4

WorldSteps == (\E s \in Spots : TurnAsks(s) \/ TurnStops(s)) \/ OrphanStopped \/ FilesChange \/ RecordStop

\* The gateway leaves an ended turn alone; no runner goes, and no row changes.
LEMMA TypesOfWorld ==
  ASSUME FulltextTypeOK, WorldSteps
  PROVE  /\ FulltextTypeOK' /\ UNCHANGED <<runner, result, request>>
         /\ \A s \in Spots : turnOf[s] # "running" => turnOf'[s] = turnOf[s] /\ wires'[s] = wires[s]
         /\ doc'.status = doc.status \/ doc'.status = "drifted"
         /\ \A s \in Spots : pend'[s] = pend[s] \/ pend'[s] = "reconciled"
<1>0. /\ turnOf \in [Spots -> {"none", "running", "ok", "failed", "lost"}] /\ wires \in [Spots -> Nat]
      /\ version \in 1..2 /\ tree \in 1..2 /\ mishaps \in Nat
  BY DEF FulltextTypeOK
<1>1. ASSUME NEW s \in Spots, TurnAsks(s) PROVE
        /\ wires' \in [Spots -> Nat]
        /\ \A u \in Spots : turnOf[u] # "running" => wires'[u] = wires[u]
        /\ UNCHANGED <<runnerVars, filesVars, version, tree, turnOf, server, mishaps>>
  BY <1>0, <1>1 DEF TurnAsks
<1>2. ASSUME NEW s \in Spots, TurnStops(s) PROVE
        /\ turnOf' \in [Spots -> {"none", "running", "ok", "failed", "lost"}]
        /\ \A u \in Spots : turnOf[u] # "running" => turnOf'[u] = turnOf[u]
        /\ UNCHANGED <<runnerVars, filesVars, version, tree, wires, server, mishaps>>
  BY <1>0, <1>2 DEF TurnStops
<1>3. CASE \E s \in Spots : TurnAsks(s) \/ TurnStops(s)
  BY <1>1, <1>2, <1>3 DEF FulltextTypeOK, runnerVars, filesVars, Here
<1>4. CASE OrphanStopped
  <2>1. PICK end \in {"failed", "lost"} :
          turnOf' = turnOf \/ turnOf' = [s \in Spots |-> IF turnOf[s] = "running" THEN end ELSE turnOf[s]]
    BY <1>4 DEF OrphanStopped, CloseGateway
  <2>2. /\ turnOf' \in [Spots -> {"none", "running", "ok", "failed", "lost"}]
        /\ \A s \in Spots : turnOf[s] # "running" => turnOf'[s] = turnOf[s]
    BY <1>0, <2>1
  <2>3. server' \in BOOLEAN /\ UNCHANGED <<runnerVars, filesVars, version, tree, wires, mishaps>>
    BY <1>4 DEF OrphanStopped, CloseGateway
  <2> QED BY <2>2, <2>3 DEF FulltextTypeOK, runnerVars, filesVars, Here
<1>5. CASE FilesChange
  <2>1. version' \in 1..2 /\ tree' \in 1..2 /\ mishaps' \in Nat
    BY <1>0, <1>5 DEF FilesChange, Mishap
  <2>2. UNCHANGED <<runnerVars, filesVars, turnOf, wires, server>>
    BY <1>5 DEF FilesChange
  <2> QED BY <2>1, <2>2 DEF FulltextTypeOK, runnerVars, filesVars, Here
<1>6. CASE RecordStop
  <2>1. /\ pend' = [s \in Spots |-> IF Open(s) THEN "reconciled" ELSE pend[s]]
        /\ doc' = [doc EXCEPT !.status = "drifted", !.eligible = FALSE]
        /\ begun' = [l \in DOMAIN Legs |-> [begun[l] EXCEPT !.stopped = @ \/ begun[l].tree # 0]]
        /\ UNCHANGED <<runnerVars, index, pinned, result, request, worldVars, mishaps>>
    BY <1>6 DEF RecordStop
  <2>2. /\ pend' \in [Spots -> {"none", "session", "turn", "terminal", "reconciled"}]
        /\ \A s \in Spots : pend'[s] = pend[s] \/ pend'[s] = "reconciled"
    BY <2>1 DEF FulltextTypeOK
  <2>3. doc'.status = "drifted"
        /\ doc' \in [status : {"none", "prepared", "running", "stopped", "completed", "drifted"},
                     eligible : BOOLEAN, preflight : BOOLEAN]
    BY <2>1 DEF FulltextTypeOK
  <2>4. begun' \in [DOMAIN Legs -> [tree : 0..2, stopped : BOOLEAN]]
    <3>1. ASSUME NEW l \in DOMAIN Legs
          PROVE  [begun[l] EXCEPT !.stopped = @ \/ begun[l].tree # 0] \in [tree : 0..2, stopped : BOOLEAN]
      <4>1. begun[l] \in [tree : 0..2, stopped : BOOLEAN]
        BY DEF FulltextTypeOK
      <4> DEFINE stops == begun[l].stopped \/ begun[l].tree # 0
      <4>2. stops \in BOOLEAN
        BY <4>1
      <4>3. [begun[l] EXCEPT !.stopped = stops] \in [tree : 0..2, stopped : BOOLEAN]
        <5> HIDE DEF stops
        <5> QED BY <4>1, <4>2
      <4> QED BY <4>3
    <3> QED BY <2>1, <3>1
  <2> QED BY <2>1, <2>2, <2>3, <2>4 DEF FulltextTypeOK, runnerVars, worldVars, Here
<1> QED BY <1>3, <1>4, <1>5, <1>6 DEF WorldSteps

LEMMA FulltextTypes == FulltextTypeOK /\ FulltextNext => FulltextTypeOK'
<1> SUFFICES ASSUME FulltextTypeOK, FulltextNext PROVE FulltextTypeOK'
  OBVIOUS
<1>1. CASE TurnSeenToEnd \/ CancelSeen
  BY <1>1, EndsAreWritten, RowWritten
<1> QED BY <1>1, TypesOfStarts, TypesOfStops, TypesOfCells, TypesOfLegs, TypesOfWorld
        DEF FulltextNext, WorldSteps

(* Rows and traces ---------------------------------------------------------- *)

\* A leg whose rows stay stays successful.
LEMMA SuccessStays ==
  ASSUME \A s \in Spots : HasResult(s) => result'[s] = result[s],
         NEW l \in DOMAIN Legs, Successful(l)
  PROVE  Successful(l)'
BY DEF Successful, HasResult

LEMMA OkHasResult == \A s \in Spots : result[s].status = "ok" => HasResult(s)
BY DEF HasResult

\* RowsKept but for what a step does to the runner and to the batch.
TracesKept ==
  \A s \in Spots : result[s].status = "ok" => turnOf[s] = "ok" /\ wires[s] = result[s].calls

LEMMA TracesStay ==
  ASSUME TracesKept, UNCHANGED <<result, wires>>,
         \A s \in Spots : turnOf[s] # "running" => turnOf'[s] = turnOf[s]
  PROVE  TracesKept' /\ \A s \in Spots : HasResult(s) => result'[s] = result[s]
BY DEF TracesKept

LEMMA SuccessesStay ==
  ASSUME \A s \in Spots : HasResult(s) => result'[s] = result[s]
  PROVE  \A l \in DOMAIN Legs : Successful(l) => Successful(l)'
BY SuccessStays

LEMMA RowsOfStarts ==
  ASSUME FulltextTypeOK, RowsKept, PrepareOnly \/ KilledWhileIndexing \/ StartFulltext
  PROVE  RowsKept'
<1>1. UNCHANGED <<result, wires, turnOf>>
  BY DEF PrepareOnly, KilledWhileIndexing, StartFulltext, worldVars
<1>2. TracesKept' /\ \A l \in DOMAIN Legs : Successful(l) => Successful(l)'
  BY <1>1, TracesStay, SuccessesStay DEF RowsKept, TracesKept
<1>3. CASE PrepareOnly
  <2>1. runner' = runner /\ runner.at = "idle" /\ doc' = [NoDoc EXCEPT !.status = "prepared"]
    BY <1>3 DEF PrepareOnly, Startable, Begins
  <2>2. doc'.status = "prepared"
    BY <2>1 DEF NoDoc
  <2> QED BY <1>2, <2>1, <2>2 DEF RowsKept, TracesKept
<1>4. CASE KilledWhileIndexing
  <2>1. runner' = runner /\ runner.at = "idle" /\ doc' = doc
    BY <1>4 DEF KilledWhileIndexing, Begins
  <2> QED BY <1>2, <2>1 DEF RowsKept, TracesKept
<1>5. CASE StartFulltext
  <2>1. doc' = [NoDoc EXCEPT !.status = "running"]
    BY <1>5 DEF StartFulltext
  <2>2. doc'.status = "running"
    BY <2>1 DEF NoDoc
  <2>3. PICK lenient \in BOOLEAN : runner' = [NotRunning EXCEPT !.at = "leg", !.lenient = lenient]
    BY <1>5 DEF StartFulltext
  <2>4. runner'.at = "leg" /\ runner'.leg = 1
    BY <2>3 DEF NotRunning
  <2>5. \A l \in DOMAIN Legs : ~(l < runner'.leg)
    BY <2>4, LegFacts
  <2> QED BY <1>2, <2>2, <2>4, <2>5 DEF RowsKept, TracesKept
<1> QED BY <1>3, <1>4, <1>5

LEMMA RowsOfStops ==
  ASSUME FulltextTypeOK, RowsKept,
         LegRefused \/ GuardFails \/ CancelNotSeen \/ FailLeg \/ RunnerRaises
  PROVE  RowsKept'
<1>1. Stopped /\ UNCHANGED <<result, wires>>
  BY TypesOfStops
<1>2. FinalizeBatch("stopped", doc.preflight) /\ doc.preflight \in BOOLEAN
  BY <1>1 DEF Stopped, FulltextTypeOK
<1>3. /\ runner'.at = "idle" /\ doc' = [doc EXCEPT !.status = "stopped", !.preflight = doc.preflight]
      /\ \A s \in Spots : turnOf[s] # "running" => turnOf'[s] = turnOf[s]
  BY <1>2, BatchEnds
<1>4. doc'.status = "stopped"
  BY <1>3 DEF FulltextTypeOK
<1>5. TracesKept'
  BY <1>1, <1>3, TracesStay DEF RowsKept, TracesKept
<1> QED BY <1>3, <1>4, <1>5 DEF RowsKept, TracesKept

LEMMA RowsOfCells ==
  ASSUME FulltextTypeOK, RowsKept,
         BeginLeg \/ SkipWritten \/ EnterSpot \/ StopAtLegBudget \/ SendMessage \/ GiveUpTurn
  PROVE  RowsKept'
<1>1. UNCHANGED <<doc, result, wires>> /\ runner.at # "idle"
  BY DEF BeginLeg, SkipWritten, EnterSpot, StopAtLegBudget, SendMessage, GiveUpTurn, filesVars, worldVars
<1>2. \A l \in DOMAIN Legs : Successful(l) => Successful(l)'
  BY <1>1, SuccessesStay
<1>3. runner'.leg = runner.leg
  <2>1. CASE BeginLeg
    BY <2>1 DEF BeginLeg, FulltextTypeOK
  <2>2. CASE SkipWritten
    BY <2>2, RunnerGoes, RunnerNext DEF SkipWritten, Ats
  <2>3. CASE EnterSpot \/ StopAtLegBudget \/ SendMessage
    BY <2>3, RunnerGoes DEF EnterSpot, StopAtLegBudget, SendMessage, Ats
  <2>4. CASE GiveUpTurn
    BY <2>4 DEF GiveUpTurn, FulltextTypeOK
  <2> QED BY <2>1, <2>2, <2>3, <2>4
<1>4. runner'.at = "post" => ~HasResult(Here)'
  <2>1. CASE EnterSpot
    <3>1. Here' = Here /\ ~HasResult(Here) /\ result' = result
      BY <2>1, RunnerGoes DEF EnterSpot, Ats
    <3> QED BY <3>1 DEF HasResult
  <2>2. CASE BeginLeg
    BY <2>2 DEF BeginLeg, FulltextTypeOK
  <2>3. CASE SkipWritten
    BY <2>3, RunnerGoes, RunnerNext DEF SkipWritten, Ats
  <2>4. CASE StopAtLegBudget \/ SendMessage
    BY <2>4, RunnerGoes DEF StopAtLegBudget, SendMessage, Ats
  <2>5. CASE GiveUpTurn
    BY <2>5 DEF GiveUpTurn, FulltextTypeOK
  <2> QED BY <2>1, <2>2, <2>3, <2>4, <2>5
<1>5. TracesKept'
  <2>1. CASE SendMessage
    <3>1. turnOf' = [turnOf EXCEPT ![Here] = "running"] /\ ~HasResult(Here) /\ Here \in Spots
      BY <2>1 DEF SendMessage, RowsKept, FulltextTypeOK
    <3>2. \A s \in Spots : result[s].status = "ok" => s # Here
      BY <3>1, OkHasResult
    <3> QED BY <1>1, <3>1, <3>2 DEF RowsKept, TracesKept, FulltextTypeOK
  <2>2. CASE ~SendMessage
    <3>1. turnOf' = turnOf
      BY <2>2 DEF BeginLeg, SkipWritten, EnterSpot, StopAtLegBudget, GiveUpTurn, filesVars, worldVars
    <3> QED BY <1>1, <3>1, TracesStay DEF RowsKept, TracesKept
  <2> QED BY <2>1, <2>2
<1> QED BY <1>1, <1>2, <1>3, <1>4, <1>5 DEF RowsKept, TracesKept

LEMMA RowsOfWrites ==
  ASSUME FulltextTypeOK, RowsKept, TurnSeenToEnd \/ CancelSeen
  PROVE  RowsKept'
<1>1. PICK status \in {"ok", "failed"}, calls \in Nat :
        /\ WriteResult(status, calls)
        /\ status = "ok" => turnOf[Here] = "ok" /\ calls = wires[Here]
  BY EndsAreWritten
<1>2. /\ runner'.at = "mark" /\ runner'.leg = runner.leg
      /\ result'[Here].status = status /\ result'[Here].calls = calls
      /\ \A s \in Spots : s # Here => result'[s] = result[s]
  BY <1>1, RowWritten
<1>3. UNCHANGED <<doc, turnOf, wires>> /\ runner.at # "idle"
  BY <1>1 DEF WriteResult, worldVars, TurnSeenToEnd, CancelSeen
<1>4. TracesKept'
  BY <1>1, <1>2, <1>3 DEF RowsKept, TracesKept
<1>5. \A l \in DOMAIN Legs : l < runner.leg /\ Successful(l) => Successful(l)'
  <2>1. Here[1] = runner.leg /\ runner.leg \in Nat
    BY LegFacts DEF Here, FulltextTypeOK
  <2>2. \A l \in DOMAIN Legs : l < runner.leg => l # Here[1]
    BY <2>1, LegFacts
  <2> QED BY <1>2, <2>2 DEF Successful
<1> QED BY <1>2, <1>3, <1>4, <1>5 DEF RowsKept, TracesKept

LEMMA RowsOfLegs ==
  ASSUME FulltextTypeOK, RowsKept, MarkCell \/ HaltLeg \/ PassLeg \/ RunnerKilled
  PROVE  RowsKept'
<1>1. UNCHANGED <<result, wires>> /\ runner.at # "idle"
  BY DEF MarkCell, HaltLeg, PassLeg, RunnerKilled, filesVars, worldVars
<1>2. \A l \in DOMAIN Legs : Successful(l) => Successful(l)'
  BY <1>1, SuccessesStay
<1>3. CASE MarkCell \/ HaltLeg
  <2>1. UNCHANGED <<doc, turnOf>>
    BY <1>3 DEF MarkCell, HaltLeg, worldVars
  <2>2. Go("judge") \/ Go("halt") \/ NextCell
    BY <1>3 DEF MarkCell, HaltLeg
  <2>3. runner'.leg = runner.leg /\ runner'.at # "post" /\ runner'.at # "idle"
    BY <2>2, RunnerGoes, RunnerNext DEF Ats
  <2>4. TracesKept'
    BY <1>1, <2>1, TracesStay DEF RowsKept, TracesKept
  <2> QED BY <1>1, <1>2, <2>1, <2>3, <2>4 DEF RowsKept, TracesKept
<1>4. CASE RunnerKilled
  <2>1. UNCHANGED <<doc, turnOf>> /\ runner'.at = "idle"
    BY <1>4 DEF RunnerKilled, NotRunning, filesVars, worldVars
  <2>2. TracesKept'
    BY <1>1, <2>1, TracesStay DEF RowsKept, TracesKept
  <2> QED BY <1>1, <1>2, <2>1, <2>2 DEF RowsKept, TracesKept
<1>5. CASE PassLeg
  <2>1. Successful(runner.leg) /\ \A l \in DOMAIN Legs : l < runner.leg => Successful(l)
    BY <1>1, <1>5 DEF PassLeg, LegPassed, RowsKept
  <2>2. runner.leg \in DOMAIN Legs
    BY DEF FulltextTypeOK
  <2>3. CASE runner.leg < Len(Legs)
    <3>1. /\ runner' = [runner EXCEPT !.at = "leg", !.leg = @ + 1, !.cell = 1]
          /\ doc' = [doc EXCEPT !.preflight = TRUE] /\ UNCHANGED turnOf
      BY <1>5, <2>3 DEF PassLeg
    <3>2. runner'.at = "leg" /\ runner'.leg = runner.leg + 1 /\ doc'.status = doc.status
      BY <3>1 DEF FulltextTypeOK
    <3>3. \A l \in DOMAIN Legs : l < runner'.leg => l < runner.leg \/ l = runner.leg
      BY <2>2, <3>2, LegFacts
    <3>4. TracesKept'
      BY <1>1, <3>1, TracesStay DEF RowsKept, TracesKept
    <3> QED BY <1>1, <1>2, <2>1, <3>2, <3>3, <3>4 DEF RowsKept, TracesKept
  <2>4. CASE ~(runner.leg < Len(Legs))
    <3>1. FinalizeBatch("completed", TRUE)
      BY <1>5, <2>4 DEF PassLeg
    <3>2. runner'.at = "idle" /\ \A s \in Spots : turnOf[s] # "running" => turnOf'[s] = turnOf[s]
      BY <3>1, BatchEnds
    <3>3. \A l \in DOMAIN Legs : l < runner.leg \/ l = runner.leg
      BY <2>2, <2>4, LegFacts
    <3>4. TracesKept'
      BY <1>1, <3>2, TracesStay DEF RowsKept, TracesKept
    <3> QED BY <1>2, <2>1, <3>2, <3>3, <3>4 DEF RowsKept, TracesKept
  <2> QED BY <2>3, <2>4
<1> QED BY <1>3, <1>4, <1>5

LEMMA RowsOfWorld ==
  ASSUME FulltextTypeOK, RowsKept, WorldSteps
  PROVE  RowsKept'
<1>1. /\ UNCHANGED <<runner, result>>
      /\ \A s \in Spots : turnOf[s] # "running" => turnOf'[s] = turnOf[s] /\ wires'[s] = wires[s]
      /\ doc'.status = doc.status \/ doc'.status = "drifted"
  BY TypesOfWorld
<1>2. TracesKept'
  BY <1>1 DEF RowsKept, TracesKept
<1>3. \A l \in DOMAIN Legs : Successful(l) => Successful(l)'
  BY <1>1, SuccessesStay
<1>4. runner'.at = "post" => ~HasResult(Here)'
  BY <1>1 DEF RowsKept, HasResult, Here
<1> QED BY <1>1, <1>2, <1>3, <1>4 DEF RowsKept, TracesKept

LEMMA RowsNext == FulltextTypeOK /\ RowsKept /\ FulltextNext => RowsKept'
BY RowsOfStarts, RowsOfStops, RowsOfCells, RowsOfWrites, RowsOfLegs, RowsOfWorld
   DEF FulltextNext, WorldSteps

LEMMA CompletedHolds == FulltextTypeOK /\ RowsKept => CompletedIsClean
<1> SUFFICES ASSUME FulltextTypeOK, RowsKept, doc.status = "completed", NEW s \in Spots
             PROVE  /\ result[s].status = "ok" /\ wires[s] = result[s].calls /\ wires[s] <= 1
                    /\ turnOf[s] # "running"
  BY DEF CompletedIsClean
<1>1. s[1] \in DOMAIN Legs
  BY SpotFacts
<1>2. result[s].status = "ok" /\ result[s].calls <= 1
  BY <1>1 DEF RowsKept, Successful
<1> QED BY <1>2 DEF RowsKept

(* Requests whose outcome is not known --------------------------------------- *)

SpotsKept ==
  /\ \A s, u \in Spots : Open(s) /\ Open(u) => s = u
  /\ runner.at = "post" => \A s \in Spots : ~Open(s)

LEMMA NothingOpens ==
  ASSUME SpotsKept, \A s \in Spots : Open(s)' => Open(s), runner'.at # "post"
  PROVE  SpotsKept'
BY DEF SpotsKept

\* Where the runner sends, nothing else is open.
LEMMA OneOpens ==
  ASSUME SpotsKept, FulltextTypeOK, runner.at = "post", pend' = [pend EXCEPT ![Here] = "turn"],
         result' = result, runner'.at # "post"
  PROVE  SpotsKept'
<1>1. \A s \in Spots : s # Here => pend'[s] = pend[s]
  BY DEF FulltextTypeOK
<1>2. \A s \in Spots : Open(s)' => s = Here
  BY <1>1 DEF SpotsKept, Open, HasResult
<1> QED BY <1>2 DEF SpotsKept

LEMMA OpenStays ==
  ASSUME UNCHANGED <<pend, result>>
  PROVE  \A s \in Spots : Open(s)' <=> Open(s)
BY DEF Open, HasResult

LEMMA SpotsNext ==
  ASSUME FulltextTypeOK, SpotsKept, FulltextNext
  PROVE  SpotsKept' /\ request' = request
<1>1. CASE PrepareOnly \/ KilledWhileIndexing \/ StartFulltext
  <2>1. UNCHANGED <<pend, result, request>>
    BY <1>1 DEF PrepareOnly, KilledWhileIndexing, StartFulltext
  <2>2. runner'.at # "post"
    <3>1. CASE PrepareOnly \/ KilledWhileIndexing
      BY <3>1 DEF PrepareOnly, KilledWhileIndexing, Startable, Begins
    <3>2. CASE StartFulltext
      <4>1. PICK lenient \in BOOLEAN : runner' = [NotRunning EXCEPT !.at = "leg", !.lenient = lenient]
        BY <3>2 DEF StartFulltext
      <4> QED BY <4>1 DEF NotRunning
    <3> QED BY <1>1, <3>1, <3>2
  <2> QED BY <2>1, <2>2, OpenStays, NothingOpens
<1>2. CASE LegRefused \/ GuardFails \/ CancelNotSeen \/ FailLeg \/ RunnerRaises
  <2>1. Stopped /\ UNCHANGED <<result, request>>
    BY <1>2 DEF LegRefused, GuardFails, CancelNotSeen, FailLeg, RunnerRaises
  <2>2. FinalizeBatch("stopped", doc.preflight) /\ doc.preflight \in BOOLEAN
    BY <2>1 DEF Stopped, FulltextTypeOK
  <2>3. runner'.at = "idle"
    BY <2>2, BatchEnds
  <2>4. pend' = pend \/ (runner.at = "post" /\ pend' = [pend EXCEPT ![Here] = "turn"])
    BY <1>2 DEF LegRefused, GuardFails, CancelNotSeen, FailLeg, RunnerRaises
  <2>5. CASE pend' = pend
    BY <2>1, <2>3, <2>5, OpenStays, NothingOpens
  <2>6. CASE runner.at = "post" /\ pend' = [pend EXCEPT ![Here] = "turn"]
    BY <2>1, <2>3, <2>6, OneOpens
  <2> QED BY <2>1, <2>4, <2>5, <2>6
<1>3. CASE EnterSpot
  <2>1. /\ GuardHolds /\ pend' = [pend EXCEPT ![Here] = "session"] /\ UNCHANGED <<result, request>>
    BY <1>3 DEF EnterSpot
  <2>2. \A s \in Spots : ~Open(s)
    BY <2>1 DEF GuardHolds, BudgetAllows, Unresolved
  <2>3. \A s \in Spots : pend'[s] = pend[s] \/ pend'[s] = "session"
    BY <2>1 DEF FulltextTypeOK
  <2>4. \A s \in Spots : ~Open(s)'
    BY <2>1, <2>2, <2>3 DEF Open, HasResult
  <2> QED BY <2>1, <2>4 DEF SpotsKept
<1>4. CASE SendMessage
  <2>1. /\ runner.at = "post" /\ pend' = [pend EXCEPT ![Here] = "turn"]
        /\ UNCHANGED <<result, request>> /\ Go("wait")
    BY <1>4 DEF SendMessage
  <2>2. runner'.at = "wait"
    BY <2>1, RunnerGoes DEF Ats
  <2> QED BY <2>1, <2>2, OneOpens
<1>5. CASE BeginLeg \/ SkipWritten \/ StopAtLegBudget \/ GiveUpTurn
  <2>1. UNCHANGED <<pend, result, request>>
    BY <1>5 DEF BeginLeg, SkipWritten, StopAtLegBudget, GiveUpTurn, filesVars
  <2>2. CASE BeginLeg \/ GiveUpTurn
    <3>1. runner'.at # "post"
      BY <2>2 DEF BeginLeg, GiveUpTurn, FulltextTypeOK
    <3> QED BY <2>1, <3>1, OpenStays, NothingOpens
  <2>3. CASE SkipWritten \/ StopAtLegBudget
    <3>1. Go("judge") \/ NextCell
      BY <2>3 DEF SkipWritten, StopAtLegBudget
    <3>2. runner'.at # "post"
      BY <3>1, RunnerGoes, RunnerNext DEF Ats
    <3> QED BY <2>1, <3>2, OpenStays, NothingOpens
  <2> QED BY <1>5, <2>2, <2>3
<1>6. CASE TurnSeenToEnd \/ CancelSeen
  <2>1. PICK status \in {"ok", "failed"}, calls \in Nat : WriteResult(status, calls)
    BY <1>6, EndsAreWritten
  <2>2. /\ runner'.at = "mark" /\ result'[Here].status = status
        /\ \A s \in Spots : s # Here => result'[s] = result[s]
    BY <2>1, RowWritten
  <2>3. UNCHANGED <<pend, request>>
    BY <2>1 DEF WriteResult
  <2>4. \A s \in Spots : Open(s)' => Open(s)
    BY <2>2, <2>3 DEF Open, HasResult
  <2> QED BY <2>2, <2>3, <2>4, NothingOpens
<1>7. CASE MarkCell \/ HaltLeg \/ PassLeg \/ RunnerKilled
  <2>1. UNCHANGED <<result, request>>
    BY <1>7 DEF MarkCell, HaltLeg, PassLeg, RunnerKilled, filesVars
  <2>2. \A s \in Spots : pend'[s] = pend[s] \/ pend'[s] = "terminal"
    BY <1>7 DEF MarkCell, HaltLeg, PassLeg, RunnerKilled, filesVars, FulltextTypeOK
  <2>3. runner'.at # "post"
    <3>1. CASE MarkCell \/ HaltLeg
      <4>1. Go("judge") \/ Go("halt") \/ NextCell
        BY <3>1 DEF MarkCell, HaltLeg
      <4> QED BY <4>1, RunnerGoes, RunnerNext DEF Ats
    <3>2. CASE RunnerKilled
      BY <3>2 DEF RunnerKilled, NotRunning
    <3>3. CASE PassLeg
      <4>1. CASE runner.leg < Len(Legs)
        BY <3>3, <4>1 DEF PassLeg, FulltextTypeOK
      <4>2. CASE ~(runner.leg < Len(Legs))
        <5>1. FinalizeBatch("completed", TRUE)
          BY <3>3, <4>2 DEF PassLeg
        <5> QED BY <5>1, BatchEnds
      <4> QED BY <4>1, <4>2
    <3> QED BY <1>7, <3>1, <3>2, <3>3
  <2>4. \A s \in Spots : Open(s)' => Open(s)
    BY <2>1, <2>2 DEF Open, HasResult
  <2> QED BY <2>1, <2>3, <2>4, NothingOpens
<1>8. CASE WorldSteps
  <2>1. /\ UNCHANGED <<runner, result, request>>
        /\ \A s \in Spots : pend'[s] = pend[s] \/ pend'[s] = "reconciled"
    BY <1>8, TypesOfWorld
  <2>2. \A s \in Spots : Open(s)' => Open(s)
    BY <2>1 DEF Open, HasResult
  <2> QED BY <2>1, <2>2 DEF SpotsKept
<1> QED BY <1>1, <1>2, <1>3, <1>4, <1>5, <1>6, <1>7, <1>8 DEF FulltextNext, WorldSteps

(* The review --------------------------------------------------------------- *)

LEMMA CitationsHaveLength == ASSUME NEW audited PROVE Len(CitationsOf(audited)) \in Nat
BY SMT DEF CitationsOf

LEMMA ListFacts == \A items \in ItemLists : Len(items) \in Nat
<1>1. \A stage \in Stages : Len(PairsOf[stage]) \in Nat
  BY ReviewAssumption, LenProperties
<1>2. \A audited \in SUBSET Formal : Len(CitationsOf(audited)) \in Nat
  BY CitationsHaveLength
<1>3. Len(<<>>) \in Nat
  BY EmptySeq
<1> QED BY <1>1, <1>2, <1>3 DEF ItemLists

\* Past the last block every block lies behind.
LEMMA BlocksBehind ==
  ASSUME NEW items \in ItemLists, NEW block \in Nat \ {0}, block \notin BlocksIn(items),
         NEW n \in BlocksIn(items)
  PROVE  n \in 1..(block - 1)
<1> DEFINE last == (Len(items) + BlockSize - 1) \div BlockSize
<1>1. Len(items) \in Nat /\ BlockSize \in Nat \ {0}
  BY ListFacts, ReviewAssumption
<1>2. last \in Int
  BY <1>1
<1>3. BlocksIn(items) = 1..last
  BY DEF BlocksIn
<1> HIDE DEF last
<1>4. n \in 1..last /\ ~(block \in 1..last)
  BY <1>3
<1>5. n \in Int /\ 1 <= n /\ n <= last /\ block > last
  BY <1>2, <1>4
<1> QED BY <1>2, <1>5

ReviewFiles == <<request, body, fit, asked>>

\* What a reviewer does leaves the batch alone, but for its requests.
LEMMA ReviewFrame ==
  ASSUME FulltextTypeOK, ReviewNext
  PROVE  /\ UNCHANGED <<runnerVars, worldVars, doc, index, pinned, begun, pend, result>>
         /\ mishaps' \in Nat
<1> USE DEF batchTrialVars, filesVars
<1>0. mishaps \in Nat
  BY DEF FulltextTypeOK
<1>1. CASE Prepare \/ AnnotateRetrieval \/ AnnotateQuestions \/ AnnotateCitations
  BY <1>0, <1>1 DEF Prepare, AnnotateRetrieval, AnnotateQuestions, AnnotateCitations, StartStage
<1>2. CASE TakeSaved \/ SavedRefused \/ Allowed \/ AskRefused
  BY <1>0, <1>2 DEF TakeSaved, SavedRefused, Allowed, AskRefused
<1>3. CASE Submit \/ NoAnswer \/ SaveOutcome
  BY <1>0, <1>3 DEF Submit, NoAnswer, SaveOutcome
<1>4. CASE WriteTable \/ ReviewerKilled
  BY <1>0, <1>4 DEF WriteTable, ReviewerKilled, Mishap
<1> QED BY <1>1, <1>2, <1>3, <1>4 DEF ReviewNext

\* The reviewer goes away, or on to another place.
LEMMA ReviewerLeaves ==
  ASSUME Leave
  PROVE  /\ reviewer' \in [stage : Stages \union {"none"}, at : {"away", "read", "submit", "asking"},
                           block : Nat \ {0}, items : ItemLists]
         /\ reviewer'.at = "away"
BY DEF Leave, Away, ItemLists

LEMMA ReviewerGoes ==
  ASSUME ReviewTypeOK, NEW at \in {"read", "submit", "asking"}, NEW block \in Nat \ {0},
         reviewer' = [reviewer EXCEPT !.at = at, !.block = block]
  PROVE  /\ reviewer' \in [stage : Stages \union {"none"}, at : {"away", "read", "submit", "asking"},
                           block : Nat \ {0}, items : ItemLists]
         /\ reviewer'.at = at /\ reviewer'.block = block
         /\ reviewer'.stage = reviewer.stage /\ reviewer'.items = reviewer.items
<1>1. reviewer \in [stage : Stages \union {"none"}, at : {"away", "read", "submit", "asking"},
                    block : Nat \ {0}, items : ItemLists]
  BY DEF ReviewTypeOK
<1>2. reviewer' = [stage |-> reviewer.stage, at |-> at, block |-> block, items |-> reviewer.items]
  BY <1>1
<1> QED BY <1>1, <1>2

LEMMA ReviewerConsumes ==
  ASSUME ReviewTypeOK, Consume
  PROVE  /\ reviewer' \in [stage : Stages \union {"none"}, at : {"away", "read", "submit", "asking"},
                           block : Nat \ {0}, items : ItemLists]
         /\ reviewer'.at = "read" /\ reviewer'.block = reviewer.block + 1
         /\ reviewer'.stage = reviewer.stage /\ reviewer'.items = reviewer.items
<1>1. reviewer \in [stage : Stages \union {"none"}, at : {"away", "read", "submit", "asking"},
                    block : Nat \ {0}, items : ItemLists]
  BY DEF ReviewTypeOK
<1>2. reviewer' = [stage |-> reviewer.stage, at |-> "read", block |-> reviewer.block + 1,
                   items |-> reviewer.items]
  BY <1>1 DEF Consume
<1>3. reviewer.block + 1 \in Nat \ {0}
  BY <1>1
<1> QED BY <1>1, <1>2, <1>3

\* The blocks behind stay so, and tables too, while no request changes.
TablesKept ==
  \A stage \in Stages : table[stage] # NoTable =>
    \A n \in BlocksIn(table[stage]) : Settled(stage, table[stage], n)

LEMMA TablesStay ==
  ASSUME TablesKept, table' = table,
         \A stage \in Stages : \A items, n : Settled(stage, items, n) => Settled(stage, items, n)'
  PROVE  TablesKept'
BY DEF TablesKept, BlocksIn

ReviewKept == ReviewTypeOK /\ OpensKept /\ BlocksKept

LEMMA RequestsSame ==
  ASSUME UNCHANGED <<request, body, fit>>
  PROVE  /\ \A r \in Requests : Asked(r)' <=> Asked(r)
         /\ \A stage \in Stages : \A items, n : Settled(stage, items, n) => Settled(stage, items, n)'
BY DEF Asked, Settled, BlockOf

LEMMA OpenSame ==
  ASSUME UNCHANGED <<pend, result>>
  PROVE  \A s \in Spots : Open(s)' <=> Open(s)
BY DEF Open, HasResult

\* Steps that ask nothing and save no answer.
LEMMA QuietFrame ==
  ASSUME FulltextTypeOK, ReviewKept, ReviewNext, ~Submit, ~SaveOutcome
  PROVE  /\ UNCHANGED <<request, body, fit, asked, wanted>>
         /\ prepared' \in BOOLEAN /\ reviews' \in Nat
         /\ WriteTable \/ table' = table
<1> USE DEF batchTrialVars, filesVars
<1>0. prepared \in BOOLEAN /\ reviews \in Nat
  BY DEF ReviewKept, ReviewTypeOK
<1>4. CASE Prepare
  BY <1>0, <1>4 DEF Prepare
<1>1. CASE AnnotateRetrieval \/ AnnotateQuestions \/ AnnotateCitations
  BY <1>0, <1>1, ReviewAssumption DEF AnnotateRetrieval, AnnotateQuestions, AnnotateCitations, StartStage
<1>2. CASE TakeSaved \/ SavedRefused \/ Allowed \/ AskRefused
  BY <1>0, <1>2 DEF TakeSaved, SavedRefused, Allowed, AskRefused
<1>3. CASE NoAnswer \/ WriteTable \/ ReviewerKilled
  BY <1>0, <1>3 DEF NoAnswer, WriteTable, ReviewerKilled
<1> QED BY <1>1, <1>2, <1>3, <1>4 DEF ReviewNext

\* Where the reviewer stands after such a step.
ReviewerOK ==
  /\ reviewer \in [stage : Stages \union {"none"}, at : {"away", "read", "submit", "asking"},
                   block : Nat \ {0}, items : ItemLists]
  /\ reviewer.at # "away" => reviewer.stage \in Stages
BehindKept ==
  reviewer.at # "away" =>
    \A n \in 1..(reviewer.block - 1) : Settled(reviewer.stage, reviewer.items, n)
PlaceKept ==
  /\ reviewer.at = "submit" =>
       Block \in Requests /\ request[Block] = "none" /\ \A r \in Requests : ~Asked(r)
  /\ reviewer.at = "asking" =>
       Block \in Requests /\ request[Block] = "open" /\ body[Block] = Asking

LEMMA LeavingKeeps == ASSUME Leave PROVE ReviewerOK' /\ BehindKept' /\ PlaceKept'
BY ReviewerLeaves DEF ReviewerOK, BehindKept, PlaceKept

\* Taking up the block of a settled answer.
LEMMA ConsumingKeeps ==
  ASSUME ReviewTypeOK, Consume, NEW stage \in Stages, NEW items, NEW block \in Nat \ {0},
         reviewer.stage = stage, reviewer.items = items, reviewer.block = block,
         \A n \in 1..block : Settled(stage, items, n)'
  PROVE  ReviewerOK' /\ BehindKept' /\ PlaceKept'
<1>1. /\ reviewer' \in [stage : Stages \union {"none"}, at : {"away", "read", "submit", "asking"},
                        block : Nat \ {0}, items : ItemLists]
      /\ reviewer'.at = "read" /\ reviewer'.block = block + 1
      /\ reviewer'.stage = stage /\ reviewer'.items = items
  BY ReviewerConsumes
<1>2. 1..(reviewer'.block - 1) = 1..block
  BY <1>1
<1>3. BehindKept'
  BY <1>1, <1>2 DEF BehindKept, Settled
<1> QED BY <1>1, <1>3 DEF ReviewerOK, PlaceKept

RequestsKept ==
  /\ \A r, q \in Requests : Asked(r) /\ Asked(q) => r = q
  /\ \A r \in Requests : asked[r] = IF request[r] = "none" THEN 0 ELSE 1

LEMMA KeptParts ==
  /\ OpensKept <=> SpotsKept /\ RequestsKept /\ PlaceKept
  /\ OpensKept' <=> SpotsKept' /\ RequestsKept' /\ PlaceKept'
  /\ BlocksKept <=> BehindKept /\ TablesKept
  /\ BlocksKept' <=> BehindKept' /\ TablesKept'
BY DEF OpensKept, SpotsKept, RequestsKept, PlaceKept, BlocksKept, BehindKept, TablesKept

LEMMA SpotsSame ==
  ASSUME SpotsKept, UNCHANGED <<runner, pend, result>>
  PROVE  SpotsKept'
BY OpenSame DEF SpotsKept

LEMMA QuietPlace ==
  ASSUME FulltextTypeOK, ReviewKept, ReviewNext, ~Submit, ~SaveOutcome
  PROVE  ReviewerOK' /\ BehindKept' /\ PlaceKept'
<1> USE DEF ReviewKept
<1>0. /\ UNCHANGED <<request, body, fit>>
      /\ \A stage \in Stages : \A items, n : Settled(stage, items, n) => Settled(stage, items, n)'
      /\ \A r \in Requests : Asked(r)' <=> Asked(r)
  BY QuietFrame, RequestsSame
<1>1. CASE SavedRefused \/ AskRefused \/ NoAnswer \/ WriteTable \/ ReviewerKilled
  BY <1>1, LeavingKeeps DEF SavedRefused, AskRefused, NoAnswer, WriteTable, ReviewerKilled
<1>2. CASE Prepare
  BY <1>2 DEF Prepare, Away, ReviewTypeOK, ReviewerOK, BehindKept, PlaceKept
<1>3. ASSUME NEW stage \in Stages, NEW items \in ItemLists, StartStage(stage, items)
      PROVE  ReviewerOK' /\ BehindKept' /\ PlaceKept'
  <2>1. reviewer' = [stage |-> stage, at |-> "read", block |-> 1, items |-> items]
    BY <1>3 DEF StartStage, Away
  <2>2. 1..(reviewer'.block - 1) = {}
    BY <2>1
  <2> QED BY <2>1, <2>2 DEF ReviewerOK, BehindKept, PlaceKept
<1>4. CASE AnnotateRetrieval \/ AnnotateQuestions \/ AnnotateCitations
  <2>1. /\ PairsOf["retrieval"] \in ItemLists /\ PairsOf["questions"] \in ItemLists
        /\ Citations \in ItemLists
    BY DEF ItemLists, Stages, Citations, Audited
  <2>2. {"retrieval", "questions", "citations"} \subseteq Stages
    BY DEF Stages
  <2> QED BY <1>3, <1>4, <2>1, <2>2 DEF AnnotateRetrieval, AnnotateQuestions, AnnotateCitations
<1>5. CASE reviewer # Away /\ TakeSaved
  <2>1. /\ reviewer.at = "read" /\ Block \in Requests /\ request[Block] = "completed"
        /\ body[Block] = Asking /\ fit[Block] /\ Consume
    BY <1>5 DEF TakeSaved, Reading, Saved, Usable
  <2>2. PICK stage \in Stages, items \in ItemLists, block \in Nat \ {0} :
          reviewer.stage = stage /\ reviewer.items = items /\ reviewer.block = block
    BY <2>1 DEF ReviewTypeOK
  <2>3. Settled(stage, items, block)
    BY <2>1, <2>2 DEF Settled, Block, Asking
  <2>4. \A n \in 1..(block - 1) : Settled(stage, items, n)
    BY <2>1, <2>2 DEF BlocksKept
  <2>5. \A n \in 1..block : n \in 1..(block - 1) \/ n = block
    OBVIOUS
  <2>6. \A n \in 1..block : Settled(stage, items, n)'
    BY <1>0, <2>3, <2>4, <2>5
  <2> QED BY <2>1, <2>2, <2>6, ConsumingKeeps
<1>6. CASE reviewer # Away /\ Allowed
  <2>1. /\ reviewer.at = "read" /\ Block \in Requests /\ request[Block] = "none" /\ ~Unresolved
        /\ reviewer' = [reviewer EXCEPT !.at = "submit"]
    BY <1>6 DEF Allowed, Reading, MayAsk, BudgetAllows
  <2>2. /\ reviewer' \in [stage : Stages \union {"none"}, at : {"away", "read", "submit", "asking"},
                          block : Nat \ {0}, items : ItemLists]
        /\ reviewer'.at = "submit" /\ reviewer'.block = reviewer.block
        /\ reviewer'.stage = reviewer.stage /\ reviewer'.items = reviewer.items
    BY <2>1 DEF ReviewTypeOK
  <2>3. \A r \in Requests : ~Asked(r)'
    BY <1>0, <2>1 DEF Unresolved
  <2>4. Block' = Block
    BY <2>2 DEF Block
  <2>5. PlaceKept'
    BY <1>0, <2>1, <2>2, <2>3, <2>4 DEF PlaceKept
  <2>6. PICK stage \in Stages, items \in ItemLists, block \in Nat \ {0} :
          reviewer.stage = stage /\ reviewer.items = items /\ reviewer.block = block
    BY <2>1 DEF ReviewTypeOK
  <2>7. \A n \in 1..(block - 1) : Settled(stage, items, n)'
    BY <1>0, <2>1, <2>6 DEF BlocksKept
  <2>8. BehindKept'
    BY <2>2, <2>6, <2>7 DEF BehindKept, Settled
  <2> QED BY <2>2, <2>5, <2>6, <2>8 DEF ReviewerOK
<1> QED BY <1>1, <1>2, <1>4, <1>5, <1>6 DEF ReviewNext

LEMMA QuietTables ==
  ASSUME FulltextTypeOK, ReviewKept, ReviewNext, ~Submit, ~SaveOutcome
  PROVE  TablesKept' /\ table' \in [Stages -> ItemLists \union {NoTable}]
<1> USE DEF ReviewKept
<1>0. /\ WriteTable \/ table' = table
      /\ \A stage \in Stages : \A items, n : Settled(stage, items, n) => Settled(stage, items, n)'
      /\ table \in [Stages -> ItemLists \union {NoTable}] /\ TablesKept
  BY QuietFrame, RequestsSame, KeptParts DEF ReviewTypeOK
<1>1. CASE table' = table
  BY <1>0, <1>1, TablesStay
<1>2. CASE reviewer # Away /\ WriteTable
  <2>1. reviewer.at = "read" /\ ~Reading /\ table' = [table EXCEPT ![reviewer.stage] = reviewer.items]
    BY <1>2 DEF WriteTable
  <2>2. PICK at \in Stages, items \in ItemLists, block \in Nat \ {0} :
          reviewer.stage = at /\ reviewer.items = items /\ reviewer.block = block
    BY <2>1 DEF ReviewTypeOK
  <2>3. block \notin BlocksIn(items)
    BY <2>1, <2>2 DEF Reading
  <2>4. \A n \in BlocksIn(items) : Settled(at, items, n)'
    <3>1. \A n \in BlocksIn(items) : n \in 1..(block - 1)
      BY <2>2, <2>3, BlocksBehind
    <3>2. \A n \in 1..(block - 1) : Settled(at, items, n)
      BY <2>1, <2>2 DEF BlocksKept
    <3> QED BY <1>0, <3>1, <3>2
  <2>5. /\ table' \in [Stages -> ItemLists \union {NoTable}] /\ table'[at] = items
        /\ \A stage \in Stages : stage # at => table'[stage] = table[stage]
    BY <1>0, <2>1, <2>2
  <2>6. ASSUME NEW stage \in Stages, NEW list, table'[stage] = list, list # NoTable,
               NEW n \in BlocksIn(list)
        PROVE  Settled(stage, list, n)'
    <3>1. CASE stage = at
      BY <2>4, <2>5, <2>6, <3>1
    <3>2. CASE stage # at
      <4>1. Settled(stage, list, n)
        BY <1>0, <2>5, <2>6, <3>2 DEF TablesKept
      <4> QED BY <1>0, <4>1
    <3> QED BY <3>1, <3>2
  <2> QED BY <2>5, <2>6 DEF TablesKept, BlocksIn, Settled
<1>3. WriteTable => reviewer # Away
  BY DEF WriteTable, Away
<1> QED BY <1>0, <1>1, <1>2, <1>3

\* A request that is not completed can change without harm to what is settled.
LEMMA SettledStays ==
  ASSUME NEW r \in Requests, request[r] # "completed",
         \A q \in Requests : q # r => request'[q] = request[q] /\ body'[q] = body[q] /\ fit'[q] = fit[q]
  PROVE  \A stage \in Stages : \A items, n : Settled(stage, items, n) => Settled(stage, items, n)'
BY DEF Settled, BlockOf

LEMMA SubmitKeeps ==
  ASSUME FulltextTypeOK, ReviewKept, Submit
  PROVE  FulltextTypeOK' /\ ReviewKept'
<1> USE DEF ReviewKept
<1>1. /\ reviewer.at = "submit" /\ reviewer' = [reviewer EXCEPT !.at = "asking"]
      /\ request' = [request EXCEPT ![Block] = "open"]
      /\ body' = [body EXCEPT ![Block] = Asking]
      /\ asked' = [asked EXCEPT ![Block] = @ + 1]
      /\ UNCHANGED <<wanted, prepared, fit, table, reviews>>
      /\ UNCHANGED <<runnerVars, worldVars, mishaps, doc, index, pinned, begun, pend, result>>
  BY DEF Submit
<1>2. Block \in Requests /\ request[Block] = "none" /\ \A r \in Requests : ~Asked(r)
  BY <1>1 DEF OpensKept
<1>3. PICK r \in Requests : r = Block
  BY <1>2
<1>4. /\ request \in [Requests -> {"none", "open", "completed", "failed"}]
      /\ asked \in [Requests -> Nat] /\ body = [q \in Requests |-> body[q]]
  BY DEF FulltextTypeOK, ReviewTypeOK
<1>5. /\ request' \in [Requests -> {"none", "open", "completed", "failed"}]
      /\ request'[r] = "open" /\ \A q \in Requests : q # r => request'[q] = request[q]
  BY <1>1, <1>3, <1>4
<1>6. /\ body' = [q \in Requests |-> body'[q]]
      /\ body'[r] = Asking /\ \A q \in Requests : q # r => body'[q] = body[q]
  BY <1>1, <1>3, <1>4
<1>7. /\ asked' \in [Requests -> Nat]
      /\ asked'[r] = asked[r] + 1 /\ \A q \in Requests : q # r => asked'[q] = asked[q]
  BY <1>1, <1>3, <1>4
<1>8. FulltextTypeOK'
  BY <1>1, <1>5 DEF FulltextTypeOK, runnerVars, worldVars, Here
<1>9. /\ reviewer' \in [stage : Stages \union {"none"}, at : {"away", "read", "submit", "asking"},
                        block : Nat \ {0}, items : ItemLists]
      /\ reviewer'.at = "asking" /\ reviewer'.block = reviewer.block
      /\ reviewer'.stage = reviewer.stage /\ reviewer'.items = reviewer.items
      /\ reviewer.stage \in Stages
  BY <1>1 DEF ReviewTypeOK
<1>10. ReviewTypeOK'
  BY <1>1, <1>6, <1>7, <1>9 DEF ReviewTypeOK
<1>11. Block' = Block /\ Asking' = Asking
  BY <1>9 DEF Block, Asking, BlockOf
<1>12. PlaceKept'
  BY <1>3, <1>5, <1>6, <1>9, <1>11 DEF PlaceKept
<1>13. RequestsKept'
  <2>1. \A q \in Requests : Asked(q)' => q = r
    BY <1>2, <1>5 DEF Asked
  <2>2. asked[r] = 0
    BY <1>2, <1>3 DEF OpensKept
  <2>3. \A q \in Requests : asked'[q] = IF request'[q] = "none" THEN 0 ELSE 1
    BY <1>5, <1>7, <2>2 DEF OpensKept
  <2> QED BY <2>1, <2>3 DEF RequestsKept
<1>14. SpotsKept'
  BY <1>1, SpotsSame, KeptParts DEF runnerVars
<1>15. \A stage \in Stages : \A items, n : Settled(stage, items, n) => Settled(stage, items, n)'
  BY <1>1, <1>2, <1>3, <1>5, <1>6, SettledStays
<1>16. TablesKept'
  BY <1>1, <1>15, TablesStay, KeptParts
<1>17. BehindKept'
  <2>1. PICK stage \in Stages, items \in ItemLists, block \in Nat \ {0} :
          reviewer.stage = stage /\ reviewer.items = items /\ reviewer.block = block
    BY <1>9 DEF ReviewTypeOK
  <2>2. \A n \in 1..(block - 1) : Settled(stage, items, n)'
    BY <1>1, <1>15, <2>1 DEF BlocksKept
  <2> QED BY <1>9, <2>1, <2>2 DEF BehindKept, Settled
<1> QED BY <1>8, <1>10, <1>12, <1>13, <1>14, <1>16, <1>17, KeptParts

LEMMA SaveKeeps ==
  ASSUME FulltextTypeOK, ReviewKept, SaveOutcome
  PROVE  FulltextTypeOK' /\ ReviewKept'
<1> USE DEF ReviewKept
<1>1. PICK outcome \in {"completed", "failed"}, good \in BOOLEAN :
        /\ good => outcome = "completed"
        /\ request' = [request EXCEPT ![Block] = outcome]
        /\ fit' = [fit EXCEPT ![Block] = good]
        /\ IF good THEN Consume ELSE Leave
  BY DEF SaveOutcome
<1>2. /\ reviewer.at = "asking" /\ UNCHANGED <<wanted, prepared, body, table, asked, reviews>>
      /\ UNCHANGED <<runnerVars, worldVars, mishaps, doc, index, pinned, begun, pend, result>>
  BY DEF SaveOutcome
<1>3. Block \in Requests /\ request[Block] = "open" /\ body[Block] = Asking
  BY <1>2 DEF OpensKept
<1>4. PICK r \in Requests : r = Block
  BY <1>3
<1>5. /\ request \in [Requests -> {"none", "open", "completed", "failed"}] /\ fit \in [Requests -> BOOLEAN]
  BY DEF FulltextTypeOK, ReviewTypeOK
<1>6. /\ request' \in [Requests -> {"none", "open", "completed", "failed"}]
      /\ request'[r] = outcome /\ \A q \in Requests : q # r => request'[q] = request[q]
  BY <1>1, <1>4, <1>5
<1>7. /\ fit' \in [Requests -> BOOLEAN]
      /\ fit'[r] = good /\ \A q \in Requests : q # r => fit'[q] = fit[q]
  BY <1>1, <1>4, <1>5
<1>8. FulltextTypeOK'
  BY <1>2, <1>6 DEF FulltextTypeOK, runnerVars, worldVars, Here
<1>9. PICK stage \in Stages, items \in ItemLists, block \in Nat \ {0} :
        reviewer.stage = stage /\ reviewer.items = items /\ reviewer.block = block
  BY <1>2 DEF ReviewTypeOK
<1>10. \A at \in Stages : \A list, n : Settled(at, list, n) => Settled(at, list, n)'
  BY <1>2, <1>3, <1>4, <1>6, <1>7, SettledStays
<1>11. ReviewerOK' /\ BehindKept' /\ PlaceKept'
  <2>1. CASE good
    <3>1. Settled(stage, items, block)'
      BY <1>1, <1>2, <1>3, <1>4, <1>6, <1>7, <1>9, <2>1 DEF Settled, Block, Asking, BlockOf
    <3>2. \A n \in 1..(block - 1) : Settled(stage, items, n)'
      BY <1>2, <1>9, <1>10 DEF BlocksKept
    <3>3. \A n \in 1..block : n \in 1..(block - 1) \/ n = block
      OBVIOUS
    <3>4. \A n \in 1..block : Settled(stage, items, n)'
      BY <3>1, <3>2, <3>3
    <3> QED BY <1>1, <1>9, <2>1, <3>4, ConsumingKeeps
  <2>2. CASE ~good
    BY <1>1, <2>2, LeavingKeeps
  <2> QED BY <2>1, <2>2
<1>12. ReviewTypeOK'
  BY <1>2, <1>7, <1>11 DEF ReviewTypeOK, ReviewerOK
<1>13. RequestsKept'
  <2>1. \A q \in Requests : Asked(q)' => Asked(q)
    BY <1>1, <1>6 DEF Asked
  <2>2. \A q \in Requests : request'[q] = "none" <=> request[q] = "none"
    BY <1>1, <1>3, <1>4, <1>6
  <2> QED BY <1>2, <2>1, <2>2 DEF RequestsKept, OpensKept
<1>14. SpotsKept'
  BY <1>2, SpotsSame, KeptParts DEF runnerVars
<1>15. TablesKept'
  BY <1>2, <1>10, TablesStay, KeptParts
<1> QED BY <1>8, <1>11, <1>12, <1>13, <1>14, <1>15, KeptParts

LEMMA QuietKeeps ==
  ASSUME FulltextTypeOK, ReviewKept, ReviewNext, ~Submit, ~SaveOutcome
  PROVE  FulltextTypeOK' /\ ReviewKept'
<1> USE DEF ReviewKept
<1>1. /\ UNCHANGED <<runnerVars, worldVars, doc, index, pinned, begun, pend, result>>
      /\ mishaps' \in Nat
  BY ReviewFrame
<1>2. /\ UNCHANGED <<request, body, fit, asked, wanted>>
      /\ prepared' \in BOOLEAN /\ reviews' \in Nat
  BY QuietFrame
<1>3. FulltextTypeOK'
  BY <1>1, <1>2 DEF FulltextTypeOK, runnerVars, worldVars, Here
<1>4. TablesKept' /\ table' \in [Stages -> ItemLists \union {NoTable}]
  BY QuietTables
<1>5. ReviewerOK' /\ BehindKept' /\ PlaceKept'
  BY QuietPlace
<1>6. ReviewTypeOK'
  BY <1>2, <1>4, <1>5 DEF ReviewTypeOK, ReviewerOK
<1>7. RequestsKept'
  BY <1>2, RequestsSame DEF RequestsKept, OpensKept
<1>8. SpotsKept'
  BY <1>1, SpotsSame, KeptParts DEF runnerVars
<1> QED BY <1>3, <1>4, <1>5, <1>6, <1>7, <1>8, KeptParts

(* The batch and its review ------------------------------------------------- *)

LEMMA TrialIndParts == TrialInd <=> FulltextTypeOK /\ RowsKept /\ ReviewKept
BY DEF TrialInd, ReviewKept

LEMMA TrialIndPartsNext == TrialInd' <=> FulltextTypeOK' /\ RowsKept' /\ ReviewKept'
BY DEF TrialInd, ReviewKept

LEMMA TrialBegins == TrialInit => TrialInd
<1> SUFFICES ASSUME TrialInit PROVE TrialInd
  OBVIOUS
<1>1. FulltextTypeOK
  BY FulltextInitTyped DEF TrialInit
<1>2. RowsKept
  BY DEF TrialInit, FulltextInit, RowsKept, NotRunning, NoDoc, NoResult
<1>3. reviewer = Away /\ <<>> \in ItemLists
  BY DEF TrialInit, ItemLists
<1>4. ReviewTypeOK
  <2>1. table \in [Stages -> ItemLists \union {NoTable}]
    BY DEF TrialInit
  <2>2. asked \in [Requests -> Nat] /\ reviews \in Nat
    BY DEF TrialInit
  <2>3. prepared \in BOOLEAN /\ fit \in [Requests -> BOOLEAN]
    BY DEF TrialInit
  <2>4. body = [r \in Requests |-> body[r]]
    BY DEF TrialInit
  <2> QED BY <1>3, <2>1, <2>2, <2>3, <2>4 DEF ReviewTypeOK, Away
<1>5. OpensKept
  <2>1. (\A s \in Spots : ~Open(s)) /\ runner.at = "idle"
    BY DEF TrialInit, FulltextInit, Open, NotRunning
  <2>2. (\A r \in Requests : ~Asked(r) /\ asked[r] = 0 /\ request[r] = "none")
    BY DEF TrialInit, FulltextInit, Asked
  <2> QED BY <1>3, <2>1, <2>2 DEF OpensKept, Away
<1>6. BlocksKept
  <2>1. \A stage \in Stages : table[stage] = NoTable
    BY DEF TrialInit
  <2> QED BY <1>3, <2>1 DEF BlocksKept, Away
<1> QED BY <1>1, <1>2, <1>4, <1>5, <1>6 DEF TrialInd

LEMMA TrialStutters == TrialInd /\ UNCHANGED trialVars => TrialInd'
<1> SUFFICES ASSUME TrialInd, UNCHANGED trialVars PROVE TrialInd'
  OBVIOUS
<1>1. /\ UNCHANGED <<runner, launches, doc, index, pinned, begun, pend, result, request>>
      /\ UNCHANGED <<version, tree, turnOf, wires, server, mishaps>>
      /\ UNCHANGED <<wanted, reviewer, prepared, body, fit, table, asked, reviews>>
  BY DEF trialVars, batchTrialVars, runnerVars, filesVars, worldVars, reviewVars
<1>2. FulltextTypeOK'
  BY <1>1 DEF TrialInd, FulltextTypeOK, Here
<1>3. RowsKept'
  BY <1>1 DEF TrialInd, RowsKept, HasResult, Here, Successful
<1>4. ReviewTypeOK'
  BY <1>1 DEF TrialInd, ReviewTypeOK
<1>5. OpensKept'
  BY <1>1 DEF TrialInd, OpensKept, Open, HasResult, Asked, Block, Asking, BlockOf
<1>6. BlocksKept'
  BY <1>1 DEF TrialInd, BlocksKept, BlocksIn, Settled, BlockOf
<1> QED BY <1>2, <1>3, <1>4, <1>5, <1>6 DEF TrialInd

LEMMA TrialKeeps == TrialInd /\ TrialNext => TrialInd'
<1> SUFFICES ASSUME TrialInd, TrialNext PROVE TrialInd'
  OBVIOUS
<1> USE TrialIndParts
<1>1. CASE FulltextNext /\ UNCHANGED reviewVars
  <2>1. FulltextTypeOK' /\ RowsKept'
    BY <1>1, FulltextTypes, RowsNext
  <2>2. SpotsKept' /\ request' = request
    BY <1>1, SpotsNext, KeptParts DEF ReviewKept
  <2>3. UNCHANGED <<wanted, reviewer, prepared, body, fit, table, asked, reviews>>
    BY <1>1 DEF reviewVars
  <2>4. ReviewTypeOK'
    BY <2>3 DEF ReviewKept, ReviewTypeOK
  <2>5. RequestsKept' /\ PlaceKept'
    BY <2>2, <2>3, KeptParts DEF ReviewKept, RequestsKept, PlaceKept, Asked, Block, Asking, BlockOf
  <2>6. BlocksKept'
    BY <2>2, <2>3 DEF ReviewKept, BlocksKept, BlocksIn, Settled, BlockOf
  <2> QED BY <2>1, <2>2, <2>4, <2>5, <2>6, KeptParts, TrialIndPartsNext DEF ReviewKept
<1>2. CASE ReviewNext
  <2>1. UNCHANGED <<runnerVars, worldVars, doc, index, pinned, begun, pend, result>>
    BY <1>2, ReviewFrame
  <2>2. RowsKept'
    BY <2>1 DEF RowsKept, HasResult, Here, Successful, runnerVars, worldVars
  <2>3. FulltextTypeOK' /\ ReviewKept'
    BY <1>2, SubmitKeeps, SaveKeeps, QuietKeeps
  <2> QED BY <2>2, <2>3, TrialIndPartsNext
<1> QED BY <1>1, <1>2 DEF TrialNext

LEMMA OpensHold == TrialInd => OneOpenEach
<1> SUFFICES ASSUME TrialInd PROVE OneOpenEach
  OBVIOUS
<1>1. Cardinality({s \in Spots : Open(s)}) <= 1
  <2>1. \A s, u \in {s \in Spots : Open(s)} : s = u
    BY DEF TrialInd, OpensKept
  <2> QED BY <2>1, AtMostOne
<1>2. Cardinality({r \in Requests : Asked(r)}) <= 1
  <2>1. \A r, q \in {r \in Requests : Asked(r)} : r = q
    BY DEF TrialInd, OpensKept
  <2> QED BY <2>1, AtMostOne
<1>3. \A r \in Requests : asked[r] <= 1
  BY DEF TrialInd, OpensKept
<1> QED BY <1>1, <1>2, <1>3 DEF OneOpenEach

LEMMA TablesHold == TrialInd => TablesOfOneInput
BY DEF TrialInd, BlocksKept, Settled, TablesOfOneInput
-----------------------------------------------------------------------------
(* The theorems. *)

\* What the scripts of both scenes keep.
BatchInd == CampaignInd /\ BudgetInd /\ TrialInd

\* Each script keeps its own part, whatever is killed, refused or resumed.
THEOREM BatchInvariant == Spec => []BatchInd
<1>1. Init => BatchInd
  BY CampaignBegins, BudgetBegins, TrialBegins DEF Init, BatchInd
<1>2. BatchInd /\ [Next]_vars => BatchInd'
  <2> SUFFICES ASSUME BatchInd, [Next]_vars PROVE BatchInd'
    OBVIOUS
  <2>1. CampaignNext \/ UNCHANGED campaignVars
    BY DEF Next, vars
  <2>2. TrialNext \/ UNCHANGED trialVars
    BY DEF Next, vars
  <2>3. CampaignInd'
    BY <2>1, CampaignKeeps, CampaignStutters DEF BatchInd
  <2>4. BudgetInd'
    BY <2>1, <2>3, BudgetKeeps, BudgetStutters DEF BatchInd
  <2>5. TrialInd'
    BY <2>2, TrialKeeps, TrialStutters DEF BatchInd
  <2> QED BY <2>3, <2>4, <2>5 DEF BatchInd
<1> QED BY <1>1, <1>2, PTL DEF Spec

\* No phase of a campaign or a repair begins before those before it have passed
\* their gates, nor is a batch reported complete before all of them have, in
\* whatever order batches are begun, killed and resumed (main of
\* run_m3_abc_research.py and of run_m3_rag_repair.py).
THEOREM GatesAreHeld == Spec => []GatesHold
BY BatchInvariant, PTL DEF BatchInd, CampaignInd

\* The calls made and those of the cells under way stay within the authorization,
\* but for calls a cell did not reserve, whatever is begun, killed, refused or
\* resumed (the validations of run_m3_abc_research.py and run_m3_rag_repair.py at
\* APPROVED_TOTAL_REQUEST_BUDGET).
THEOREM CallsAreAuthorized == Spec => []WithinAuthorization
BY BatchInvariant, BudgetHolds, PTL DEF BatchInd

\* Of the cells of the full-text batch, and of the requests of its review, one at
\* most is without an outcome, and no request of the review is sent twice
\* (check_budget and model_request).
THEOREM OneOpenAtATime == Spec => []OneOpenEach
BY BatchInvariant, OpensHold, PTL DEF BatchInd

\* A final table of the review was judged on one list of items, however many
\* starts asked for its blocks while the batch grew (model_request, finalize).
THEOREM TablesAreOfOneInput == Spec => []TablesOfOneInput
BY BatchInvariant, TablesHold, PTL DEF BatchInd

\* A batch that says it is completed has every planned cell answered by one call
\* at most, and all its calls in rows (run_batch and validate_wire_archive).
THEOREM CompletedAreClean == Spec => []CompletedIsClean
BY BatchInvariant, CompletedHolds, PTL DEF BatchInd, TrialInd
=============================================================================
