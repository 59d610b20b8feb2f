---------------------------- MODULE OfflineMatrix ----------------------------
(***************************************************************************)
(* evaluation/m3_acceptance.py: the offline acceptance matrix.  The runner *)
(* works through its cells in order, each against a gateway of its own with *)
(* a local model, and keeps one row file and one event file per cell, so    *)
(* that a killed run can be resumed; at the end it writes a summary and two *)
(* blind rating templates, which two people fill in and audit_scores        *)
(* compares.                                                               *)
(*                                                                         *)
(* One runner works at a time.  A step is one file written; a kill between  *)
(* two steps leaves the files and loses the rest.  The gateway lives in a   *)
(* temporary directory: nothing of it outlives the runner.                  *)
(***************************************************************************)
EXTENDS Naturals, Sequences, FiniteSets

CONSTANTS
  Units,      \* the cells in the order of the run: [phase, of]
  MaxStarts,  \* bound: times the runner is started
  MaxKills,   \* bound: times it is killed
  MaxChanges, \* bound: changes of the repository
  NoFile

Phases == {"main", "replay", "rag_ablation"}

\* A replay names the main cell it repeats; the others name none.
ASSUME MatrixAssumption ==
  /\ Units \in Seq([phase : Phases, of : 0..Len(Units)])
  /\ \A u \in 1..Len(Units) : Units[u].phase = "replay" <=> Units[u].of \in 1..(u - 1)
  /\ MaxStarts \in Nat /\ MaxKills \in Nat /\ MaxChanges \in Nat

VARIABLES
  code,      \* the repository: what repository_fingerprint would say
  loaded,    \* the code the runner was started with
  matrixAt,  \* where the runner is
  unit,      \* the cell it is at
  manifest, rows, eventFiles, summary, packets,   \* the files of the run
  agreement, \* rater-agreement.json
  starts, kills

matrixVars == <<code, loaded, matrixAt, unit, manifest, rows, eventFiles, summary,
                packets, agreement, starts, kills>>

Cells == DOMAIN Units
Main == {u \in Cells : Units[u].phase = "main"}
Raters == {1, 2}

NoRow == [status |-> "none", code |-> 0, session |-> FALSE, text |-> FALSE]
Row == [status : {"completed", "failed"}, code : 0..MaxChanges,
        session : BOOLEAN, text : BOOLEAN]
Result == {"framework_passed", "needs_attention"}
Manifest == [code : 0..MaxChanges, status : {"running"} \cup Result, units : SUBSET Cells]
\* A rating template: the ids its items got, the rows whose answers it shows,
\* and whether its rater has filled it in, well or with a value off the scale.
Packet == [ids : 0..MaxStarts, shown : SUBSET Main, rated : {"no", "yes", "off_scale"}]

ASSUME NoFileAssumption == NoFile # "agreed" /\ NoFile \notin Packet

MatrixTypeOK ==
  /\ code \in 0..MaxChanges /\ loaded \in 0..MaxChanges
  /\ matrixAt \in {"idle", "cell", "events", "progress", "report", "templates", "second", "last"}
  /\ unit \in 1..(Len(Units) + 1)
  /\ manifest = NoFile \/ manifest \in Manifest
  /\ rows \in [Cells -> Row \cup {NoRow}]
  /\ eventFiles \subseteq Cells
  /\ summary \in Result \cup {NoFile}
  /\ packets \in [Raters -> Packet \cup {NoFile}]
  /\ agreement \in {NoFile, "agreed"}
  /\ starts \in 0..MaxStarts /\ kills \in 0..MaxKills

MatrixInit ==
  /\ code = 0 /\ loaded = 0 /\ matrixAt = "idle" /\ unit = 1
  /\ manifest = NoFile /\ rows = [u \in Cells |-> NoRow] /\ eventFiles = {}
  /\ summary = NoFile /\ packets = [r \in Raters |-> NoFile] /\ agreement = NoFile
  /\ starts = 0 /\ kills = 0

-----------------------------------------------------------------------------
(* The runner *)

\* _validate_resume_config: the fixtures are derived from the repository too,
\* so one fingerprint stands for every frozen key.
SameConfig == manifest.code = code

\* A fresh run needs a directory without manifest, a resumed one its manifest.
StartMatrix(resume) ==
  /\ matrixAt = "idle" /\ starts < MaxStarts
  /\ IF manifest = NoFile
       THEN ~resume /\ manifest' = [code |-> code, status |-> "running", units |-> {}]
       ELSE resume /\ SameConfig /\ UNCHANGED manifest
  /\ loaded' = code /\ matrixAt' = "cell" /\ unit' = 1 /\ starts' = starts + 1
  /\ UNCHANGED <<code, rows, eventFiles, summary, packets, agreement, kills>>

Working == UNCHANGED <<code, loaded, agreement, starts, kills>>

Finished(u) == rows[u].status = "completed"

SkipCell ==
  /\ matrixAt = "cell" /\ unit \in Cells /\ Finished(unit)
  /\ unit' = unit + 1
  /\ UNCHANGED <<matrixAt, manifest, rows, eventFiles, summary, packets>> /\ Working

\* What _run_cell may give: an answered turn, a failed one, or an exception
\* before (no session) or while (no answer in time) the turn ran; an exception's
\* row names no session.
Outcomes == {[status |-> "completed", session |-> TRUE, text |-> TRUE],
             [status |-> "failed", session |-> TRUE, text |-> FALSE],
             [status |-> "failed", session |-> FALSE, text |-> FALSE]}

RunCell ==
  /\ matrixAt = "cell" /\ unit \in Cells /\ ~Finished(unit)
  /\ \E o \in Outcomes :
       rows' = [rows EXCEPT ![unit] = [status |-> o.status, code |-> loaded,
                                       session |-> o.session, text |-> o.text]]
  /\ matrixAt' = "events"
  /\ UNCHANGED <<unit, manifest, eventFiles, summary, packets>> /\ Working

WriteEvents ==
  /\ matrixAt = "events"
  /\ eventFiles' = eventFiles \cup {unit} /\ matrixAt' = "progress"
  /\ UNCHANGED <<unit, manifest, rows, summary, packets>> /\ Working

\* completed_units: every cell with a row file, the failed ones too.
RowFiles == {u \in Cells : rows[u] # NoRow}
WriteProgress ==
  /\ matrixAt = "progress"
  /\ manifest' = [manifest EXCEPT !.units = RowFiles]
  /\ matrixAt' = "cell" /\ unit' = unit + 1
  /\ UNCHANGED <<rows, eventFiles, summary, packets>> /\ Working

MatrixDone ==
  /\ matrixAt = "cell" /\ unit = Len(Units) + 1
  /\ matrixAt' = "report"
  /\ UNCHANGED <<unit, manifest, rows, eventFiles, summary, packets>> /\ Working

AllComplete == RowFiles = Cells /\ \A u \in Cells : rows[u].status = "completed"
\* Session ids are fresh: the rows are isolated if every one names a session.
Isolated == \A u \in RowFiles : rows[u].session
Outcome == IF AllComplete /\ Isolated THEN "framework_passed" ELSE "needs_attention"

WriteSummary ==
  /\ matrixAt \in {"report", "last"}
  /\ IF matrixAt = "report"
       THEN summary' = Outcome /\ matrixAt' = "templates" /\ UNCHANGED manifest
       \* the second summary, and the manifest with its status
       ELSE /\ summary' = Outcome /\ matrixAt' = "idle"
            /\ manifest' = [manifest EXCEPT !.status = Outcome]
  /\ UNCHANGED <<unit, rows, eventFiles, packets>> /\ Working

KeepsTemplate(r) == packets[r] # NoFile
Template == [ids |-> starts, shown |-> {u \in Main : rows[u].text}, rated |-> "no"]

\* Every call of _score_templates draws new ids; each rater's file is written
\* only if it is not there.
WriteTemplate ==
  /\ matrixAt \in {"templates", "second"}
  /\ LET r == IF matrixAt = "templates" THEN 1 ELSE 2
     IN  packets' = IF KeepsTemplate(r) THEN packets ELSE [packets EXCEPT ![r] = Template]
  /\ matrixAt' = IF matrixAt = "templates" THEN "second" ELSE "last"
  /\ UNCHANGED <<unit, manifest, rows, eventFiles, summary>> /\ Working

KillMatrix ==
  /\ matrixAt # "idle" /\ kills < MaxKills
  /\ matrixAt' = "idle" /\ kills' = kills + 1
  /\ UNCHANGED <<code, loaded, unit, manifest, rows, eventFiles, summary, packets, agreement, starts>>

-----------------------------------------------------------------------------
(* The others *)

ChangeCode ==
  /\ code < MaxChanges
  /\ code' = code + 1
  /\ UNCHANGED <<loaded, matrixAt, unit, manifest, rows, eventFiles, summary, packets,
                 agreement, starts, kills>>

Rate(r) ==
  /\ packets[r] # NoFile /\ packets[r].rated # "yes"
  /\ \E v \in {"yes", "off_scale"} \ {packets[r].rated} :
       packets' = [packets EXCEPT ![r].rated = v]
  /\ UNCHANGED <<code, loaded, matrixAt, unit, manifest, rows, eventFiles, summary,
                 agreement, starts, kills>>

\* Mutant: the items are taken to be the same.
SameItems_Assumed == TRUE
SameItems == packets[1].ids = packets[2].ids

\* audit_scores: both templates, the same ids, no value off its scale; an
\* unrated item is left out of the counts.
AuditScores ==
  /\ \A r \in Raters : packets[r] # NoFile
  /\ SameItems
  /\ \A r \in Raters : packets[r].rated # "off_scale"
  /\ agreement' = "agreed"
  /\ UNCHANGED <<code, loaded, matrixAt, unit, manifest, rows, eventFiles, summary,
                 packets, starts, kills>>

RunnerStep == SkipCell \/ RunCell \/ WriteEvents \/ WriteProgress \/ MatrixDone
              \/ WriteSummary \/ WriteTemplate

MatrixNext ==
  \/ \E resume \in BOOLEAN : StartMatrix(resume)
  \/ RunnerStep \/ KillMatrix \/ ChangeCode
  \/ \E r \in Raters : Rate(r)
  \/ AuditScores

-----------------------------------------------------------------------------
(* Properties *)

\* An agreement is computed only over templates of one drawing, which show the
\* raters the same answers.
SameAnswersRated == agreement = "agreed" =>
  packets[1].ids = packets[2].ids /\ packets[1].shown = packets[2].shown

(* The inductive invariant behind it. *)

\* A template has the number of the start that drew it; where the runner may be
\* while a template of its own start is there.
DrawnAt(r) ==
  packets[r] # NoFile =>
    /\ packets[r].ids <= starts
    /\ packets[r].ids = starts => matrixAt \in {"idle", "last"} \/ (r = 1 /\ matrixAt = "second")

\* Between the two templates of a start no row changes.
MatrixInd ==
  /\ MatrixTypeOK
  /\ matrixAt # "idle" => manifest \in Manifest
  /\ matrixAt \in {"events", "progress"} => unit \in Cells
  /\ \A r \in Raters : DrawnAt(r)
  /\ matrixAt = "second" /\ packets[1] # NoFile /\ packets[1].ids = starts =>
       packets[1].shown = {u \in Main : rows[u].text}
  /\ packets[1] # NoFile /\ packets[2] # NoFile /\ packets[1].ids = packets[2].ids =>
       packets[1].shown = packets[2].shown
  /\ agreement = "agreed" =>
       packets[1] # NoFile /\ packets[2] # NoFile /\ packets[1].ids = packets[2].ids
=============================================================================
