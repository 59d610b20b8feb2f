------------------------- MODULE HarnessRuns_proofs -------------------------
(***************************************************************************)
(* Proofs about the experiment scripts: the inductive invariants of the    *)
(* offline matrix (MatrixInd), of the live experiment (ReceiptInd, RowsInd) *)
(* and of the acceptance batch (BatchInd), and what follows from them.     *)
(***************************************************************************)
EXTENDS HarnessRuns, FiniteSetTheorems, SequenceTheorems, TLAPS

(* The offline matrix: the two templates of one drawing show the same answers. *)

LEMMA MatrixInitInd == MatrixInit => MatrixInd
<1> SUFFICES ASSUME MatrixInit PROVE MatrixInd
  OBVIOUS
<1>0. Len(Units) \in Nat
  BY MatrixAssumption
<1>1. 0 \in 0..MaxChanges /\ 0 \in 0..MaxStarts /\ 0 \in 0..MaxKills /\ 1 \in 1..(Len(Units) + 1)
  BY <1>0, MatrixAssumption
<1>2. packets \in [Raters -> Packet \cup {NoFile}] /\ \A r \in Raters : packets[r] = NoFile
  BY DEF MatrixInit
<1>3. MatrixTypeOK
  BY <1>1, <1>2 DEF MatrixInit, MatrixTypeOK
<1>4. packets[1] = NoFile /\ packets[2] = NoFile /\ matrixAt = "idle" /\ agreement = NoFile
  BY <1>2 DEF MatrixInit, Raters
<1> QED BY <1>2, <1>3, <1>4, NoFileAssumption DEF MatrixInd, DrawnAt

LEMMA MatrixTypes ==
  ASSUME MatrixInd
  PROVE  /\ MatrixTypeOK /\ Len(Units) \in Nat /\ Cells = 1..Len(Units)
         /\ unit \in Nat /\ starts \in Nat
BY MatrixAssumption DEF MatrixInd, MatrixTypeOK, Cells

\* A step that leaves the templates alone, with what it must say of the runner.
LEMMA MatrixFrame ==
  ASSUME MatrixInd, MatrixTypeOK', packets' = packets, starts' = starts, agreement' = agreement,
         matrixAt' # "idle" => manifest' \in Manifest,
         matrixAt' \in {"events", "progress"} => unit' \in Cells,
         \/ matrixAt' = matrixAt /\ rows' = rows
         \/ matrixAt \notin {"second", "last", "idle"} /\ matrixAt' \notin {"second", "last", "idle"}
         \/ matrixAt' = "idle"
  PROVE  MatrixInd'
<1>1. ASSUME NEW r \in Raters PROVE DrawnAt(r)'
  <2> SUFFICES ASSUME packets[r] # NoFile
               PROVE  /\ packets[r].ids <= starts
                      /\ packets[r].ids = starts =>
                           matrixAt' \in {"idle", "last"} \/ (r = 1 /\ matrixAt' = "second")
    BY DEF DrawnAt
  <2> QED BY DEF MatrixInd, DrawnAt
<1>2. matrixAt' = "second" /\ packets'[1] # NoFile /\ packets'[1].ids = starts' =>
        packets'[1].shown = {u \in Main : rows'[u].text}
  BY DEF MatrixInd
<1> QED BY <1>1, <1>2 DEF MatrixInd

LEMMA OutcomeRow ==
  ASSUME NEW o \in Outcomes, NEW n \in 0..MaxChanges
  PROVE  [status |-> o.status, code |-> n, session |-> o.session, text |-> o.text] \in Row
<1>1. CASE o = [status |-> "completed", session |-> TRUE, text |-> TRUE]
  BY <1>1 DEF Row
<1>2. CASE o = [status |-> "failed", session |-> TRUE, text |-> FALSE]
  BY <1>2 DEF Row
<1>3. CASE o = [status |-> "failed", session |-> FALSE, text |-> FALSE]
  BY <1>3 DEF Row
<1> QED BY <1>1, <1>2, <1>3 DEF Outcomes

LEMMA SkipCellInd == ASSUME MatrixInd, SkipCell PROVE MatrixInd'
<1>0. MatrixTypeOK /\ Len(Units) \in Nat /\ Cells = 1..Len(Units) /\ unit \in Nat
  BY MatrixTypes
<1>1. unit + 1 \in 1..(Len(Units) + 1)
  BY <1>0 DEF SkipCell
<1>2. MatrixTypeOK'
  BY <1>0, <1>1 DEF SkipCell, Working, MatrixTypeOK
<1> QED BY <1>2, MatrixFrame DEF SkipCell, Working, MatrixInd

LEMMA RunCellInd == ASSUME MatrixInd, RunCell PROVE MatrixInd'
<1>0. MatrixTypeOK
  BY DEF MatrixInd
<1>1. PICK o \in Outcomes :
        rows' = [rows EXCEPT ![unit] = [status |-> o.status, code |-> loaded,
                                        session |-> o.session, text |-> o.text]]
  BY DEF RunCell
<1> DEFINE new == [status |-> o.status, code |-> loaded, session |-> o.session, text |-> o.text]
<1>2. new \in Row
  BY <1>0, OutcomeRow DEF MatrixTypeOK
<1> HIDE DEF new
<1>3. rows' = [rows EXCEPT ![unit] = new]
  BY <1>1 DEF new
<1>4. rows' \in [Cells -> Row \cup {NoRow}]
  BY <1>0, <1>2, <1>3 DEF MatrixTypeOK
<1>5. MatrixTypeOK'
  BY <1>0, <1>4 DEF RunCell, Working, MatrixTypeOK
<1> QED BY <1>5, MatrixFrame DEF RunCell, Working, MatrixInd

LEMMA WriteEventsInd == ASSUME MatrixInd, WriteEvents PROVE MatrixInd'
<1>1. unit \in Cells
  BY DEF WriteEvents, MatrixInd
<1>2. MatrixTypeOK'
  BY <1>1 DEF MatrixInd, WriteEvents, Working, MatrixTypeOK
<1> QED BY <1>1, <1>2, MatrixFrame DEF WriteEvents, Working, MatrixInd

LEMMA WriteProgressInd == ASSUME MatrixInd, WriteProgress PROVE MatrixInd'
<1>0. MatrixTypeOK /\ Len(Units) \in Nat /\ Cells = 1..Len(Units) /\ unit \in Nat
  BY MatrixTypes
<1>1. unit \in Cells /\ manifest \in Manifest
  BY DEF WriteProgress, MatrixInd
<1>2. unit + 1 \in 1..(Len(Units) + 1)
  BY <1>0, <1>1
<1>3. manifest' \in Manifest
  <2>1. RowFiles \in SUBSET Cells
    BY DEF RowFiles
  <2> QED BY <1>1, <2>1 DEF WriteProgress, Manifest
<1>4. MatrixTypeOK'
  BY <1>0, <1>2, <1>3 DEF WriteProgress, Working, MatrixTypeOK
<1> QED BY <1>3, <1>4, MatrixFrame DEF WriteProgress, Working

LEMMA MatrixDoneInd == ASSUME MatrixInd, MatrixDone PROVE MatrixInd'
<1>1. MatrixTypeOK'
  BY DEF MatrixInd, MatrixDone, Working, MatrixTypeOK
<1> QED BY <1>1, MatrixFrame DEF MatrixDone, Working, MatrixInd

LEMMA WriteSummaryInd == ASSUME MatrixInd, WriteSummary PROVE MatrixInd'
<1>1. Outcome \in Result
  BY DEF Outcome, Result
<1>2. manifest \in Manifest
  BY DEF WriteSummary, MatrixInd
<1>3. manifest' \in Manifest
  <2>1. RowFiles \in SUBSET Cells
    BY DEF RowFiles
  <2>2. Outcome \in {"running"} \cup Result
    BY <1>1
  <2> QED BY <1>2, <2>1, <2>2 DEF WriteSummary, Manifest
<1>4. summary' \in Result
  BY <1>1 DEF WriteSummary
<1>5. MatrixTypeOK'
  BY <1>3, <1>4 DEF WriteSummary, Working, MatrixTypeOK, MatrixInd
<1> QED BY <1>3, <1>5, MatrixFrame DEF WriteSummary, Working

LEMMA TemplateIsPacket == ASSUME MatrixInd PROVE Template \in Packet
<1>1. starts \in 0..MaxStarts
  BY DEF MatrixInd, MatrixTypeOK
<1>2. {u \in Main : rows[u].text} \in SUBSET Main
  OBVIOUS
<1> QED BY <1>1, <1>2 DEF Template, Packet

LEMMA TemplateSays == Template.ids = starts /\ Template.shown = {u \in Main : rows[u].text}
BY DEF Template

\* The runner draws the first template, if it is not there.
LEMMA FirstTemplateInd == ASSUME MatrixInd, WriteTemplate, matrixAt = "templates" PROVE MatrixInd'
<1>0. MatrixTypeOK /\ starts \in Nat
  BY MatrixTypes
<1>1. /\ packets' = IF KeepsTemplate(1) THEN packets ELSE [packets EXCEPT ![1] = Template]
      /\ matrixAt' = "second" /\ UNCHANGED <<unit, manifest, rows, eventFiles, summary>> /\ Working
  BY DEF WriteTemplate
<1>2. packets \in [Raters -> Packet \cup {NoFile}] /\ Template \in Packet
  BY <1>0, TemplateIsPacket DEF MatrixTypeOK
<1>3. packets' \in [Raters -> Packet \cup {NoFile}]
  BY <1>1, <1>2
<1>4. MatrixTypeOK'
  BY <1>0, <1>1, <1>3 DEF Working, MatrixTypeOK
<1>5. manifest' \in Manifest
  BY <1>1 DEF MatrixInd
<1>6. CASE KeepsTemplate(1)
  <2>1. packets[1].ids # starts /\ packets[1].ids <= starts
    BY <1>6 DEF KeepsTemplate, MatrixInd, DrawnAt, Raters
  <2>2. packets' = packets
    BY <1>1, <1>6
  <2>3. ASSUME NEW r \in Raters PROVE DrawnAt(r)'
    <3>1. packets[r] # NoFile => packets[r].ids <= starts /\ packets[r].ids # starts
      BY DEF MatrixInd, DrawnAt
    <3> QED BY <1>1, <2>2, <3>1 DEF DrawnAt, Working
  <2> QED BY <1>1, <1>4, <1>5, <2>1, <2>2, <2>3 DEF MatrixInd, Working
<1>7. CASE ~KeepsTemplate(1)
  <2>1. packets[1] = NoFile /\ packets' = [packets EXCEPT ![1] = Template]
    BY <1>1, <1>7 DEF KeepsTemplate
  <2>2. packets'[1] = Template /\ packets'[2] = packets[2]
    BY <1>2, <2>1 DEF Raters
  <2>3. packets[2] # NoFile => packets[2].ids <= starts /\ packets[2].ids # starts
    BY DEF MatrixInd, DrawnAt, Raters
  <2>4. packets'[1].ids = starts /\ packets'[1].shown = {u \in Main : rows[u].text}
    BY <2>2, TemplateSays
  <2>5. DrawnAt(1)' /\ DrawnAt(2)'
    BY <1>0, <1>1, <2>2, <2>3, <2>4 DEF DrawnAt, Working
  <2>6. \A r \in Raters : DrawnAt(r)'
    BY <2>5 DEF Raters
  <2>7. agreement # "agreed"
    BY <2>1 DEF MatrixInd
  <2>8. packets'[2] # NoFile => packets'[1].ids # packets'[2].ids
    BY <2>2, <2>3, <2>4
  <2> QED BY <1>1, <1>4, <1>5, <2>4, <2>6, <2>7, <2>8 DEF MatrixInd, Working
<1> QED BY <1>6, <1>7

\* The second: if the first was drawn by this start, no row has changed since.
LEMMA SecondTemplateInd == ASSUME MatrixInd, WriteTemplate, matrixAt = "second" PROVE MatrixInd'
<1>0. MatrixTypeOK /\ starts \in Nat
  BY MatrixTypes
<1>1. /\ packets' = IF KeepsTemplate(2) THEN packets ELSE [packets EXCEPT ![2] = Template]
      /\ matrixAt' = "last" /\ UNCHANGED <<unit, manifest, rows, eventFiles, summary>> /\ Working
  BY DEF WriteTemplate
<1>2. packets \in [Raters -> Packet \cup {NoFile}] /\ Template \in Packet
  BY <1>0, TemplateIsPacket DEF MatrixTypeOK
<1>3. packets' \in [Raters -> Packet \cup {NoFile}]
  BY <1>1, <1>2
<1>4. MatrixTypeOK'
  BY <1>0, <1>1, <1>3 DEF Working, MatrixTypeOK
<1>5. manifest' \in Manifest
  BY <1>1 DEF MatrixInd
<1>6. CASE KeepsTemplate(2)
  <2>1. packets' = packets
    BY <1>1, <1>6
  <2>2. ASSUME NEW r \in Raters PROVE DrawnAt(r)'
    BY <1>1, <2>1 DEF MatrixInd, DrawnAt, Working
  <2> QED BY <1>1, <1>4, <1>5, <2>1, <2>2 DEF MatrixInd, Working
<1>7. CASE ~KeepsTemplate(2)
  <2>1. packets[2] = NoFile /\ packets' = [packets EXCEPT ![2] = Template]
    BY <1>1, <1>7 DEF KeepsTemplate
  <2>2. packets'[2] = Template /\ packets'[1] = packets[1]
    BY <1>2, <2>1 DEF Raters
  <2>3. packets'[2].ids = starts /\ packets'[2].shown = {u \in Main : rows[u].text}
    BY <2>2, TemplateSays
  <2>4. packets[1] # NoFile => packets[1].ids <= starts
    BY DEF MatrixInd, DrawnAt, Raters
  <2>5. DrawnAt(1)' /\ DrawnAt(2)'
    BY <1>0, <1>1, <2>2, <2>3, <2>4 DEF DrawnAt, Working
  <2>6. \A r \in Raters : DrawnAt(r)'
    BY <2>5 DEF Raters
  <2>7. agreement # "agreed"
    BY <2>1 DEF MatrixInd
  <2>8. packets'[1] # NoFile /\ packets'[1].ids = packets'[2].ids =>
          packets'[1].shown = packets'[2].shown
    BY <2>2, <2>3 DEF MatrixInd
  <2> QED BY <1>1, <1>4, <1>5, <2>6, <2>7, <2>8 DEF MatrixInd, Working
<1> QED BY <1>6, <1>7

LEMMA StartMatrixInd ==
  ASSUME MatrixInd, NEW resume \in BOOLEAN, StartMatrix(resume) PROVE MatrixInd'
<1>0. MatrixTypeOK /\ Len(Units) \in Nat /\ starts \in Nat
  BY MatrixTypes
<1>1. code \in 0..MaxChanges /\ 1 \in 1..(Len(Units) + 1)
  BY <1>0 DEF MatrixTypeOK
<1>2. starts' = starts + 1 /\ starts' \in 0..MaxStarts
  BY <1>0, MatrixAssumption DEF StartMatrix
<1>3. manifest' \in Manifest
  <2>1. CASE manifest = NoFile
    BY <1>1, <2>1 DEF StartMatrix, Manifest
  <2>2. CASE manifest # NoFile
    BY <1>0, <2>2 DEF StartMatrix, MatrixTypeOK
  <2> QED BY <2>1, <2>2
<1>4. MatrixTypeOK'
  BY <1>0, <1>1, <1>2, <1>3 DEF StartMatrix, MatrixTypeOK
<1>5. ASSUME NEW r \in Raters PROVE DrawnAt(r)'
  <2>1. packets[r] # NoFile => packets[r].ids \in Nat /\ packets[r].ids <= starts
    BY <1>0, MatrixAssumption DEF MatrixInd, DrawnAt, MatrixTypeOK, Packet
  <2>2. packets[r] # NoFile => packets[r].ids <= starts' /\ packets[r].ids # starts'
    BY <1>0, <1>2, <2>1
  <2> QED BY <2>2 DEF DrawnAt, StartMatrix
<1> QED BY <1>3, <1>4, <1>5 DEF MatrixInd, StartMatrix

\* A rater fills in a template: what was drawn stays.
LEMMA RateInd == ASSUME MatrixInd, NEW q \in Raters, Rate(q) PROVE MatrixInd'
<1>1. PICK v \in {"yes", "off_scale"} : packets' = [packets EXCEPT ![q].rated = v]
  BY DEF Rate
<1>2. packets \in [Raters -> Packet \cup {NoFile}] /\ packets[q] \in Packet
  BY DEF Rate, MatrixInd, MatrixTypeOK
<1> DEFINE new == [packets[q] EXCEPT !.rated = v]
<1>3. /\ new \in Packet /\ new.ids = packets[q].ids /\ new.shown = packets[q].shown
  BY <1>2 DEF Packet
<1>4. packets' = [packets EXCEPT ![q] = new]
  BY <1>1, <1>2
<1> HIDE DEF new
<1>5. packets' \in [Raters -> Packet \cup {NoFile}]
  BY <1>2, <1>3, <1>4
<1>6. ASSUME NEW r \in Raters
      PROVE  /\ packets'[r] # NoFile => packets[r] # NoFile
             /\ packets[r] # NoFile => /\ packets'[r] # NoFile
                                       /\ packets'[r].ids = packets[r].ids
                                       /\ packets'[r].shown = packets[r].shown
  BY <1>2, <1>3, <1>4, NoFileAssumption DEF Rate
<1>7. 1 \in Raters /\ 2 \in Raters
  BY DEF Raters
<1>8. MatrixTypeOK'
  BY <1>5 DEF Rate, MatrixInd, MatrixTypeOK
<1>9. ASSUME NEW r \in Raters PROVE DrawnAt(r)'
  BY <1>6 DEF Rate, MatrixInd, DrawnAt
<1>11. agreement' = "agreed" => packets'[1] # NoFile /\ packets'[2] # NoFile
                               /\ packets'[1].ids = packets'[2].ids
  BY <1>6, <1>7 DEF Rate, MatrixInd
<1> QED BY <1>6, <1>7, <1>8, <1>9, <1>11 DEF Rate, MatrixInd

LEMMA KillMatrixInd == ASSUME MatrixInd, KillMatrix PROVE MatrixInd'
<1>1. kills \in 0..MaxKills /\ kills < MaxKills /\ kills' = kills + 1
  BY DEF MatrixInd, MatrixTypeOK, KillMatrix
<1>2. kills' \in 0..MaxKills
  BY <1>1, MatrixAssumption
<1>3. MatrixTypeOK'
  BY <1>2 DEF MatrixInd, KillMatrix, MatrixTypeOK
<1> QED BY <1>3, MatrixFrame DEF KillMatrix

LEMMA ChangeCodeInd == ASSUME MatrixInd, ChangeCode PROVE MatrixInd'
<1>1. code \in 0..MaxChanges /\ code < MaxChanges /\ code' = code + 1
  BY DEF MatrixInd, MatrixTypeOK, ChangeCode
<1>2. code' \in 0..MaxChanges
  BY <1>1, MatrixAssumption
<1>3. MatrixTypeOK'
  BY <1>2 DEF MatrixInd, ChangeCode, MatrixTypeOK
<1> QED BY <1>3, MatrixFrame DEF ChangeCode, MatrixInd

LEMMA AuditScoresInd == ASSUME MatrixInd, AuditScores PROVE MatrixInd'
<1>1. MatrixTypeOK'
  BY DEF MatrixInd, AuditScores, MatrixTypeOK
<1>2. packets[1] # NoFile /\ packets[2] # NoFile /\ packets[1].ids = packets[2].ids
  BY DEF AuditScores, SameItems, Raters
<1>3. ASSUME NEW r \in Raters PROVE DrawnAt(r)'
  BY DEF MatrixInd, DrawnAt, AuditScores
<1> QED BY <1>1, <1>2, <1>3 DEF MatrixInd, AuditScores

LEMMA MatrixStep == ASSUME MatrixInd, [MatrixNext]_matrixVars PROVE MatrixInd'
<1>1. CASE UNCHANGED matrixVars
  <2>1. MatrixTypeOK'
    BY <1>1 DEF matrixVars, MatrixInd, MatrixTypeOK
  <2> QED BY <1>1, <2>1, MatrixFrame DEF matrixVars, MatrixInd
<1>2. CASE RunnerStep
  BY <1>2, SkipCellInd, RunCellInd, WriteEventsInd, WriteProgressInd, MatrixDoneInd,
     WriteSummaryInd, FirstTemplateInd, SecondTemplateInd DEF RunnerStep, WriteTemplate
<1>3. CASE \E resume \in BOOLEAN : StartMatrix(resume)
  BY <1>3, StartMatrixInd
<1>4. CASE \E r \in Raters : Rate(r)
  BY <1>4, RateInd
<1> QED
  BY <1>1, <1>2, <1>3, <1>4, KillMatrixInd, ChangeCodeInd, AuditScoresInd DEF MatrixNext

LEMMA MatrixShows == MatrixInd => SameAnswersRated
BY DEF MatrixInd, SameAnswersRated

-----------------------------------------------------------------------------
(* The live experiment: no command is handled twice. *)

LEMMA ReceiptInitInd == PilotInit => ReceiptInd
<1> SUFFICES ASSUME PilotInit PROVE ReceiptInd
  OBVIOUS
<1>1. receipt \in [{"new", "turn", "cancel"} -> [PilotCells -> ReceiptStates]]
  BY DEF PilotInit, ReceiptStates
<1>2. created \in [PilotCells -> 0..1] /\ accepted \in [PilotCells -> 0..1]
      /\ \A c \in PilotCells : created[c] = 0 /\ accepted[c] = 0
  BY DEF PilotInit
<1>3. cellAt \in PilotCells /\ runnerStarts \in Nat /\ inbox = {}
  BY PilotAssumption DEF PilotInit, PilotCells
<1>4. \A kind \in {"new", "turn"}, c \in PilotCells : Times(kind)[c] # 1
  BY <1>2 DEF Times
<1> QED BY <1>1, <1>2, <1>3, <1>4 DEF ReceiptInd

\* The gateway's side is untouched.
LEMMA RunnerFrame ==
  ASSUME ReceiptInd, cellAt' \in PilotCells, runnerStarts' \in Nat,
         UNCHANGED <<receipt, inbox, created, accepted>>
  PROVE  ReceiptInd'
<1>1. \A kind \in {"new", "turn"}, c \in PilotCells : Times(kind)'[c] = Times(kind)[c]
  BY DEF Times
<1> QED BY <1>1 DEF ReceiptInd

LEMMA AdvanceCell ==
  ASSUME cellAt \in PilotCells, NEW n, NEW s, NEW stopped, Advance(cellAt, n, s, stopped)
  PROVE  cellAt' \in PilotCells
<1>1. cellAt \in Nat /\ cellAt <= CellCount /\ 1 <= cellAt /\ CellCount \in Nat
  BY PilotAssumption DEF PilotCells
<1>2. cellAt' = cellAt \/ (cellAt # CellCount /\ cellAt' = cellAt + 1)
  BY DEF Advance
<1> QED BY <1>1, <1>2 DEF PilotCells

LEMMA EndedCell == Ended => cellAt' \in PilotCells
BY PilotAssumption DEF Ended, PilotCells

\* A command is posted as sent, so nothing that is being handled changes.
LEMMA PostedInd ==
  ASSUME ReceiptInd, NEW kind \in {"new", "turn"}, Post(kind, cellAt),
         cellAt' \in PilotCells, runnerStarts' \in Nat, UNCHANGED <<receipt, created, accepted>>
  PROVE  ReceiptInd'
<1> DEFINE q == [kind |-> kind, cell |-> cellAt, by |-> runnerStarts, stage |-> "sent"]
<1>1. q \in Commands /\ q.stage = "sent"
  BY DEF Commands, ReceiptInd
<1>2. inbox' = inbox \cup {q}
  BY DEF Post
<1> HIDE DEF q
<1>3. \A k \in {"new", "turn"}, c \in PilotCells : Times(k)'[c] = Times(k)[c]
  BY DEF Times
<1>4. \A p \in inbox' : p.stage = "reserved" => p \in inbox
  BY <1>1, <1>2
<1>5. inbox' \subseteq Commands
  BY <1>1, <1>2 DEF ReceiptInd
<1> QED BY <1>3, <1>4, <1>5 DEF ReceiptInd

LEMMA RunnerActsInd == ASSUME ReceiptInd, Start \/ RunnerSteps \/ KillRunner PROVE ReceiptInd'
<1>0. cellAt \in PilotCells /\ runnerStarts \in Nat /\ runnerStarts + 1 \in Nat
  BY DEF ReceiptInd
<1>1. CASE EnterCell
  <2>1. CASE serving
    BY <1>0, <1>1, <2>1, PostedInd DEF EnterCell
  <2>2. CASE ~serving
    BY <1>0, <1>1, <2>2, EndedCell, RunnerFrame DEF EnterCell, Abort
  <2> QED BY <2>1, <2>2
<1>2. CASE PostTurn
  <2>1. CASE serving
    BY <1>0, <1>2, <2>1, PostedInd DEF PostTurn
  <2>2. CASE ~serving
    BY <1>0, <1>2, <2>2, EndedCell, RunnerFrame DEF PostTurn, Abort
  <2> QED BY <2>1, <2>2
<1>3. CASE GiveUpTurn
  <2>1. receipt' = [receipt EXCEPT !["cancel"][cellAt] = "accepted"]
    BY <1>3 DEF GiveUpTurn
  <2>2. receipt' \in [{"new", "turn", "cancel"} -> [PilotCells -> ReceiptStates]]
    BY <1>0, <2>1 DEF ReceiptInd, ReceiptStates
  <2>3. \A k \in {"new", "turn"} : receipt'[k] = receipt[k]
    BY <2>1 DEF ReceiptInd
  <2>4. \A k \in {"new", "turn"}, c \in PilotCells : Times(k)'[c] = Times(k)[c]
    BY <1>3 DEF Times, GiveUpTurn
  <2>5. UNCHANGED <<inbox, created, accepted, cellAt, runnerStarts>>
    BY <1>3 DEF GiveUpTurn
  <2>6. \A q \in inbox : q.kind \in {"new", "turn"}
    BY DEF ReceiptInd, Commands
  <2> QED BY <1>0, <2>2, <2>3, <2>4, <2>5, <2>6 DEF ReceiptInd
<1>4. CASE Start
  BY <1>0, <1>4, RunnerFrame DEF Start, gateway
<1>5. CASE SkipRow \/ StopAtBudget \/ MarkTerminal
  <2>1. cellAt' \in PilotCells
    BY <1>0, <1>5, AdvanceCell DEF SkipRow, StopAtBudget, MarkTerminal
  <2> QED BY <1>0, <1>5, <2>1, RunnerFrame DEF SkipRow, StopAtBudget, MarkTerminal, gateway
<1>6. CASE NewAnswered \/ Baseline \/ TurnAnswered \/ RequestFails
  BY <1>0, <1>6, EndedCell, RunnerFrame
     DEF NewAnswered, Baseline, TurnAnswered, RequestFails, Abort, gateway
<1>7. CASE ReenterCell \/ PollTerminal \/ CancelConfirmed
  BY <1>0, <1>7, RunnerFrame DEF ReenterCell, PollTerminal, CancelConfirmed, gateway
<1>8. CASE CancelUnconfirmed \/ Finish \/ KillRunner
  BY <1>0, <1>8, EndedCell, RunnerFrame DEF CancelUnconfirmed, Finish, KillRunner, Abort, gateway
<1>9. CASE WriteRow \/ PilotSummary
  BY <1>0, <1>9, RunnerFrame DEF WriteRow, PilotSummary, gateway
<1> QED BY <1>1, <1>2, <1>3, <1>4, <1>5, <1>6, <1>7, <1>8, <1>9 DEF RunnerSteps

\* Of what was received the gateway answers, reserves or handles one command.
LEMMA OneAnswered ==
  ASSUME ReceiptInd, NEW q \in inbox, inbox' = inbox \ {q},
         cellAt' = cellAt, runnerStarts' = runnerStarts,
         receipt' \in [{"new", "turn", "cancel"} -> [PilotCells -> ReceiptStates]],
         created' \in [PilotCells -> 0..1], accepted' \in [PilotCells -> 0..1],
         \A p \in inbox : p.stage = "reserved" /\ p # q =>
           receipt'[p.kind][p.cell] = receipt[p.kind][p.cell],
         \A kind \in {"new", "turn"}, c \in PilotCells :
           Times(kind)'[c] = 1 => receipt'[kind][c] = "accepted"
  PROVE  ReceiptInd'
<1>1. \A p \in inbox' : p \in inbox /\ p # q
  OBVIOUS
<1>2. \A p \in inbox' : p.stage = "reserved" =>
        /\ receipt'[p.kind][p.cell] = "processing"
        /\ \A r \in inbox' : r.stage = "reserved" /\ r.kind = p.kind /\ r.cell = p.cell => r = p
  BY <1>1 DEF ReceiptInd
<1> QED BY <1>1, <1>2 DEF ReceiptInd

LEMMA PriorInd == ASSUME ReceiptInd, NEW q \in inbox, Prior(q) PROVE ReceiptInd'
<1>1. \A k \in {"new", "turn"}, c \in PilotCells : Times(k)'[c] = Times(k)[c]
  BY DEF Times, Prior
<1> QED BY <1>1, OneAnswered DEF Prior, ReceiptInd

\* A reserved command is the only one of its kind and cell with a receipt at all.
LEMMA ReserveInd == ASSUME ReceiptInd, NEW q \in inbox, Reserve(q) PROVE ReceiptInd'
<1> DEFINE r == [q EXCEPT !.stage = "reserved"]
<1>0. q \in Commands /\ r \in Commands /\ r.stage = "reserved" /\ r.kind = q.kind /\ r.cell = q.cell
  BY DEF ReceiptInd, Commands
<1>1. /\ inbox' = (inbox \ {q}) \cup {r} /\ receipt[q.kind][q.cell] = None
      /\ receipt' = [receipt EXCEPT ![q.kind][q.cell] = "processing"]
      /\ UNCHANGED <<cellAt, runnerStarts, created, accepted>>
  BY DEF Reserve, runner
<1> HIDE DEF r
<1>2. q.kind \in {"new", "turn"} /\ q.cell \in PilotCells
  BY <1>0 DEF Commands
<1>3. receipt \in [{"new", "turn", "cancel"} -> [PilotCells -> ReceiptStates]]
  BY DEF ReceiptInd
<1>4. receipt' \in [{"new", "turn", "cancel"} -> [PilotCells -> ReceiptStates]]
  BY <1>1, <1>2, <1>3 DEF ReceiptStates
<1>5. receipt'[q.kind][q.cell] = "processing"
  BY <1>1, <1>2, <1>3
<1>6. ASSUME NEW k \in {"new", "turn"}, NEW c \in PilotCells, k # q.kind \/ c # q.cell
      PROVE  receipt'[k][c] = receipt[k][c]
  <2>1. CASE k # q.kind
    BY <1>1, <1>2, <1>3, <2>1
  <2>2. CASE k = q.kind /\ c # q.cell
    BY <1>1, <1>2, <1>3, <2>2
  <2> QED BY <1>6, <2>1, <2>2
<1>7. ASSUME NEW p \in inbox, p.stage = "reserved"
      PROVE  /\ p.kind \in {"new", "turn"} /\ p.cell \in PilotCells
             /\ p.kind # q.kind \/ p.cell # q.cell
             /\ receipt[p.kind][p.cell] = "processing"
  <2>1. p.kind \in {"new", "turn"} /\ p.cell \in PilotCells /\ receipt[p.kind][p.cell] = "processing"
    BY <1>7 DEF ReceiptInd, Commands
  <2>2. p.kind = q.kind /\ p.cell = q.cell => FALSE
    BY <1>1, <2>1 DEF None
  <2> QED BY <2>1, <2>2
<1>8. ASSUME NEW p \in inbox', p.stage = "reserved"
      PROVE  /\ receipt'[p.kind][p.cell] = "processing"
             /\ \A s \in inbox' : s.stage = "reserved" /\ s.kind = p.kind /\ s.cell = p.cell => s = p
  <2>1. CASE p = r
    <3>1. ASSUME NEW s \in inbox', s.stage = "reserved", s.kind = p.kind, s.cell = p.cell PROVE s = p
      BY <1>0, <1>1, <1>7, <2>1, <3>1
    <3> QED BY <1>0, <1>5, <2>1, <3>1
  <2>2. CASE p # r
    <3>1. p \in inbox
      BY <1>1, <2>2
    <3>2. receipt'[p.kind][p.cell] = "processing"
      BY <1>6, <1>7, <1>8, <3>1
    <3>3. ASSUME NEW s \in inbox', s.stage = "reserved", s.kind = p.kind, s.cell = p.cell PROVE s = p
      <4>1. s # r
        BY <1>0, <1>7, <1>8, <3>1, <3>3
      <4>2. s \in inbox
        BY <1>1, <4>1
      <4> QED BY <1>8, <3>1, <3>3, <4>2 DEF ReceiptInd
    <3> QED BY <3>2, <3>3
  <2> QED BY <2>1, <2>2
<1>9. ASSUME NEW k \in {"new", "turn"}, NEW c \in PilotCells, Times(k)'[c] = 1
      PROVE  receipt'[k][c] = "accepted"
  <2>1. Times(k)[c] = 1
    BY <1>1, <1>9 DEF Times
  <2>2. receipt[k][c] = "accepted"
    BY <2>1 DEF ReceiptInd
  <2>3. k # q.kind \/ c # q.cell
    BY <1>1, <2>2 DEF None
  <2> QED BY <1>6, <2>2, <2>3
<1>10. inbox' \subseteq Commands
  BY <1>0, <1>1 DEF ReceiptInd
<1> QED BY <1>1, <1>4, <1>8, <1>9, <1>10 DEF ReceiptInd

\* The receipt of a handled command is its own to close.
LEMMA ReservedAlone ==
  ASSUME ReceiptInd, NEW q \in inbox, q.stage = "reserved", NEW v \in ReceiptStates,
         receipt' = [receipt EXCEPT ![q.kind][q.cell] = v]
  PROVE  /\ q.kind \in {"new", "turn"} /\ q.cell \in PilotCells
         /\ receipt[q.kind][q.cell] = "processing" /\ receipt'[q.kind][q.cell] = v
         /\ receipt' \in [{"new", "turn", "cancel"} -> [PilotCells -> ReceiptStates]]
         /\ \A k \in {"new", "turn"}, c \in PilotCells :
              k # q.kind \/ c # q.cell => receipt'[k][c] = receipt[k][c]
         /\ \A p \in inbox : p.stage = "reserved" /\ p # q =>
              receipt'[p.kind][p.cell] = receipt[p.kind][p.cell]
<1>1. q.kind \in {"new", "turn"} /\ q.cell \in PilotCells /\ receipt[q.kind][q.cell] = "processing"
  BY DEF ReceiptInd, Commands
<1>2. receipt \in [{"new", "turn", "cancel"} -> [PilotCells -> ReceiptStates]]
  BY DEF ReceiptInd
<1>3. receipt' \in [{"new", "turn", "cancel"} -> [PilotCells -> ReceiptStates]]
  BY <1>1, <1>2
<1>4. receipt'[q.kind][q.cell] = v
  BY <1>1, <1>2
<1>5. ASSUME NEW k \in {"new", "turn"}, NEW c \in PilotCells, k # q.kind \/ c # q.cell
      PROVE  receipt'[k][c] = receipt[k][c]
  <2>1. CASE k # q.kind
    BY <1>1, <1>2, <2>1
  <2>2. CASE k = q.kind /\ c # q.cell
    BY <1>1, <1>2, <2>2
  <2> QED BY <1>5, <2>1, <2>2
<1>6. ASSUME NEW p \in inbox, p.stage = "reserved", p # q
      PROVE  receipt'[p.kind][p.cell] = receipt[p.kind][p.cell]
  <2>1. p.kind \in {"new", "turn"} /\ p.cell \in PilotCells
    BY DEF ReceiptInd, Commands
  <2>2. ~(p.kind = q.kind /\ p.cell = q.cell)
    BY <1>6 DEF ReceiptInd
  <2> QED BY <1>5, <2>1, <2>2
<1> QED BY <1>1, <1>3, <1>4, <1>5, <1>6

LEMMA HandlerRaisesInd == ASSUME ReceiptInd, NEW q \in inbox, HandlerRaises(q) PROVE ReceiptInd'
<1>1. /\ q.stage = "reserved" /\ "failed" \in ReceiptStates
      /\ receipt' = [receipt EXCEPT ![q.kind][q.cell] = "failed"]
      /\ inbox' = inbox \ {q}
      /\ UNCHANGED <<cellAt, runnerStarts, created, accepted>>
  BY DEF HandlerRaises, ReceiptStates
<1>2. ASSUME NEW k \in {"new", "turn"}, NEW c \in PilotCells, Times(k)'[c] = 1
      PROVE  receipt'[k][c] = "accepted"
  <2>1. Times(k)[c] = 1
    BY <1>2 DEF Times, HandlerRaises
  <2>2. receipt[k][c] = "accepted"
    BY <2>1 DEF ReceiptInd
  <2> QED BY <1>1, <2>2, ReservedAlone
<1>3. created' \in [PilotCells -> 0..1] /\ accepted' \in [PilotCells -> 0..1]
  BY <1>1 DEF ReceiptInd
<1>4. /\ receipt' \in [{"new", "turn", "cancel"} -> [PilotCells -> ReceiptStates]]
      /\ \A p \in inbox : p.stage = "reserved" /\ p # q =>
           receipt'[p.kind][p.cell] = receipt[p.kind][p.cell]
  BY <1>1, ReservedAlone
<1> QED BY <1>1, <1>2, <1>3, <1>4, OneAnswered

LEMMA HandleInd == ASSUME ReceiptInd, NEW q \in inbox, Handle(q) PROVE ReceiptInd'
<1>1. /\ q.stage = "reserved" /\ "accepted" \in ReceiptStates
      /\ receipt' = [receipt EXCEPT ![q.kind][q.cell] = "accepted"]
      /\ inbox' = inbox \ {q} /\ cellAt' = cellAt /\ runnerStarts' = runnerStarts
  BY DEF Handle, ReceiptStates
<1>2. /\ q.kind \in {"new", "turn"} /\ q.cell \in PilotCells
      /\ receipt[q.kind][q.cell] = "processing" /\ receipt'[q.kind][q.cell] = "accepted"
  BY <1>1, ReservedAlone
<1>3. Times(q.kind)[q.cell] # 1
  BY <1>2 DEF ReceiptInd
<1>4. created \in [PilotCells -> 0..1] /\ accepted \in [PilotCells -> 0..1]
  BY DEF ReceiptInd
<1>5. CASE q.kind = "new"
  <2>1. created' = [created EXCEPT ![q.cell] = @ + 1] /\ accepted' = accepted
    BY <1>5 DEF Handle
  <2>2. created[q.cell] = 0
    BY <1>2, <1>3, <1>4, <1>5 DEF Times
  <2>3. created' \in [PilotCells -> 0..1]
    BY <1>2, <1>4, <2>1, <2>2
  <2>4. ASSUME NEW k \in {"new", "turn"}, NEW c \in PilotCells, Times(k)'[c] = 1
        PROVE  receipt'[k][c] = "accepted"
    <3>1. CASE k = q.kind /\ c = q.cell
      BY <1>2, <3>1
    <3>2. CASE k # q.kind \/ c # q.cell
      <4>1. Times(k)[c] = 1
        BY <1>2, <1>4, <1>5, <2>1, <2>4, <3>2 DEF Times
      <4>2. receipt[k][c] = "accepted"
        BY <4>1 DEF ReceiptInd
      <4> QED BY <1>1, <3>2, <4>2, ReservedAlone
    <3> QED BY <3>1, <3>2
  <2> QED BY <1>1, <1>4, <2>1, <2>3, <2>4, ReservedAlone, OneAnswered
<1>6. CASE q.kind = "turn"
  <2>1. accepted' = [accepted EXCEPT ![q.cell] = @ + 1] /\ created' = created
    BY <1>6 DEF Handle
  <2>2. accepted[q.cell] = 0
    BY <1>2, <1>3, <1>4, <1>6 DEF Times
  <2>3. accepted' \in [PilotCells -> 0..1]
    BY <1>2, <1>4, <2>1, <2>2
  <2>4. ASSUME NEW k \in {"new", "turn"}, NEW c \in PilotCells, Times(k)'[c] = 1
        PROVE  receipt'[k][c] = "accepted"
    <3>1. CASE k = q.kind /\ c = q.cell
      BY <1>2, <3>1
    <3>2. CASE k # q.kind \/ c # q.cell
      <4>1. Times(k)[c] = 1
        BY <1>2, <1>4, <1>6, <2>1, <2>4, <3>2 DEF Times
      <4>2. receipt[k][c] = "accepted"
        BY <4>1 DEF ReceiptInd
      <4> QED BY <1>1, <3>2, <4>2, ReservedAlone
    <3> QED BY <3>1, <3>2
  <2> QED BY <1>1, <1>4, <2>1, <2>3, <2>4, ReservedAlone, OneAnswered
<1> QED BY <1>2, <1>5, <1>6

LEMMA PilotStep == ASSUME ReceiptInd, [PilotNext]_pilotVars PROVE ReceiptInd'
<1>0. cellAt \in PilotCells /\ runnerStarts \in Nat
  BY DEF ReceiptInd
<1>1. CASE UNCHANGED pilotVars
  BY <1>0, <1>1, RunnerFrame DEF pilotVars, runner, gateway
<1>2. CASE \E c \in PilotCells : TurnCalls(c) \/ ModelReplies(c) \/ PilotTurnEnds(c)
  BY <1>0, <1>2, RunnerFrame DEF TurnCalls, ModelReplies, PilotTurnEnds, runner
<1>3. CASE StopGateway
  <2>1. inbox' = {} /\ UNCHANGED <<cellAt, runnerStarts, receipt, created, accepted>>
    BY <1>3 DEF StopGateway, runner
  <2>2. \A k \in {"new", "turn"}, c \in PilotCells : Times(k)'[c] = Times(k)[c]
    BY <2>1 DEF Times
  <2> QED BY <2>1, <2>2 DEF ReceiptInd
<1>4. CASE StartGateway
  BY <1>0, <1>4, RunnerFrame DEF StartGateway, runner
<1> QED
  BY <1>1, <1>2, <1>3, <1>4, RunnerActsInd, PriorInd, ReserveInd, HandleInd, HandlerRaisesInd
     DEF PilotNext, GatewaySteps

LEMMA ReceiptShows == ReceiptInd => NeverResent
BY DEF ReceiptInd, NeverResent

-----------------------------------------------------------------------------
(* The live experiment: what a row says of its trace. *)

\* The events the runner asks for: those of the trace, without as many as it
\* had when the turn was announced, and one more.
LEMMA SeenEvents ==
  ASSUME NEW events \in Seq(Event), NEW from \in Nat
  PROVE  /\ TurnEvents(events, from) \in Seq(Event)
         /\ Len(TurnEvents(events, from)) =
              IF from + 2 <= Len(events) THEN Len(events) - from - 1 ELSE 0
         /\ \A i \in 1 .. Len(TurnEvents(events, from)) :
              i + from + 1 \in 1 .. Len(events) /\ TurnEvents(events, from)[i] = events[i + from + 1]
<1> DEFINE m == from + 2
           n == Len(events)
<1>1. m \in Int /\ n \in Int /\ \A i \in m .. n : events[i] \in Event
  OBVIOUS
<1>2. TurnEvents(events, from) = SubSeq(events, m, n)
  BY DEF TurnEvents
<1>3. /\ SubSeq(events, m, n) \in Seq(Event)
      /\ Len(SubSeq(events, m, n)) = IF m <= n THEN n - m + 1 ELSE 0
      /\ \A i \in 1 .. (n - m + 1) : SubSeq(events, m, n)[i] = events[m + i - 1]
  BY <1>1, SubSeqProperties
<1> HIDE DEF m, n
<1>4. /\ n - m + 1 = Len(events) - from - 1 /\ (m <= n <=> from + 2 <= Len(events))
      /\ \A i \in Int : m + i - 1 = i + from + 1
      /\ Len(events) \in Nat
  BY DEF m, n
<1>5. ASSUME NEW i \in 1 .. Len(TurnEvents(events, from))
      PROVE  i + from + 1 \in 1 .. Len(events) /\ TurnEvents(events, from)[i] = events[i + from + 1]
  <2>1. m <= n /\ i \in 1 .. (n - m + 1)
    BY <1>2, <1>3, <1>5 DEF m, n
  <2>2. i + from + 1 \in 1 .. Len(events)
    BY <2>1 DEF m, n
  <2> QED BY <1>2, <1>3, <1>4, <2>1, <2>2
<1> QED BY <1>2, <1>3, <1>4, <1>5

LEMMA TerminalSeen ==
  ASSUME NEW events \in Seq(Event), NEW from \in Nat, Terminal(TurnEvents(events, from))
  PROVE  Terminal(events)
BY SeenEvents DEF Terminal, Has

\* Asked for from the start, only the event that opens the turn is not seen.
LEMMA SeenKinds ==
  ASSUME NEW events \in Seq(Event), events[1] = "started", NEW kinds, "started" \notin kinds
  PROVE  Has(kinds, TurnEvents(events, 0)) <=> Has(kinds, events)
<1> DEFINE seen == TurnEvents(events, 0)
<1>1. /\ seen \in Seq(Event) /\ Len(seen) = IF 2 <= Len(events) THEN Len(events) - 1 ELSE 0
      /\ \A i \in 1 .. Len(seen) : i + 1 \in 1 .. Len(events) /\ seen[i] = events[i + 1]
  <2>1. 0 \in Nat
    OBVIOUS
  <2>2. /\ seen \in Seq(Event) /\ Len(seen) = IF 0 + 2 <= Len(events) THEN Len(events) - 0 - 1 ELSE 0
        /\ \A i \in 1 .. Len(seen) : i + 0 + 1 \in 1 .. Len(events) /\ seen[i] = events[i + 0 + 1]
    BY <2>1, SeenEvents
  <2>3. Len(events) \in Nat /\ Len(seen) \in Nat /\ \A i \in Nat : i + 0 + 1 = i + 1
    BY <2>2
  <2> QED BY <2>2, <2>3
<1> HIDE DEF seen
<1>2. ASSUME NEW i \in 1 .. Len(events), events[i] \in kinds PROVE Has(kinds, seen)
  <2>1. i # 1
    BY <1>2
  <2>2. i - 1 \in 1 .. Len(seen) /\ (i - 1) + 1 = i
    BY <1>1, <2>1
  <2>3. seen[i - 1] = events[i]
    BY <1>1, <2>2
  <2> QED BY <1>2, <2>2, <2>3 DEF Has
<1>3. Has(kinds, seen) => Has(kinds, events)
  BY <1>1 DEF Has
<1> QED BY <1>2, <1>3 DEF Has, seen

LEMMA SeenCalls ==
  ASSUME NEW events \in Seq(Event), events[1] = "started"
  PROVE  Calls(TurnEvents(events, 0)) = Calls(events)
<1> DEFINE seen == TurnEvents(events, 0)
           A == {i \in 1 .. Len(seen) : seen[i] = "requested"}
           B == {i \in 1 .. Len(events) : events[i] = "requested"}
           f == [i \in A |-> i + 1]
<1>1. /\ seen \in Seq(Event) /\ Len(seen) = IF 2 <= Len(events) THEN Len(events) - 1 ELSE 0
      /\ \A i \in 1 .. Len(seen) : i + 1 \in 1 .. Len(events) /\ seen[i] = events[i + 1]
  <2>1. 0 \in Nat
    OBVIOUS
  <2>2. /\ seen \in Seq(Event) /\ Len(seen) = IF 0 + 2 <= Len(events) THEN Len(events) - 0 - 1 ELSE 0
        /\ \A i \in 1 .. Len(seen) : i + 0 + 1 \in 1 .. Len(events) /\ seen[i] = events[i + 0 + 1]
    BY <2>1, SeenEvents
  <2>3. Len(events) \in Nat /\ Len(seen) \in Nat /\ \A i \in Nat : i + 0 + 1 = i + 1
    BY <2>2
  <2> QED BY <2>2, <2>3
<1>2. Calls(seen) = Cardinality(A) /\ Calls(events) = Cardinality(B)
  BY DEF Calls
<1> HIDE DEF seen
<1>3. Len(seen) \in Nat /\ Len(events) \in Nat
  BY <1>1
<1>4. IsFiniteSet(A)
  <2>1. 1 \in Int /\ Len(seen) \in Int
    BY <1>3
  <2>2. IsFiniteSet(1 .. Len(seen))
    BY <2>1, FS_Interval
  <2>3. A \in SUBSET (1 .. Len(seen))
    OBVIOUS
  <2> HIDE DEF A
  <2> QED BY <2>2, <2>3, FS_Subset
<1>5. f \in [A -> B]
  BY <1>1
<1>6. \A a, b \in A : f[a] = f[b] => a = b
  BY <1>3
<1>7. ASSUME NEW j \in B PROVE \E i \in A : f[i] = j
  <2>1. j # 1
    BY <1>7
  <2>2. j - 1 \in 1 .. Len(seen) /\ (j - 1) + 1 = j
    BY <1>1, <1>3, <2>1
  <2>3. j - 1 \in A
    BY <1>1, <1>7, <2>2
  <2> QED BY <2>2, <2>3
<1> HIDE DEF f, A, B
<1>8. f \in Bijection(A, B)
  BY <1>5, <1>6, <1>7 DEF Bijection, Injection, Surjection, IsInjective
<1>9. ExistsBijection(A, B)
  BY <1>8 DEF ExistsBijection
<1>10. Cardinality(B) = Cardinality(A)
  BY <1>4, <1>9, FS_Bijection
<1> QED BY <1>2, <1>10 DEF seen

\* What ends a trace ends it: the turn is over.
LEMMA TerminalEnds ==
  ASSUME NEW c, TraceInd(c), Terminal(log[c])
  PROVE  /\ turnState[c] = "ended" /\ Len(log[c]) \in 1 .. Len(log[c])
         /\ Last(log[c]) \in {"ok", "error"} /\ log[c][1] = "started"
         /\ \A i \in 1 .. Len(log[c]) : log[c][i] \in {"ok", "error"} => i = Len(log[c])
<1>1. PICK i \in 1 .. Len(log[c]) : log[c][i] \in {"ok", "error"}
  BY DEF Terminal, Has
<1>2. log[c] \in Seq(Event) /\ DOMAIN log[c] = 1 .. Len(log[c])
  BY DEF TraceInd
<1>3. \A j \in 1 .. Len(log[c]) :
        log[c][j] \in {"ok", "error"} => turnState[c] = "ended" /\ j = Len(log[c])
  BY <1>2 DEF TraceInd
<1>4. turnState[c] = "ended" /\ i = Len(log[c])
  BY <1>1, <1>3
<1>5. log[c][1] = "started"
  BY <1>4 DEF TraceInd, None
<1> QED BY <1>1, <1>3, <1>4, <1>5 DEF Last

\* A step that writes no row and tells no trace more.
LEMMA RowsFrame ==
  ASSUME RowsInd, UNCHANGED <<log, turnState, accepted, cellRows>>, WatchInd',
         pend' \in [PilotCells -> Pending],
         \A c \in PilotCells : Written(c) => pend'[c].base = pend[c].base,
         \A c \in PilotCells : receipt'["cancel"][c] = None => receipt["cancel"][c] = None
  PROVE  RowsInd'
<1>1. \A c \in PilotCells : TraceInd(c)'
  BY DEF RowsInd, TraceInd
<1>2. ASSUME NEW c \in PilotCells, Watched(c)' PROVE Terminal(log[c])' /\ HonestRow(c)'
  <2>1. Watched(c)
    BY <1>2 DEF Watched, Written
  <2>2. Terminal(log[c]) /\ HonestRow(c)
    BY <2>1 DEF RowsInd
  <2> QED BY <2>2 DEF Terminal, HonestRow, Has, Calls, Last
<1> QED BY <1>1, <1>2 DEF RowsInd

LEMMA WatchFrame ==
  ASSUME RowsInd, UNCHANGED <<pc, cellAt, base, counted, cellRows, pend, log>>,
         cellAt \in PilotCells,
         \A c \in PilotCells : receipt'["cancel"][c] = None => receipt["cancel"][c] = None
  PROVE  WatchInd'
BY DEF RowsInd, WatchInd, Written, Seen, TurnEvents, Calls, Terminal, Has

LEMMA WatchAway ==
  ASSUME pc' \notin {"new", "baseline", "post", "turn", "poll", "cancelling", "judge", "judge late"}
  PROVE  WatchInd'
BY DEF WatchInd

LEMMA RunnerOnly ==
  ASSUME RowsInd, UNCHANGED <<cellRows, gateway>>, WatchInd', pend' = pend
  PROVE  RowsInd'
BY RowsFrame DEF gateway, RowsInd

LEMMA AwayInd ==
  ASSUME RowsInd, UNCHANGED <<cellRows, log, turnState, accepted, receipt>>, pend' = pend, Ended
  PROVE  RowsInd'
<1>1. WatchInd'
  BY WatchAway DEF Ended
<1> QED BY <1>1, RowsFrame DEF RowsInd

LEMMA AdvanceInd ==
  ASSUME RowsInd, UNCHANGED <<cellRows, gateway>>, NEW n, NEW s, NEW stopped,
         Advance(cellAt, n, s, stopped),
         pend' \in [PilotCells -> Pending],
         \A c \in PilotCells : pend'[c].base = pend[c].base
  PROVE  RowsInd'
<1>1. WatchInd'
  BY WatchAway DEF Advance
<1> QED BY <1>1, RowsFrame DEF gateway

LEMMA PendUpdate ==
  ASSUME RowsInd, cellAt \in PilotCells,
         NEW p \in Pending,
         pend' = [pend EXCEPT ![cellAt] = p]
  PROVE  /\ pend' \in [PilotCells -> Pending]
         /\ pend'[cellAt] = p /\ \A c \in PilotCells : c # cellAt => pend'[c] = pend[c]
BY DEF RowsInd

\* The runner up to the message it posts.
LEMMA BeforeTurnInd ==
  ASSUME RowsInd, cellAt \in PilotCells,
         Start \/ SkipRow \/ StopAtBudget \/ EnterCell \/ ReenterCell \/ NewAnswered \/ Baseline \/ PostTurn
  PROVE  RowsInd'
<1>1. CASE Start
  <2>1. WatchInd'
    BY <1>1, WatchAway DEF Start
  <2> QED BY <1>1, <2>1, RunnerOnly DEF Start
<1>2. CASE SkipRow \/ StopAtBudget
  BY <1>2, AdvanceInd DEF SkipRow, StopAtBudget, files, RowsInd
<1>3. CASE EnterCell
  <2>1. CASE serving
    <3>1. WatchInd'
      BY <1>3, <2>1 DEF EnterCell, WatchInd, Written, files
    <3> QED BY <1>3, <2>1, <3>1, RowsFrame DEF EnterCell, files, RowsInd
  <2>2. CASE ~serving
    BY <1>3, <2>2, AwayInd DEF EnterCell, Abort, files
  <2> QED BY <2>1, <2>2
<1>4. CASE ReenterCell
  <2>1. WatchInd'
    BY <1>4 DEF ReenterCell, WatchInd, Written, files
  <2> QED BY <1>4, <2>1, RunnerOnly DEF ReenterCell, files
<1>5. CASE NewAnswered
  <2>1. CASE reply = "accepted"
    <3> DEFINE p == [state |-> "session_created", trace |-> FALSE, base |-> 0, reserved |-> 0]
    <3>1. p \in Pending
      BY DEF Pending
    <3>2. pend' = [pend EXCEPT ![cellAt] = p] /\ pc = "new" /\ pc' = "baseline" /\ cellAt' = cellAt
          /\ UNCHANGED <<cellRows, gateway>>
      BY <1>5, <2>1 DEF NewAnswered
    <3> HIDE DEF p
    <3>3. ~Written(cellAt)
      BY <3>2 DEF RowsInd, WatchInd
    <3>4. WatchInd'
      BY <3>2, <3>3 DEF WatchInd, Written
    <3>5. /\ pend' \in [PilotCells -> Pending]
          /\ \A c \in PilotCells : c # cellAt => pend'[c] = pend[c]
      BY <3>1, <3>2, PendUpdate
    <3> QED BY <3>2, <3>3, <3>4, <3>5, RowsFrame DEF gateway
  <2>2. CASE reply # "accepted"
    BY <1>5, <2>2, AwayInd DEF NewAnswered, Abort, gateway
  <2> QED BY <2>1, <2>2
<1>6. CASE Baseline
  <2>1. CASE serving
    <3> DEFINE p == [pend[cellAt] EXCEPT !.state = "turn_pending", !.base = Len(log[cellAt]),
                                         !.reserved = 1]
    <3>1. pend[cellAt] \in Pending
          /\ Len(log[cellAt]) \in Nat
      BY DEF RowsInd, TraceInd
    <3>2. p \in Pending
          /\ p.base = Len(log[cellAt])
      BY <3>1 DEF Pending
    <3>3. pend' = [pend EXCEPT ![cellAt] = p] /\ pc = "baseline" /\ pc' = "post" /\ cellAt' = cellAt
          /\ base' = Len(log[cellAt]) /\ UNCHANGED <<cellRows, gateway>>
      BY <1>6, <2>1 DEF Baseline
    <3> HIDE DEF p
    <3>4. ~Written(cellAt)
      BY <3>3 DEF RowsInd, WatchInd
    <3>5. /\ pend' \in [PilotCells -> Pending]
          /\ pend'[cellAt] = p /\ \A c \in PilotCells : c # cellAt => pend'[c] = pend[c]
      BY <3>2, <3>3, PendUpdate
    <3>6. WatchInd'
      BY <3>2, <3>3, <3>4, <3>5 DEF WatchInd, Written
    <3> QED BY <3>3, <3>4, <3>5, <3>6, RowsFrame DEF gateway
  <2>2. CASE ~serving
    BY <1>6, <2>2, AwayInd DEF Baseline, Abort, gateway
  <2> QED BY <2>1, <2>2
<1>7. CASE PostTurn
  <2>1. CASE serving
    <3>1. WatchInd'
      BY <1>7, <2>1 DEF PostTurn, RowsInd, WatchInd, Written, files
    <3> QED BY <1>7, <2>1, <3>1, RowsFrame DEF PostTurn, files, RowsInd
  <2>2. CASE ~serving
    BY <1>7, <2>2, AwayInd DEF PostTurn, Abort, files
  <2> QED BY <2>1, <2>2
<1> QED BY <1>1, <1>2, <1>3, <1>4, <1>5, <1>6, <1>7

\* The runner once its message is posted.
LEMMA PendSame ==
  ASSUME RowsInd, cellAt \in PilotCells, NEW s,
         s \in {"turn_running", "cancellation_unconfirmed", "terminal"},
         pend' = [pend EXCEPT ![cellAt] = [@ EXCEPT !.state = s]]
  PROVE  /\ pend' \in [PilotCells -> Pending]
         /\ \A c \in PilotCells : pend'[c].base = pend[c].base
<1> DEFINE p == [pend[cellAt] EXCEPT !.state = s]
<1>1. pend[cellAt] \in Pending
  BY DEF RowsInd
<1>2. p \in Pending /\ p.base = pend[cellAt].base
  BY <1>1 DEF Pending
<1>3. pend' = [pend EXCEPT ![cellAt] = p]
  BY DEF RowsInd
<1> HIDE DEF p
<1> QED BY <1>2, <1>3, PendUpdate

LEMMA AfterTurnInd ==
  ASSUME RowsInd, cellAt \in PilotCells,
         TurnAnswered \/ RequestFails \/ PollTerminal \/ CancelConfirmed \/ CancelUnconfirmed
  PROVE  RowsInd'
<1>1. CASE TurnAnswered
  <2>1. CASE reply = "refused"
    BY <1>1, <2>1, AwayInd DEF TurnAnswered, Abort, gateway
  <2>2. CASE reply # "refused"
    <3>1. pend' = [pend EXCEPT ![cellAt] = [@ EXCEPT !.trace = TRUE, !.state = "turn_running"]]
          /\ pc = "turn" /\ pc' = "poll" /\ cellAt' = cellAt /\ base' = base
          /\ UNCHANGED <<cellRows, gateway>>
      BY <1>1, <2>2 DEF TurnAnswered
    <3>2. pend' \in [PilotCells -> Pending] /\ \A c \in PilotCells : pend'[c].base = pend[c].base
      <4> DEFINE p == [pend[cellAt] EXCEPT !.trace = TRUE, !.state = "turn_running"]
      <4>1. pend[cellAt] \in Pending
        BY DEF RowsInd
      <4>2. p \in Pending /\ p.base = pend[cellAt].base
        BY <4>1 DEF Pending
      <4>3. pend' = [pend EXCEPT ![cellAt] = p]
        BY <3>1 DEF RowsInd
      <4> HIDE DEF p
      <4> QED BY <4>2, <4>3, PendUpdate
    <3>3. WatchInd'
      BY <3>1, <3>2 DEF RowsInd, WatchInd, Written
    <3> QED BY <3>1, <3>2, <3>3, RowsFrame DEF gateway
  <2> QED BY <2>1, <2>2
<1>2. CASE RequestFails
  BY <1>2, AwayInd DEF RequestFails, Abort, gateway, files
<1>3. CASE PollTerminal
  <2>1. WatchInd'
    BY <1>3 DEF PollTerminal, RowsInd, WatchInd, Written, Seen, TurnEvents, Calls, Terminal, Has,
               files, gateway
  <2> QED BY <1>3, <2>1, RunnerOnly DEF PollTerminal, files
<1>4. CASE CancelConfirmed
  <2>1. WatchInd'
    BY <1>4 DEF CancelConfirmed, RowsInd, WatchInd, Written, files, gateway
  <2> QED BY <1>4, <2>1, RunnerOnly DEF CancelConfirmed, files
<1>5. CASE CancelUnconfirmed
  <2>1. pend' = [pend EXCEPT ![cellAt] = [@ EXCEPT !.state = "cancellation_unconfirmed"]]
        /\ Ended /\ UNCHANGED <<cellRows, gateway>>
    BY <1>5 DEF CancelUnconfirmed, Abort
  <2>2. pend' \in [PilotCells -> Pending] /\ \A c \in PilotCells : pend'[c].base = pend[c].base
    BY <2>1, PendSame
  <2>3. WatchInd'
    BY <2>1, WatchAway DEF Ended
  <2> QED BY <2>1, <2>2, <2>3, RowsFrame DEF gateway
<1> QED BY <1>1, <1>2, <1>3, <1>4, <1>5

\* A turn that is cancelled is not over yet; its row will not be one of a watched cell.
LEMMA GiveUpTurnInd == ASSUME ReceiptInd, RowsInd, GiveUpTurn PROVE RowsInd'
<1>0. /\ cellAt \in PilotCells
      /\ receipt \in [{"new", "turn", "cancel"} -> [PilotCells -> ReceiptStates]]
  BY DEF ReceiptInd
<1>1. /\ pc = "poll" /\ pc' = "cancelling" /\ cellAt' = cellAt /\ base' = base
      /\ receipt' = [receipt EXCEPT !["cancel"][cellAt] = "accepted"]
      /\ turnState' = turnState \/
           (turnState[cellAt] = "running" /\ turnState' = [turnState EXCEPT ![cellAt] = "cancelled"])
      /\ UNCHANGED <<cellRows, pend, log, accepted>>
  BY DEF GiveUpTurn, files
<1>2. /\ receipt'["cancel"][cellAt] = "accepted"
      /\ \A c \in PilotCells : receipt'["cancel"][c] = None => receipt["cancel"][c] = None
  BY <1>0, <1>1 DEF None
<1>3. WatchInd'
  BY <1>1, <1>2 DEF RowsInd, WatchInd, Written, None
<1>4. DOMAIN turnState' = PilotCells
  BY <1>1 DEF RowsInd
<1>5. ASSUME NEW c \in PilotCells PROVE TraceInd(c)'
  <2>1. TraceInd(c)
    BY DEF RowsInd
  <2>2. CASE turnState'[c] = turnState[c]
    BY <1>1, <2>1, <2>2 DEF TraceInd
  <2>3. CASE turnState'[c] # turnState[c]
    <3>1. turnState[c] = "running" /\ turnState'[c] = "cancelled"
      BY <1>0, <1>1, <2>3 DEF RowsInd
    <3>2. turnState[c] # None /\ turnState'[c] # None /\ turnState[c] # "ended"
      BY <3>1 DEF None
    <3> QED BY <1>1, <2>1, <3>2 DEF TraceInd
  <2> QED BY <2>2, <2>3
<1>6. ASSUME NEW c \in PilotCells, Watched(c)' PROVE Terminal(log[c])' /\ HonestRow(c)'
  <2>1. Watched(c)
    BY <1>1, <1>2, <1>6 DEF Watched, Written
  <2>2. Terminal(log[c]) /\ HonestRow(c)
    BY <2>1 DEF RowsInd
  <2> QED BY <1>1, <2>2 DEF Terminal, HonestRow, Has, Calls, Last
<1> QED BY <1>1, <1>3, <1>4, <1>5, <1>6 DEF RowsInd

\* The row: a cell that was watched to the end says what its trace says.
LEMMA WriteRowInd == ASSUME RowsInd, cellAt \in PilotCells, WriteRow PROVE RowsInd'
<1> DEFINE row == CaseRow(Seen, pc = "judge late", counted)
<1>1. /\ pc \in {"judge", "judge late"} /\ pc' = "mark" /\ cellRows' = [cellRows EXCEPT ![cellAt] = row]
      /\ UNCHANGED <<cellAt, pend, receipt, log, turnState, accepted>>
  BY DEF WriteRow, gateway
<1> HIDE DEF row
<1>2. /\ DOMAIN cellRows' = PilotCells /\ cellRows'[cellAt] = row
      /\ \A c \in PilotCells : c # cellAt => cellRows'[c] = cellRows[c]
  BY <1>1 DEF RowsInd
<1>3. WatchInd'
  BY <1>1, WatchAway
<1>4. ASSUME NEW c \in PilotCells PROVE TraceInd(c)'
  <2>1. TraceInd(c)
    BY DEF RowsInd
  <2> QED BY <1>1, <2>1 DEF TraceInd
<1>5. ASSUME NEW c \in PilotCells, c = cellAt, Watched(c)'
      PROVE  Terminal(log[c])' /\ HonestRow(c)'
  <2> DEFINE events == log[c]
  <2>1. receipt["cancel"][c] = None /\ pend[c].base = 0
    BY <1>1, <1>5 DEF Watched
  <2>2. pc = "judge" /\ base = 0 /\ Terminal(Seen) /\ counted = Calls(Seen)
    BY <1>1, <1>5, <2>1 DEF RowsInd, WatchInd
  <2>3. Seen = TurnEvents(events, 0) /\ TraceInd(c) /\ events \in Seq(Event)
    BY <1>5, <2>2 DEF Seen, RowsInd, TraceInd
  <2>4. Terminal(events)
    BY <2>2, <2>3, TerminalSeen
  <2>5. /\ events[1] = "started" /\ Last(events) \in {"ok", "error"} /\ Len(events) \in 1 .. Len(events)
        /\ \A i \in 1 .. Len(events) : events[i] \in {"ok", "error"} => i = Len(events)
    BY <2>3, <2>4, TerminalEnds
  <2>6. Calls(Seen) = Calls(events)
    BY <2>3, <2>5, SeenCalls
  <2>7. /\ Has({"ok"}, Seen) <=> Has({"ok"}, events)
        /\ Has({"requested"}, Seen) <=> Has({"requested"}, events)
        /\ Has({"stop"}, Seen) <=> Has({"stop"}, events)
        /\ Has({"length"}, Seen) <=> Has({"length"}, events)
    BY <2>3, <2>5, SeenKinds
  <2>8. row.calls = Calls(events)
    BY <2>2, <2>6 DEF row, CaseRow
  <2>9. ASSUME row.status = "completed"
        PROVE  /\ Last(events) = "ok" /\ ~Has({"length"}, events)
               /\ Has({"requested"}, events) => Has({"stop"}, events)
    <3>1. /\ GenerationJudgment(Seen) \in {"completed", "not_applicable"} /\ Has({"ok"}, Seen)
      BY <2>9 DEF row, CaseRow
    <3>2. Last(events) = "ok"
      <4>1. PICK i \in 1 .. Len(events) : events[i] = "ok"
        BY <2>7, <3>1 DEF Has
      <4> QED BY <2>5, <4>1 DEF Last
    <3>3. CASE Has({"requested"}, events)
      BY <2>7, <3>1, <3>2, <3>3 DEF GenerationJudgment
    <3>4. CASE ~Has({"requested"}, events)
      <4>1. ASSUME NEW i \in 1 .. Len(events), events[i] = "length" PROVE FALSE
        <5>1. "length" \in Replies
          BY <2>3, <4>1 DEF Event
        <5>2. i > 1 /\ events[i - 1] = "requested"
          BY <2>3, <4>1, <5>1 DEF TraceInd
        <5>3. i - 1 \in 1 .. Len(events)
          BY <5>2
        <5> QED BY <3>4, <5>2, <5>3 DEF Has
      <4> QED BY <3>2, <3>4, <4>1 DEF Has
    <3> QED BY <3>3, <3>4
  <2> QED BY <1>1, <1>2, <1>5, <2>4, <2>8, <2>9 DEF HonestRow, Terminal, Has, Calls, Last
<1>6. ASSUME NEW c \in PilotCells, Watched(c)' PROVE Terminal(log[c])' /\ HonestRow(c)'
  <2>1. CASE c = cellAt
    BY <1>5, <1>6, <2>1
  <2>2. CASE c # cellAt
    <3>1. Watched(c)
      BY <1>1, <1>2, <1>6, <2>2 DEF Watched, Written
    <3>2. Terminal(log[c]) /\ HonestRow(c)
      BY <3>1 DEF RowsInd
    <3> QED BY <1>1, <1>2, <2>2, <3>2 DEF Terminal, HonestRow, Has, Calls, Last
  <2> QED BY <2>1, <2>2
<1> QED BY <1>1, <1>2, <1>3, <1>4, <1>6 DEF RowsInd

LEMMA MarkTerminalInd == ASSUME RowsInd, cellAt \in PilotCells, MarkTerminal PROVE RowsInd'
<1>1. pend' = [pend EXCEPT ![cellAt] = [@ EXCEPT !.state = "terminal"]]
      /\ UNCHANGED <<cellRows, gateway>> /\ pc' \in {"finish", "loop"}
  BY DEF MarkTerminal, Advance
<1>2. PICK s \in {"turn_running", "cancellation_unconfirmed", "terminal"} : s = "terminal"
  OBVIOUS
<1>3. pend' = [pend EXCEPT ![cellAt] = [@ EXCEPT !.state = s]]
  BY <1>1, <1>2
<1>4. pend' \in [PilotCells -> Pending] /\ \A c \in PilotCells : pend'[c].base = pend[c].base
  BY <1>3, PendSame
<1>5. WatchInd'
  BY <1>1, WatchAway
<1> QED BY <1>1, <1>4, <1>5, RowsFrame DEF gateway

\* The gateway tells more of turns that are not over.
LEMMA TracesGrow ==
  ASSUME ReceiptInd, RowsInd, UNCHANGED <<pc, cellAt, base, counted, files>>,
         DOMAIN log' = PilotCells, DOMAIN turnState' = PilotCells,
         \A c \in PilotCells : receipt'["cancel"][c] = None => receipt["cancel"][c] = None,
         \A c \in PilotCells : TraceInd(c)',
         \A c \in PilotCells : turnState[c] = "ended" => log'[c] = log[c]
  PROVE  RowsInd'
<1>0. UNCHANGED <<pc, cellAt, base, counted, cellRows, pend>> /\ cellAt \in PilotCells
  BY DEF files, ReceiptInd
<1>1. ASSUME NEW c \in PilotCells, Terminal(log[c]) PROVE log'[c] = log[c]
  <2>1. TraceInd(c)
    BY DEF RowsInd
  <2> QED BY <1>1, <2>1, TerminalEnds
<1>2. WatchInd'
  <2>1. ASSUME pc = "judge" PROVE Terminal(Seen)' /\ counted' = Calls(Seen)'
    <3>1. Terminal(Seen) /\ counted = Calls(Seen) /\ base = pend[cellAt].base
      BY <2>1 DEF RowsInd, WatchInd
    <3>2. base \in Nat
      BY <1>0, <3>1 DEF RowsInd, Pending
    <3>3. log[cellAt] \in Seq(Event)
      BY <1>0 DEF RowsInd, TraceInd
    <3>4. log'[cellAt] = log[cellAt]
      BY <1>0, <1>1, <3>1, <3>2, <3>3, TerminalSeen DEF Seen
    <3>5. Seen' = Seen
      BY <1>0, <3>4 DEF Seen, TurnEvents
    <3> QED BY <1>0, <3>1, <3>5 DEF Terminal, Has, Calls
  <2> QED BY <1>0, <2>1 DEF RowsInd, WatchInd, Written
<1>3. ASSUME NEW c \in PilotCells, Watched(c)' PROVE Terminal(log[c])' /\ HonestRow(c)'
  <2>1. Watched(c)
    BY <1>0, <1>3 DEF Watched, Written
  <2>2. Terminal(log[c]) /\ HonestRow(c)
    BY <2>1 DEF RowsInd
  <2>3. log'[c] = log[c]
    BY <1>1, <2>2
  <2> QED BY <1>0, <2>2, <2>3 DEF Terminal, HonestRow, Has, Calls, Last
<1> QED BY <1>0, <1>2, <1>3 DEF RowsInd

LEMMA EmitTrace ==
  ASSUME NEW c, TraceInd(c), NEW e \in Event, turnState[c] \notin {None, "ended"},
         log'[c] = Append(log[c], e), accepted' = accepted, turnState'[c] # None,
         e \in Replies => Waiting(log[c]),
         e \in {"ok", "error"} => turnState'[c] = "ended"
  PROVE  TraceInd(c)'
<1> DEFINE old == log[c]
           new == log'[c]
<1>1. /\ old \in Seq(Event) /\ Len(old) \in Nat /\ old # <<>> /\ old[1] = "started"
      /\ accepted[c] = 1
  BY DEF TraceInd
<1>2. \A i \in 1 .. Len(old) : /\ old[i] \in Replies => i > 1 /\ old[i - 1] = "requested"
                               /\ old[i] \notin {"ok", "error"}
  BY <1>1 DEF TraceInd
<1>3. /\ new \in Seq(Event) /\ Len(new) = Len(old) + 1 /\ new[Len(old) + 1] = e
      /\ \A i \in 1 .. Len(old) : new[i] = old[i]
  BY <1>1
<1>4. new # <<>> /\ new[1] = "started" /\ DOMAIN new = 1 .. (Len(old) + 1)
  BY <1>1, <1>3
<1>5. e \in Replies => Len(old) + 1 > 1 /\ old[Len(old)] = "requested"
  BY <1>1 DEF Waiting
<1>6. ASSUME NEW i \in DOMAIN new
      PROVE  /\ new[i] \in Replies => i > 1 /\ new[i - 1] = "requested"
             /\ new[i] \in {"ok", "error"} => turnState'[c] = "ended" /\ i = Len(new)
  <2>1. CASE i = Len(old) + 1
    <3>1. Len(old) \in 1 .. Len(old) /\ i - 1 = Len(old)
      BY <1>1, <2>1
    <3>2. new[i] = e /\ new[i - 1] = old[Len(old)] /\ i = Len(new)
      BY <1>3, <2>1, <3>1
    <3> QED BY <1>5, <2>1, <3>2
  <2>2. CASE i # Len(old) + 1
    <3>1. i \in 1 .. Len(old)
      BY <1>1, <1>4, <2>2
    <3>2. new[i] \in Replies => i > 1 /\ old[i - 1] = "requested"
      BY <1>2, <1>3, <3>1
    <3>3. i > 1 => i - 1 \in 1 .. Len(old)
      BY <3>1
    <3> QED BY <1>2, <1>3, <3>1, <3>2, <3>3
  <2> QED BY <2>1, <2>2
<1> HIDE DEF old, new
<1> QED BY <1>1, <1>3, <1>4, <1>6 DEF TraceInd, new

LEMMA SameTrace ==
  ASSUME NEW c, TraceInd(c), log'[c] = log[c], turnState'[c] = turnState[c], accepted'[c] = accepted[c]
  PROVE  TraceInd(c)'
BY DEF TraceInd

\* One turn emits one event.
LEMMA EmitInd ==
  ASSUME ReceiptInd, RowsInd, UNCHANGED <<runner, files, receipt, accepted>>,
         NEW c \in PilotCells, NEW e \in Event, Emit(c, e), turnState[c] \notin {None, "ended"},
         DOMAIN turnState' = PilotCells, turnState'[c] # None,
         \A d \in PilotCells : d # c => turnState'[d] = turnState[d],
         e \in Replies => Waiting(log[c]),
         e \in {"ok", "error"} => turnState'[c] = "ended"
  PROVE  RowsInd'
<1>1. /\ DOMAIN log' = PilotCells /\ log'[c] = Append(log[c], e)
      /\ \A d \in PilotCells : d # c => log'[d] = log[d]
  BY DEF Emit, RowsInd
<1>2. ASSUME NEW d \in PilotCells PROVE TraceInd(d)'
  <2>1. TraceInd(d)
    BY DEF RowsInd
  <2>2. CASE d = c
    <3>1. TraceInd(c)'
      BY <1>1, <2>1, <2>2, EmitTrace
    <3> QED BY <2>2, <3>1
  <2>3. CASE d # c
    BY <1>1, <2>1, <2>3, SameTrace
  <2> QED BY <2>2, <2>3
<1>3. \A d \in PilotCells : turnState[d] = "ended" => log'[d] = log[d]
  BY <1>1
<1> QED BY <1>1, <1>2, <1>3, TracesGrow DEF runner

\* A turn begins with the first message that is accepted, and so once.
LEMMA HandleRows == ASSUME ReceiptInd, RowsInd, NEW q \in inbox, Handle(q) PROVE RowsInd'
<1>0. /\ q.stage = "reserved" /\ receipt' = [receipt EXCEPT ![q.kind][q.cell] = "accepted"]
      /\ UNCHANGED <<pc, cellAt, base, counted, files>> /\ "accepted" \in ReceiptStates
  BY DEF Handle, ReceiptStates
<1>1. /\ q.kind \in {"new", "turn"} /\ q.cell \in PilotCells
      /\ receipt[q.kind][q.cell] = "processing"
  BY <1>0, ReservedAlone
<1>2. \A c \in PilotCells : receipt'["cancel"][c] = receipt["cancel"][c]
  BY <1>0, <1>1 DEF ReceiptInd
<1>3. cellAt \in PilotCells
  BY DEF ReceiptInd
<1>4. CASE q.kind = "new"
  <2>1. UNCHANGED <<turnState, log, accepted>>
    BY <1>4 DEF Handle
  <2>2. WatchInd'
    BY <1>0, <1>2, <1>3, <2>1, WatchFrame DEF files
  <2> QED BY <1>0, <1>2, <2>1, <2>2, RowsFrame DEF files, RowsInd
<1>5. CASE q.kind = "turn"
  <2>1. /\ accepted' = [accepted EXCEPT ![q.cell] = @ + 1]
        /\ turnState' = [turnState EXCEPT ![q.cell] = "running"]
        /\ log' = [log EXCEPT ![q.cell] = Append(@, "started")]
    BY <1>5 DEF Handle
  <2>2. accepted \in [PilotCells -> 0..1] /\ Times("turn") = accepted
    BY DEF ReceiptInd, Times
  <2>3. accepted[q.cell] = 0
    <3>1. accepted[q.cell] # 1
      BY <1>1, <1>5, <2>2 DEF ReceiptInd
    <3> QED BY <1>1, <2>2, <3>1
  <2>4. TraceInd(q.cell) /\ turnState[q.cell] = None /\ log[q.cell] = <<>>
    BY <1>1, <2>3 DEF RowsInd, TraceInd
  <2>5. /\ DOMAIN log' = PilotCells /\ DOMAIN turnState' = PilotCells
        /\ log'[q.cell] = <<"started">> /\ turnState'[q.cell] = "running" /\ accepted'[q.cell] = 1
        /\ \A c \in PilotCells : c # q.cell => /\ log'[c] = log[c] /\ turnState'[c] = turnState[c]
                                               /\ accepted'[c] = accepted[c]
    BY <1>1, <2>1, <2>2, <2>3, <2>4 DEF RowsInd
  <2>6. ASSUME NEW c \in PilotCells PROVE TraceInd(c)'
    <3>1. CASE c = q.cell
      <4>1. "started" \in Event /\ "started" \notin Replies
        BY PilotAssumption DEF Event
      <4>2. /\ <<"started">> \in Seq(Event) /\ <<"started">> # <<>> /\ DOMAIN <<"started">> = {1}
            /\ <<"started">>[1] = "started"
        BY <4>1
      <4> QED BY <2>5, <3>1, <4>1, <4>2 DEF TraceInd, None
    <3>2. CASE c # q.cell
      <4>1. TraceInd(c)
        BY DEF RowsInd
      <4> QED BY <2>5, <3>2, <4>1, SameTrace
    <3> QED BY <3>1, <3>2
  <2>7. \A c \in PilotCells : turnState[c] = "ended" => log'[c] = log[c]
    BY <2>4, <2>5 DEF None
  <2> QED BY <1>0, <1>2, <2>5, <2>6, <2>7, TracesGrow
<1> QED BY <1>1, <1>4, <1>5

LEMMA TurnEmits ==
  ASSUME ReceiptInd, RowsInd, NEW c \in PilotCells, TurnCalls(c) \/ ModelReplies(c) \/ PilotTurnEnds(c)
  PROVE  RowsInd'
<1>0. DOMAIN turnState = PilotCells
  BY DEF RowsInd
<1>1. CASE TurnCalls(c)
  <2>1. "requested" \in Event /\ "requested" \notin Replies
    BY PilotAssumption DEF Event
  <2>2. PICK e \in Event : e = "requested"
    BY <2>1
  <2>3. /\ Emit(c, e) /\ turnState[c] \notin {None, "ended"} /\ turnState' = turnState
        /\ UNCHANGED <<runner, files, receipt, accepted>>
    BY <1>1, <2>2 DEF TurnCalls, None
  <2> QED BY <1>0, <2>1, <2>2, <2>3, EmitInd
<1>2. CASE ModelReplies(c)
  <2>1. PICK r \in Replies : Emit(c, r)
    BY <1>2 DEF ModelReplies
  <2>2. r \in Event /\ r \notin {"ok", "error"}
    BY PilotAssumption DEF Event
  <2>3. /\ Waiting(log[c]) /\ turnState[c] \notin {None, "ended"} /\ turnState' = turnState
        /\ UNCHANGED <<runner, files, receipt, accepted>>
    BY <1>2 DEF ModelReplies, None
  <2> QED BY <1>0, <2>1, <2>2, <2>3, EmitInd
<1>3. CASE PilotTurnEnds(c)
  <2>1. PICK e \in {"ok", "error"} : Emit(c, e)
    BY <1>3 DEF PilotTurnEnds
  <2>2. e \in Event /\ e \notin Replies
    BY PilotAssumption DEF Event
  <2>3. /\ turnState[c] \notin {None, "ended"} /\ turnState' = [turnState EXCEPT ![c] = "ended"]
        /\ UNCHANGED <<runner, files, receipt, accepted>>
    BY <1>3 DEF PilotTurnEnds, None
  <2>4. /\ DOMAIN turnState' = PilotCells /\ turnState'[c] = "ended" /\ turnState'[c] # None
        /\ \A d \in PilotCells : d # c => turnState'[d] = turnState[d]
    BY <1>0, <2>3 DEF None
  <2> QED BY <2>1, <2>2, <2>3, <2>4, EmitInd
<1> QED BY <1>1, <1>2, <1>3

\* Stopped or killed, the gateway has no turn running.
LEMMA StopGatewayRows == ASSUME ReceiptInd, RowsInd, StopGateway PROVE RowsInd'
<1> DEFINE Open(c) == turnState[c] \in {"running", "cancelled"}
<1>0. UNCHANGED <<runner, files, receipt, accepted>>
  BY DEF StopGateway
<1>1. CASE /\ log' = [c \in PilotCells |-> IF Open(c) THEN Append(log[c], "error") ELSE log[c]]
           /\ turnState' = [c \in PilotCells |-> IF Open(c) THEN "ended" ELSE turnState[c]]
  <2>1. ASSUME NEW c \in PilotCells PROVE TraceInd(c)'
    <3>0. TraceInd(c)
      BY DEF RowsInd
    <3>1. CASE Open(c)
      <4>1. "error" \in Event /\ "error" \notin Replies
        BY PilotAssumption DEF Event
      <4>2. PICK e \in Event : e = "error"
        BY <4>1
      <4>3. /\ log'[c] = Append(log[c], e) /\ turnState'[c] = "ended" /\ turnState'[c] # None
            /\ turnState[c] \notin {None, "ended"}
        BY <1>1, <3>1, <4>2 DEF None
      <4> QED BY <1>0, <3>0, <4>1, <4>2, <4>3, EmitTrace
    <3>2. CASE ~Open(c)
      BY <1>0, <1>1, <3>0, <3>2, SameTrace
    <3> QED BY <3>1, <3>2
  <2>2. \A c \in PilotCells : turnState[c] = "ended" => log'[c] = log[c]
    BY <1>1
  <2>3. DOMAIN log' = PilotCells /\ DOMAIN turnState' = PilotCells
    BY <1>1
  <2> QED BY <1>0, <2>1, <2>2, <2>3, TracesGrow DEF runner
<1>2. CASE /\ turnState' = [c \in PilotCells |-> IF Open(c) THEN "lost" ELSE turnState[c]]
           /\ log' = log
  <2>1. ASSUME NEW c \in PilotCells PROVE TraceInd(c)'
    <3>0. TraceInd(c)
      BY DEF RowsInd
    <3>1. CASE Open(c)
      <4>1. turnState'[c] = "lost" /\ turnState'[c] # None /\ turnState[c] \notin {None, "ended"}
        BY <1>2, <3>1 DEF None
      <4> QED BY <1>0, <1>2, <3>0, <4>1 DEF TraceInd
    <3>2. CASE ~Open(c)
      BY <1>0, <1>2, <3>0, <3>2, SameTrace
    <3> QED BY <3>1, <3>2
  <2>2. DOMAIN log' = PilotCells /\ DOMAIN turnState' = PilotCells
    BY <1>2 DEF RowsInd
  <2> QED BY <1>0, <1>2, <2>1, <2>2, TracesGrow DEF runner
<1> QED BY <1>1, <1>2 DEF StopGateway

LEMMA RowsInitInd == PilotInit => RowsInd
<1> SUFFICES ASSUME PilotInit PROVE RowsInd
  OBVIOUS
<1>1. /\ \A c \in PilotCells : log[c] = <<>> /\ turnState[c] = None /\ cellRows[c].status = None
      /\ DOMAIN log = PilotCells /\ DOMAIN turnState = PilotCells /\ DOMAIN cellRows = PilotCells
      /\ pc = "idle"
  BY DEF PilotInit, NoCellRow
<1>2. pend \in [PilotCells -> Pending]
  BY DEF PilotInit, NoPending, Pending
<1>3. ASSUME NEW c \in PilotCells PROVE TraceInd(c) /\ ~Watched(c)
  <2>1. log[c] = <<>> /\ turnState[c] = None /\ ~Written(c)
    BY <1>1 DEF Written
  <2>2. <<>> \in Seq(Event) /\ DOMAIN <<>> = {}
    OBVIOUS
  <2> QED BY <2>1, <2>2 DEF TraceInd, Watched
<1> QED BY <1>1, <1>2, <1>3 DEF RowsInd, WatchInd

LEMMA RowsStep == ASSUME ReceiptInd, RowsInd, [PilotNext]_pilotVars PROVE RowsInd'
<1>0. cellAt \in PilotCells
  BY DEF ReceiptInd
<1>1. ASSUME UNCHANGED <<pc, cellAt, base, counted, files, log, turnState, accepted>>,
             \A c \in PilotCells : receipt'["cancel"][c] = receipt["cancel"][c]
      PROVE  RowsInd'
  <2>1. WatchInd'
    BY <1>0, <1>1, WatchFrame DEF files
  <2> QED BY <1>1, <2>1, RowsFrame DEF files, RowsInd
<1>2. CASE UNCHANGED pilotVars
  BY <1>1, <1>2 DEF pilotVars, runner, gateway
<1>3. CASE PilotSummary \/ Finish
  <2>1. WatchInd'
    BY <1>3, WatchAway DEF PilotSummary, Finish, Abort, Ended
  <2> QED BY <1>3, <2>1, RunnerOnly DEF PilotSummary, Finish
<1>4. CASE KillRunner
  BY <1>4, AwayInd DEF KillRunner, Abort, files, gateway
<1>5. CASE StartGateway
  BY <1>1, <1>5 DEF StartGateway, runner
<1>6. ASSUME NEW q \in inbox, Prior(q) PROVE RowsInd'
  BY <1>1, <1>6 DEF Prior
<1>7. ASSUME NEW q \in inbox, Reserve(q) \/ HandlerRaises(q) PROVE RowsInd'
  <2>1. PICK v \in {"processing", "failed"} : receipt' = [receipt EXCEPT ![q.kind][q.cell] = v]
    BY <1>7 DEF Reserve, HandlerRaises
  <2>2. q.kind \in {"new", "turn"}
    BY DEF ReceiptInd, Commands
  <2>3. \A c \in PilotCells : receipt'["cancel"][c] = receipt["cancel"][c]
    BY <2>1, <2>2 DEF ReceiptInd
  <2> QED BY <1>1, <1>7, <2>3 DEF Reserve, HandlerRaises, runner
<1>8. CASE RunnerSteps \/ Start
  BY <1>0, <1>3, <1>8, BeforeTurnInd, AfterTurnInd, GiveUpTurnInd, WriteRowInd, MarkTerminalInd
     DEF RunnerSteps
<1>9. CASE GatewaySteps
  BY <1>5, <1>6, <1>7, <1>9, HandleRows, TurnEmits, StopGatewayRows DEF GatewaySteps
<1> QED BY <1>2, <1>4, <1>8, <1>9 DEF PilotNext

LEMMA RowsShow == RowsInd => RowsHonest
BY DEF RowsInd, RowsHonest
-----------------------------------------------------------------------------
(* The acceptance batch: what a passed audit vouches for. *)

SessionRecord == [service : Services, turns : Seq(Turn)]
BatchRecord == [service : Services, repeat : BOOLEAN, rows : Seq(CellRow),
                summary : Statuses \cup {NoSummary}]
HarnessRecord == [batch : 1..MaxBatches, at : {"cell", "send", "poll", "read", "summary", "guard"},
                  session : Nat, done : Seq(Recorded)]

LEMMA BatchInitInd == BatchInit => BatchInd
<1> SUFFICES ASSUME BatchInit PROVE BatchInd
  OBVIOUS
<1>1. bound \in Services
  BY BatchAssumption DEF BatchInit
<1>2. 0 \in 0..MaxBatches /\ 0 \in 0..MaxBreaks
  BY BatchAssumption
<1>3. BatchTypeOK
  BY <1>1, <1>2 DEF BatchInit, BatchTypeOK
<1>4. batches = <<>> /\ DOMAIN batches = {} /\ harness = NoBatch /\ report = 0
  BY DEF BatchInit
<1> QED BY <1>3, <1>4 DEF BatchInd, CompletedRows

LEMMA BatchTypes ==
  ASSUME BatchInd
  PROVE  /\ BatchTypeOK /\ sessions \in Seq(SessionRecord) /\ batches \in Seq(BatchRecord)
         /\ Len(sessions) \in Nat /\ DOMAIN sessions = 1..Len(sessions)
         /\ Len(batches) \in Nat /\ DOMAIN batches = 1..Len(batches)
         /\ \A s \in DOMAIN sessions : sessions[s] \in SessionRecord
         /\ \A n \in DOMAIN batches : batches[n] \in BatchRecord
         /\ harness = NoBatch \/ harness \in HarnessRecord
<1>1. BatchTypeOK /\ sessions \in Seq(SessionRecord) /\ batches \in Seq(BatchRecord)
  BY DEF BatchInd, BatchTypeOK, SessionRecord, BatchRecord
<1>2. harness = NoBatch \/ harness \in HarnessRecord
  BY <1>1 DEF BatchTypeOK, HarnessRecord
<1> QED BY <1>1, <1>2

LEMMA BatchRows ==
  ASSUME NEW b \in BatchRecord
  PROVE  /\ b.rows \in Seq(CellRow) /\ Len(b.rows) \in Nat /\ DOMAIN b.rows = 1..Len(b.rows)
         /\ \A i \in DOMAIN b.rows : b.rows[i] \in CellRow
BY DEF BatchRecord

\* What no step takes from a session: its service, its turns and their answers.
Kept ==
  \A s \in DOMAIN sessions :
    /\ s \in DOMAIN sessions' /\ sessions'[s].service = sessions[s].service
    /\ Len(sessions[s].turns) <= Len(sessions'[s].turns)
    /\ \A k \in DOMAIN sessions[s].turns :
         sessions[s].turns[k].state \in EndedWell => sessions'[s].turns[k].state \in EndedWell

LEMMA RowStays ==
  ASSUME BatchInd, BatchTypeOK', Kept, NEW i, NEW row \in CellRow, CompletedRow(i, row)
  PROVE  CompletedRow(i, row)'
<1> SUFFICES ASSUME row.status = "completed" PROVE CompletedRow(i, row)'
  BY DEF CompletedRow
<1>1. /\ row.session \in DOMAIN sessions /\ InOrder(row.turns)
      /\ Len(row.turns) = TurnsOf[i] /\ Len(row.turns) <= Len(sessions[row.session].turns)
  BY DEF CompletedRow, LogOf
<1>2. /\ row.session \in DOMAIN sessions'
      /\ Len(sessions[row.session].turns) <= Len(sessions'[row.session].turns)
  BY <1>1 DEF Kept
<1>3. Len(row.turns) \in Nat
  BY DEF CellRow
<1>4. Len(sessions[row.session].turns) \in Nat
  BY <1>1, BatchTypes DEF SessionRecord
<1>5. Len(sessions'[row.session].turns) \in Nat
  BY <1>2 DEF BatchTypeOK
<1>6. Len(row.turns) <= Len(sessions'[row.session].turns)
  BY <1>1, <1>2, <1>3, <1>4, <1>5
<1> QED BY <1>1, <1>2, <1>6 DEF CompletedRow, LogOf, InOrder

LEMMA VouchedStays ==
  ASSUME BatchInd, BatchTypeOK', Kept, NEW b \in BatchRecord, Vouched(b),
         \A i \in DOMAIN b.rows : CompletedRow(i, b.rows[i])
  PROVE  Vouched(b)'
<1>1. ASSUME NEW i \in DOMAIN b.rows
      PROVE  /\ b.rows[i].status = "completed"
             /\ sessions'[b.rows[i].session].service = b.service
             /\ \A k \in DOMAIN b.rows[i].turns :
                  sessions'[b.rows[i].session].turns[k].state \in EndedWell
  <2> DEFINE row == b.rows[i]
  <2>1. row \in CellRow
    BY BatchRows
  <2>2. /\ row.status = "completed" /\ sessions[row.session].service = b.service
        /\ \A k \in DOMAIN row.turns : sessions[row.session].turns[k].state \in EndedWell
    BY DEF Vouched, LogOf
  <2>3. row.session \in DOMAIN sessions /\ Len(row.turns) <= Len(sessions[row.session].turns)
    BY <2>2 DEF CompletedRow, LogOf
  <2>4. row.turns \in Seq(Recorded) /\ sessions[row.session].turns \in Seq(Turn)
    BY <2>1, <2>3, BatchTypes DEF CellRow, SessionRecord
  <2> HIDE DEF row
  <2>5. ASSUME NEW k \in DOMAIN row.turns PROVE sessions'[row.session].turns[k].state \in EndedWell
    <3>1. k \in DOMAIN sessions[row.session].turns
      BY <2>3, <2>4
    <3> QED BY <2>2, <2>3, <3>1 DEF Kept
  <2>6. sessions'[row.session].service = b.service
    BY <2>2, <2>3 DEF Kept
  <2> QED BY <2>2, <2>5, <2>6 DEF row
<1>2. b.summary # NoSummary /\ Len(b.rows) = Len(TurnsOf) /\ DistinctSessions(b.rows)
  BY DEF Vouched
<1> QED BY <1>1, <1>2 DEF Vouched, LogOf, DistinctSessions

\* A step that writes no summarised batch and leaves the report.
LEMMA BatchChange ==
  ASSUME BatchInd, BatchTypeOK', Kept, report' = report, harness' # NoBatch => HarnessInd',
         CompletedRows',
         \A n \in DOMAIN batches : n \in DOMAIN batches' /\
           (batches[n].summary # NoSummary => batches'[n] = batches[n])
  PROVE  BatchInd'
<1>1. ASSUME report # 0 PROVE report \in DOMAIN batches' /\ Vouched(batches[report])'
  <2>1. report \in DOMAIN batches /\ Vouched(batches[report]) /\ batches[report] \in BatchRecord
    BY <1>1, BatchTypes DEF BatchInd
  <2>2. batches'[report] = batches[report]
    BY <2>1 DEF Vouched
  <2> DEFINE b == batches[report]
  <2>3. \A i \in DOMAIN b.rows : CompletedRow(i, b.rows[i])
    BY <2>1 DEF BatchInd, CompletedRows
  <2>4. ASSUME NEW c \in BatchRecord, c = batches[report] PROVE Vouched(c)'
    BY <2>1, <2>3, <2>4, VouchedStays
  <2>5. PICK c \in BatchRecord : c = batches[report]
    BY <2>1
  <2>6. Vouched(c)'
    BY <2>4, <2>5
  <2>7. Vouched(batches[report])'
    BY <2>2, <2>5, <2>6 DEF Vouched, LogOf, DistinctSessions
  <2> QED BY <2>1, <2>7
<1> QED BY <1>1 DEF BatchInd

\* A step that leaves the batches and the report.
LEMMA BatchFrame ==
  ASSUME BatchInd, BatchTypeOK', Kept, batches' = batches, report' = report,
         harness' # NoBatch => HarnessInd'
  PROVE  BatchInd'
<1>1. ASSUME NEW n \in DOMAIN batches, NEW i \in DOMAIN batches[n].rows
      PROVE  CompletedRow(i, batches[n].rows[i])'
  <2>1. batches[n].rows[i] \in CellRow /\ CompletedRow(i, batches[n].rows[i])
    BY BatchTypes, BatchRows DEF BatchInd, CompletedRows
  <2>2. PICK row \in CellRow : row = batches[n].rows[i] /\ CompletedRow(i, row)
    BY <2>1
  <2>3. CompletedRow(i, row)'
    BY <2>2, RowStays
  <2> QED BY <2>2, <2>3 DEF CompletedRow, LogOf
<1>2. CompletedRows'
  BY <1>1 DEF CompletedRows
<1> QED BY <1>2, BatchChange

\* The harness at a record of its own.
LEMMA HarnessTypes ==
  ASSUME BatchInd, harness # NoBatch
  PROVE  /\ HarnessInd /\ harness \in HarnessRecord /\ harness.batch \in DOMAIN batches
         /\ Mine \in BatchRecord /\ harness.done \in Seq(Recorded) /\ Len(Mine.rows) \in Nat
         /\ harness.at \in {"send", "poll", "read"} =>
              /\ Session \in SessionRecord /\ Session.turns \in Seq(Turn)
              /\ harness.session \in DOMAIN sessions
<1>1. HarnessInd /\ harness \in HarnessRecord
  BY BatchTypes DEF BatchInd
<1>2. harness.batch \in DOMAIN batches
  BY <1>1 DEF HarnessInd
<1>3. Mine \in BatchRecord
  BY <1>2, BatchTypes DEF Mine
<1>4. harness.at \in {"send", "poll", "read"} => Session \in SessionRecord /\ harness.session \in DOMAIN sessions
  BY <1>1, BatchTypes DEF HarnessInd, Session
<1> QED BY <1>1, <1>2, <1>3, <1>4, BatchRows DEF HarnessRecord, SessionRecord

\* A cell's row is written: completed, it holds the turns of a session in order.
LEMMA RecordCellInd ==
  ASSUME BatchInd, harness # NoBatch, harness.at \in {"cell", "send", "poll", "read"},
         Kept, sessions' \in Seq(SessionRecord), UNCHANGED <<bound, up, guard, report, breaks>>,
         NEW s \in Nat, NEW status \in {"completed", "failed"}, NEW turns \in Seq(Recorded),
         RecordCell(s, status, turns),
         status = "completed" =>
           /\ s \in DOMAIN sessions' /\ InOrder(turns)
           /\ Len(turns) = TurnsOf[Cell] /\ Len(turns) <= Len(sessions'[s].turns)
  PROVE  BatchInd'
<1> DEFINE m == harness.batch
           new == [session |-> s, status |-> status, turns |-> turns]
<1>0. /\ HarnessInd /\ harness \in HarnessRecord /\ m \in DOMAIN batches /\ Mine \in BatchRecord
      /\ BatchTypeOK /\ batches \in Seq(BatchRecord)
  BY HarnessTypes, BatchTypes
<1>1. new \in CellRow
  BY DEF CellRow
<1>2. batches' = [batches EXCEPT ![m].rows = Append(@, new)]
  BY DEF RecordCell
<1>3. /\ harness' = [harness EXCEPT !.at = IF Cell = Len(TurnsOf) THEN "summary" ELSE "cell",
                                    !.session = 0, !.done = <<>>]
  BY DEF RecordCell
<1> HIDE DEF new
<1>4. /\ DOMAIN batches' = DOMAIN batches /\ Len(batches') = Len(batches)
      /\ \A n \in DOMAIN batches : n # m => batches'[n] = batches[n]
      /\ batches'[m] = [batches[m] EXCEPT !.rows = Append(@, new)]
  BY <1>0, <1>2
<1>5. /\ batches'[m].summary = Mine.summary /\ batches'[m].rows = Append(Mine.rows, new)
      /\ batches'[m] \in BatchRecord
  <2>1. Mine.rows \in Seq(CellRow) /\ Append(Mine.rows, new) \in Seq(CellRow)
    BY <1>0, <1>1, BatchRows
  <2>2. batches'[m] = [Mine EXCEPT !.rows = Append(Mine.rows, new)]
    BY <1>0, <1>4 DEF Mine, BatchRecord
  <2> QED BY <1>0, <2>1, <2>2 DEF BatchRecord
<1>6. batches' \in Seq(BatchRecord)
  BY <1>0, <1>2, <1>4, <1>5
<1>7. /\ harness' \in HarnessRecord /\ harness'.batch = m /\ harness'.at \in {"summary", "cell"}
      /\ harness'.done = <<>>
  <2>1. (IF Cell = Len(TurnsOf) THEN "summary" ELSE "cell") \in {"summary", "cell"}
    OBVIOUS
  <2>2. PICK at \in {"summary", "cell"} : harness' = [harness EXCEPT !.at = at, !.session = 0, !.done = <<>>]
    BY <1>3, <2>1
  <2>3. harness' = [batch |-> m, at |-> at, session |-> 0, done |-> <<>>]
    BY <1>0, <2>2 DEF HarnessRecord
  <2>4. m \in 1..MaxBatches /\ <<>> \in Seq(Recorded)
    BY <1>0 DEF HarnessRecord
  <2> QED BY <2>3, <2>4 DEF HarnessRecord
<1>8. BatchTypeOK'
  BY <1>0, <1>4, <1>6, <1>7 DEF BatchTypeOK, SessionRecord, BatchRecord, HarnessRecord
<1>9. Mine.summary = NoSummary
  BY <1>0 DEF HarnessInd
<1>10. HarnessInd'
  BY <1>0, <1>4, <1>5, <1>7, <1>9 DEF HarnessInd, Mine
<1>11. ASSUME NEW n \in DOMAIN batches', NEW i \in DOMAIN batches'[n].rows
       PROVE  CompletedRow(i, batches[n].rows[i])'
  <2>1. ASSUME NEW k \in DOMAIN batches, NEW j \in DOMAIN batches[k].rows,
               batches'[n].rows[i] = batches[k].rows[j], i = j
        PROVE  CompletedRow(i, batches[n].rows[i])'
    <3>1. batches[k].rows[j] \in CellRow /\ CompletedRow(j, batches[k].rows[j])
      BY BatchTypes, BatchRows DEF BatchInd, CompletedRows
    <3>2. PICK row \in CellRow : row = batches[k].rows[j] /\ CompletedRow(j, row)
      BY <3>1
    <3>3. CompletedRow(j, row)'
      BY <1>8, <3>2, RowStays
    <3> QED BY <2>1, <3>2, <3>3 DEF CompletedRow, LogOf, InOrder
  <2>2. CASE n # m
    BY <1>4, <2>1, <2>2
  <2>3. CASE n = m /\ i # Len(Mine.rows) + 1
    <3>1. Mine.rows \in Seq(CellRow) /\ Len(Mine.rows) \in Nat
      BY <1>0, BatchRows
    <3>2. i \in DOMAIN Append(Mine.rows, new)
      BY <1>5, <2>3
    <3>3. i \in DOMAIN Mine.rows /\ Append(Mine.rows, new)[i] = Mine.rows[i]
      BY <2>3, <3>1, <3>2
    <3>4. batches'[n].rows[i] = batches[m].rows[i] /\ i \in DOMAIN batches[m].rows
      BY <1>5, <2>3, <3>3 DEF Mine
    <3> QED BY <1>0, <2>1, <3>4
  <2>4. CASE n = m /\ i = Len(Mine.rows) + 1
    <3>1. Mine.rows \in Seq(CellRow) /\ Len(Mine.rows) \in Nat
      BY <1>0, BatchRows
    <3>2. batches'[n].rows[i] = new
      BY <1>5, <2>4, <3>1
    <3>3. new.session = s /\ new.status = status /\ new.turns = turns
      BY DEF new
    <3>4. status = "completed" =>
            /\ s \in DOMAIN sessions' /\ InOrder(turns)
            /\ Len(turns) = TurnsOf[i] /\ Len(turns) <= Len(sessions'[s].turns)
      BY <2>4 DEF Cell
    <3>5. PICK row : row = new /\ row = batches'[n].rows[i]
      BY <3>2
    <3>6. row.session = s /\ row.status = status /\ row.turns = turns
      BY <3>3, <3>5
    <3>7. CompletedRow(i, row)'
      BY <3>4, <3>6 DEF CompletedRow, LogOf, InOrder
    <3> QED BY <3>5, <3>7 DEF CompletedRow, LogOf, InOrder
  <2> QED BY <2>2, <2>3, <2>4
<1>12. CompletedRows'
  BY <1>11 DEF CompletedRows
<1>13. \A n \in DOMAIN batches : n \in DOMAIN batches' /\
         (batches[n].summary # NoSummary => batches'[n] = batches[n])
  BY <1>4, <1>9 DEF Mine
<1> QED BY <1>8, <1>10, <1>12, <1>13, BatchChange

LEMMA SameIsKept == ASSUME BatchInd, sessions' = sessions PROVE Kept /\ sessions' \in Seq(SessionRecord)
<1>1. \A s \in DOMAIN sessions : Len(sessions[s].turns) \in Nat
  BY BatchTypes DEF SessionRecord
<1> QED BY <1>1, BatchTypes DEF Kept

LEMMA CreateSessionInd == ASSUME BatchInd, CreateSession PROVE BatchInd'
<1> DEFINE new == [service |-> bound, turns |-> <<>>]
<1>0. /\ harness # NoBatch /\ harness.at = "cell"
      /\ UNCHANGED <<bound, up, guard, report, breaks>> /\ sessions' = Append(sessions, new)
  BY DEF CreateSession, Harnessing
<1>1. new \in SessionRecord
  BY BatchTypes DEF SessionRecord, BatchTypeOK
<1> HIDE DEF new
<1>2. /\ sessions' \in Seq(SessionRecord) /\ Len(sessions') = Len(sessions) + 1
      /\ DOMAIN sessions' = 1..Len(sessions') /\ sessions'[Len(sessions')] = new
      /\ \A s \in DOMAIN sessions : s \in DOMAIN sessions' /\ sessions'[s] = sessions[s]
  BY <1>0, <1>1, BatchTypes
<1>3. Kept
  <2>1. \A s \in DOMAIN sessions : Len(sessions[s].turns) \in Nat
    BY BatchTypes DEF SessionRecord
  <2> QED BY <1>2, <2>1 DEF Kept
<1>4. Len(sessions') \in Nat /\ Len(sessions') \in DOMAIN sessions'
  BY <1>2, BatchTypes
<1>5. CASE Matches(bound)
  <2>1. harness' = [harness EXCEPT !.at = "send", !.session = Len(sessions')] /\ batches' = batches
    BY <1>5 DEF CreateSession
  <2>2. /\ HarnessInd /\ harness \in HarnessRecord
    BY <1>0, HarnessTypes
  <2>3. /\ harness' \in HarnessRecord /\ harness'.at = "send" /\ harness'.session = Len(sessions')
        /\ harness'.batch = harness.batch /\ harness'.done = <<>>
    BY <1>0, <1>4, <2>1, <2>2 DEF HarnessRecord, HarnessInd
  <2>4. BatchTypeOK'
    BY <1>0, <1>2, <2>1, <2>3, BatchTypes DEF BatchTypeOK, SessionRecord, HarnessRecord
  <2>5. sessions'[Len(sessions')].turns = <<>>
    BY <1>2 DEF new
  <2>6. HarnessInd'
    <3>1. batches'[harness'.batch] = Mine /\ Mine.summary = NoSummary
      BY <1>0, <2>1, <2>2, <2>3 DEF HarnessInd, Mine
    <3> QED BY <1>4, <2>1, <2>2, <2>3, <2>5, <3>1 DEF HarnessInd, Session, InOrder, Mine
  <2> QED BY <1>0, <1>3, <2>1, <2>4, <2>6, BatchFrame
<1>6. CASE ~Matches(bound)
  <2>1. PICK n \in Nat : n = Len(sessions')
    BY <1>4
  <2>2. RecordCell(n, "failed", <<>>)
    BY <1>6, <2>1 DEF CreateSession
  <2>3. <<>> \in Seq(Recorded)
    OBVIOUS
  <2> QED BY <1>0, <1>2, <1>3, <2>2, <2>3, RecordCellInd
<1> QED BY <1>5, <1>6

\* One session changes its turns, none of which it loses or takes an answer from.
LEMMA TurnsGrow ==
  ASSUME BatchInd, NEW s \in DOMAIN sessions, NEW turns \in Seq(Turn),
         sessions' = [sessions EXCEPT ![s].turns = turns],
         Len(sessions[s].turns) <= Len(turns),
         \A k \in DOMAIN sessions[s].turns : sessions[s].turns[k].state \in EndedWell => turns[k].state \in EndedWell
  PROVE  /\ Kept /\ sessions' \in Seq(SessionRecord) /\ DOMAIN sessions' = DOMAIN sessions
         /\ sessions'[s].turns = turns
         /\ \A t \in DOMAIN sessions : t # s => sessions'[t] = sessions[t]
<1>0. sessions \in Seq(SessionRecord) /\ sessions[s] \in SessionRecord
  BY BatchTypes
<1> DEFINE new == [sessions[s] EXCEPT !.turns = turns]
<1>1. new \in SessionRecord /\ new.service = sessions[s].service /\ new.turns = turns
  BY <1>0 DEF SessionRecord
<1>2. sessions' = [sessions EXCEPT ![s] = new]
  BY <1>0
<1> HIDE DEF new
<1>3. /\ sessions' \in Seq(SessionRecord) /\ DOMAIN sessions' = DOMAIN sessions
      /\ sessions'[s] = new /\ \A t \in DOMAIN sessions : t # s => sessions'[t] = sessions[t]
  BY <1>0, <1>1, <1>2
<1>4. \A t \in DOMAIN sessions : Len(sessions[t].turns) \in Nat
  BY BatchTypes DEF SessionRecord
<1>5. ASSUME NEW t \in DOMAIN sessions
      PROVE  /\ t \in DOMAIN sessions' /\ sessions'[t].service = sessions[t].service
             /\ Len(sessions[t].turns) <= Len(sessions'[t].turns)
             /\ \A k \in DOMAIN sessions[t].turns :
                  sessions[t].turns[k].state \in EndedWell => sessions'[t].turns[k].state \in EndedWell
  <2>1. CASE t = s
    BY <1>1, <1>3, <2>1
  <2>2. CASE t # s
    BY <1>3, <1>4, <2>2
  <2> QED BY <2>1, <2>2
<1> QED BY <1>1, <1>3, <1>5 DEF Kept

LEMMA SendTurnInd == ASSUME BatchInd, SendTurn PROVE BatchInd'
<1>0. /\ harness # NoBatch /\ harness.at = "send" /\ harness' = [harness EXCEPT !.at = "poll"]
      /\ UNCHANGED <<bound, up, report, breaks, guard, batches>>
  BY DEF SendTurn, Harnessing
<1>1. /\ HarnessInd /\ harness \in HarnessRecord /\ harness.session \in DOMAIN sessions
      /\ Session \in SessionRecord /\ Session.turns \in Seq(Turn)
      /\ harness.done \in Seq(Recorded) /\ InOrder(harness.done)
      /\ Len(Session.turns) = Len(harness.done)
  <2>1. HarnessInd /\ harness.done \in Seq(Recorded) /\ Session.turns \in Seq(Turn)
    BY <1>0, HarnessTypes
  <2>2. Len(harness.done) \in Nat /\ Len(Session.turns) = Len(harness.done) + 0
    BY <1>0, <2>1 DEF HarnessInd
  <2> QED BY <1>0, <2>1, <2>2, HarnessTypes DEF HarnessInd
<1>2. TurnKinds[harness.batch] \subseteq [calls : 0..1, decision : Decisions]
  BY <1>1, BatchAssumption DEF HarnessRecord
<1>3. PICK k \in TurnKinds[harness.batch] :
        sessions' = [sessions EXCEPT ![harness.session].turns =
          Append(@, [state |-> "running", calls |-> k.calls, decision |-> k.decision])]
  BY DEF SendTurn
<1> DEFINE new == [state |-> "running", calls |-> k.calls, decision |-> k.decision]
           turns == Append(Session.turns, new)
<1>4. new \in Turn
  BY <1>2, <1>3 DEF Turn
<1>5. sessions' = [sessions EXCEPT ![harness.session].turns = turns]
  BY <1>1, <1>3, BatchTypes DEF Session
<1> HIDE DEF new
<1>6. /\ turns \in Seq(Turn) /\ Len(turns) = Len(Session.turns) + 1
      /\ \A j \in DOMAIN Session.turns : turns[j] = Session.turns[j]
  BY <1>1, <1>4
<1>7. Len(Session.turns) \in Nat /\ Session = sessions[harness.session]
  BY <1>1 DEF Session
<1> HIDE DEF turns
<1>8. Kept /\ sessions' \in Seq(SessionRecord) /\ DOMAIN sessions' = DOMAIN sessions
      /\ sessions'[harness.session].turns = turns
  <2>1. PICK s \in DOMAIN sessions : s = harness.session
    BY <1>1
  <2>2. PICK ts \in Seq(Turn) : ts = turns
    BY <1>6
  <2>3. sessions' = [sessions EXCEPT ![s].turns = ts]
    BY <1>5, <2>1, <2>2
  <2>4. /\ Len(sessions[s].turns) <= Len(ts)
        /\ \A j \in DOMAIN sessions[s].turns : sessions[s].turns[j].state \in EndedWell => ts[j].state \in EndedWell
    BY <1>6, <1>7, <2>1, <2>2
  <2>5. /\ Kept /\ sessions' \in Seq(SessionRecord) /\ DOMAIN sessions' = DOMAIN sessions
        /\ sessions'[s].turns = ts
    BY <2>3, <2>4, TurnsGrow
  <2> QED BY <2>1, <2>2, <2>5
<1>9. /\ harness' \in HarnessRecord /\ harness'.at = "poll" /\ harness'.session = harness.session
      /\ harness'.batch = harness.batch /\ harness'.done = harness.done
  BY <1>0, <1>1 DEF HarnessRecord
<1>10. BatchTypeOK'
  BY <1>0, <1>8, <1>9, BatchTypes DEF BatchTypeOK, SessionRecord, HarnessRecord
<1>11. HarnessInd'
  <2>1. batches'[harness'.batch] = Mine /\ Mine.summary = NoSummary
    BY <1>0, <1>1, <1>9 DEF HarnessInd, Mine
  <2>2. Len(turns) = Len(harness'.done) + 1
    BY <1>1, <1>6, <1>9
  <2>3. harness'.batch \in DOMAIN batches'
    BY <1>0, <1>1, <1>9 DEF HarnessInd
  <2> QED BY <1>1, <1>8, <1>9, <2>1, <2>2, <2>3 DEF HarnessInd, Session, InOrder, Mine
<1> QED BY <1>0, <1>8, <1>10, <1>11, BatchFrame

\* The turn the harness polls or reads, and what it puts on record of it.
LEMMA ObservedTurns ==
  ASSUME BatchInd, harness # NoBatch, harness.at \in {"poll", "read"},
         NEW end \in {"ok", "failed", "timeout"}, NEW output \in Nat, NEW early \in BOOLEAN
  PROVE  /\ Current \in DOMAIN Session.turns /\ Current = Len(harness.done) + 1
         /\ Observed(end, output, early) \in Seq(Recorded)
         /\ Len(Observed(end, output, early)) = Current
         /\ output = Current \/ (early /\ output < Current) => InOrder(Observed(end, output, early))
         /\ harness.session \in DOMAIN sessions /\ harness.session \in Nat
         /\ Len(sessions[harness.session].turns) = Current
<1>1. /\ HarnessInd /\ harness.session \in DOMAIN sessions /\ Session.turns \in Seq(Turn)
      /\ harness.done \in Seq(Recorded) /\ InOrder(harness.done)
  BY HarnessTypes DEF HarnessInd
<1>2. Len(harness.done) \in Nat /\ Current = Len(harness.done) + 1
  <2>1. harness.at # "send"
    OBVIOUS
  <2>2. Len(Session.turns) = Len(harness.done) + 1
    BY <1>1, <2>1 DEF HarnessInd
  <2>3. Len(harness.done) \in Nat
    BY <1>1
  <2> QED BY <2>2, <2>3 DEF Current
<1>3. Current \in DOMAIN Session.turns /\ Current \in Nat
  BY <1>1, <1>2 DEF Current
<1>4. Session.turns[Current] \in Turn
  BY <1>1, <1>3
<1> DEFINE new == [turn |-> Current, calls |-> Session.turns[Current].calls, end |-> end,
                   output |-> output, early |-> early]
           done == Observed(end, output, early)
<1>5. new \in Recorded /\ new.turn = Current /\ new.output = output /\ new.early = early
  BY <1>3, <1>4 DEF Recorded, Turn
<1>6. done = Append(harness.done, new)
  BY DEF Observed
<1> HIDE DEF new, done
<1>7. /\ done \in Seq(Recorded) /\ Len(done) = Current
      /\ \A k \in DOMAIN harness.done : done[k] = harness.done[k]
      /\ done[Current] = new /\ DOMAIN done = 1..Current
  BY <1>1, <1>2, <1>5, <1>6
<1>8. ASSUME output = Current \/ (early /\ output < Current), NEW k \in DOMAIN done
      PROVE  done[k].turn = k /\ (done[k].output = k \/ (done[k].early /\ done[k].output < k))
  <2>1. CASE k = Current
    BY <1>5, <1>7, <1>8, <2>1
  <2>2. CASE k # Current
    <3>1. k \in DOMAIN harness.done
      BY <1>1, <1>2, <1>7, <2>2
    <3> QED BY <1>1, <1>7, <3>1 DEF InOrder
  <2> QED BY <2>1, <2>2
<1>9. output = Current \/ (early /\ output < Current) => InOrder(done)
  BY <1>8 DEF InOrder
<1>10. harness.session \in Nat /\ Len(sessions[harness.session].turns) = Current
  BY HarnessTypes DEF HarnessRecord, Current, Session
<1> QED BY <1>1, <1>2, <1>3, <1>7, <1>9, <1>10 DEF done

\* A turn was answered: the next one, or the row of a cell that is complete.
LEMMA AnsweredInd ==
  ASSUME BatchInd, harness # NoBatch, harness.at = "read", NEW done \in Seq(Recorded),
         NextTurn(done), InOrder(done), Len(done) = Current, Current = Len(harness.done) + 1,
         UNCHANGED <<bound, up, report, breaks, sessions, guard>>
  PROVE  BatchInd'
<1>0. Kept /\ sessions' \in Seq(SessionRecord)
  BY SameIsKept
<1>1. harness.session \in Nat
  BY HarnessTypes DEF HarnessRecord
<1>2. /\ Len(done) = Len(harness.done) + 1 /\ InOrder(done)
      /\ harness.session \in DOMAIN sessions /\ harness.session \in Nat
      /\ Len(sessions[harness.session].turns) = Len(done) /\ Len(done) \in Nat
  BY <1>1, HarnessTypes DEF Current, Session
<1>3. CASE Len(done) = TurnsOf[Cell]
  <2>1. RecordCell(harness.session, "completed", done)
    BY <1>1, <1>3 DEF NextTurn
  <2> QED BY <1>0, <1>2, <1>3, <2>1, RecordCellInd
<1>4. CASE Len(done) # TurnsOf[Cell]
  <2>1. harness' = [harness EXCEPT !.at = "send", !.done = done] /\ batches' = batches
    BY <1>1, <1>4 DEF NextTurn
  <2>2. HarnessInd /\ harness \in HarnessRecord
    BY HarnessTypes
  <2>3. /\ harness' \in HarnessRecord /\ harness'.at = "send" /\ harness'.done = done
        /\ harness'.session = harness.session /\ harness'.batch = harness.batch
    BY <2>1, <2>2 DEF HarnessRecord
  <2>4. BatchTypeOK'
    BY <2>1, <2>3, BatchTypes DEF BatchTypeOK, HarnessRecord
  <2>5. HarnessInd'
    <3>1. batches'[harness'.batch] = Mine /\ Mine.summary = NoSummary
      BY <2>1, <2>2, <2>3 DEF HarnessInd, Mine
    <3>2. harness'.batch \in DOMAIN batches'
      BY <2>1, <2>2, <2>3 DEF HarnessInd
    <3>3. Len(sessions'[harness'.session].turns) = Len(harness'.done) + 0
      BY <1>2, <2>3
    <3> QED BY <1>2, <2>3, <3>1, <3>2, <3>3 DEF HarnessInd, Session, InOrder, Mine
  <2> QED BY <1>0, <2>1, <2>4, <2>5, BatchFrame
<1> QED BY <1>3, <1>4

\* A turn that was not answered: the row of a cell that failed.
LEMMA UnansweredInd ==
  ASSUME BatchInd, harness # NoBatch, harness.at = "poll", NEW end \in {"ok", "failed", "timeout"},
         NEW output \in Nat, NEW early \in BOOLEAN,
         RecordCell(harness.session, "failed", Observed(end, output, early)),
         UNCHANGED <<bound, up, report, breaks, sessions, guard>>
  PROVE  BatchInd'
<1>1. PICK done \in Seq(Recorded) : done = Observed(end, output, early)
  BY ObservedTurns
<1>2. RecordCell(harness.session, "failed", done) /\ harness.session \in Nat
  BY <1>1, ObservedTurns
<1> QED BY <1>2, SameIsKept, RecordCellInd

LEMMA TurnSeenInd == ASSUME BatchInd, TurnSeen PROVE BatchInd'
<1>0. /\ harness # NoBatch /\ harness.at = "poll"
      /\ UNCHANGED <<bound, up, report, breaks, sessions, guard>>
  BY DEF TurnSeen, Harnessing
<1>1. CASE harness' = [harness EXCEPT !.at = "read"] /\ batches' = batches
  <2>1. HarnessInd /\ harness \in HarnessRecord
    BY <1>0, HarnessTypes
  <2>2. /\ harness' \in HarnessRecord /\ harness'.at = "read" /\ harness'.done = harness.done
        /\ harness'.session = harness.session /\ harness'.batch = harness.batch
    BY <1>1, <2>1 DEF HarnessRecord
  <2>3. BatchTypeOK'
    BY <1>0, <1>1, <2>2, BatchTypes DEF BatchTypeOK, HarnessRecord
  <2>4. HarnessInd'
    <3>1. batches'[harness'.batch] = Mine /\ Mine.summary = NoSummary
      BY <1>0, <1>1, <2>1, <2>2 DEF HarnessInd, Mine
    <3>2. Session' = Session /\ harness.session \in DOMAIN sessions /\ InOrder(harness.done)
      BY <1>0, <2>1, <2>2 DEF HarnessInd, Session
    <3>3. Len(Session.turns) = Len(harness.done) + 1
      BY <1>0, <2>1 DEF HarnessInd
    <3> QED BY <1>0, <1>1, <2>1, <2>2, <3>1, <3>2, <3>3 DEF HarnessInd, InOrder, Mine
  <2> QED BY <1>0, <1>1, <2>3, <2>4, SameIsKept, BatchFrame
<1>2. CASE RecordCell(harness.session, "failed", Observed("failed", 0, FALSE))
  <2>1. PICK end \in {"ok", "failed", "timeout"}, output \in Nat, early \in BOOLEAN :
          RecordCell(harness.session, "failed", Observed(end, output, early))
    BY <1>2
  <2> QED BY <1>0, <2>1, UnansweredInd
<1> QED BY <1>1, <1>2 DEF TurnSeen

LEMMA ReadAnswerInd == ASSUME BatchInd, ReadAnswer PROVE BatchInd'
<1>0. /\ harness # NoBatch /\ harness.at = "read"
      /\ UNCHANGED <<bound, up, report, breaks, sessions, guard>>
  BY DEF ReadAnswer, Harnessing
<1>1. PICK k \in 0..Current :
        LastAnswer(k) /\ NextTurn(Observed("ok", k, Session.turns[Current].state # "ok"))
  BY DEF ReadAnswer
<1>2. Current \in Nat /\ Current = Len(harness.done) + 1 /\ Len(harness.done) \in Nat
  BY <1>0, HarnessTypes DEF HarnessInd, Current
<1>3. k \in Nat /\ k <= Current
  BY <1>1, <1>2
<1>4. Session.turns[Current].state = "ok" => k = Current
  BY <1>1, <1>2, <1>3 DEF LastAnswer
<1>5. Session.turns[Current].state # "ok" => k < Current
  BY <1>1, <1>2, <1>3 DEF LastAnswer
<1>6. PICK end \in {"ok", "failed", "timeout"}, early \in BOOLEAN :
        /\ NextTurn(Observed(end, k, early))
        /\ early <=> Session.turns[Current].state # "ok"
  BY <1>1
<1>7. k = Current \/ (early /\ k < Current)
  BY <1>4, <1>5, <1>6
<1>8. PICK done \in Seq(Recorded) : done = Observed(end, k, early)
  BY <1>0, <1>3, ObservedTurns
<1>9. InOrder(done) /\ Len(done) = Current
  BY <1>0, <1>3, <1>7, <1>8, ObservedTurns
<1>10. NextTurn(done)
  BY <1>6, <1>8
<1> QED BY <1>0, <1>2, <1>9, <1>10, AnsweredInd

LEMMA TurnTimeoutInd == ASSUME BatchInd, TurnTimeout PROVE BatchInd'
<1>0. /\ harness # NoBatch /\ harness.at = "poll"
      /\ UNCHANGED <<bound, up, report, breaks, sessions, guard>>
  BY DEF TurnTimeout, Harnessing
<1>1. PICK end \in {"ok", "failed", "timeout"}, output \in Nat, early \in BOOLEAN :
        RecordCell(harness.session, "failed", Observed(end, output, early))
  BY DEF TurnTimeout, AfterTimeout
<1> QED BY <1>0, <1>1, UnansweredInd

LEMMA SendRefusedInd == ASSUME BatchInd, SendRefused PROVE BatchInd'
<1>0. /\ harness # NoBatch /\ harness.at = "send"
      /\ UNCHANGED <<bound, up, report, breaks, sessions, guard>>
      /\ RecordCell(harness.session, "failed", harness.done)
  BY DEF SendRefused, Harnessing
<1>1. harness.session \in Nat /\ harness.done \in Seq(Recorded)
  BY <1>0, HarnessTypes DEF HarnessRecord
<1> QED BY <1>0, <1>1, SameIsKept, RecordCellInd

LEMMA GatewayGoneInd == ASSUME BatchInd, GatewayGone PROVE BatchInd'
<1>0. /\ harness # NoBatch /\ harness.at \in {"cell", "send", "poll", "read"}
      /\ UNCHANGED <<bound, up, report, breaks, sessions, guard>>
      /\ RecordCell(harness.session, "failed", harness.done)
  BY DEF GatewayGone, Harnessing
<1>1. harness.session \in Nat /\ harness.done \in Seq(Recorded)
  BY <1>0, HarnessTypes DEF HarnessRecord
<1> QED BY <1>0, <1>1, SameIsKept, RecordCellInd

LEMMA StartBatchInd == ASSUME BatchInd, NEW repeat \in BOOLEAN, StartBatch(repeat) PROVE BatchInd'
<1> DEFINE b == Len(batches) + 1
           new == [service |-> bound, repeat |-> repeat, rows |-> <<>>, summary |-> NoSummary]
<1>0. /\ batches' = Append(batches, new) /\ guard' = [batch |-> b, status |-> "running"]
      /\ harness' = [batch |-> b, at |-> "cell", session |-> 0, done |-> <<>>]
      /\ Len(batches) < MaxBatches /\ UNCHANGED <<bound, up, sessions, report, breaks>>
  BY DEF StartBatch, GuardOnStart
<1>1. new \in BatchRecord /\ new.rows = <<>> /\ new.summary = NoSummary
  BY BatchTypes DEF BatchRecord, BatchTypeOK
<1> HIDE DEF new
<1>2. Len(batches) \in Nat /\ b \in 1..MaxBatches
  BY <1>0, BatchTypes, BatchAssumption
<1>3. /\ batches' \in Seq(BatchRecord) /\ DOMAIN batches' = 1..b /\ batches'[b] = new
      /\ Len(batches') = b
      /\ \A n \in DOMAIN batches : n \in DOMAIN batches' /\ batches'[n] = batches[n]
      /\ \A n \in DOMAIN batches' : n = b \/ n \in DOMAIN batches
  BY <1>0, <1>1, <1>2, BatchTypes
<1>4. /\ harness' \in HarnessRecord /\ harness'.batch = b /\ harness'.at = "cell"
      /\ harness'.done = <<>>
  BY <1>0, <1>2 DEF HarnessRecord
<1>5. guard' \in [batch : 1..MaxBatches, status : Statuses]
  BY <1>0, <1>2 DEF Statuses
<1>6. BatchTypeOK'
  BY <1>0, <1>2, <1>3, <1>4, <1>5, BatchTypes DEF BatchTypeOK, BatchRecord, HarnessRecord
<1>7. b \in DOMAIN batches'
  BY <1>2, <1>3
<1>8. HarnessInd'
  BY <1>1, <1>3, <1>4, <1>7 DEF HarnessInd, Mine
<1>9. ASSUME NEW n \in DOMAIN batches', NEW i \in DOMAIN batches'[n].rows
      PROVE  CompletedRow(i, batches[n].rows[i])'
  <2>1. n \in DOMAIN batches /\ batches'[n] = batches[n]
    BY <1>1, <1>3, <1>9
  <2>2. CompletedRow(i, batches[n].rows[i])
    BY <1>9, <2>1 DEF BatchInd, CompletedRows
  <2> QED BY <1>0, <2>1, <2>2 DEF CompletedRow, LogOf, InOrder
<1>10. CompletedRows'
  BY <1>9 DEF CompletedRows
<1> QED BY <1>0, <1>3, <1>6, <1>8, <1>10, SameIsKept, BatchChange

LEMMA WriteBatchSummaryInd == ASSUME BatchInd, WriteBatchSummary PROVE BatchInd'
<1> DEFINE m == harness.batch
<1>0. /\ harness # NoBatch /\ harness.at = "summary" /\ harness' = [harness EXCEPT !.at = "guard"]
      /\ batches' = [batches EXCEPT ![m].summary = RunStatus]
      /\ UNCHANGED <<bound, up, report, breaks, sessions, guard>>
  BY DEF WriteBatchSummary, Harnessing
<1>1. /\ HarnessInd /\ harness \in HarnessRecord /\ m \in DOMAIN batches /\ Mine \in BatchRecord
      /\ batches \in Seq(BatchRecord) /\ Mine = batches[m]
  BY <1>0, HarnessTypes, BatchTypes DEF Mine
<1>2. RunStatus \in Statuses /\ RunStatus # NoSummary
  BY DEF RunStatus, Statuses, NoSummary
<1> DEFINE new == [Mine EXCEPT !.summary = RunStatus]
<1>3. new \in BatchRecord /\ new.rows = Mine.rows /\ new.summary # NoSummary
  BY <1>1, <1>2 DEF BatchRecord
<1>4. batches' = [batches EXCEPT ![m] = new]
  BY <1>0, <1>1
<1> HIDE DEF new
<1>5. /\ batches' \in Seq(BatchRecord) /\ DOMAIN batches' = DOMAIN batches /\ batches'[m] = new
      /\ Len(batches') = Len(batches)
      /\ \A n \in DOMAIN batches : n # m => batches'[n] = batches[n]
  BY <1>1, <1>3, <1>4
<1>6. /\ harness' \in HarnessRecord /\ harness'.at = "guard" /\ harness'.batch = m
  BY <1>0, <1>1 DEF HarnessRecord
<1>7. BatchTypeOK'
  BY <1>0, <1>5, <1>6, BatchTypes DEF BatchTypeOK, BatchRecord, HarnessRecord
<1>8. HarnessInd'
  BY <1>1, <1>3, <1>5, <1>6 DEF HarnessInd, Mine
<1>9. ASSUME NEW n \in DOMAIN batches', NEW i \in DOMAIN batches'[n].rows
      PROVE  CompletedRow(i, batches[n].rows[i])'
  <2>1. n \in DOMAIN batches /\ batches'[n].rows = batches[n].rows
    BY <1>1, <1>3, <1>5
  <2>2. CompletedRow(i, batches[n].rows[i])
    BY <1>9, <2>1 DEF BatchInd, CompletedRows
  <2> QED BY <1>0, <2>1, <2>2 DEF CompletedRow, LogOf, InOrder
<1>10. CompletedRows'
  BY <1>9 DEF CompletedRows
<1>11. Mine.summary = NoSummary
  BY <1>0, <1>1 DEF HarnessInd
<1> QED BY <1>0, <1>1, <1>5, <1>7, <1>8, <1>10, <1>11, SameIsKept, BatchChange

LEMMA FinishBatchInd == ASSUME BatchInd, FinishBatch PROVE BatchInd'
<1>0. /\ harness # NoBatch /\ harness.at = "guard" /\ harness' = NoBatch
      /\ guard' = [batch |-> harness.batch, status |-> Mine.summary]
      /\ UNCHANGED <<bound, up, report, breaks, sessions, batches>>
  BY DEF FinishBatch, Harnessing
<1>1. Mine.summary \in Statuses /\ harness.batch \in 1..MaxBatches
  BY <1>0, HarnessTypes DEF HarnessInd, BatchRecord, HarnessRecord
<1>2. guard' \in [batch : 1..MaxBatches, status : Statuses]
  BY <1>0, <1>1
<1>3. BatchTypeOK'
  BY <1>0, <1>2, BatchTypes DEF BatchTypeOK
<1> QED BY <1>0, <1>3, SameIsKept, BatchFrame

\* The gateway and the user: no session loses a turn, and only a turn without
\* an end changes its state.
LEMMA HarnessUnchanged ==
  ASSUME BatchInd, harness # NoBatch, UNCHANGED <<harness, batches>>, DOMAIN sessions' = DOMAIN sessions,
         \A s \in DOMAIN sessions : Len(sessions'[s].turns) = Len(sessions[s].turns)
  PROVE  HarnessInd'
BY HarnessTypes DEF HarnessInd, Mine, Session, InOrder

\* The last turn of a session goes on: it ends, or its answer is saved.
LEMMA TurnGoesOn ==
  ASSUME BatchInd, NEW s \in DOMAIN sessions, NEW state \in {"closing", "ok", "failed"},
         sessions[s].turns # <<>>,
         sessions[s].turns[Len(sessions[s].turns)].state \in EndedWell => state \in EndedWell,
         sessions' = [sessions EXCEPT ![s].turns[Len(sessions[s].turns)].state = state],
         UNCHANGED <<bound, up, harness, breaks, guard, batches, report>>
  PROVE  BatchInd'
<1> DEFINE i == Len(sessions[s].turns)
<1>1. sessions[s] \in SessionRecord /\ sessions[s].turns \in Seq(Turn)
  BY BatchTypes DEF SessionRecord
<1>2. i \in DOMAIN sessions[s].turns /\ sessions[s].turns[i] \in Turn
  BY <1>1
<1> DEFINE turn == [sessions[s].turns[i] EXCEPT !.state = state]
           turns == [sessions[s].turns EXCEPT ![i] = turn]
<1>3. turn \in Turn /\ turn.state = state
  BY <1>2 DEF Turn
<1>4. sessions' = [sessions EXCEPT ![s].turns = turns]
  OBVIOUS
<1> HIDE DEF turn
<1>5. /\ turns \in Seq(Turn) /\ Len(turns) = Len(sessions[s].turns)
      /\ \A j \in DOMAIN sessions[s].turns : j # i => turns[j] = sessions[s].turns[j]
      /\ turns[i] = turn
  BY <1>1, <1>2, <1>3
<1>6. \A j \in DOMAIN sessions[s].turns : sessions[s].turns[j].state \in EndedWell => turns[j].state \in EndedWell
  BY <1>3, <1>5
<1> HIDE DEF turns
<1>7. PICK ts \in Seq(Turn) : ts = turns
  BY <1>5
<1>8. /\ Kept /\ sessions' \in Seq(SessionRecord) /\ DOMAIN sessions' = DOMAIN sessions
      /\ sessions'[s].turns = ts
      /\ \A t \in DOMAIN sessions : t # s => sessions'[t] = sessions[t]
  <2>1. Len(sessions[s].turns) <= Len(ts)
    BY <1>1, <1>5, <1>7
  <2>2. sessions' = [sessions EXCEPT ![s].turns = ts]
    BY <1>4, <1>7
  <2>3. \A j \in DOMAIN sessions[s].turns : sessions[s].turns[j].state \in EndedWell => ts[j].state \in EndedWell
    BY <1>6, <1>7
  <2> QED BY <2>1, <2>2, <2>3, TurnsGrow
<1>9. \A t \in DOMAIN sessions : Len(sessions'[t].turns) = Len(sessions[t].turns)
  BY <1>5, <1>7, <1>8
<1>10. BatchTypeOK'
  BY <1>8, BatchTypes DEF BatchTypeOK, SessionRecord
<1>11. harness' # NoBatch => HarnessInd'
  BY <1>8, <1>9, HarnessUnchanged
<1> QED BY <1>8, <1>10, <1>11, BatchFrame

LEMMA TurnEndsInd ==
  ASSUME BatchInd, NEW s \in DOMAIN sessions, NEW state \in {"closing", "failed"}, TurnEnds(s, state)
  PROVE  BatchInd'
<1>1. /\ sessions[s].turns # <<>> /\ sessions[s].turns[Len(sessions[s].turns)].state = "running"
      /\ sessions' = [sessions EXCEPT ![s].turns[Len(sessions[s].turns)].state = state]
      /\ UNCHANGED <<bound, up, harness, breaks, guard, batches, report>>
  BY DEF TurnEnds, Elsewhere
<1>2. sessions[s].turns[Len(sessions[s].turns)].state \notin EndedWell
  BY <1>1 DEF EndedWell
<1> QED BY <1>1, <1>2, TurnGoesOn

LEMMA SaveAnswerInd == ASSUME BatchInd, NEW s \in DOMAIN sessions, SaveAnswer(s) PROVE BatchInd'
<1>1. PICK state \in {"closing", "ok", "failed"} :
        /\ sessions[s].turns # <<>> /\ state \in EndedWell
        /\ sessions' = [sessions EXCEPT ![s].turns[Len(sessions[s].turns)].state = state]
        /\ UNCHANGED <<bound, up, harness, breaks, guard, batches, report>>
  BY DEF SaveAnswer, Elsewhere, EndedWell
<1> QED BY <1>1, TurnGoesOn

LEMMA GatewayDiesInd == ASSUME BatchInd, GatewayDies PROVE BatchInd'
<1>0. /\ up' = FALSE /\ breaks < MaxBreaks /\ breaks' = breaks + 1
      /\ sessions' = [s \in DOMAIN sessions |-> [sessions[s] EXCEPT !.turns =
                        [i \in DOMAIN sessions[s].turns |-> Died(sessions[s].turns[i])]]]
      /\ UNCHANGED <<bound, harness, guard, batches, report>>
  BY BatchTypes DEF GatewayDies, Broken, Elsewhere, SessionRecord
<1>1. ASSUME NEW t \in Turn PROVE Died(t) \in Turn /\ (t.state \in EndedWell => Died(t).state \in EndedWell)
  BY DEF Turn, Died, EndedWell
<1>2. ASSUME NEW s \in DOMAIN sessions
      PROVE  /\ sessions'[s] \in SessionRecord /\ sessions'[s].service = sessions[s].service
             /\ Len(sessions'[s].turns) = Len(sessions[s].turns)
             /\ \A k \in DOMAIN sessions[s].turns :
                  sessions[s].turns[k].state \in EndedWell => sessions'[s].turns[k].state \in EndedWell
  <2> DEFINE old == sessions[s].turns
             new == [i \in DOMAIN old |-> Died(old[i])]
  <2>1. sessions[s] \in SessionRecord /\ old \in Seq(Turn)
    BY BatchTypes DEF SessionRecord
  <2>2. \A i \in DOMAIN old : old[i] \in Turn
    BY <2>1
  <2>3. new \in Seq(Turn) /\ Len(new) = Len(old)
    BY <1>1, <2>1, <2>2
  <2>4. \A k \in DOMAIN old : old[k].state \in EndedWell => new[k].state \in EndedWell
    BY <1>1, <2>2
  <2>5. sessions'[s] = [sessions[s] EXCEPT !.turns = new]
    BY <1>0
  <2> HIDE DEF new
  <2>6. sessions'[s].turns = new /\ sessions'[s].service = sessions[s].service
        /\ sessions'[s] \in SessionRecord
    BY <2>1, <2>3, <2>5 DEF SessionRecord
  <2> QED BY <2>3, <2>4, <2>6
<1>3. sessions' \in Seq(SessionRecord) /\ DOMAIN sessions' = DOMAIN sessions
  <2>1. DOMAIN sessions' = 1..Len(sessions) /\ Len(sessions) \in Nat
    BY <1>0, BatchTypes
  <2>2. \A s \in 1..Len(sessions) : sessions'[s] \in SessionRecord
    BY <1>2, BatchTypes
  <2>3. sessions' = [s \in 1..Len(sessions) |-> sessions'[s]]
    BY <1>0, <2>1
  <2>4. sessions' \in [1..Len(sessions) -> SessionRecord]
    BY <2>2, <2>3
  <2> QED BY <2>1, <2>4, BatchTypes
<1>4. Kept
  <2>1. \A s \in DOMAIN sessions : Len(sessions[s].turns) \in Nat
    BY BatchTypes DEF SessionRecord
  <2> QED BY <1>2, <1>3, <2>1 DEF Kept
<1>5. breaks' \in 0..MaxBreaks
  BY <1>0, BatchTypes, BatchAssumption DEF BatchTypeOK
<1>6. BatchTypeOK'
  BY <1>0, <1>3, <1>5, BatchTypes DEF BatchTypeOK, SessionRecord
<1>7. harness' # NoBatch => HarnessInd'
  BY <1>0, <1>2, <1>3, HarnessUnchanged
<1> QED BY <1>0, <1>4, <1>6, <1>7, BatchFrame

LEMMA AuditInd == ASSUME BatchInd, NEW n \in DOMAIN batches, Audit(n) PROVE BatchInd'
<1>0. /\ batches[n].summary # NoSummary /\ report' = IF Passes(batches[n]) THEN n ELSE 0
      /\ UNCHANGED <<bound, up, sessions, guard, batches, harness, breaks>>
  BY DEF Audit
<1>1. n \in 1..MaxBatches
  <2>1. Len(batches) <= MaxBatches
    BY DEF BatchInd, BatchTypeOK
  <2> QED BY <2>1, BatchTypes, BatchAssumption
<1>2. BatchTypeOK'
  BY <1>0, <1>1, BatchTypes, BatchAssumption DEF BatchTypeOK
<1>3. HarnessInd' <=> HarnessInd
  BY <1>0 DEF HarnessInd, Mine, Session, InOrder
<1>4. CompletedRows'
  BY <1>0 DEF BatchInd, CompletedRows, CompletedRow, LogOf, InOrder
<1>5. ASSUME Passes(batches[n]) PROVE Vouched(batches[n])
  <2> DEFINE b == batches[n]
  <2>1. b \in BatchRecord /\ Len(b.rows) = Len(TurnsOf) /\ DistinctSessions(b.rows)
    BY <1>5, BatchTypes DEF Passes
  <2>2. ASSUME NEW i \in DOMAIN b.rows
        PROVE  LET row == b.rows[i] IN
                 /\ row.status = "completed" /\ sessions[row.session].service = b.service
                 /\ \A k \in DOMAIN row.turns : LogOf(row)[k].state \in EndedWell
    <3> DEFINE row == b.rows[i]
    <3>1. RowPasses(row, b.service)
      BY <1>5 DEF Passes
    <3>2. row.status = "completed" /\ sessions[row.session].service = b.service
      BY <3>1 DEF RowPasses
    <3>3. InOrder(row.turns)
      BY <3>2 DEF BatchInd, CompletedRows, CompletedRow
    <3>4. ASSUME NEW k \in DOMAIN row.turns PROVE LogOf(row)[k].state \in EndedWell
      <4>1. LogOf(row)[row.turns[k].turn].state \in EndedWell
        BY <3>1 DEF RowPasses
      <4> QED BY <3>3, <4>1 DEF InOrder
    <3> QED BY <3>2, <3>4
  <2> QED BY <1>0, <2>1, <2>2 DEF Vouched
<1>6. report' # 0 => report' \in DOMAIN batches' /\ Vouched(batches[report])'
  <2> SUFFICES ASSUME report' # 0 PROVE report' \in DOMAIN batches' /\ Vouched(batches[report])'
    OBVIOUS
  <2>1. report' = n /\ Vouched(batches[n])
    BY <1>0, <1>5
  <2> QED BY <1>0, <2>1 DEF Vouched, LogOf, DistinctSessions
<1> QED BY <1>0, <1>2, <1>3, <1>4, <1>6 DEF BatchInd

LEMMA BatchStep == ASSUME BatchInd, [BatchNext]_batchVars PROVE BatchInd'
<1>1. CASE HarnessStep
  BY <1>1, CreateSessionInd, SendTurnInd, SendRefusedInd, TurnSeenInd, ReadAnswerInd, TurnTimeoutInd, GatewayGoneInd,
     WriteBatchSummaryInd, FinishBatchInd DEF HarnessStep
<1>2. ASSUME UNCHANGED <<guard, batches, report>>, bound' \in Services, up' \in BOOLEAN,
             breaks' \in 0..MaxBreaks, sessions' = sessions,
             harness' = harness \/ harness' = NoBatch
      PROVE  BatchInd'
  <2>1. BatchTypeOK'
    BY <1>2, BatchTypes DEF BatchTypeOK
  <2>2. harness' # NoBatch => HarnessInd'
    BY <1>2, HarnessUnchanged
  <2> QED BY <1>2, <2>1, <2>2, SameIsKept, BatchFrame
<1>3. /\ bound \in Services /\ up \in BOOLEAN /\ breaks \in 0..MaxBreaks
      /\ Broken => breaks' \in 0..MaxBreaks
  BY BatchTypes, BatchAssumption DEF BatchTypeOK, Broken
<1>4. CASE UNCHANGED batchVars
  BY <1>2, <1>3, <1>4 DEF batchVars
<1>5. CASE Rebind \/ GatewayBack \/ KillHarness
  BY <1>2, <1>3, <1>5 DEF Rebind, GatewayBack, KillHarness, Elsewhere
<1> QED
  BY <1>1, <1>4, <1>5, StartBatchInd, TurnEndsInd, SaveAnswerInd, GatewayDiesInd, AuditInd DEF BatchNext

LEMMA BatchShows == BatchInd => PassedIsAnswered
<1> SUFFICES ASSUME BatchInd, report # 0,
                    NEW i \in DOMAIN batches[report].rows
             PROVE  LET row == batches[report].rows[i] IN
                    /\ Len(batches[report].rows) = Len(TurnsOf)
                    /\ sessions[row.session].service = batches[report].service
                    /\ Len(row.turns) = TurnsOf[i]
                    /\ \A k \in 1..TurnsOf[i] :
                         /\ row.turns[k].turn = k /\ LogOf(row)[k].state \in EndedWell
                         /\ row.turns[k].output = k
                            \/ (row.turns[k].early /\ row.turns[k].output < k)
  BY DEF PassedIsAnswered, BatchInd, Vouched
<1> DEFINE b == batches[report]
           row == b.rows[i]
<1>1. report \in DOMAIN batches /\ Vouched(b) /\ b \in BatchRecord
  BY BatchTypes DEF BatchInd
<1>2. row \in CellRow
  BY <1>1, BatchRows
<1>3. /\ Len(b.rows) = Len(TurnsOf) /\ row.status = "completed"
      /\ sessions[row.session].service = b.service
      /\ \A k \in DOMAIN row.turns : LogOf(row)[k].state \in EndedWell
  BY <1>1 DEF Vouched
<1>4. CompletedRow(i, row)
  BY <1>1 DEF BatchInd, CompletedRows
<1>5. InOrder(row.turns) /\ Len(row.turns) = TurnsOf[i]
  BY <1>3, <1>4 DEF CompletedRow
<1>6. DOMAIN row.turns = 1..TurnsOf[i]
  BY <1>2, <1>5 DEF CellRow
<1> HIDE DEF row
<1> QED BY <1>3, <1>5, <1>6 DEF InOrder, row
-----------------------------------------------------------------------------
(* The theorems. *)

\* What every scene keeps of the files and receipts behind the theorems below.
ScriptsInd == MatrixInd /\ BatchInd /\ ReceiptInd /\ RowsInd

\* Each script keeps its own part, whatever is killed, resumed or changed in between.
THEOREM HarnessInvariant == Spec => []ScriptsInd
<1>1. Init => ScriptsInd
  BY MatrixInitInd, BatchInitInd, ReceiptInitInd, RowsInitInd DEF Init, ScriptsInd
<1>2. ScriptsInd /\ [Next]_vars => ScriptsInd'
  <2> SUFFICES ASSUME ScriptsInd, [Next]_vars PROVE ScriptsInd'
    OBVIOUS
  <2>1. [MatrixNext]_matrixVars
    BY DEF Next, vars
  <2>2. [PilotNext]_pilotVars
    BY DEF Next, vars
  <2>3. [BatchNext]_batchVars
    BY DEF Next, vars
  <2> QED BY <2>1, <2>2, <2>3, MatrixStep, BatchStep, PilotStep, RowsStep DEF ScriptsInd
<1> QED BY <1>1, <1>2, PTL DEF Spec

\* Two raters are compared only over templates of one drawing, which show them
\* the same answers, whatever was killed, resumed or changed in between
\* (_score_templates and audit_scores, m3_acceptance.py).
THEOREM RatersSeeTheSame == Spec => []SameAnswersRated
BY HarnessInvariant, MatrixShows, PTL DEF ScriptsInd

\* No cell of the live experiment gets a second session or has its message
\* accepted twice, however often runner and gateway are killed and a command is
\* repeated (post_command and the receipts it keeps, command_store.py).
THEOREM CommandsRunOnce == Spec => []NeverResent
BY HarnessInvariant, ReceiptShows, PTL DEF ScriptsInd

\* A batch that passed its audit was answered as it says: every cell in a session
\* of its own, of the service the batch names, every turn in order and ended well,
\* its output its own answer, or an earlier one if the transcript was read before
\* the answer was saved; and nothing that happens later changes it
\* (run_ab_acceptance.py and audit_acceptance_run.py).
THEOREM PassedBatchesAnswered == Spec => []PassedIsAnswered
BY HarnessInvariant, BatchShows, PTL DEF ScriptsInd

\* A row of a cell that was watched from its start to its end counts every call
\* of the turn, and is completed only if the turn ended well and no reply was cut
\* (CaseRow in run_m3_live_pilot.py over the events it asked for).
THEOREM RowsTellTheTrace == Spec => []RowsHonest
BY HarnessInvariant, RowsShow, PTL DEF ScriptsInd
=============================================================================
