------------------------------ MODULE Campaign ------------------------------
(***************************************************************************)
(* The scripts that spend the authorized model calls of the experiments,   *)
(* one at a time, each over an isolated gateway of its own: a measured     *)
(* preflight and a campaign (scripts/run_m3_abc_research.py) and a repair  *)
(* (scripts/run_m3_rag_repair.py).  A batch runs phases in order, each a   *)
(* run of the live pilot (PilotRun), here reduced to its cells, its calls  *)
(* and one reservation.  A script may raise or be killed between any two   *)
(* steps; what it knows when it is resumed are the files of its runs, the  *)
(* state of its batch, and the pointer to the latest measurement.          *)
(***************************************************************************)
EXTENDS Naturals, Sequences, FiniteSets, FiniteSetsExt, SequencesExt

CONSTANTS
  Measures, Campaigns, Repairs, \* the batches each script may begin
  Base,          \* BASE_CAMPAIGN, which a repair repeats the conditions of
  Planned,       \* cells of a phase
  RagReserve,    \* RAG_BUDGET, reserved for the conditions together
  RepairCeiling, \* MAX_NEW_REQUESTS
  Authorized,    \* APPROVED_TOTAL_REQUEST_BUDGET
  MaxRounds,     \* MAX_AUTHORIZED_PREFLIGHT_ROUNDS
  Outcomes,      \* how a cell of a phase may end: its calls, and whether it failed
  MaxStarts,     \* bound: starts of scripts
  MaxBreaks      \* bound: scripts killed, or ended by an exception between two steps

Rag == <<"cited", "silent">>
Checks == <<"check", "recheck">>
Names == {"preflight", "main"} \union ToSet(Rag) \union ToSet(Checks)
Batches == Measures \union Campaigns \union Repairs
None == "none"

\* PREFLIGHT_BUDGET is 12, MAIN_BUDGET 120 and RAG_BUDGET 136.
ASSUME PreflightAssumption == Planned["preflight"] <= Planned["main"] + RagReserve
ASSUME CampaignAssumption ==
  /\ IsFiniteSet(Batches) /\ Base \in Campaigns /\ Planned \in [Names -> Nat \ {0}] /\ None \notin Batches
  /\ Measures \intersect (Campaigns \union Repairs) = {} /\ Campaigns \intersect Repairs = {}
  /\ {RagReserve, RepairCeiling, Authorized, MaxRounds, MaxStarts, MaxBreaks} \subseteq Nat
  /\ Planned["cited"] <= RagReserve
  /\ \A p \in Names : Outcomes[p] \subseteq [calls : Nat, failed : BOOLEAN]

Phases(b) ==
  IF b \in Measures THEN <<"preflight">>
  ELSE IF b \in Campaigns THEN <<"preflight", "main">> \o Rag
  ELSE Checks \o Rag

\* Retrieval off and evidence required: no cell may call the model.
Expected(p) == IF p = "silent" THEN 0 ELSE 1
RunBudget(p) == Expected(p) * Planned[p]

NoRun == [manifest |-> FALSE, cells |-> 0, calls |-> 0, held |-> 0,
          failed |-> FALSE, many |-> FALSE, quiet |-> FALSE, summary |-> None]

RunIds == {id \in Batches \X Names : id[2] \in ToSet(Phases(id[1]))}

VARIABLES
  pc, active, phase,  \* the script that runs, its batch and its phase
  state,              \* campaign-state.json, repair-state.json; "open": neither
                      \* stopped nor completed, whatever the reason
  approved,           \* approved_preflight_run_id: the measurement relied on
  runs,               \* the files of a batch's runs
  populated,          \* batches whose database holds the copied library
  gateway,            \* gateways over a measurement's database: the script's, one left
  pointer,            \* latest-autoresearch-preflight.json
  order,              \* preflight runs, in the order of their latest times
  starts, breaks,     \* starts and breaks so far
  over                \* calls made beyond what cells reserve

campaignVars == <<pc, active, phase, state, approved, runs, populated, gateway, pointer,
                  order, starts, breaks, over>>

Own(b, p) == runs[<<b, p>>]
At(b, p) == IF p = "preflight" /\ b \in Campaigns /\ approved[b] # None
              THEN Own(approved[b], p) ELSE Own(b, p)

Name == Phases(active)[phase]
Current == Own(active, Name)
Update(r) == runs' = [runs EXCEPT ![<<active, Name>>] = r]

-----------------------------------------------------------------------------
(* The ledger, the gates and the validations. *)

Charged(r) == r.calls + r.held
Ledger == SumFunction([id \in RunIds |-> Charged(runs[id])])

\* A round that never called the model is no round.
Rounds == SelectSeq(order, LAMBDA b : Charged(Own(b, "preflight")) > 0)
RoundCompleted(b) == Own(b, "preflight").summary = "completed"

\* Every planned cell has a row, none failed, none called the model twice.
MainPassed(p, r) == r.cells = Planned[p] /\ ~r.failed /\ ~r.many
PreflightPassed(p, r) == MainPassed(p, r) /\ ~r.quiet
RagPassed(p, r) == MainPassed(p, r) /\ (Expected(p) = 0 => r.calls = 0)
CheckPassed(p, r) == MainPassed(p, r)

Passed(p, r) ==
  CASE p = "preflight" -> PreflightPassed(p, r)
    [] p = "main" -> MainPassed(p, r)
    [] p \in ToSet(Rag) -> RagPassed(p, r)
    [] p \in ToSet(Checks) -> CheckPassed(p, r)

Judged(p, r) == r.summary # None /\ Passed(p, r)

\* Mutant: what is left must cover the next run only.
MayBegin_Next(newRound, resumed, fixed) ==
  LET n == Len(Rounds)
      good == n > 0 /\ RoundCompleted(Last(Rounds))
  IN /\ newRound => n < MaxRounds
     /\ ~resumed /\ n >= MaxRounds => good
     /\ ~resumed /\ n > 0 /\ ~good => fixed
     /\ Ledger + RunBudget("main") <= Authorized

\* _validate_campaign_budget; fixed: the last failure has a described fix and
\* the sources have changed.
MayBegin(newRound, resumed, fixed) ==
  LET n == Len(Rounds)
      good == n > 0 /\ RoundCompleted(Last(Rounds))
      rounds == IF good \/ resumed \/ n >= MaxRounds THEN 0 ELSE 1
  IN /\ newRound => n < MaxRounds
     /\ ~resumed /\ n >= MaxRounds => good
     /\ ~resumed /\ n > 0 /\ ~good => fixed
     /\ Ledger + rounds * Planned["preflight"] + RunBudget("main") + RagReserve <= Authorized

Left(b, p) ==
  LET r == At(b, p)
  IN IF r.summary # None \/ Charged(r) >= RunBudget(p) THEN 0 ELSE RunBudget(p) - Charged(r)

\* _validate_campaign_resume_budget
ResumeNeeds(b) ==
  LET preflight == At(b, "preflight")
      main == Own(b, "main")
  IN IF preflight.summary = None THEN Left(b, "preflight")
     ELSE IF ~Passed("preflight", preflight) THEN 0
     ELSE IF main.summary = None THEN Left(b, "main") + RagReserve
     ELSE IF Passed("main", main) THEN SumFunction([p \in ToSet(Rag) |-> Left(b, p)])
     ELSE 0

\* _remaining_repair_reservation: one check with a summary ends them all.
RepairNeeds(b) ==
  LET planned == SumFunction([p \in ToSet(Checks) |-> RunBudget(p)])
      charged == SumFunction([p \in ToSet(Checks) |-> Charged(Own(b, p))])
      done == \E p \in ToSet(Checks) : Own(b, p).summary # None
  IN (IF done \/ charged > planned THEN 0 ELSE planned - charged)
       + SumFunction([p \in ToSet(Rag) |-> Left(b, p)])

\* _validate_new_batch_budget
RepairAllowed(b, needed) ==
  /\ RepairNeeds(b) <= RepairCeiling
  /\ SumFunction([p \in ToSet(Phases(b)) |-> Charged(Own(b, p))]) <= RepairCeiling
  /\ Ledger + SumFunction([id \in RunIds |-> runs[id].held])
       + (IF needed > RepairNeeds(b) THEN needed ELSE RepairNeeds(b)) <= Authorized
  /\ \A p \in ToSet(Phases(b)) : Own(b, p).held = 0

-----------------------------------------------------------------------------
CampaignInit ==
  /\ pc = "idle" /\ active = None /\ phase = 0
  /\ state = [b \in Batches |-> None] /\ approved = [b \in Batches |-> None]
  /\ runs = [id \in RunIds |-> NoRun]
  /\ populated = {} /\ gateway = [b \in Measures |-> {}]
  /\ pointer = [batch |-> None, state |-> None]
  /\ order = <<>> /\ starts = 0 /\ breaks = 0 /\ over = 0

(* Starting a script; one that is refused leaves nothing behind, but for a *)
(* repair.                                                                 *)

Begin(b, at) ==
  /\ pc = "idle" /\ starts < MaxStarts /\ starts' = starts + 1
  /\ active' = b /\ phase' = 1 /\ pc' = at

\* _incomplete_preflight_candidate
Resumable == pointer.state = "interrupted" /\ Own(pointer.batch, "preflight").manifest

StartMeasure(b) ==
  /\ Begin(b, "prepare") /\ state[b] = None
  /\ pointer.state \notin {"running", "cleanup_unconfirmed"} /\ ~Resumable
  /\ \E fixed \in BOOLEAN : MayBegin(TRUE, FALSE, fixed)
  /\ state' = [state EXCEPT ![b] = "open"]
  /\ pointer' = [batch |-> b, state |-> "running"]
  /\ UNCHANGED <<approved, runs, populated, gateway, order, breaks, over>>

\* A measurement whose summary is written needs no gateway any more.
ResumeMeasure ==
  LET done == Own(pointer.batch, "preflight").summary # None
  IN /\ Resumable /\ MayBegin(FALSE, TRUE, FALSE)
     /\ Begin(pointer.batch, IF done THEN "finalize" ELSE "prepare")
     /\ pointer' = IF done THEN pointer ELSE [pointer EXCEPT !.state = "running"]
     /\ UNCHANGED <<state, approved, runs, populated, gateway, order, breaks, over>>

StartCampaign(b) ==
  /\ Begin(b, "prepare") /\ state[b] = None
  /\ \E fixed \in BOOLEAN : MayBegin(FALSE, FALSE, fixed)
  /\ state' = [state EXCEPT ![b] = "open"]
  /\ \E a \in Measures \union {None} : approved' = [approved EXCEPT ![b] = a]
  /\ UNCHANGED <<runs, populated, gateway, pointer, order, breaks, over>>

\* A campaign is resumed whatever its state; its preflight must have begun.
ResumeCampaign(b) ==
  /\ Begin(b, "prepare") /\ state[b] # None /\ At(b, "preflight").manifest
  /\ Ledger + ResumeNeeds(b) <= Authorized
  /\ state' = [state EXCEPT ![b] = "open"]
  /\ UNCHANGED <<approved, runs, populated, gateway, pointer, order, breaks, over>>

\* _source_lineage: the formal matrix and the first condition of the base have begun.
Lineage == Own(Base, "main").manifest /\ Own(Base, "cited").manifest

\* The files of a repair are written before its calls are validated.
StartRepair(b) ==
  /\ Begin(b, "fresh") /\ state[b] = None /\ Lineage
  /\ state' = [state EXCEPT ![b] = "open"]
  /\ UNCHANGED <<approved, runs, populated, gateway, pointer, order, breaks, over>>

ResumeRepair(b) ==
  /\ Begin(b, "prepare") /\ state[b] \notin {None, "stopped"}
  /\ UNCHANGED <<state, approved, runs, populated, gateway, pointer, order, breaks, over>>

-----------------------------------------------------------------------------
(* The ways a script ends. *)

\* Its gateway is terminated; the wait for its end may fail.
Remaining(gateways, confirmed) ==
  IF confirmed \/ "script" \notin gateways THEN gateways \ {"script"} ELSE {"orphan"}

Closed(confirmed) ==
  gateway' = IF active \notin Measures THEN gateway
             ELSE [gateway EXCEPT ![active] = Remaining(@, confirmed)]

Idle == pc' = "idle" /\ active' = None /\ phase' = 0

Interrupted(confirmed) ==
  pointer' = IF active \notin Measures THEN pointer
             ELSE [pointer EXCEPT !.state = IF confirmed /\ "script" \in gateway[active]
                                              THEN "interrupted" ELSE "cleanup_unconfirmed"]

Preparing == pc \in {"fresh", "prepare"}

\* An exception, before or after the gateway was started.
Raise ==
  \E confirmed \in BOOLEAN :
    /\ Idle /\ Closed(confirmed) /\ Interrupted(confirmed)
    /\ state' = [state EXCEPT ![active] =
                   IF Preparing \/ (@ = "stopped" /\ Name \notin {"preflight", "main"})
                     THEN @ ELSE "open"]
    /\ UNCHANGED <<approved, runs, populated, order, starts, over>>

Breaks == breaks < MaxBreaks /\ breaks' = breaks + 1
Fails == pc \notin {"idle", "finalize"} /\ Breaks /\ Raise

Killed ==
  /\ pc # "idle" /\ Idle /\ Breaks
  /\ Closed(FALSE)
  /\ UNCHANGED <<state, approved, runs, populated, pointer, order, starts, over>>

\* An orphan's end is seen between two scripts only.
OrphanEnds ==
  /\ pc = "idle"
  /\ \E b \in Measures : gateway' = [gateway EXCEPT ![b] = @ \ {"orphan"}] /\ gateway' # gateway
  /\ UNCHANGED <<pc, active, phase, state, approved, runs, populated, pointer,
                 order, starts, breaks, over>>

-----------------------------------------------------------------------------
(* The phases of a batch. *)

LaunchMeasure ==
  /\ pc = "prepare" /\ active \in Measures /\ pc' = "phase"
  /\ gateway' = [gateway EXCEPT ![active] = @ \union {"script"}]
  /\ UNCHANGED <<active, phase, state, approved, runs, populated, pointer, order,
                 starts, breaks, over>>

\* The regression tests, the calibration and the copies for the gateway come
\* first; what any of them raises leaves the state as it was (Fails).
LaunchCampaign ==
  /\ pc = "prepare" /\ active \in Campaigns /\ pc' = "phase"
  /\ state' = [state EXCEPT ![active] = "open"]
  /\ UNCHANGED <<active, phase, approved, runs, populated, gateway, pointer, order,
                 starts, breaks, over>>

\* The prompts are not those of the repeated campaign any more.
StopAtFingerprint ==
  /\ Preparing /\ active \in Repairs /\ Idle
  /\ state' = [state EXCEPT ![active] = "stopped"]
  /\ UNCHANGED <<approved, runs, populated, gateway, pointer, order, starts, breaks, over>>

\* A repair's gateway is of no consequence to what it does later; one that is
\* refused has its files, and is resumed for what is left of it.
LaunchRepair ==
  /\ Preparing /\ active \in Repairs
  /\ IF /\ RepairAllowed(active, IF pc = "fresh" THEN RepairCeiling ELSE 0)
        /\ \A id \in RunIds : runs[id].held = 0
       THEN pc' = "phase" /\ UNCHANGED <<active, phase>> ELSE Idle
  /\ UNCHANGED <<state, approved, runs, populated, gateway, pointer, order, starts,
                 breaks, over>>

UsesApproved == active \in Campaigns /\ approved[active] # None /\ Name = "preflight"

\* Mutant: an approved preflight is taken as it is.
ApprovedGate_Trusts ==
  /\ pc = "phase" /\ UsesApproved /\ phase' = phase + 1 /\ pc' = "phase"
  /\ UNCHANGED <<active, state, approved, runs, populated, gateway, pointer, order,
                 starts, breaks, over>>

\* The approved preflight must be a completed round of the ledger and pass.
ApprovedGate ==
  /\ pc = "phase" /\ UsesApproved
  /\ LET a == approved[active]
     IN IF a \in ToSet(Rounds) /\ RoundCompleted(a) /\ Passed(Name, At(active, Name))
          THEN /\ pc' = "judge"
               /\ UNCHANGED <<active, phase, state, approved, runs, populated, gateway,
                              pointer, order, starts, breaks, over>>
          ELSE Raise /\ UNCHANGED breaks

\* A run with a summary is not run again; a repair takes only a whole one.
TakeSummary ==
  /\ pc = "phase" /\ ~UsesApproved /\ Current.summary # None
  /\ IF active \in Repairs /\ Current.cells < Planned[Name] THEN Raise /\ UNCHANGED breaks
     ELSE /\ pc' = "judge"
          /\ UNCHANGED <<active, phase, state, approved, runs, populated, gateway,
                         pointer, order, starts, breaks, over>>

CopiesLibrary ==
  \/ active \in Campaigns /\ Name \in {"preflight", "main"}
  \/ active \notin Campaigns /\ Name \in {"preflight"} \union ToSet(Checks) /\ ~Current.manifest

\* run, up to its manifest: the library is copied into an empty database only,
\* and never for a run that has begun.
OpenRun ==
  /\ pc = "phase" /\ ~UsesApproved /\ Current.summary = None
  /\ IF \/ CopiesLibrary /\ (Current.manifest \/ active \in populated)
        \/ active \in Repairs /\ Name \in ToSet(Rag) /\ ~RepairAllowed(active, 0)
       THEN Raise /\ UNCHANGED breaks
       ELSE /\ populated' = IF CopiesLibrary THEN populated \union {active} ELSE populated
            /\ pc' = IF Current.manifest THEN "cells" ELSE "manifest"
            /\ UNCHANGED <<active, phase, state, approved, runs, gateway, pointer,
                           order, starts, breaks, over>>

WriteManifest ==
  /\ pc = "manifest" /\ pc' = "cells" /\ Update([Current EXCEPT !.manifest = TRUE])
  /\ order' = IF Name = "preflight" THEN Append(order, active) ELSE order
  /\ UNCHANGED <<active, phase, state, approved, populated, gateway, pointer, starts, breaks, over>>

OverBudget == Charged(Current) + Expected(Name) > RunBudget(Name)
RunDone == Current.cells = Planned[Name] \/ Current.many

\* The reservation of a cell, or the cell that was interrupted.
BeginCell ==
  /\ pc = "cells" /\ ~RunDone /\ ~OverBudget /\ pc' = "cell"
  /\ Update([Current EXCEPT !.held = 1])
  /\ UNCHANGED <<active, phase, state, approved, populated, gateway, pointer,
                 order, starts, breaks, over>>

EndCell ==
  /\ pc = "cell" /\ pc' = "cells"
  /\ \E o \in Outcomes[Name] :
       /\ Update([Current EXCEPT !.held = 0, !.cells = @ + 1, !.calls = @ + o.calls,
                    !.failed = @ \/ o.failed, !.many = @ \/ o.calls > 1,
                    !.quiet = @ \/ o.calls = 0])
       /\ over' = over + (IF o.calls > Expected(Name) THEN o.calls - Expected(Name) ELSE 0)
  /\ UNCHANGED <<active, phase, state, approved, populated, gateway, pointer, order, starts, breaks>>

EndRun ==
  /\ pc = "cells" /\ (RunDone \/ OverBudget)
  /\ pc' = IF active \in Measures THEN "close" ELSE "judge"
  /\ Update([Current EXCEPT !.summary =
               IF Current.cells < Planned[Name] THEN "incomplete"
               ELSE IF Current.failed THEN "completed_with_failures" ELSE "completed"])
  /\ order' = IF Name = "preflight"
                THEN Append(SelectSeq(order, LAMBDA b : b # active), active) ELSE order
  /\ UNCHANGED <<active, phase, state, approved, populated, gateway, pointer, starts, breaks, over>>

Good == Passed(Name, At(active, Name))

\* What was spent, looked at before the gate: by a campaign all of it, by a
\* repair its own calls, after a condition.
SpentBy(b) == SumFunction([p \in ToSet(Phases(b)) |-> Own(b, p).calls])
Exceeded ==
  IF active \in Repairs
    THEN Name \in ToSet(Rag) /\ SpentBy(active) > RepairCeiling
    ELSE Ledger > Authorized

(* The gates.  A check of a repair says so in the state after the last one    *)
(* only, a condition does not at all.                                         *)

AtGate(names, good) == pc = "judge" /\ ~Exceeded /\ Name \in names /\ Good = good
Proceed == phase' = phase + 1 /\ pc' = "phase"
Close == phase' = phase /\ pc' = "end"
Mark(s) == state' = [state EXCEPT ![active] = s]
GateFrame == UNCHANGED <<active, approved, runs, populated, gateway, pointer, order,
                         starts, breaks, over>>

PassPreflight == AtGate({"preflight"}, TRUE) /\ Proceed /\ Mark("open") /\ GateFrame
StopAfterPreflight == AtGate({"preflight"}, FALSE) /\ Close /\ Mark("stopped") /\ GateFrame

PassMatrix == AtGate({"main"}, TRUE) /\ Proceed /\ Mark("open") /\ GateFrame
StopAfterMatrix == AtGate({"main"}, FALSE) /\ Close /\ Mark("stopped") /\ GateFrame

PassCheck ==
  /\ AtGate(ToSet(Checks), TRUE) /\ Proceed /\ GateFrame
  /\ IF Name = Last(Checks) THEN Mark("open") ELSE UNCHANGED state
StopAfterChecks == AtGate(ToSet(Checks), FALSE) /\ Close /\ Mark("stopped") /\ GateFrame

PassCondition ==
  /\ AtGate(ToSet(Rag), TRUE) /\ UNCHANGED state /\ GateFrame
  /\ IF Name = Last(Rag) THEN phase' = phase /\ pc' = "finish" ELSE Proceed
StopAtCondition == AtGate(ToSet(Rag), FALSE) /\ Close /\ Mark("stopped") /\ GateFrame

FinishCampaign ==
  pc = "finish" /\ active \in Campaigns /\ Close /\ Mark("completed") /\ GateFrame
FinishRepair ==
  pc = "finish" /\ active \in Repairs /\ Close /\ Mark("completed") /\ GateFrame

ExceedsAtGate == pc = "judge" /\ Exceeded /\ Raise /\ UNCHANGED breaks

End ==
  /\ pc = "end" /\ Idle
  /\ \E confirmed \in BOOLEAN :
       /\ Closed(confirmed)
       /\ state' = IF confirmed \/ active \in Repairs THEN state
                   ELSE [state EXCEPT ![active] = "open"]
  /\ UNCHANGED <<approved, runs, populated, pointer, order, starts, breaks, over>>

\* The measurement closes its gateway before it looks at what it measured.
CloseMeasure ==
  /\ pc = "close"
  /\ \E confirmed \in BOOLEAN :
       /\ Closed(confirmed) /\ Interrupted(confirmed)
       /\ IF confirmed THEN pc' = "finalize" /\ UNCHANGED <<active, phase>> ELSE Idle
  /\ UNCHANGED <<state, approved, runs, populated, order, starts, breaks, over>>

Finalize ==
  /\ pc = "finalize" /\ Idle
  /\ Update([Current EXCEPT !.summary = IF Good THEN "completed" ELSE "completed_with_failures"])
  /\ pointer' = [pointer EXCEPT !.state = IF Good THEN "completed" ELSE "stopped_after_preflight"]
  /\ UNCHANGED <<state, approved, populated, gateway, order, starts, breaks, over>>

-----------------------------------------------------------------------------
CampaignNext ==
  \/ \E b \in Measures : StartMeasure(b)
  \/ \E b \in Campaigns : StartCampaign(b) \/ ResumeCampaign(b)
  \/ \E b \in Repairs : StartRepair(b) \/ ResumeRepair(b)
  \/ ResumeMeasure \/ LaunchMeasure \/ LaunchCampaign \/ StopAtFingerprint \/ LaunchRepair
  \/ ApprovedGate \/ TakeSummary \/ OpenRun \/ WriteManifest \/ BeginCell \/ EndCell \/ EndRun
  \/ PassPreflight \/ StopAfterPreflight \/ PassMatrix \/ StopAfterMatrix
  \/ PassCheck \/ StopAfterChecks \/ PassCondition \/ StopAtCondition
  \/ FinishCampaign \/ FinishRepair \/ ExceedsAtGate
  \/ End \/ CloseMeasure \/ Finalize \/ Fails \/ Killed \/ OrphanEnds

-----------------------------------------------------------------------------
(* Properties. *)

\* Whatever is begun, killed and resumed in whatever order, the calls made and
\* the calls of cells under way stay within the authorization, but for calls a
\* cell did not reserve.  A cell of a silent condition reserves a call too, so
\* that the ledger itself may read one more (the validations of the scripts at
\* APPROVED_TOTAL_REQUEST_BUDGET).
Spent(id) == runs[id].calls + (IF id[2] = "silent" THEN 0 ELSE runs[id].held)
WithinAuthorization == SumFunction([id \in RunIds |-> Spent(id)]) <= Authorized + over

\* No phase of a batch has begun unless every phase before it passed its gate,
\* the approved preflight of another batch included, and a batch reported
\* complete has passed them all (main's gates, finish).
GatesHold ==
  \A b \in Campaigns \union Repairs :
    \A j \in 1 .. Len(Phases(b)) :
      \/ Judged(Phases(b)[j], At(b, Phases(b)[j]))
      \/ /\ \A i \in j + 1 .. Len(Phases(b)) : ~Own(b, Phases(b)[i]).manifest
         /\ state[b] # "completed"

(* The inductive invariant behind it. *)

\* All but the order of the rounds and the counters.
CampaignTypeOK ==
  /\ pc \in {"idle", "fresh", "prepare", "phase", "manifest", "cells", "cell", "judge", "finish",
            "end", "close", "finalize"}
  /\ active \in Batches \union {None}
  /\ state \in [Batches -> {None, "open", "stopped", "completed"}]
  /\ approved \in [Batches -> Measures \union {None}]
  /\ runs \in [RunIds -> [manifest : BOOLEAN, cells : Nat, calls : Nat, held : Nat,
                         failed : BOOLEAN, many : BOOLEAN, quiet : BOOLEAN,
                         summary : {None, "incomplete", "completed_with_failures", "completed"}]]
  /\ populated \subseteq Batches /\ gateway \in [Measures -> SUBSET {"script", "orphan"}]
  /\ pointer \in [batch : Measures \union {None},
                  state : {None, "running", "interrupted", "cleanup_unconfirmed", "completed",
                           "stopped_after_preflight"}]

\* Where the script stands, and what is there when it does.
ScriptKept ==
  /\ pc = "idle" <=> active = None
  /\ active # None => phase \in DOMAIN Phases(active) /\ state[active] # None
  /\ pointer.batch = None => pointer.state = None
  /\ pointer.batch # None => state[pointer.batch] # None
  /\ active \in Measures => pointer.batch # None /\ pc \notin {"fresh", "judge", "finish", "end"}
  /\ pc \in {"close", "finalize"} => active \in Measures
  /\ active \in Measures /\ pc \in {"prepare", "phase"} => Current.summary = None
  /\ pc \in {"manifest", "cells", "cell"} => ~UsesApproved /\ Current.summary = None
  /\ pc = "judge" => At(active, Name).summary # None

JudgedAt(b, j) == Judged(Phases(b)[j], At(b, Phases(b)[j]))

\* A batch that was never begun has no runs; the one at work has passed the
\* gates of its phases so far.
PhasesKept ==
  /\ \A id \in RunIds : state[id[1]] = None => runs[id] = NoRun
  /\ active \in Campaigns \union Repairs =>
       \A j \in DOMAIN Phases(active) : j < phase => JudgedAt(active, j)
  /\ pc = "finish" => phase = Len(Phases(active)) /\ JudgedAt(active, phase)

\* A run that has not begun has no files, one that has begun says that its
\* library is copied, and a reservation is one call.  The second check of a
\* repair is never begun: the first one has copied the library.
FilesKept ==
  /\ \A id \in RunIds : ~runs[id].manifest => runs[id] = NoRun
  /\ \A id \in RunIds : runs[id].held \in {0, 1}
  /\ \A id \in RunIds : runs[id].manifest /\ id[1] \in Campaigns /\ id[2] \in {"preflight", "main"}
                          => id[1] \in populated
  /\ \A id \in RunIds : runs[id].manifest /\ id[2] = "check" => id[1] \in populated
  /\ \A id \in RunIds : id[2] = "recheck" => ~runs[id].manifest

\* What is there when a script begins a run, works on it and has ended it.
BegunKept ==
  /\ pc = "manifest" /\ active \notin Measures /\ Name \in {"preflight", "main", "check"}
       => active \in populated
  /\ pc = "manifest" => Name # "recheck"
  /\ pc \in {"cells", "cell", "close", "finalize"} => Current.manifest
  /\ pc = "cell" => Current.held = 1

\* What the script at work may still call: a campaign whose library is copied
\* begins no matrix, and a repair's second check is never begun.
CampaignDue(b) ==
  IF At(b, "preflight").summary = None THEN Left(b, "preflight")
  ELSE IF ~Passed("preflight", At(b, "preflight")) THEN 0
  ELSE IF Own(b, "main").summary # None
    THEN IF Passed("main", Own(b, "main")) THEN Left(b, "cited") ELSE 0
  ELSE IF b \in populated /\ ~Own(b, "main").manifest /\ pc # "manifest" THEN 0
  ELSE Left(b, "main") + RagReserve
Due ==
  IF active \in Measures THEN Left(active, "preflight")
  ELSE IF active \in Campaigns THEN CampaignDue(active)
  ELSE IF active \in Repairs /\ ~Preparing THEN Left(active, "check") + Left(active, "cited")
  ELSE 0

BudgetKept ==
  /\ over \in Nat
  /\ SumFunction([id \in RunIds |-> Spent(id)]) + Due <= Authorized + over

CampaignInd == CampaignTypeOK /\ ScriptKept /\ PhasesKept /\ GatesHold
BudgetInd == FilesKept /\ BegunKept /\ BudgetKept
=============================================================================
