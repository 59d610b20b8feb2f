---------------------------- MODULE FulltextBatch ----------------------------
(***************************************************************************)
(* scripts/run_m3_fulltext_rag.py: the full-textbook batch, a preflight and *)
(* the conditions one after the other, each a run of the live pilot against *)
(* a gateway of the batch; scripts/resume_fulltext_frozen_batch.py, which   *)
(* resumes it in a changed work tree; and the script that closes a batch    *)
(* for good (record_fulltext_configuration_stop.py).  What a cell does is   *)
(* abstracted from PilotRun to what the batch reads of it.                  *)
(*                                                                         *)
(* One runner works on the batch at a time, beside its gateway, whose turns *)
(* go on when the runner was killed, and beside the reviewer of             *)
(* FulltextReview, whose requests are charged to the same ledger.           *)
(***************************************************************************)
EXTENDS Naturals, Sequences, FiniteSets, FiniteSetsExt

CONSTANTS
  Legs,        \* the phases, the preflight first: [cells, asks]
  Ceilings,    \* authorization: [preflight, formal, annotation]
  Requests,    \* bound: the requests the review may make
  MaxAsks,     \* bound: model calls of one turn
  MaxRuns,     \* bound: starts of the runner
  MaxMishaps   \* bound: kills, exceptions and changed files together

ASSUME FulltextAssumption ==
  /\ Legs \in Seq([cells : Nat \ {0}, asks : 0..1]) /\ Legs # <<>>
  /\ Ceilings \in [preflight : Nat, formal : Nat, annotation : Nat]
  /\ MaxAsks \in Nat /\ MaxRuns \in Nat /\ MaxMishaps \in Nat

VARIABLES
  runner,    \* the runner: [at, leg, cell, counted, lenient]
  doc,       \* batch-state.json
  index,     \* index/fulltext.sqlite: "none", "unproved" or "proved"
  pinned,    \* frozen-config.json: the runtime files, 0 while there is none
  version, tree,  \* the runtime files now; everything else of the repository
  begun,     \* the manifest of each leg: [tree, stopped]
  pend,      \* the pending file of each cell
  result,    \* its row
  turnOf,    \* the turn the gateway works on for it
  wires,     \* the requests archived for it before they were sent
  server,   \* whether a gateway of the batch lives
  request,   \* per request of the review what its files say
  launches, mishaps

runnerVars == <<runner, launches>>
filesVars == <<doc, index, pinned, begun, pend, result, request>>
worldVars == <<version, tree, turnOf, wires, server>>
batchTrialVars == <<runnerVars, filesVars, worldVars, mishaps>>

Spots == UNION {{l} \X (1..Legs[l].cells) : l \in DOMAIN Legs}
NotRunning == [at |-> "idle", leg |-> 1, cell |-> 1, counted |-> 0, lenient |-> FALSE]
NoDoc == [status |-> "none", eligible |-> TRUE, preflight |-> FALSE]
NoResult == [status |-> "none", calls |-> 0, cited |-> FALSE]
NotBegun == [tree |-> 0, stopped |-> FALSE]

FulltextInit ==
  /\ runner = NotRunning /\ launches \in 0..MaxRuns /\ mishaps \in 0..MaxMishaps
  /\ doc = NoDoc /\ index = "none" /\ pinned = 0 /\ version = 1 /\ tree = 1
  /\ begun = [l \in DOMAIN Legs |-> NotBegun]
  /\ pend = [s \in Spots |-> "none"] /\ result = [s \in Spots |-> NoResult]
  /\ turnOf = [s \in Spots |-> "none"] /\ wires = [s \in Spots |-> 0]
  /\ server = FALSE /\ request = [r \in Requests |-> "none"]

-----------------------------------------------------------------------------
(* The ledger: budget_state and check_budget. *)

HasResult(s) == result[s].status # "none"
SumOver(value, places) == MapThenSumSet(LAMBDA s : value[s], places)
CallsOf(places) == MapThenSumSet(LAMBDA s : result[s].calls, places)
Preflight == {s \in Spots : s[1] = 1}
Formal == Spots \ Preflight
KindOf(leg) == IF leg = 1 THEN "preflight" ELSE "formal"

Open(s) == pend[s] = "turn" /\ ~HasResult(s)
Asked(r) == request[r] = "open"
Unresolved == (\E s \in Spots : Open(s)) \/ (\E r \in Requests : Asked(r))

Used(kind) ==
  CASE kind = "preflight" -> CallsOf(Preflight)
    [] kind = "formal" -> CallsOf(Formal)
    [] kind = "annotation" -> Cardinality({r \in Requests : request[r] \in {"completed", "failed"}})

AllCeilings == Ceilings.preflight + Ceilings.formal + Ceilings.annotation
UsedInAll == Used("preflight") + Used("formal") + Used("annotation")

\* Mutant: a request whose outcome is unknown is forgotten.
BudgetAllows_Forgets(needed) == UsedInAll + needed <= AllCeilings
BudgetAllows(needed) == ~Unresolved /\ UsedInAll + needed <= AllCeilings

LegAllows(kind, needed) == Used(kind) + needed <= Ceilings[kind]

\* validate_wire_archive: as many requests were archived as the rows say.
ArchiveAgrees == SumOver(wires, Spots) = CallsOf(Spots)

-----------------------------------------------------------------------------
(* The runner *)

Mishap == mishaps < MaxMishaps /\ mishaps' = mishaps + 1
Go(at) == runner' = [runner EXCEPT !.at = at]

\* finalize_batch: the gateway is stopped, which may not be confirmed; its
\* turns end without another request, or are lost with it.
CloseGateway ==
  \E stopped \in BOOLEAN :
    /\ server' = ~stopped
    /\ \/ UNCHANGED turnOf
       \/ /\ stopped
          /\ \E end \in {"failed", "lost"} :
               turnOf' = [s \in Spots |-> IF turnOf[s] = "running" THEN end ELSE turnOf[s]]
    /\ stopped => \A s \in Spots : turnOf'[s] # "running"

FinalizeBatch(status, passed) ==
  /\ runner' = NotRunning /\ CloseGateway
  /\ doc' = [doc EXCEPT !.status = status, !.preflight = passed]

Stopped == FinalizeBatch("stopped", doc.preflight)

\* run_batch up to the gateway.  A batch that is there needs --resume, and the
\* files it was frozen with; one that is declared ineligible is never begun, and
\* one whose index has no manifest cannot be.
Begins(resume) ==
  /\ runner.at = "idle" /\ launches < MaxRuns /\ doc.eligible
  /\ index # "none" => resume
  /\ index # "unproved"

Startable(resume) ==
  /\ Begins(resume)
  /\ pinned # 0 => version = pinned
  /\ BudgetAllows(IF resume THEN 0 ELSE Ceilings.preflight + Ceilings.formal)

Freeze == index' = "proved" /\ pinned' = IF pinned = 0 THEN version ELSE pinned

\* build_index: the manifest is written after the database.
KilledWhileIndexing ==
  /\ Mishap /\ Begins(FALSE) /\ index' = "unproved" /\ launches' = launches + 1
  /\ UNCHANGED <<runner, doc, pinned, begun, pend, result, request, worldVars>>

\* resume_fulltext_frozen_batch: the pilot may go on in a changed work tree.
ResumeLeniently == doc.status # "none" /\ doc.eligible /\ version = pinned /\ BudgetAllows(0)

PrepareOnly ==
  /\ \E resume \in BOOLEAN : Startable(resume)
  /\ launches' = launches + 1 /\ Freeze
  /\ doc' = [NoDoc EXCEPT !.status = "prepared"]
  /\ UNCHANGED <<runner, begun, pend, result, request, worldVars, mishaps>>

StartFulltext ==
  /\ \E resume, lenient \in BOOLEAN :
       /\ Startable(resume)
       /\ lenient => resume /\ ResumeLeniently
       /\ runner' = [NotRunning EXCEPT !.at = "leg", !.lenient = lenient]
  /\ launches' = launches + 1 /\ Freeze
  /\ doc' = [NoDoc EXCEPT !.status = "running"]
  /\ server' = TRUE
  /\ UNCHANGED <<begun, pend, result, request, version, tree, turnOf, wires, mishaps>>

Here == <<runner.leg, runner.cell>>
Asks == Legs[runner.leg].asks

MayBeginLeg ==
  /\ runner.leg > 1 => doc.preflight
  /\ version = pinned
  /\ BudgetAllows(IF runner.leg = 1 THEN Legs[1].cells ELSE 0)

\* The run of a leg keeps the work tree it was begun in.
SameTree == begun[runner.leg].tree \in {0, tree} \/ runner.lenient

BeginLeg ==
  /\ runner.at = "leg" /\ MayBeginLeg /\ SameTree
  /\ begun' = [begun EXCEPT ![runner.leg].tree = tree]
  /\ runner' = [runner EXCEPT !.at = "cell", !.cell = 1]
  /\ UNCHANGED <<launches, doc, index, pinned, pend, result, request, worldVars, mishaps>>

LegRefused ==
  /\ runner.at = "leg" /\ ~(MayBeginLeg /\ SameTree) /\ Stopped
  /\ UNCHANGED <<launches, index, pinned, begun, pend, result, request, version, tree, wires, mishaps>>

NextCell ==
  runner' = IF runner.cell < Legs[runner.leg].cells
              THEN [runner EXCEPT !.at = "cell", !.cell = @ + 1, !.counted = 0]
              ELSE [runner EXCEPT !.at = "judge", !.counted = 0]

\* A run that was stopped keeps its status, and ends after the first case.
SkipWritten ==
  /\ runner.at = "cell" /\ HasResult(Here)
  /\ IF begun[runner.leg].stopped THEN Go("judge") ELSE NextCell
  /\ UNCHANGED <<launches, filesVars, worldVars, mishaps>>

\* guard_cell
GuardHolds ==
  /\ version = pinned /\ ArchiveAgrees
  /\ BudgetAllows(Asks) /\ LegAllows(KindOf(runner.leg), Asks)

LegCalls == CallsOf({s \in Spots : s[1] = runner.leg})
OverLegBudget == LegCalls + Asks > Legs[runner.leg].cells * Asks

EnterSpot ==
  /\ runner.at = "cell" /\ ~HasResult(Here) /\ GuardHolds /\ ~OverLegBudget
  /\ pend' = [pend EXCEPT ![Here] = "session"]
  /\ Go("post")
  /\ UNCHANGED <<launches, doc, index, pinned, begun, result, request, worldVars, mishaps>>

StopAtLegBudget ==
  /\ runner.at = "cell" /\ ~HasResult(Here) /\ GuardHolds /\ OverLegBudget
  /\ begun' = [begun EXCEPT ![runner.leg].stopped = TRUE]
  /\ Go("judge")
  /\ UNCHANGED <<launches, doc, index, pinned, pend, result, request, worldVars, mishaps>>

GuardFails ==
  /\ runner.at = "cell" /\ ~HasResult(Here) /\ ~GuardHolds /\ Stopped
  /\ UNCHANGED <<launches, index, pinned, begun, pend, result, request, version, tree, wires, mishaps>>

\* The reservation is written, then the message is posted; the post may fail.
SendMessage ==
  /\ runner.at = "post"
  /\ pend' = [pend EXCEPT ![Here] = "turn"]
  /\ turnOf' = [turnOf EXCEPT ![Here] = "running"] /\ Go("wait")
  /\ UNCHANGED <<launches, doc, index, pinned, begun, result, request, version, tree, wires,
                 server, mishaps>>

\* The row says of a turn that ended in time what it called; one that was
\* cancelled says what it had called at its deadline.
WriteResult(status, calls) ==
  /\ \E cited \in BOOLEAN :
       /\ cited => runner.leg = 1 /\ calls > 0 \* no other row is asked for it
       /\ result' = [result EXCEPT ![Here] = [status |-> status, calls |-> calls, cited |-> cited]]
  /\ Go("mark")
  /\ UNCHANGED <<launches, doc, index, pinned, begun, pend, request, worldVars, mishaps>>

TurnSeenToEnd ==
  /\ runner.at = "wait" /\ turnOf[Here] \in {"ok", "failed"}
  /\ WriteResult(turnOf[Here], wires[Here])

GiveUpTurn ==
  /\ runner.at = "wait" /\ turnOf[Here] = "running"
  /\ runner' = [runner EXCEPT !.at = "cancel", !.counted = wires[Here]]
  /\ UNCHANGED <<launches, filesVars, worldVars, mishaps>>

CancelSeen ==
  /\ runner.at = "cancel" /\ turnOf[Here] \in {"ok", "failed"}
  /\ WriteResult("failed", runner.counted)

CancelNotSeen ==
  /\ runner.at = "cancel" /\ turnOf[Here] = "running" /\ Stopped
  /\ UNCHANGED <<launches, index, pinned, begun, pend, result, request, version, tree, wires, mishaps>>

\* More than one call is saved at once; a failed cell only at the run's end.
MarkCell ==
  /\ runner.at = "mark"
  /\ pend' = [pend EXCEPT ![Here] = "terminal"]
  /\ begun' = [begun EXCEPT ![runner.leg].stopped = @ \/ result[Here].calls > 1]
  /\ IF result[Here].calls > 1 THEN Go("judge")
     ELSE IF result[Here].status = "failed" THEN Go("halt")
     ELSE NextCell
  /\ UNCHANGED <<launches, doc, index, pinned, result, request, worldVars, mishaps>>

HaltLeg ==
  /\ runner.at = "halt" /\ Go("judge")
  /\ begun' = [begun EXCEPT ![runner.leg].stopped = TRUE]
  /\ UNCHANGED <<launches, doc, index, pinned, pend, result, request, worldVars, mishaps>>

\* Mutant: it is enough that every cell has a row.
Successful_Observed(leg) == \A s \in Spots : s[1] = leg => HasResult(s)
Successful(leg) == \A s \in Spots : s[1] = leg => result[s].status = "ok" /\ result[s].calls <= 1

LegPassed ==
  /\ Successful(runner.leg)
  /\ runner.leg = 1 => \E s \in Preflight : result[s].calls > 0 /\ result[s].cited

PassLeg ==
  /\ runner.at = "judge" /\ ArchiveAgrees /\ LegPassed
  /\ IF runner.leg < Len(Legs)
       THEN /\ runner' = [runner EXCEPT !.at = "leg", !.leg = @ + 1, !.cell = 1]
            /\ doc' = [doc EXCEPT !.preflight = TRUE]
            /\ UNCHANGED <<server, turnOf>>
       ELSE FinalizeBatch("completed", TRUE)
  /\ UNCHANGED <<launches, index, pinned, begun, pend, result, request, version, tree, wires, mishaps>>

FailLeg ==
  /\ runner.at = "judge" /\ ~(ArchiveAgrees /\ LegPassed) /\ Stopped
  /\ UNCHANGED <<launches, index, pinned, begun, pend, result, request, version, tree, wires, mishaps>>

\* Any request of the runner may fail, which is an exception of the batch.
RunnerRaises ==
  /\ runner.at \in {"leg", "post", "wait", "cancel"} /\ Mishap /\ Stopped
  /\ \/ UNCHANGED pend
     \/ runner.at = "post" /\ pend' = [pend EXCEPT ![Here] = "turn"]
  /\ UNCHANGED <<launches, index, pinned, begun, result, request, version, tree, wires>>

RunnerKilled ==
  /\ runner.at # "idle" /\ Mishap /\ runner' = NotRunning
  /\ UNCHANGED <<launches, filesVars, worldVars>>

-----------------------------------------------------------------------------
(* The gateway, the work tree, and the script that closes the batch. *)

TurnAsks(s) ==
  /\ server /\ turnOf[s] = "running" /\ wires[s] < MaxAsks
  /\ wires' = [wires EXCEPT ![s] = @ + 1]
  /\ UNCHANGED <<runnerVars, filesVars, version, tree, turnOf, server, mishaps>>

TurnStops(s) ==
  /\ server /\ turnOf[s] = "running"
  /\ \E end \in {"ok", "failed"} : turnOf' = [turnOf EXCEPT ![s] = end]
  /\ UNCHANGED <<runnerVars, filesVars, version, tree, wires, server, mishaps>>

\* A gateway that outlived its runner is stopped by hand.
OrphanStopped ==
  /\ server /\ runner.at = "idle" /\ CloseGateway /\ ~server'
  /\ UNCHANGED <<runnerVars, filesVars, version, tree, wires, mishaps>>

FilesChange ==
  /\ Mishap
  /\ \/ version' = 3 - version /\ UNCHANGED tree
     \/ tree' = 3 - tree /\ UNCHANGED version
  /\ UNCHANGED <<runnerVars, filesVars, turnOf, wires, server>>

\* A reservation is given back only for a turn whose trace ended and asked for
\* nothing; any other leaves the batch as it is.
Reconcilable(s) == turnOf[s] \in {"ok", "failed"} /\ wires[s] = 0

RecordStop ==
  /\ runner.at = "idle" /\ ~server /\ doc.status # "none"
  /\ \A s \in Spots : Open(s) => Reconcilable(s)
  /\ \A r \in Requests : ~Asked(r)
  /\ pend' = [s \in Spots |-> IF Open(s) THEN "reconciled" ELSE pend[s]]
  /\ doc' = [doc EXCEPT !.status = "drifted", !.eligible = FALSE]
  /\ begun' = [l \in DOMAIN Legs |-> [begun[l] EXCEPT !.stopped = @ \/ begun[l].tree # 0]]
  /\ UNCHANGED <<runnerVars, index, pinned, result, request, worldVars, mishaps>>

FulltextNext ==
  \/ PrepareOnly \/ KilledWhileIndexing \/ StartFulltext \/ BeginLeg \/ LegRefused \/ SkipWritten \/ EnterSpot
  \/ StopAtLegBudget \/ GuardFails \/ SendMessage \/ TurnSeenToEnd
  \/ GiveUpTurn \/ CancelSeen \/ CancelNotSeen \/ MarkCell \/ HaltLeg \/ PassLeg \/ FailLeg
  \/ RunnerRaises \/ RunnerKilled
  \/ \E s \in Spots : TurnAsks(s) \/ TurnStops(s)
  \/ OrphanStopped \/ FilesChange \/ RecordStop

-----------------------------------------------------------------------------
(* Properties. *)

\* A batch that says it is completed has every planned cell answered by one call
\* at most, and its archive holds exactly the requests its rows account for: no
\* failed cell was repeated, no call of a turn given up was lost (run_batch,
\* successful, validate_wire_archive).
CompletedIsClean ==
  doc.status = "completed" =>
    /\ \A s \in Spots : result[s].status = "ok" /\ wires[s] = result[s].calls /\ wires[s] <= 1
    /\ ~\E s \in Spots : turnOf[s] = "running"

(* The inductive invariant behind it. *)

FulltextTypeOK ==
  /\ runner \in [at : {"idle", "leg", "cell", "post", "wait", "cancel", "mark", "judge", "halt"},
                 leg : DOMAIN Legs, cell : Nat \ {0}, counted : Nat, lenient : BOOLEAN]
  /\ Here \in Spots
  /\ doc \in [status : {"none", "prepared", "running", "stopped", "completed", "drifted"},
              eligible : BOOLEAN, preflight : BOOLEAN]
  /\ index \in {"none", "unproved", "proved"} /\ server \in BOOLEAN
  /\ version \in 1..2 /\ tree \in 1..2 /\ pinned \in 0..2
  /\ begun \in [DOMAIN Legs -> [tree : 0..2, stopped : BOOLEAN]]
  /\ pend \in [Spots -> {"none", "session", "turn", "terminal", "reconciled"}]
  /\ result \in [Spots -> [status : {"none", "ok", "failed"}, calls : Nat, cited : BOOLEAN]]
  /\ turnOf \in [Spots -> {"none", "running", "ok", "failed", "lost"}]
  /\ wires \in [Spots -> Nat]
  /\ request \in [Requests -> {"none", "open", "completed", "failed"}]
  /\ launches \in Nat /\ mishaps \in Nat

\* A row that says "ok" is of a turn that has ended and counts all it asked for;
\* the runner leaves a leg behind only when all its rows are such.
RowsKept ==
  /\ \A s \in Spots : result[s].status = "ok" => turnOf[s] = "ok" /\ wires[s] = result[s].calls
  /\ runner.at = "post" => ~HasResult(Here)
  /\ runner.at # "idle" => doc.status # "completed"
  /\ runner.at # "idle" => \A l \in DOMAIN Legs : l < runner.leg => Successful(l)
  /\ doc.status = "completed" => \A l \in DOMAIN Legs : Successful(l)
=============================================================================
