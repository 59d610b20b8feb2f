---------------------------- MODULE FulltextReview ----------------------------
(***************************************************************************)
(* scripts/annotate_fulltext_rag.py: the review of the batch's retrieval,  *)
(* questions and citations by the same model service, one request per block *)
(* of items and none twice, beside the runner that may still be filling the *)
(* batch.  A stage is started by hand, one at a time, and takes up its      *)
(* answers of earlier starts.                                              *)
(***************************************************************************)
EXTENDS FulltextBatch

CONSTANTS
  PairsOf,      \* the items of a stage that do not come from the batch, in order
  FileOrder,    \* the cells of the conditions in the order their files are read
  BlockSize,    \* items of one request
  Wanted,       \* bound: the sets of stages that are started in one behaviour
  MaxReviews    \* bound: starts of a stage

Stages == {"retrieval", "questions", "citations"}

ASSUME ReviewAssumption ==
  /\ DOMAIN PairsOf = Stages /\ FileOrder \in Seq(Formal)
  /\ \A stage \in Stages : PairsOf[stage] \in Seq({PairsOf[stage][i] : i \in DOMAIN PairsOf[stage]} \ {<<>>})
  /\ BlockSize \in Nat \ {0} /\ MaxReviews \in Nat
  /\ \A stage \in Stages : \A r \in Requests : r[1] = stage => r[2] \in Nat \ {0}

VARIABLES
  wanted,    \* bound: the stages that are started
  reviewer,  \* the stage at work: [stage, at, block, items], or Away
  prepared,  \* whether the retrieval inputs are written
  body,      \* per request the items its body was made of
  fit,       \* whether its answer has a verdict for each item
  table,     \* per stage the items of its final table, or NoTable
  asked,     \* how often each request was sent
  reviews

reviewVars == <<wanted, reviewer, prepared, body, fit, table, asked, reviews>>
trialVars == <<batchTrialVars, reviewVars>>

NoTable == <<<<>>>> \* no list has an item <<>>
Away == [stage |-> "none", at |-> "away", block |-> 1, items |-> <<>>]

TrialInit ==
  /\ FulltextInit
  /\ wanted \in Wanted /\ reviewer = Away /\ prepared = FALSE
  /\ launches = IF wanted = {} THEN 0 ELSE MaxRuns - 1 \* beside a review, one start
  /\ mishaps = IF Cardinality(wanted) > 1 THEN MaxMishaps ELSE 0 \* two stages are not disturbed
  /\ body = [r \in Requests |-> <<>>] /\ fit = [r \in Requests |-> FALSE]
  /\ table = [stage \in Stages |-> NoTable]
  /\ asked = [r \in Requests |-> 0] /\ reviews = 0

-----------------------------------------------------------------------------
(* Items: what is there when a stage starts.  The claims and citations are    *)
(* those of answered cells; a failed cell and one without a call give none.   *)

Audited == {s \in Formal : begun[s[1]].tree # 0 /\ result[s].status = "ok" /\ result[s].calls > 0}
CitationsOf(audited) ==
  SelectSeq(PairsOf["citations"] \o FileOrder, LAMBDA item : item \notin Formal \ audited)
Citations == CitationsOf(Audited)

Prepare ==
  /\ "retrieval" \in wanted
  /\ reviewer = Away /\ pinned # 0 /\ ~prepared /\ prepared' = TRUE
  /\ UNCHANGED <<wanted, reviewer, body, fit, table, asked, reviews, batchTrialVars>>

StartStage(stage, items) ==
  /\ stage \in wanted /\ reviewer = Away /\ reviews < MaxReviews /\ pinned # 0
  /\ reviewer' = [Away EXCEPT !.stage = stage, !.at = "read", !.items = items]
  /\ reviews' = reviews + 1
  /\ UNCHANGED <<wanted, prepared, body, fit, table, asked, batchTrialVars>>

AnnotateRetrieval == prepared /\ StartStage("retrieval", PairsOf["retrieval"])
AnnotateQuestions == StartStage("questions", PairsOf["questions"])
AnnotateCitations == StartStage("citations", Citations)

\* The n-th block of a table's items.
BlockOf(items, n) == SubSeq(items, (n - 1) * BlockSize + 1,
                            IF n * BlockSize < Len(items) THEN n * BlockSize ELSE Len(items))
BlocksIn(items) == 1..((Len(items) + BlockSize - 1) \div BlockSize)

Asking == BlockOf(reviewer.items, reviewer.block)
Block == <<reviewer.stage, reviewer.block>>
Reading == reviewer.at = "read" /\ reviewer.block \in BlocksIn(reviewer.items)
Leave == reviewer' = Away

Saved(r) == r \in Requests /\ request[r] \in {"completed", "failed"}

\* Mutant: a saved answer is taken whatever it was asked about.
Usable_Whatever(r) == request[r] = "completed" /\ fit[r]
Usable(r) == request[r] = "completed" /\ body[r] = Asking /\ fit[r]

Consume ==
  reviewer' = [reviewer EXCEPT !.block = @ + 1, !.at = "read"]

\* model_request and the reading of its lines, when the answer is there.
TakeSaved ==
  /\ Reading /\ doc.eligible /\ Saved(Block) /\ Usable(Block) /\ Consume
  /\ UNCHANGED <<wanted, prepared, body, fit, table, asked, reviews, batchTrialVars>>

SavedRefused ==
  /\ Reading /\ Saved(Block)
  /\ ~(doc.eligible /\ Usable(Block)) /\ Leave
  /\ UNCHANGED <<wanted, prepared, body, fit, table, asked, reviews, batchTrialVars>>

MayAsk(r) ==
  /\ r \in Requests /\ request[r] = "none" /\ doc.eligible /\ version = pinned
  /\ BudgetAllows(1) /\ LegAllows("annotation", 1)

Allowed ==
  /\ Reading
  /\ MayAsk(Block) /\ reviewer' = [reviewer EXCEPT !.at = "submit"]
  /\ UNCHANGED <<wanted, prepared, body, fit, table, asked, reviews, batchTrialVars>>

AskRefused ==
  /\ Reading
  /\ ~Saved(Block) /\ ~MayAsk(Block) /\ Leave
  /\ UNCHANGED <<wanted, prepared, body, fit, table, asked, reviews, batchTrialVars>>

\* The reservation is written before the request is sent.
Submit ==
  /\ reviewer.at = "submit" /\ reviewer' = [reviewer EXCEPT !.at = "asking"]
  /\ request' = [request EXCEPT ![Block] = "open"]
  /\ body' = [body EXCEPT ![Block] = Asking]
  /\ asked' = [asked EXCEPT ![Block] = @ + 1]
  /\ UNCHANGED <<wanted, prepared, fit, table, reviews, runnerVars, worldVars, mishaps,
                 doc, index, pinned, begun, pend, result>>

\* A transport error leaves the reservation; so does a kill before the row.
NoAnswer ==
  /\ reviewer.at = "asking" /\ Leave
  /\ UNCHANGED <<wanted, prepared, body, fit, table, asked, reviews, batchTrialVars>>

\* The row of the request: an answer that was cut or refused is not asked for
\* again, and one whose lines do not cover the items will not do either.
SaveOutcome ==
  /\ reviewer.at = "asking"
  /\ \E outcome \in {"completed", "failed"}, good \in BOOLEAN :
       /\ good => outcome = "completed"
       /\ request' = [request EXCEPT ![Block] = outcome]
       /\ fit' = [fit EXCEPT ![Block] = good]
       /\ IF good THEN Consume ELSE Leave
  /\ UNCHANGED <<wanted, prepared, body, table, asked, reviews, runnerVars, worldVars, mishaps,
                 doc, index, pinned, begun, pend, result>>

WriteTable ==
  /\ reviewer.at = "read" /\ ~Reading /\ Leave
  /\ table' = [table EXCEPT ![reviewer.stage] = reviewer.items]
  /\ UNCHANGED <<wanted, prepared, body, fit, asked, reviews, batchTrialVars>>

ReviewerKilled ==
  /\ reviewer # Away /\ Mishap /\ Leave
  /\ UNCHANGED <<wanted, prepared, body, fit, table, asked, reviews, runnerVars, filesVars, worldVars>>

ReviewNext ==
  \/ Prepare \/ AnnotateRetrieval \/ AnnotateQuestions \/ AnnotateCitations
  \/ reviewer # Away /\ (TakeSaved \/ SavedRefused \/ Allowed \/ AskRefused)
  \/ Submit \/ NoAnswer \/ SaveOutcome
  \/ reviewer # Away /\ WriteTable
  \/ ReviewerKilled

TrialNext == (FulltextNext /\ UNCHANGED reviewVars) \/ ReviewNext

-----------------------------------------------------------------------------
(* Properties. *)

\* A request whose outcome is not known stops the batch until it is accounted
\* for: through kills and resumes of the runner and of the reviewer there is
\* never a second one of either, and no request of the review is ever sent twice
\* (check_budget: "unresolved_request_requires_reconciliation").
OneOpenEach ==
  /\ Cardinality({s \in Spots : Open(s)}) <= 1
  /\ Cardinality({r \in Requests : Asked(r)}) <= 1
  /\ \A r \in Requests : asked[r] <= 1

\* A final table of the review was judged on one and the same list of items:
\* each of its blocks has a completed answer that covers just the items of that
\* block, though they were asked for by several starts while the batch grew
\* (model_request: the body of a saved answer is compared).
TablesOfOneInput ==
  \A stage \in Stages : table[stage] # NoTable =>
    \A n \in BlocksIn(table[stage]) :
      LET r == <<stage, n>>
      IN request[r] = "completed" /\ fit[r] /\ body[r] = BlockOf(table[stage], n)

(* The inductive invariants behind them. *)

\* The lists of items there can be.
ItemLists ==
  {PairsOf[stage] : stage \in Stages} \union {CitationsOf(audited) : audited \in SUBSET Formal}
    \union {<<>>}

ReviewTypeOK ==
  /\ reviewer \in [stage : Stages \union {"none"}, at : {"away", "read", "submit", "asking"},
                   block : Nat \ {0}, items : ItemLists]
  /\ reviewer.at # "away" => reviewer.stage \in Stages
  /\ prepared \in BOOLEAN /\ body = [r \in Requests |-> body[r]] /\ fit \in [Requests -> BOOLEAN]
  /\ table \in [Stages -> ItemLists \union {NoTable}]
  /\ asked \in [Requests -> Nat] /\ reviews \in Nat

\* A cell is opened when nothing is open; so is a request, once.
OpensKept ==
  /\ \A s, u \in Spots : Open(s) /\ Open(u) => s = u
  /\ runner.at = "post" => \A s \in Spots : ~Open(s)
  /\ \A r, q \in Requests : Asked(r) /\ Asked(q) => r = q
  /\ reviewer.at = "submit" =>
       Block \in Requests /\ request[Block] = "none" /\ \A r \in Requests : ~Asked(r)
  /\ reviewer.at = "asking" =>
       Block \in Requests /\ request[Block] = "open" /\ body[Block] = Asking
  /\ \A r \in Requests : asked[r] = IF request[r] = "none" THEN 0 ELSE 1

Settled(stage, items, n) ==
  /\ <<stage, n>> \in Requests /\ request[<<stage, n>>] = "completed" /\ fit[<<stage, n>>]
  /\ body[<<stage, n>>] = BlockOf(items, n)

\* The blocks before the one at work, and those of a table, are settled.
BlocksKept ==
  /\ reviewer.at # "away" =>
       \A n \in 1..(reviewer.block - 1) : Settled(reviewer.stage, reviewer.items, n)
  /\ \A stage \in Stages : table[stage] # NoTable =>
       \A n \in BlocksIn(table[stage]) : Settled(stage, table[stage], n)

TrialInd == FulltextTypeOK /\ RowsKept /\ ReviewTypeOK /\ OpensKept /\ BlocksKept
=============================================================================
