---------------------------- MODULE DeepResearch ----------------------------
(***************************************************************************)
(* Deep research and web search in a chat session: _run_deep_research,     *)
(* _prepare_web_search and the parts of _run_turn and of session.resume    *)
(* that keep their state, of api/sessions.py.                              *)
(*                                                                         *)
(* One session and its turns, one at a time; an await is the end of a      *)
(* step.  A progress report saves the row and then awaits the emission of  *)
(* its event, so an action that reports ends with the row saved.  The      *)
(* search tasks of a round run concurrently.  A turn reads the settings    *)
(* once, when it begins; they change between turns.                        *)
(***************************************************************************)
EXTENDS Naturals, FiniteSets, Sequences, SequencesExt

-----------------------------------------------------------------------------
(* Which searches a model profile can do, and what the settings pages say of *)
(* them: runtime/web_search.py and api/web_search.py.                        *)

\* "enable": enable_search of the request body; "responses": a tool of the
\* Responses API; "prime": the vendor's search server; "ollama": its REST API.
ServiceKinds == {"none", "enable", "responses", "prime", "ollama"}
ApiModes == {"auto", "responses", "chat_completions"}
Modes == {"off", "auto", "always"}

\* Keys that may be configured: the profile's own (a local model needs none),
\* and those of the two search services.
Keys == {"model", "ollama", "tavily"}

\* What is configured when a turn begins: the profile's search, and the keys.
Configurations == [kind : ServiceKinds, api : ApiModes, keys : SUBSET Keys]

\* native_search_capability
Supported(c) == c.kind # "none" /\ (c.kind = "responses" => c.api # "chat_completions")
AlwaysSearch(c) == c.kind \in {"enable", "ollama"}
RequiresApiKey(c) == c.kind = "ollama"

\* The credential that the native search of c uses is there.
Credential(c) == IF RequiresApiKey(c) THEN "ollama" \in c.keys ELSE "model" \in c.keys

\* native_search_request raises unless the search can be done as asked.
Requestable(c, mode) == Supported(c) /\ (mode = "always" => AlwaysSearch(c))

\* GET /settings/web-search
Status(c) == CASE ~Supported(c) -> "unsupported"
               [] Supported(c) /\ Credential(c) -> "ready"
               [] OTHER -> "provider_credential_missing"

\* GET /settings/deep-research
NativeConfigured(c) == Supported(c) /\ Credential(c)
SearchService(c) == CASE NativeConfigured(c) -> "native"
                      [] ~NativeConfigured(c) /\ "tavily" \in c.keys -> "tavily"
                      [] ~NativeConfigured(c) /\ "tavily" \notin c.keys /\ "ollama" \in c.keys -> "ollama"
                      [] OTHER -> ""
ResearchReady(c) == SearchService(c) # ""

\* PUT of either page, and the choice of another model.
Changed(c) == {d \in Configurations : \/ d.keys = c.keys
                                      \/ d = [c EXCEPT !.keys = d.keys]}

-----------------------------------------------------------------------------
(* The session and its turns. *)

CONSTANTS
  Urls,          \* normalized source addresses
  WebQueries,       \* search queries, in lower case
  Found,         \* the source lists a search may return: sequences of Urls
  Plans,         \* the query lists the planner may return
  Settings,      \* the configurations that occur
  MaxRounds, MaxSearches, MaxSources,  \* 6, 24 and 30 in the code
  PerRound,      \* 4: queries of one round
  Slots,         \* 3: the semaphore
  MaxTraces,      \* bound: turns that begin
  MaxKills       \* bound: gateways that are killed

ASSUME ResearchAssumption ==
  /\ Found \subseteq Seq(Urls) /\ <<>> \notin Found
  /\ Plans \subseteq Seq(WebQueries) /\ <<>> \notin Plans
  /\ Settings \subseteq Configurations
  /\ {MaxRounds, MaxSearches, MaxSources, PerRound, Slots, MaxTraces} \subseteq Nat \ {0}
  /\ MaxKills \in Nat

Traces == 1..MaxTraces          \* trace and report ids, in the order they are made
Tasks == 1..PerRound
Collecting == {"plan", "search", "extract"}
ResearchStages == {"idle", "begin", "first", "write", "append", "completed", "answered", "ending",
           "web", "decide", "lookup", "chat"} \cup Collecting
NoReport == [id |-> 0, status |-> "none", sources |-> <<>>]
NoWeb == [mode |-> "off", status |-> "off"]

VARIABLES
  settings,   \* the configuration
  research,   \* the row's deep_research: report id, status, saved sources
  mark,       \* the row's active_turn: a turn, or 0
  reports,    \* the row's messages that hold a report
  traces,      \* turns begun
  kills,
  at, askedFor,   \* the turn: where it stands, and "deep" or its web search mode
  blank,      \* its question is blank
  services,   \* its search services: "native", "tavily", "ollama"
  collection, full, seen, searches, round,   \* what it has collected
  queries, task, result,                   \* the searches of its round
  report,     \* its report, or NoReport
  web         \* ctx.web_search

sessionRow == <<research, mark, reports>>
batch == <<queries, task, result>>
collected == <<collection, full, seen, searches, round>>
locals == <<services, collected, batch, report>>
researchVars == <<settings, sessionRow, traces, kills, at, askedFor, blank, locals, web>>

Sources == UNION {[1..n -> Urls] : n \in 0..MaxSources}
Statuses == {"none", "running", "completed", "cancelled", "failed", "interrupted"}

ResearchTypeOK ==
  /\ settings \in Settings
  /\ research.id \in 0..MaxTraces /\ research.status \in Statuses /\ research.sources \in Sources
  /\ mark \in 0..MaxTraces /\ traces \in 0..MaxTraces /\ kills \in 0..MaxKills
  /\ \A r \in reports : r.id \in Traces /\ r.sources \in Sources /\ r.cite \in 0..MaxSources
  /\ at \in ResearchStages /\ askedFor \in Modes \cup {"deep"} /\ blank \in BOOLEAN
  /\ services \subseteq {"native", "tavily", "ollama"}
  /\ collection \in Sources /\ full \subseteq Urls /\ seen \subseteq WebQueries
  /\ searches \in 0..(MaxSearches + PerRound) /\ round \in 0..MaxRounds
  /\ Len(queries) \in 0..PerRound
  /\ task \in [Tasks -> {"none", "waiting", "native", "fallback", "done"}]
  /\ \A i \in Tasks : result[i] \in Found \cup {<<>>}

NoBatch == /\ queries' = <<>> /\ task' = [i \in Tasks |-> "none"]
           /\ result' = [i \in Tasks |-> <<>>]

ResearchInit ==
  /\ settings \in Settings
  /\ research = NoReport /\ mark = 0 /\ reports = {} /\ traces = 0 /\ kills = 0
  /\ at = "idle" /\ askedFor = "off" /\ blank = FALSE /\ web = NoWeb
  /\ services = {} /\ collection = <<>> /\ full = {} /\ seen = {} /\ searches = 0 /\ round = 0
  /\ queries = <<>> /\ task = [i \in Tasks |-> "none"] /\ result = [i \in Tasks |-> <<>>]
  /\ report = NoReport

\* The turn is over, and what it held is gone.
Gone ==
  /\ at' = "idle" /\ askedFor' = "off" /\ blank' = FALSE /\ web' = NoWeb
  /\ services' = {} /\ collection' = <<>> /\ full' = {} /\ seen' = {} /\ searches' = 0
  /\ round' = 0 /\ NoBatch /\ report' = NoReport

PutSettings ==
  /\ at = "idle" /\ settings' \in Settings \cap Changed(settings)
  /\ UNCHANGED <<sessionRow, traces, kills, at, askedFor, blank, locals, web>>

---------------------------------------------------------------------------
(* message.send; message.regenerate begins such a turn, never a deep one. *)

BeginTurn(m, b) ==
  /\ at = "idle" /\ traces < MaxTraces
  /\ traces' = traces + 1 /\ mark' = traces'
  /\ at' = "begin" /\ askedFor' = m /\ blank' = b
  /\ UNCHANGED <<settings, research, reports, kills, locals, web>>

\* progress(...) with a status: the row gets what is collected so far.
Progress(status, sources) ==
  research' = [id |-> traces, status |-> status, sources |-> sources]

---------------------------------------------------------------------------
(* _run_deep_research *)

NativeReady == NativeConfigured(settings)
Unconfigured == ~NativeReady /\ "tavily" \notin settings.keys /\ "ollama" \notin settings.keys

Prepare ==
  /\ at = "begin" /\ askedFor = "deep" /\ ~Unconfigured
  /\ services' = {s \in {"native", "tavily", "ollama"} :
        CASE s = "native" -> NativeReady
          [] s = "tavily" -> "tavily" \in settings.keys
          [] s = "ollama" -> "ollama" \in settings.keys /\ settings.kind # "ollama"}
  /\ UNCHANGED <<settings, mark, reports, traces, kills, askedFor, blank, collected, batch,
                 report, web>>
  /\ Progress("running", collection) /\ at' = "first"

\* Collecting is over: no query is left, a limit is reached, or the last round.
Writing(sources) == Progress("running", sources) /\ at' = "write"

\* The head of the loop in collect_evidence.
NextRound(sources) ==
  IF round = MaxRounds
  THEN Writing(sources) /\ UNCHANGED round
  ELSE round' = round + 1 /\ Progress("running", sources) /\ at' = "plan"

Collect ==
  /\ at = "first" /\ NextRound(collection)
  /\ UNCHANGED <<settings, mark, reports, traces, kills, askedFor, blank, services, collection, full,
                 seen, searches, batch, report, web>>

Taken(plan) ==
  LET new == SelectSeq(plan, LAMBDA q : q \notin seen)
      remaining == IF searches < MaxSearches THEN MaxSearches - searches ELSE 0
      room == IF remaining < PerRound THEN remaining ELSE PerRound
  IN SubSeq(new, 1, IF Len(new) < room THEN Len(new) ELSE room)

Plan(plan) ==
  /\ at = "plan"
  /\ IF Taken(plan) = <<>>
     THEN Writing(collection) /\ UNCHANGED <<batch, seen>>
     ELSE /\ queries' = Taken(plan) /\ seen' = seen \cup ToSet(Taken(plan))
          /\ task' = [i \in Tasks |-> IF i <= Len(Taken(plan)) THEN "waiting" ELSE "none"]
          /\ result' = [i \in Tasks |-> <<>>]
          /\ Progress("running", collection) /\ at' = "search"
  /\ UNCHANGED <<settings, mark, reports, traces, kills, askedFor, blank, services, collection, full,
                 searches, round, report, web>>

\* search_one
Running == {i \in Tasks : task[i] \in {"native", "fallback"}}
Independent == services \cap {"tavily", "ollama"} # {}

SearchStarts(i) ==
  /\ at = "search" /\ task[i] = "waiting" /\ Cardinality(Running) < Slots
  /\ searches' = searches + 1
  /\ task' = [task EXCEPT ![i] = IF "native" \in services THEN "native" ELSE "fallback"]
  /\ UNCHANGED <<settings, sessionRow, traces, kills, at, askedFor, blank, services, collection, full, seen,
                 round, queries, result, report, web>>

\* No sources, or an error: the independent service is asked, if there is one.
NativeReplies(i, sources) ==
  /\ at = "search" /\ task[i] = "native"
  /\ task' = [task EXCEPT ![i] = IF sources = <<>> /\ Independent THEN "fallback" ELSE "done"]
  /\ result' = [result EXCEPT ![i] = sources]
  /\ UNCHANGED <<settings, sessionRow, traces, kills, at, askedFor, blank, services, collected, queries,
                 report, web>>

FallbackReplies(i, sources) ==
  /\ at = "search" /\ task[i] = "fallback"
  /\ task' = [task EXCEPT ![i] = "done"]
  /\ result' = [result EXCEPT ![i] = sources]
  /\ UNCHANGED <<settings, sessionRow, traces, kills, at, askedFor, blank, services, collected, queries,
                 report, web>>

\* The sources of the round's results, in the order of its queries.
\* Mutant: a round does not look at its own results.
Add_Twice(sources, url) ==
  IF url \in ToSet(collection) \/ Len(sources) >= MaxSources THEN sources ELSE Append(sources, url)

Add(sources, url) ==
  IF url \in ToSet(sources) \/ Len(sources) >= MaxSources THEN sources ELSE Append(sources, url)
AddAll(sources, found) == FoldLeft(Add, sources, found)
Gathered == FoldLeft(AddAll, collection, result)

AfterRound(sources) ==
  IF Len(sources) >= MaxSources \/ searches >= MaxSearches
  THEN Writing(sources) /\ UNCHANGED round
  ELSE NextRound(sources)

Gather ==
  /\ at = "search" /\ \A i \in 1..Len(queries) : task[i] = "done"
  /\ collection' = Gathered
  /\ IF Gathered # <<>> /\ "tavily" \in services
     THEN Progress("running", Gathered) /\ at' = "extract" /\ UNCHANGED round
     ELSE AfterRound(Gathered)
  /\ NoBatch
  /\ UNCHANGED <<settings, mark, reports, traces, kills, askedFor, blank, services, full, seen,
                 searches, report, web>>

\* tavily_extract, in batches; those that fail leave their sources as they are.
Extract(urls) ==
  /\ at = "extract" /\ urls \subseteq ToSet(collection) \ full
  /\ full' = full \cup urls /\ UNCHANGED collection /\ AfterRound(collection)
  /\ UNCHANGED <<settings, mark, reports, traces, kills, askedFor, blank, services, seen, searches,
                 batch, report, web>>

\* Mutant: the deadline is looked at between rounds only.
TimeOut_BetweenRounds ==
  /\ at = "plan"
  /\ UNCHANGED collection /\ Writing(collection) /\ NoBatch
  /\ UNCHANGED <<settings, mark, reports, traces, kills, askedFor, blank, services, full, seen,
                 searches, round, report, web>>

\* wait_for gives up, or the head of the loop finds the deadline passed.
TimeOut ==
  /\ at \in Collecting
  /\ UNCHANGED collection /\ Writing(collection) /\ NoBatch
  /\ UNCHANGED <<settings, mark, reports, traces, kills, askedFor, blank, services, full, seen,
                 searches, round, report, web>>

Checked(n) == IF n \in 1..Len(collection) THEN n ELSE 0

WriteReport(n) ==
  /\ at = "write"
  /\ report' = [id |-> traces, sources |-> collection, cite |-> Checked(n)]
  /\ at' = "append"
  /\ UNCHANGED <<settings, sessionRow, traces, kills, askedFor, blank, services, collected, batch, web>>

Complete ==
  /\ at = "append"
  /\ UNCHANGED collection /\ Progress("completed", collection) /\ at' = "completed"
  /\ UNCHANGED <<settings, mark, reports, traces, kills, askedFor, blank, services, full, seen,
                 searches, round, batch, report, web>>

\* _run_turn appends the message, and awaits the events that say so.
AppendReport ==
  /\ at = "completed" /\ at' = "answered"
  /\ UNCHANGED <<settings, sessionRow, traces, kills, askedFor, blank, locals, web>>

---------------------------------------------------------------------------
(* A chat turn: _prepare_web_search and _run_chat_turn. *)

\* Why a search cannot be done, or native_requested.
Prepared ==
  CASE ~Supported(settings) -> "unsupported"
    [] Supported(settings) /\ ~Credential(settings) -> "not_configured"
    [] Supported(settings) /\ Credential(settings) /\ ~Requestable(settings, askedFor)
         -> "force_unsupported"
    [] OTHER -> "native_requested"

PrepareChat ==
  /\ at = "begin" /\ askedFor \in Modes
  /\ \/ askedFor = "off" /\ web' = NoWeb /\ at' = "chat"
     \/ /\ askedFor # "off" /\ Prepared = "native_requested"
        /\ web' = [mode |-> askedFor, status |-> Prepared] /\ at' = "web"
     \/ /\ askedFor = "auto" /\ Prepared # "native_requested"
        /\ web' = [mode |-> askedFor, status |-> Prepared] /\ at' = "chat"
  /\ UNCHANGED <<settings, sessionRow, traces, kills, askedFor, blank, locals>>

\* The search that is done before the model is asked: which query, if any.
Native == settings.kind # "ollama"

StartSearch ==
  /\ at = "web"
  /\ \/ Native /\ at' = "chat" /\ UNCHANGED web
     \/ ~Native /\ askedFor = "auto" /\ at' = "decide" /\ UNCHANGED web
     \/ ~Native /\ askedFor = "always" /\ ~blank /\ at' = "lookup" /\ UNCHANGED web
     \/ /\ ~Native /\ askedFor = "always" /\ blank
        /\ at' = "chat" /\ web' = [web EXCEPT !.status = "skipped"]
  /\ UNCHANGED <<settings, sessionRow, traces, kills, askedFor, blank, locals>>

\* The model decides; when it fails or rambles the question is the query.
Decide ==
  /\ at = "decide"
  /\ \/ at' = "lookup" /\ UNCHANGED web
     \/ at' = "chat" /\ web' = [web EXCEPT !.status = "skipped"]
  /\ UNCHANGED <<settings, sessionRow, traces, kills, askedFor, blank, locals>>

Lookup ==
  /\ at = "lookup" /\ at' = "chat"
  /\ \/ web' = [web EXCEPT !.status = "completed"]
     \/ askedFor = "auto" /\ web' = [web EXCEPT !.status = "failed"]
  /\ UNCHANGED <<settings, sessionRow, traces, kills, askedFor, blank, locals>>

\* A provider that searched itself may or may not say where.
Chat ==
  /\ at = "chat" /\ at' = "answered"
  /\ IF web.status = "native_requested"
     THEN \E s \in {"completed", "native_response"} : web' = [web EXCEPT !.status = s]
     ELSE UNCHANGED web
  /\ UNCHANGED <<settings, sessionRow, traces, kills, askedFor, blank, locals>>

---------------------------------------------------------------------------
(* How a turn ends: _run_turn, and session.resume. *)

\* Mutant: only the handler of the collection knows of the research.
Stopped_Never(status) == UNCHANGED research

\* What the handlers, and resume, make of a research they find running.
Stopped(status) ==
  research' = IF research.status = "running" THEN [research EXCEPT !.status = status]
              ELSE research

CannotBegin ==
  /\ at = "begin"
  /\ IF askedFor = "deep" THEN Unconfigured ELSE askedFor = "always" /\ Prepared # "native_requested"

\* Models fail, or write nothing; the planner's failures are caught, except
\* those of the router; a forced search must not fail.
Fail ==
  /\ CannotBegin \/ at \in {"plan", "write", "chat"} \/ (at = "lookup" /\ askedFor = "always")
  /\ Stopped("failed") /\ at' = "ending"
  /\ UNCHANGED <<settings, mark, reports, traces, kills, askedFor, blank, locals, web>>

\* turn.cancel, or the gateway stops: the CancelledError is raised at the await.
CancelCollecting ==
  /\ at \in Collecting
  /\ UNCHANGED collection /\ Progress("cancelled", collection) /\ at' = "ending" /\ NoBatch
  /\ UNCHANGED <<settings, mark, reports, traces, kills, askedFor, blank, services, full, seen,
                 searches, round, report, web>>

Cancel ==
  /\ at \in ResearchStages \ ({"idle", "ending", "answered"} \cup Collecting)
  /\ Stopped("cancelled") /\ at' = "ending"
  /\ UNCHANGED <<settings, mark, reports, traces, kills, askedFor, blank, locals, web>>

CancelAnswered ==
  /\ at = "answered" /\ research.status = "running" /\ Stopped("cancelled")
  /\ UNCHANGED <<settings, mark, reports, traces, kills, at, askedFor, blank, locals, web>>

\* The finally block saves the message, if it was appended, and clears the mark.
Finish ==
  /\ at \in {"answered", "ending"}
  /\ reports' = IF at = "answered" /\ askedFor = "deep" THEN reports \cup {report} ELSE reports
  /\ mark' = 0 /\ Gone
  /\ UNCHANGED <<settings, research, traces, kills>>

Kill ==
  /\ at # "idle" /\ kills < MaxKills /\ kills' = kills + 1
  /\ Gone /\ UNCHANGED <<settings, sessionRow, traces>>

Resume ==
  /\ at = "idle" /\ mark # 0
  /\ mark' = 0 /\ Stopped("interrupted")
  /\ UNCHANGED <<settings, reports, traces, kills, at, askedFor, blank, locals, web>>

---------------------------------------------------------------------------
Replies ==
  \/ \E p \in Plans : Plan(p)
  \/ \E i \in Tasks, s \in Found \cup {<<>>} : NativeReplies(i, s) \/ FallbackReplies(i, s)
  \/ \E urls \in SUBSET Urls : Extract(urls)

Works ==
  \/ Prepare \/ Collect \/ Gather \/ (\E i \in Tasks : SearchStarts(i))
  \/ (\E n \in 0..(MaxSources + 1) : WriteReport(n))
  \/ Complete \/ AppendReport
  \/ PrepareChat \/ StartSearch \/ Decide \/ Lookup \/ Chat \/ Fail \/ Finish

ResearchNext ==
  \/ PutSettings \/ (\E m \in Modes \cup {"deep"}, b \in BOOLEAN : BeginTurn(m, b))
  \/ Replies \/ Works \/ TimeOut
  \/ CancelCollecting \/ Cancel \/ CancelAnswered \/ Kill \/ Resume

---------------------------------------------------------------------------
(* Properties *)

\* The sources of a research are never lost or reordered, whether it goes on,
\* is cancelled while searches are under way, times out, fails, or is killed
\* and resumed; and no address is saved twice.
SourcesKept ==
  [][/\ research'.id = research.id => IsPrefix(research.sources, research'.sources)
     /\ IsInjective(research'.sources)]_researchVars

\* A research is shown as running only while its own turn runs, or waits with
\* its mark to be resumed: no end of a turn, and no resume, leaves it so.  After
\* a kill another turn may begin over the mark, and then nobody looks for it.
RunningExplained ==
  research.status = "running" =>
    \/ research.id = traces /\ (at # "idle" \/ mark = traces)
    \/ research.id < traces /\ kills > 0

\* A research that runs comes to an end though no search ever answers, unless
\* the gateway is killed.
ResearchEnds == (askedFor = "deep" /\ at # "idle") ~> at = "idle"

\* The inductive invariant behind RunningExplained: a turn that is under way is
\* marked, and collects, writes or appends while its research runs.
Saving == Collecting \cup {"first", "write", "append"}
RunningInd ==
  /\ kills \in Nat /\ traces \in Nat /\ "status" \in DOMAIN research
  /\ at # "idle" => mark = traces
  /\ research.status = "running" =>
       \/ research.id = traces /\ at \in Saving
       \/ research.id = traces /\ at = "idle" /\ mark = traces /\ kills > 0
       \/ research.id \in Nat /\ research.id < traces /\ kills > 0

\* The inductive invariant behind SourcesKept: what is saved is a beginning of
\* what the turn has collected while it may still save, and a turn that has not
\* begun its research is not the one the row tells of.
SourcesInd ==
  /\ traces \in Nat /\ research \in [id : 0..traces, status : Statuses, sources : Seq(Urls)]
  /\ collection \in Seq(Urls) /\ result \in [Tasks -> Seq(Urls)]
  /\ IsInjective(research.sources) /\ IsInjective(collection)
  /\ at \in {"idle", "begin"} => collection = <<>>
  /\ at = "begin" => research.id # traces
  /\ at \in Saving => research.id = traces /\ IsPrefix(research.sources, collection)
=============================================================================
