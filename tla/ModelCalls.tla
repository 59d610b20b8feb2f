----------------------------- MODULE ModelCalls -----------------------------
(***************************************************************************)
(* RuntimeService.generate: how a turn's request reaches a model service,  *)
(* what of the service's stream reaches the reader, and when another       *)
(* service may be tried; with the stream adapters of                       *)
(* runtime/providers/openai_compatible.py underneath and the commands of   *)
(* ProviderCatalog, some of which refuse to touch a service in use, beside *)
(* it.                                                                     *)
(*                                                                         *)
(* One turn runs at a time.  A step is what happens between two awaits: the *)
(* choice of the services, the start of an attempt, one chunk read from    *)
(* the service, the end of its stream.                                     *)
(***************************************************************************)
EXTENDS ProviderCatalog, FiniteSets, Sequences

CONSTANTS
  Options,    \* bound: the kinds of turns
  MaxCalls    \* bound: model calls of a turn

\* What ctx says of a turn's calls.  A chat session names its service and model
\* in its metadata; a study session names them in metadata["experiment"], frozen
\* there, unless it is older than that record or was made without any service.
Option == [session : {"chat", "study"}, pin : Profiles \cup {None}, model : Models,
           frozen : BOOLEAN, experiment : BOOLEAN, explicit : BOOLEAN,
           fallback : BOOLEAN, thinking : {"on", "off", "default"}]

ASSUME CallAssumption == Options \subseteq Option /\ MaxCalls \in Nat

VARIABLES
  turn,   \* the turn in active_turns, or None
  left,   \* calls the turn may still make
  call    \* the generate() under way, or None

vars == <<catalogVars, turn, left, call>>

Candidate == [profile : Profiles, object : 0..MaxEdits, content : Content]
Event == [type : {"requested", "completed", "failed"}, profile : Profiles,
          degraded : Profiles \cup {None}]
Call == [at : {"next", "open", "over"}, candidates : Seq(Candidate),
         index : 1..2, ready : BOOLEAN, text : BOOLEAN, visible : BOOLEAN, parts : BOOLEAN,
         tools : BOOLEAN, log : Seq(Event), voices : SUBSET Profiles]

TypeOK ==
  /\ CatalogTypeOK
  /\ turn \in Options \cup {None}
  /\ left \in 0..MaxCalls
  /\ call \in Call \cup {None}
  /\ call # None => call.index \in DOMAIN call.candidates

Init == CatalogInit /\ turn = None /\ left = 0 /\ call = None

-----------------------------------------------------------------------------
(* Which services a call may use *)

CandidateOf(p) == [profile |-> p, object |-> profiles[p][1], content |-> Of(p)]
\* resolve_chain and resolve_chain_for_profile: the service, then its fallback,
\* those that are registered and enabled.
Chain(p) == LET q == fallbacks[p] IN
  IF q \in Profiles \ {p} /\ EnabledNow(q) THEN <<CandidateOf(q)>> ELSE <<>>

\* Mutant: ctx["fixed_model_experiment"] alone, which no session sets.
Experiment_FixedOnly(o) == FALSE
Experiment(o) == o.experiment

\* The possible lists of candidates; none when the request is refused.
Candidates(o) ==
  IF o.pin # None
    THEN IF ~EnabledNow(o.pin) THEN {}
         ELSE {<<CandidateOf(o.pin)>> \o (IF Experiment(o) THEN <<>> ELSE Chain(o.pin))}
  ELSE IF o.frozen THEN {}
  ELSE LET primary == IF role # None THEN {role.profile}
                      ELSE {p \in Profiles : EnabledNow(p)}
       IN  {(IF EnabledNow(p) THEN <<CandidateOf(p)>> ELSE <<>>) \o Chain(p) : p \in primary} \ {<<>>}

AllowFallback(o) == o.fallback /\ ~Experiment(o)

\* _assert_chat_model_ready
Ready(o) ==
  /\ EnabledNow(o.pin)
  /\ LET c == Of(o.pin)
     IN  o.model \in c.models \/ (c.models = {} /\ (c.manual \/ o.model = c.default))

TurnStarts(o) ==
  /\ turn = None
  /\ o.session = "chat" => Ready(o)
  /\ turn' = o /\ left' = MaxCalls
  /\ UNCHANGED <<catalogVars, call>>

TurnEnds ==
  /\ turn # None /\ call = None
  /\ turn' = None /\ left' = 0
  /\ UNCHANGED <<catalogVars, call>>

\* A refused request fails the turn.
Generate ==
  /\ turn # None /\ call = None /\ left > 0
  /\ \E cs \in Candidates(turn) :
       call' = [at |-> "next", candidates |-> cs, index |-> 1, ready |-> FALSE, text |-> FALSE,
                visible |-> FALSE, parts |-> FALSE, tools |-> FALSE,
                log |-> <<>>, voices |-> {}]
  /\ left' = left - 1
  /\ UNCHANGED <<catalogVars, turn>>

-----------------------------------------------------------------------------
(* One attempt *)

Now == call.candidates[call.index]
Primary == call.candidates[1].profile
Logged(type) == Append(call.log, [type |-> type, profile |-> Now.profile,
                  degraded |-> IF call.index > 1 THEN Primary ELSE None])
More == AllowFallback(turn) /\ call.index < Len(call.candidates)

\* Where the loop goes after a failure: to the next service, unless this one
\* has already shown something.
AfterFailure(log, visible, voices) ==
  IF More /\ ~visible
    THEN [call EXCEPT !.at = "next", !.index = @ + 1, !.log = log, !.voices = voices]
    ELSE [call EXCEPT !.at = "over", !.log = log, !.visible = visible, !.voices = voices]

\* The stream capability is read from the service registered now.
Declared == IF Registered(Now.profile) THEN Of(Now.profile).stream ELSE "unknown"
StreamMissing == Declared = "no" \/ (Declared = "unknown" /\ Experiment(turn))
\* Experiments may demand a model whose thinking can be, and is, switched off.
ThinkingRefused ==
  turn.explicit /\ ~(turn.thinking = "off" /\ Registered(Now.profile)
                     /\ Of(Now.profile).reasoning = "toggle")

\* What _body writes about thinking.
WireThinking(c) ==
  IF c.reasoning = "always" THEN "on"
  ELSE IF c.reasoning = "unknown" \/ turn.thinking = "default" THEN "unset" ELSE turn.thinking
\* _reasoning_allowed; a toggle model left at its default may think or not.
ReasoningAllowed(c) ==
  c.reasoning = "always" \/ (c.reasoning = "toggle" /\ turn.thinking # "off")

\* _headers
HasKey(c) == c.ref \in keys

\* The request can be built: its key is there, and an explicit demand for no
\* thinking is on the wire, which only the chat protocol can carry.
Sendable(c) ==
  /\ HasKey(c)
  /\ turn.explicit => (c.api = "chat" /\ WireThinking(c) = "off")

CallStep == call # None /\ UNCHANGED <<turn, left>>

Attempt ==
  /\ CallStep /\ call.at = "next"
  /\ IF ThinkingRefused
       THEN call' = [call EXCEPT !.at = "over", !.log = Logged("failed")] /\ UNCHANGED catalogVars
     ELSE IF StreamMissing
       THEN /\ call' = AfterFailure(IF More THEN call.log ELSE Logged("failed"), FALSE, call.voices)
            /\ UNCHANGED catalogVars
     ELSE /\ call' = [call EXCEPT !.at = "open", !.log = Logged("requested"), !.text = FALSE,
                        !.visible = FALSE, !.parts = FALSE, !.tools = FALSE,
                        !.ready = Sendable(Now.content)]
          \* _make_client: a closed object opens new connections when it is used again
          /\ closed' = closed \ {<<Now.profile, Now.object>>}
          /\ UNCHANGED <<profiles, fallbacks, role, file, roleFile, keys, deleting, edits>>

\* Chunks arrive only over open connections; a request that cannot be built ends.
Streaming ==
  /\ CallStep /\ call.at = "open" /\ call.ready
  /\ <<Now.profile, Now.object>> \notin closed
  /\ UNCHANGED catalogVars

Shown == [call EXCEPT !.text = TRUE, !.visible = TRUE, !.voices = @ \cup {Now.profile}]

\* A piece of the answer, or of white space.
TextChunk(blank) ==
  /\ Streaming
  /\ call' = IF blank THEN [call EXCEPT !.parts = Now.content.api = "responses"] ELSE Shown

ReasoningChunk ==
  /\ Streaming /\ ReasoningAllowed(Now.content)
  /\ call' = [call EXCEPT !.visible = TRUE, !.voices = @ \cup {Now.profile}]

\* Fragments of a tool call are kept until the stream ends (_merge_tool_call).
ToolChunk ==
  /\ Streaming /\ Now.content.api = "chat"
  /\ call' = [call EXCEPT !.tools = TRUE]

\* response.completed: its text is used only when no piece of it came before.
FinalText ==
  /\ Streaming /\ Now.content.api = "responses" /\ ~call.parts /\ ~call.text
  /\ call' = Shown

\* At the end of the stream the reader gets the tool calls kept so far.
Heard == call.voices \cup (IF call.tools THEN {Now.profile} ELSE {})
Completed == [call EXCEPT !.at = "over", !.log = Logged("completed"), !.voices = Heard]

\* Mutant: an empty answer is passed over without model.failed.
StreamEnds_Silent ==
  /\ Streaming
  /\ call' = IF call.text THEN Completed
             ELSE AfterFailure(call.log, call.visible \/ call.tools, Heard)
\* Mutant: a tool call does not count as something shown.
StreamEnds_ToolsUnseen ==
  /\ Streaming
  /\ call' = IF call.text THEN Completed
             ELSE AfterFailure(Logged("failed"), call.visible, Heard)
\* The end of the stream, announced or not; tool calls are handed over first.
StreamEnds ==
  /\ Streaming
  /\ call' = IF call.text THEN Completed
             ELSE AfterFailure(Logged("failed"), call.visible \/ call.tools, Heard)

\* An error frame, an exception, closed connections, nothing to send: tool
\* calls kept so far are dropped.
StreamBreaks ==
  /\ CallStep /\ call.at = "open"
  /\ call' = AfterFailure(Logged("failed"), call.visible, call.voices)
  /\ UNCHANGED catalogVars

CallReturns ==
  /\ CallStep /\ call.at = "over"
  /\ call' = None
  /\ UNCHANGED catalogVars

\* turn.cancel: the generator is closed where it stands.
CancelTurn ==
  /\ turn # None
  /\ turn' = None /\ left' = 0 /\ call' = None
  /\ UNCHANGED catalogVars

Restart == RestartCatalog /\ turn' = None /\ left' = 0 /\ call' = None

-----------------------------------------------------------------------------
(* The commands, with what they refuse while a turn runs *)

\* The session of a running turn names the service, and the model.
Busy(p) == turn # None /\ turn.session = "chat" /\ turn.pin = p
ModelBusy(p, m) == Busy(p) /\ turn.model = m

Command ==
  /\ UNCHANGED <<turn, left, call>>
  /\ \E p \in Profiles :
       \/ \E c \in Contents, withKey \in BOOLEAN : UpsertProvider(p, c, withKey)
       \/ \E m \in Models \cup {NoModel} : SetDefault(p, m)
       \/ \E q \in Profiles : <<p, q>> \in Chains /\ SetFallback(p, q)
       \/ ~Busy(p) /\ \E ms \in SUBSET Models, d \in Models \cup {NoModel} : UpdateModels(p, ms, d)
       \/ \E m \in Models, q \in Profiles \cup {None}, n \in Models \cup {NoModel} :
            ~ModelBusy(p, m) /\ DeleteModel(p, m, q, n)
       \/ ~Busy(p) /\ \E q \in Profiles \cup {None}, n \in Models \cup {NoModel} :
            DeleteProvider(p, q, n)
       \/ \E d \in deleting : FinishDelete(d)

CallsStep ==
  \/ \E o \in Options : TurnStarts(o)
  \/ TurnEnds \/ Generate \/ Attempt
  \/ \E blank \in BOOLEAN : TextChunk(blank)
  \/ ReasoningChunk \/ ToolChunk \/ FinalText \/ StreamEnds \/ StreamBreaks
  \/ CallReturns \/ CancelTurn
  \/ Command

Next == CallsStep \/ Restart

Spec == Init /\ [][Next]_vars

-----------------------------------------------------------------------------
(* Properties *)

\* The reader of one answer hears one service: once a service has shown text,
\* reasoning or a tool call, generate() does not try the next one.  A tool call
\* is shown when the stream ends; of one that breaks the reader never hears.
OneVoice == call # None =>
  /\ Cardinality(call.voices) <= 1
  /\ (call.at = "open" /\ call.voices # {}) => Now.profile \in call.voices

\* The event log tells every attempt to its end: model.requested is followed by
\* model.completed, after which nothing comes, or by model.failed, before the
\* next service is asked; a call that returns has closed its last attempt.
AttemptsClosed == call # None =>
  \A i \in 1..Len(call.log) :
    /\ call.log[i].type = "requested" =>
         \/ i = Len(call.log) /\ call.at = "open"
         \/ i < Len(call.log) /\ call.log[i + 1].type # "requested"
                              /\ call.log[i + 1].profile = call.log[i].profile
    /\ call.log[i].type = "completed" => i = Len(call.log) /\ call.at = "over"

\* No silent fallback: a call that experiments or forbids it asks only the
\* service it is pinned to, and any other service asked is logged with the one
\* it replaces.
NoSilentFallback == call # None =>
  \A i \in 1..Len(call.log) :
    LET e == call.log[i] IN
    /\ (turn.experiment \/ ~turn.fallback) => e.profile = Primary
    /\ (e.type = "requested" /\ e.profile # Primary) => e.degraded = Primary
    /\ turn.pin # None => Primary = turn.pin

(* The inductive invariant behind them. *)

\* A call belongs to a turn and works through its own list of services.
CallInTurn == call # None => turn # None /\ Len(call.candidates) \in 1..2

\* Who was heard is the service asked now, and only if it has shown something.
OnlyNowHeard == call # None =>
  /\ call.voices \subseteq {Now.profile}
  /\ call.at = "next" \/ (call.at = "open" /\ ~call.visible) => call.voices = {}

\* The last entry of the log says where the call stands.
LogEnds == call # None =>
  LET last == call.log[Len(call.log)] IN
  /\ call.at = "open" => call.log # <<>> /\ last.type = "requested" /\ last.profile = Now.profile
  /\ call.at = "next" => call.log = <<>> \/ last.type = "failed"

\* Only a call that may fall back leaves its first service, and says for whom.
Replacements == call # None =>
  /\ ~AllowFallback(turn) => call.index = 1
  /\ turn.pin # None => Primary = turn.pin
  /\ \A i \in 1..Len(call.log) :
       \/ call.log[i].profile = Primary
       \/ AllowFallback(turn) /\ call.log[i].degraded = Primary

CallInd == TypeOK /\ CallInTurn /\ OnlyNowHeard /\ LogEnds /\ AttemptsClosed /\ Replacements
=============================================================================
