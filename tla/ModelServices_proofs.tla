------------------------ MODULE ModelServices_proofs ------------------------
(* Proofs about ModelServices, for all services, models, edits and callers. *)
EXTENDS ModelServices, FiniteSetTheorems, TLAPS

(* The catalogue stays well formed under its commands. *)

LEMMA RegisteredType ==
  ASSUME CatalogTypeOK, NEW p \in Profiles, Registered(p)
  PROVE  profiles[p] \in (0..MaxEdits) \X Content /\ Of(p) \in Content
BY DEF CatalogTypeOK, Registered, Of

LEMMA ToFileType ==
  ASSUME NEW ps \in [Profiles -> {None} \cup (0..MaxEdits) \X Content]
  PROVE  ToFile(ps) \in [Profiles -> {None} \cup Content]
BY DEF ToFile

LEMMA SaveType ==
  ASSUME CatalogTypeOK, NEW p \in Profiles, NEW new \in Content,
         NEW binding \in Binding \cup {None}, Save(p, new, binding), keys' \in SUBSET Refs
  PROVE  CatalogTypeOK'
<1>1. edits + 1 \in 0..MaxEdits /\ edits' = edits + 1
  BY CatalogAssumption DEF CatalogTypeOK, Save
<1>2. <<edits + 1, new>> \in (0..MaxEdits) \X Content
  BY <1>1
<1>3. profiles' \in [Profiles -> {None} \cup (0..MaxEdits) \X Content]
  BY <1>2 DEF CatalogTypeOK, Save
<1>4. file' \in [Profiles -> {None} \cup Content]
  BY <1>3, ToFileType DEF Save
<1>5. /\ role' \in Binding \cup {None} /\ roleFile' \in Binding \cup {None}
      /\ fallbacks' = fallbacks /\ deleting' = deleting /\ closed' = closed
  BY DEF CatalogTypeOK, Save
<1> QED BY <1>1, <1>3, <1>4, <1>5 DEF CatalogTypeOK

LEMMA LoadedType ==
  ASSUME NEW files \in [Profiles -> {None} \cup Content], NEW binding \in Binding \cup {None}
  PROVE  /\ Loaded(files) \in [Profiles -> {None} \cup (0..MaxEdits) \X Content]
         /\ LoadedRole(files, binding) \in Binding \cup {None}
<1>1. \A p \in Profiles : files[p] # None => <<0, files[p]>> \in (0..MaxEdits) \X Content
  BY CatalogAssumption
<1>2. Loaded(files) \in [Profiles -> {None} \cup (0..MaxEdits) \X Content]
  BY <1>1 DEF Loaded
<1> QED BY <1>2 DEF LoadedRole

LEMMA CatalogInitType == CatalogInit => CatalogTypeOK
<1> SUFFICES ASSUME CatalogInit PROVE CatalogTypeOK
  OBVIOUS
<1>1. file \in [Profiles -> {None} \cup Content]
  BY CatalogAssumption DEF CatalogInit
<1>2. profiles \in [Profiles -> {None} \cup (0..MaxEdits) \X Content]
  BY <1>1, LoadedType DEF CatalogInit
<1>3. keys \in SUBSET Refs
  <2>1. \A p \in Profiles : file[p] # None => file[p].ref \in Refs
    BY <1>1 DEF Content
  <2> QED BY <2>1 DEF CatalogInit
<1>4. 0 \in 0..MaxEdits
  BY CatalogAssumption
<1> QED BY <1>1, <1>2, <1>3, <1>4 DEF CatalogInit, CatalogTypeOK

LEMMA RestartType == CatalogTypeOK /\ RestartCatalog => CatalogTypeOK'
<1> SUFFICES ASSUME CatalogTypeOK, RestartCatalog PROVE CatalogTypeOK'
  OBVIOUS
<1>1. /\ profiles' \in [Profiles -> {None} \cup (0..MaxEdits) \X Content]
      /\ role' \in Binding \cup {None}
  BY LoadedType DEF RestartCatalog, CatalogTypeOK
<1> QED BY <1>1 DEF RestartCatalog, CatalogTypeOK

LEMMA UpsertType ==
  ASSUME CatalogTypeOK, NEW p \in Profiles, NEW new \in Content, NEW withKey \in BOOLEAN,
         UpsertProvider(p, new, withKey)
  PROVE  CatalogTypeOK'
<1> DEFINE binding == IF Rebinds(p, new) \/ role = None
                      THEN [profile |-> p, model |-> new.default] ELSE role
<1>1. new.default \in Models \cup {NoModel} /\ new.ref \in Refs
  BY DEF Content
<1>2. [profile |-> p, model |-> new.default] \in Binding
  BY <1>1 DEF Binding
<1>3. binding \in Binding \cup {None}
  BY <1>2 DEF CatalogTypeOK
<1>4. Save(p, new, binding)
  BY DEF UpsertProvider
<1>5. keys' \in SUBSET Refs
  BY <1>1 DEF UpsertProvider, CatalogTypeOK
<1> HIDE DEF binding
<1> QED BY <1>3, <1>4, <1>5, SaveType

LEMMA DeleteType ==
  ASSUME CatalogTypeOK, NEW p \in Profiles, NEW q \in Profiles \cup {None},
         NEW n \in Models \cup {NoModel}, DeleteProvider(p, q, n)
  PROVE  CatalogTypeOK'
<1> DEFINE model == IF n # NoModel THEN n ELSE Of(q).default
           binding == IF ~Bound(p) THEN role
                      ELSE IF q = None THEN None ELSE [profile |-> q, model |-> model]
<1>1. profiles[p] \in (0..MaxEdits) \X Content /\ Of(p) \in Content
  BY RegisteredType DEF DeleteProvider
<1>2. profiles' \in [Profiles -> {None} \cup (0..MaxEdits) \X Content]
  BY DEF DeleteProvider, CatalogTypeOK
<1>3. fallbacks' \in [Profiles -> Profiles \cup {None}]
  BY DEF DeleteProvider, CatalogTypeOK
<1>4. binding \in Binding \cup {None}
  <2>1. CASE Bound(p) /\ q # None
    <3>1. q \in Profiles /\ Registered(q)
      BY <2>1 DEF DeleteProvider, StandIn, Others, EnabledNow
    <3>2. Of(q) \in Content
      BY <3>1, RegisteredType
    <3>3. model \in Models \cup {NoModel}
      BY <3>2 DEF Content
    <3> QED BY <2>1, <3>1, <3>3 DEF Binding
  <2> QED BY <2>1 DEF CatalogTypeOK
<1>5. role' \in Binding \cup {None} /\ roleFile' \in Binding \cup {None}
  <2>1. role' = binding /\ roleFile' = IF Bound(p) THEN binding ELSE roleFile
    BY DEF DeleteProvider
  <2> HIDE DEF binding
  <2> QED BY <1>4, <2>1 DEF CatalogTypeOK
<1>6. deleting' \in SUBSET (Profiles \X Refs)
  <2>1. <<p, Of(p).ref>> \in Profiles \X Refs
    BY <1>1 DEF Content
  <2> QED BY <2>1 DEF DeleteProvider, CatalogTypeOK
<1>7. closed' \in SUBSET (Profiles \X (0..MaxEdits))
  <2>1. Object(p) \in Profiles \X (0..MaxEdits)
    BY <1>1 DEF Object
  <2> QED BY <2>1 DEF DeleteProvider, CatalogTypeOK
<1> QED BY <1>2, <1>3, <1>5, <1>6, <1>7 DEF DeleteProvider, CatalogTypeOK

LEMMA FinishDeleteType ==
  ASSUME CatalogTypeOK, NEW d, FinishDelete(d)
  PROVE  CatalogTypeOK'
<1>1. file' \in [Profiles -> {None} \cup Content]
  BY ToFileType DEF FinishDelete, CatalogTypeOK
<1> QED BY <1>1 DEF FinishDelete, CatalogTypeOK

LEMMA UpdateModelsType ==
  ASSUME CatalogTypeOK, NEW p \in Profiles, NEW ms \in SUBSET Models,
         NEW d \in Models \cup {NoModel}, UpdateModels(p, ms, d)
  PROVE  CatalogTypeOK'
<1> DEFINE drops == Bound(p) /\ role.model \notin ms
           binding == IF Bound(p) /\ d # NoModel THEN [profile |-> p, model |-> d]
                      ELSE IF drops THEN None ELSE role
<1>1. Of(p) \in Content
  BY RegisteredType DEF UpdateModels
<1>2. PICK first \in FirstModel(ms) :
        Save(p, [Of(p) EXCEPT !.models = ms, !.default = IF d # NoModel THEN d ELSE first], binding)
  BY DEF UpdateModels
<1>3. first \in Models \cup {NoModel}
  BY DEF FirstModel
<1>4. [Of(p) EXCEPT !.models = ms, !.default = IF d # NoModel THEN d ELSE first] \in Content
  BY <1>1, <1>3 DEF Content
<1>5. binding \in Binding \cup {None}
  BY DEF CatalogTypeOK, Binding
<1>6. keys' \in SUBSET Refs
  BY DEF UpdateModels, CatalogTypeOK
<1> HIDE DEF binding
<1> QED BY <1>2, <1>4, <1>5, <1>6, SaveType

LEMMA DeleteModelType ==
  ASSUME CatalogTypeOK, NEW p \in Profiles, NEW m \in Models, NEW q \in Profiles \cup {None},
         NEW n \in Models \cup {NoModel}, DeleteModel(p, m, q, n)
  PROVE  CatalogTypeOK'
<1> DEFINE rest == Of(p).models \ {m}
           current == role = [profile |-> p, model |-> m]
           isDefault == Of(p).default = m
           new == [Of(p) EXCEPT !.models = rest, !.manual = @ /\ rest # {},
                                !.default = IF ~isDefault THEN @
                                            ELSE IF rest # {} THEN n ELSE NoModel]
           stand == IF n # NoModel THEN n ELSE Of(q).default
           binding == IF ~current THEN role
                      ELSE IF rest # {} THEN [profile |-> p, model |-> n]
                      ELSE IF q = None THEN None ELSE [profile |-> q, model |-> stand]
<1>1. Of(p) \in Content
  BY RegisteredType DEF DeleteModel
<1>2. Save(p, new, binding) /\ (current => Replaced(p, rest, q, n, ~current))
  BY DEF DeleteModel
<1>3. new \in Content
  BY <1>1 DEF Content
<1>4. binding \in Binding \cup {None}
  <2>1. CASE current /\ rest = {} /\ q # None
    <3>1. q \in Profiles /\ Registered(q)
      BY <1>2, <2>1 DEF Replaced, StandIn, Others, EnabledNow
    <3>2. Of(q) \in Content
      BY <3>1, RegisteredType
    <3>3. stand \in Models \cup {NoModel}
      BY <3>2 DEF Content
    <3> HIDE DEF stand
    <3> QED BY <2>1, <3>1, <3>3 DEF Binding
  <2>2. CASE ~(current /\ rest = {} /\ q # None)
    BY <2>2 DEF CatalogTypeOK, Binding
  <2> QED BY <2>1, <2>2
<1>5. keys' \in SUBSET Refs
  BY DEF DeleteModel, CatalogTypeOK
<1> HIDE DEF binding, new
<1> QED BY <1>2, <1>3, <1>4, <1>5, SaveType

LEMMA SetDefaultType ==
  ASSUME CatalogTypeOK, NEW p \in Profiles, NEW m \in Models \cup {NoModel}, SetDefault(p, m)
  PROVE  CatalogTypeOK'
<1>1. Of(p) \in Content
  BY RegisteredType DEF SetDefault
<1>2. (IF m = NoModel THEN Of(p).default ELSE m) \in Models \cup {NoModel}
  BY <1>1 DEF Content
<1>3. role' \in Binding /\ roleFile' = role'
  BY <1>2 DEF SetDefault, Binding
<1> QED BY <1>3 DEF SetDefault, CatalogTypeOK

LEMMA SetFallbackType ==
  ASSUME CatalogTypeOK, NEW p \in Profiles, NEW q \in Profiles, SetFallback(p, q)
  PROVE  CatalogTypeOK'
BY DEF SetFallback, CatalogTypeOK

LEMMA CommandType == CatalogTypeOK /\ Command => CatalogTypeOK'
<1> SUFFICES ASSUME CatalogTypeOK, Command PROVE CatalogTypeOK'
  OBVIOUS
<1>1. Contents \subseteq Content
  BY CatalogAssumption
<1> QED
  BY <1>1, UpsertType, SetDefaultType, SetFallbackType, UpdateModelsType, DeleteModelType,
     DeleteType, FinishDeleteType
  DEF Command

LEMMA EditType == CatalogTypeOK /\ EditOrRemove => CatalogTypeOK'
<1> SUFFICES ASSUME CatalogTypeOK, EditOrRemove PROVE CatalogTypeOK'
  OBVIOUS
<1>1. Edited \subseteq Content /\ \A k \in Listed : k[1] \in Profiles
  BY CatalogAssumption, SceneAssumption, DirectoryAssumption
<1> QED BY <1>1, UpsertType, DeleteType, FinishDeleteType DEF EditOrRemove

-----------------------------------------------------------------------------
(* The model calls of a turn. *)

LEMMA CandidateType ==
  ASSUME CatalogTypeOK, NEW p \in Profiles, EnabledNow(p)
  PROVE  CandidateOf(p) \in Candidate /\ CandidateOf(p).profile = p
BY RegisteredType DEF EnabledNow, CandidateOf, Candidate, Of

LEMMA ChainType ==
  ASSUME CatalogTypeOK, NEW p \in Profiles
  PROVE  Chain(p) \in Seq(Candidate) /\ Len(Chain(p)) \in {0, 1}
<1> DEFINE q == fallbacks[p]
<1>1. CASE q \in Profiles \ {p} /\ EnabledNow(q)
  <2>1. CandidateOf(q) \in Candidate
    BY <1>1, CandidateType
  <2>2. Chain(p) = <<CandidateOf(q)>>
    BY <1>1 DEF Chain
  <2> QED BY <2>1, <2>2
<1>2. CASE ~(q \in Profiles \ {p} /\ EnabledNow(q))
  <2>1. Chain(p) = <<>>
    BY <1>2 DEF Chain
  <2> QED BY <2>1
<1> QED BY <1>1, <1>2

\* A call has one service or two, the pinned one first.
LEMMA CandidatesType ==
  ASSUME CatalogTypeOK, NEW o \in Options, NEW cs \in Candidates(o)
  PROVE  /\ cs \in Seq(Candidate) /\ Len(cs) \in 1..2
         /\ o.pin # None => cs[1].profile = o.pin
<1>1. o.pin \in Profiles \cup {None}
  BY CallAssumption DEF Option
<1>2. CASE o.pin # None
  <2>1. EnabledNow(o.pin) /\ o.pin \in Profiles
    BY <1>1, <1>2 DEF Candidates
  <2>2. PICK rest : cs = <<CandidateOf(o.pin)>> \o rest /\ rest \in {<<>>, Chain(o.pin)}
    BY <1>2, <2>1 DEF Candidates
  <2>3. rest \in Seq(Candidate) /\ Len(rest) \in {0, 1}
    <3>1. Chain(o.pin) \in Seq(Candidate) /\ Len(Chain(o.pin)) \in {0, 1}
      BY <2>1, ChainType
    <3>2. <<>> \in Seq(Candidate) /\ Len(<<>>) = 0
      OBVIOUS
    <3> QED BY <2>2, <3>1, <3>2
  <2>4. CandidateOf(o.pin) \in Candidate /\ CandidateOf(o.pin).profile = o.pin
    BY <2>1, CandidateType
  <2> QED BY <2>2, <2>3, <2>4
<1>3. CASE o.pin = None
  <2> DEFINE primary == IF role # None THEN {role.profile} ELSE {p \in Profiles : EnabledNow(p)}
             first(p) == IF EnabledNow(p) THEN <<CandidateOf(p)>> ELSE <<>>
  <2>1. cs \in {first(p) \o Chain(p) : p \in primary} \ {<<>>}
    BY <1>3 DEF Candidates
  <2>2. PICK p \in primary : cs = first(p) \o Chain(p)
    BY <2>1
  <2>3. p \in Profiles
    BY <2>2 DEF CatalogTypeOK, Binding
  <2>4. first(p) \in Seq(Candidate) /\ Len(first(p)) \in {0, 1}
    BY <2>3, CandidateType
  <2>5. Chain(p) \in Seq(Candidate) /\ Len(Chain(p)) \in {0, 1}
    BY <2>3, ChainType
  <2>6. cs # <<>>
    BY <2>1
  <2> HIDE DEF first
  <2> QED BY <1>3, <2>2, <2>4, <2>5, <2>6
<1> QED BY <1>2, <1>3

\* The parts of a call under way.
LEMMA CallParts ==
  ASSUME CallInd, call # None
  PROVE  /\ call \in Call /\ turn # None
         /\ call.candidates \in Seq(Candidate) /\ Len(call.candidates) \in 1..2
         /\ call.index \in 1..Len(call.candidates)
         /\ Now \in Candidate /\ Now.profile \in Profiles
         /\ call.candidates[1] \in Candidate /\ Primary \in Profiles
         /\ call.log \in Seq(Event)
<1>1. call \in Call /\ turn # None /\ Len(call.candidates) \in 1..2
      /\ call.index \in DOMAIN call.candidates
  BY DEF CallInd, TypeOK, CallInTurn
<1>2. call.candidates \in Seq(Candidate) /\ call.log \in Seq(Event)
  BY <1>1 DEF Call
<1>3. call.index \in 1..Len(call.candidates) /\ 1 \in 1..Len(call.candidates)
  BY <1>1, <1>2
<1>4. Now \in Candidate /\ call.candidates[1] \in Candidate
  BY <1>2, <1>3 DEF Now
<1> QED BY <1>1, <1>2, <1>3, <1>4 DEF Candidate, Primary

LEMMA LoggedType ==
  ASSUME CallInd, call # None, NEW type \in {"requested", "completed", "failed"}
  PROVE  /\ Logged(type) \in Seq(Event)
         /\ LET e == [type |-> type, profile |-> Now.profile,
                      degraded |-> IF call.index > 1 THEN Primary ELSE None]
            IN  e \in Event /\ Logged(type) = Append(call.log, e)
<1> DEFINE e == [type |-> type, profile |-> Now.profile,
                 degraded |-> IF call.index > 1 THEN Primary ELSE None]
<1>1. e \in Event /\ call.log \in Seq(Event)
  BY CallParts DEF Event
<1>2. Logged(type) = Append(call.log, e)
  BY DEF Logged
<1> QED BY <1>1, <1>2

\* An attempt goes on, and shows something or nothing.
LEMMA ShowStep ==
  ASSUME CallInd, call # None, call.at = "open", CatalogTypeOK', UNCHANGED <<turn, left>>,
         call' \in Call, call'.at = "open", call'.candidates = call.candidates,
         call'.index = call.index, call'.log = call.log,
         call'.voices \subseteq {Now.profile},
         call'.visible \/ call'.voices = {}
  PROVE  CallInd'
<1>1. TypeOK'
  BY DEF CallInd, TypeOK
<1>2. CallInTurn' /\ Replacements'
  BY DEF CallInd, CallInTurn, Replacements, Primary
<1>3. OnlyNowHeard'
  BY DEF OnlyNowHeard, Now
<1>4. LogEnds' /\ AttemptsClosed'
  BY DEF CallInd, LogEnds, AttemptsClosed, Now
<1> QED BY <1>1, <1>2, <1>3, <1>4 DEF CallInd

\* The log grows by what happens to the service asked now.
LEMMA LogStep ==
  ASSUME CallInd, call # None, call.at \in {"next", "open"}, UNCHANGED turn,
         NEW type \in {"requested", "completed", "failed"}, type = "requested" <=> call.at = "next" /\ call'.at = "open",
         call'.log = Logged(type), call'.candidates = call.candidates,
         call'.index = call.index \/ (type = "failed" /\ AllowFallback(turn)),
         type = "completed" => call'.at = "over", type = "failed" => call'.at # "open"
  PROVE  LogEnds' /\ AttemptsClosed' /\ Replacements'
<1> DEFINE e == [type |-> type, profile |-> Now.profile,
                 degraded |-> IF call.index > 1 THEN Primary ELSE None]
           log == call.log
           n == Len(call.log)
           log2 == call'.log
<1>1. e \in Event /\ log \in Seq(Event) /\ log2 = Append(log, e)
  BY LoggedType, CallParts
<1>2. /\ e.type = type /\ e.profile = Now.profile
      /\ e.degraded = IF call.index > 1 THEN Primary ELSE None
  OBVIOUS
<1> HIDE DEF e
<1>3. /\ n \in Nat /\ Len(log2) = n + 1 /\ log2[n + 1] = e /\ log2 # <<>>
      /\ \A i \in 1..n : log2[i] = log[i] /\ log[i] \in Event
  BY <1>1
<1> HIDE DEF n, log2
<1>4. \A i \in 1..n :
        /\ log[i].type # "completed"
        /\ log[i].type = "requested" =>
             \/ i = n /\ call.at = "open"
             \/ i < n /\ log[i + 1].type # "requested" /\ log[i + 1].profile = log[i].profile
  BY <1>3 DEF CallInd, AttemptsClosed, n
<1>5. /\ call.at = "open" => log[n].type = "requested" /\ log[n].profile = Now.profile
      /\ call.at = "next" => n = 0 \/ log[n].type = "failed"
  BY <1>1 DEF CallInd, LogEnds, n
<1>6. call'.at = "open" => Now' = Now
  BY DEF Now
<1>7. LogEnds'
  BY <1>2, <1>3, <1>6 DEF LogEnds, log2, CallInd
<1>8. ASSUME NEW i \in 1..(n + 1)
      PROVE  /\ log2[i].type = "requested" =>
                  \/ i = n + 1 /\ call'.at = "open"
                  \/ i < n + 1 /\ log2[i + 1].type # "requested"
                               /\ log2[i + 1].profile = log2[i].profile
             /\ log2[i].type = "completed" => i = n + 1 /\ call'.at = "over"
  <2>1. CASE i = n + 1
    BY <1>2, <1>3, <2>1
  <2>2. CASE i = n /\ i # n + 1
    <3>1. log2[i] = log[i] /\ log2[i + 1] = e
      BY <1>3, <2>2
    <3>2. log[i].type # "completed"
      BY <1>3, <1>4, <2>2
    <3>3. log[i].type = "requested" => call.at = "open" /\ type # "requested"
      BY <1>3, <1>4, <2>2
    <3> QED BY <1>2, <1>3, <1>5, <2>2, <3>1, <3>2, <3>3
  <2>3. CASE i < n
    <3>1. i \in 1..n /\ i + 1 \in 1..n
      BY <1>3, <2>3
    <3>2. log2[i] = log[i] /\ log2[i + 1] = log[i + 1]
      BY <1>3, <3>1
    <3> QED BY <1>3, <1>4, <2>3, <3>1, <3>2
  <2> QED BY <1>3, <2>1, <2>2, <2>3
<1>9. AttemptsClosed'
  BY <1>3, <1>8 DEF AttemptsClosed, log2
<1>10. Primary' = Primary /\ (AllowFallback(turn))' = AllowFallback(turn)
  BY DEF Primary, AllowFallback, Experiment
<1>11. e.profile = Primary \/ (AllowFallback(turn) /\ e.degraded = Primary)
  <2>1. CASE call.index = 1
    BY <1>2, <2>1 DEF Now, Primary
  <2>2. CASE call.index # 1
    <3>1. call.index > 1
      BY <2>2, CallParts
    <3> QED BY <1>2, <2>2, <3>1 DEF CallInd, Replacements
  <2> QED BY <2>1, <2>2
<1>12. \A i \in 1..n : log[i].profile = Primary \/ (AllowFallback(turn) /\ log[i].degraded = Primary)
  BY DEF CallInd, Replacements, n
<1>13. \A i \in 1..(n + 1) :
         log2[i].profile = Primary \/ (AllowFallback(turn) /\ log2[i].degraded = Primary)
  BY <1>3, <1>11, <1>12
<1>14. Replacements'
  BY <1>3, <1>10, <1>13 DEF CallInd, Replacements, log2
<1> QED BY <1>7, <1>9, <1>14

LEMMA NextIndex ==
  ASSUME NEW n \in 1..2, NEW i \in 1..n, i < n
  PROVE  i + 1 \in 1..2 /\ i + 1 \in 1..n
OBVIOUS

\* A failure, told in the log: the next service is asked, or the call is over.
LEMMA FailStep ==
  ASSUME CallInd, call # None, call.at \in {"next", "open"}, CatalogTypeOK',
         UNCHANGED <<turn, left>>, NEW visible \in BOOLEAN,
         NEW voices \in SUBSET {Now.profile}, voices \in SUBSET Profiles,
         ~visible => voices = {},
         call' = AfterFailure(Logged("failed"), visible, voices)
  PROVE  CallInd'
<1>0. /\ call \in Call /\ turn # None /\ Logged("failed") \in Seq(Event)
      /\ call.index \in 1..Len(call.candidates) /\ Len(call.candidates) \in 1..2
      /\ call.candidates \in Seq(Candidate)
  BY CallParts, LoggedType
<1>1. CASE More /\ ~visible
  <2>1. call' = [call EXCEPT !.at = "next", !.index = call.index + 1, !.log = Logged("failed"),
               !.voices = voices]
    BY <1>1 DEF AfterFailure
  <2>2. /\ AllowFallback(turn)
        /\ call.index + 1 \in 1..2 /\ call.index + 1 \in 1..Len(call.candidates)
    <3>1. AllowFallback(turn)
      BY <1>1 DEF More
    <3>2. call.index < Len(call.candidates)
      BY <1>1 DEF More
    <3> QED BY <1>0, <3>1, <3>2, NextIndex
  <2>3. call' \in Call
    BY <1>0, <2>1, <2>2 DEF Call
  <2>4. /\ call'.at = "next" /\ call'.index = call.index + 1 /\ call'.log = Logged("failed")
        /\ call'.candidates = call.candidates /\ call'.voices = voices
    BY <1>0, <2>1 DEF Call
  <2>5. voices = {}
    BY <1>1
  <2>6. OnlyNowHeard'
    BY <2>4, <2>5 DEF OnlyNowHeard
  <2>7. LogEnds' /\ AttemptsClosed' /\ Replacements'
    BY <2>2, <2>4, LogStep
  <2>8. TypeOK' /\ CallInTurn'
    BY <1>0, <2>2, <2>3, <2>4 DEF CallInd, TypeOK, CallInTurn
  <2> QED BY <2>6, <2>7, <2>8 DEF CallInd
<1>2. CASE ~(More /\ ~visible)
  <2>1. call' = [call EXCEPT !.at = "over", !.log = Logged("failed"), !.visible = visible,
               !.voices = voices]
    BY <1>2 DEF AfterFailure
  <2>3. call' \in Call
    BY <1>0, <2>1 DEF Call
  <2>4. /\ call'.at = "over" /\ call'.index = call.index /\ call'.log = Logged("failed")
        /\ call'.candidates = call.candidates /\ call'.voices = voices
    BY <1>0, <2>1 DEF Call
  <2>5. Now' = Now
    BY <2>4 DEF Now
  <2>6. OnlyNowHeard'
    BY <2>4, <2>5 DEF OnlyNowHeard
  <2>7. LogEnds' /\ AttemptsClosed' /\ Replacements'
    BY <2>4, LogStep
  <2>8. TypeOK' /\ CallInTurn'
    BY <1>0, <2>3, <2>4 DEF CallInd, TypeOK, CallInTurn
  <2> QED BY <2>6, <2>7, <2>8 DEF CallInd
<1> QED BY <1>1, <1>2

\* The call ends with this service.
LEMMA OverStep ==
  ASSUME CallInd, call # None, call.at \in {"next", "open"}, CatalogTypeOK',
         UNCHANGED <<turn, left>>, NEW type \in {"completed", "failed"},
         NEW voices \in SUBSET {Now.profile}, voices \in SUBSET Profiles,
         call' = [call EXCEPT !.at = "over", !.log = Logged(type), !.voices = voices]
  PROVE  CallInd'
<1>0. call \in Call /\ Logged(type) \in Seq(Event)
  BY CallParts, LoggedType
<1>1. call' \in Call
  BY <1>0 DEF Call
<1>2. /\ call'.at = "over" /\ call'.index = call.index /\ call'.log = Logged(type)
      /\ call'.candidates = call.candidates /\ call'.voices = voices
  BY <1>0 DEF Call
<1>3. Now' = Now
  BY <1>2 DEF Now
<1>4. OnlyNowHeard'
  BY <1>2, <1>3 DEF OnlyNowHeard
<1>5. LogEnds' /\ AttemptsClosed' /\ Replacements'
  BY <1>2, LogStep
<1>6. TypeOK' /\ CallInTurn'
  BY <1>1, <1>2 DEF CallInd, TypeOK, CallInTurn
<1> QED BY <1>4, <1>5, <1>6 DEF CallInd

\* Who has been heard, and who is when the tool calls are handed over.
LEMMA HeardType ==
  ASSUME CallInd, call # None, call.at \in {"next", "open"}
  PROVE  /\ call.voices \in SUBSET {Now.profile} /\ call.voices \in SUBSET Profiles
         /\ call = [call EXCEPT !.voices = call.voices]
         /\ call.at = "next" => call.voices = {}
         /\ call.at = "open" /\ ~call.visible => call.voices = {}
         /\ Heard \in SUBSET {Now.profile} /\ Heard \in SUBSET Profiles
         /\ call.at = "open" /\ ~(call.visible \/ call.tools) => Heard = {}
<1>1. call \in Call /\ Now.profile \in Profiles
  BY CallParts
<1>2. /\ call.voices \in SUBSET {Now.profile}
      /\ call.at = "next" \/ (call.at = "open" /\ ~call.visible) => call.voices = {}
  BY DEF CallInd, OnlyNowHeard
<1>3. call.voices \in SUBSET Profiles /\ call = [call EXCEPT !.voices = call.voices]
  BY <1>1 DEF Call
<1>4. Heard \in SUBSET {Now.profile}
  BY <1>2 DEF Heard
<1> QED BY <1>1, <1>2, <1>3, <1>4 DEF Heard

LEMMA StreamType ==
  ASSUME CallInd, Streaming
  PROVE  /\ call # None /\ call.at = "open" /\ call \in Call /\ call # None
         /\ Now.profile \in Profiles /\ CatalogTypeOK' /\ UNCHANGED <<turn, left>>
BY CallParts DEF Streaming, CallStep, CallInd, TypeOK, CatalogTypeOK, catalogVars

\* Chunks that show something.
LEMMA ShownStep ==
  ASSUME CallInd, Streaming,
         call' = Shown \/ call' = [call EXCEPT !.visible = TRUE, !.voices = @ \cup {Now.profile}]
  PROVE  CallInd'
<1>1. /\ call # None /\ call.at = "open" /\ call \in Call
      /\ Now.profile \in Profiles /\ CatalogTypeOK' /\ UNCHANGED <<turn, left>>
  BY StreamType
<1>2. call.voices \subseteq {Now.profile}
  BY <1>1 DEF CallInd, OnlyNowHeard
<1>3. call.voices \cup {Now.profile} \in SUBSET Profiles
  BY <1>1 DEF Call
<1>4. /\ call' \in Call
      /\ call'.at = "open" /\ call'.candidates = call.candidates
      /\ call'.index = call.index /\ call'.log = call.log
      /\ call'.voices = call.voices \cup {Now.profile} /\ call'.visible
  <2> DEFINE voices == call.voices \cup {Now.profile}
  <2>1. \/ call' = [call EXCEPT !.text = TRUE, !.visible = TRUE, !.voices = voices]
        \/ call' = [call EXCEPT !.visible = TRUE, !.voices = voices]
    BY <1>1 DEF Shown, Call
  <2> HIDE DEF voices
  <2>2. voices \in SUBSET Profiles
    BY <1>3 DEF voices
  <2>3. /\ call' \in Call
        /\ call'.at = "open" /\ call'.candidates = call.candidates
        /\ call'.index = call.index /\ call'.log = call.log
        /\ call'.voices = voices /\ call'.visible
    BY <1>1, <2>1, <2>2 DEF Call
  <2> QED BY <2>3 DEF voices
<1> QED BY <1>1, <1>2, <1>4, ShowStep

\* Chunks that show nothing.
LEMMA QuietStep ==
  ASSUME CallInd, Streaming,
         \/ \E parts \in BOOLEAN : call' = [call EXCEPT !.parts = parts]
         \/ call' = [call EXCEPT !.tools = TRUE]
  PROVE  CallInd'
<1>1. /\ call # None /\ call.at = "open" /\ call \in Call
      /\ CatalogTypeOK' /\ UNCHANGED <<turn, left>>
  BY StreamType
<1>2. call.voices \subseteq {Now.profile} /\ (call.visible \/ call.voices = {})
  BY <1>1 DEF CallInd, OnlyNowHeard
<1>3. /\ call' \in Call
      /\ call'.at = "open" /\ call'.candidates = call.candidates
      /\ call'.index = call.index /\ call'.log = call.log
      /\ call'.voices = call.voices /\ call'.visible = call.visible
  BY <1>1 DEF Call
<1> QED BY <1>1, <1>2, <1>3, ShowStep

\* The next service is asked.
LEMMA RequestStep ==
  ASSUME CallInd, call # None, call.at = "next", CatalogTypeOK', UNCHANGED <<turn, left>>,
         call' = [call EXCEPT !.at = "open", !.log = Logged("requested"), !.text = FALSE,
                    !.visible = FALSE, !.parts = FALSE, !.tools = FALSE,
                    !.ready = Sendable(Now.content)]
  PROVE  CallInd'
<1>0. call \in Call /\ Logged("requested") \in Seq(Event)
  BY CallParts, LoggedType
<1>a. Sendable(Now.content) \in BOOLEAN
  BY DEF Sendable, HasKey
<1>1. call' \in Call
  <2> DEFINE ready == Sendable(Now.content)
             log == Logged("requested")
  <2> HIDE DEF ready, log
  <2>1. call' = [call EXCEPT !.at = "open", !.log = log, !.text = FALSE,
                   !.visible = FALSE, !.parts = FALSE, !.tools = FALSE, !.ready = ready]
    BY DEF ready, log
  <2>2. ready \in BOOLEAN /\ log \in Seq(Event)
    BY <1>0, <1>a DEF ready, log
  <2> QED BY <1>0, <2>1, <2>2 DEF Call
<1>2. /\ call'.at = "open" /\ call'.index = call.index /\ call'.log = Logged("requested")
      /\ call'.candidates = call.candidates /\ call'.voices = call.voices
  BY <1>0 DEF Call
<1>3. call.voices = {}
  BY DEF CallInd, OnlyNowHeard
<1>4. OnlyNowHeard'
  BY <1>2, <1>3 DEF OnlyNowHeard
<1>5. LogEnds' /\ AttemptsClosed' /\ Replacements'
  BY <1>2, LogStep
<1>6. TypeOK' /\ CallInTurn'
  BY <1>1, <1>2 DEF CallInd, TypeOK, CallInTurn
<1> QED BY <1>4, <1>5, <1>6 DEF CallInd

LEMMA AttemptStep == CallInd /\ Attempt => CallInd'
<1> SUFFICES ASSUME CallInd, Attempt PROVE CallInd'
  OBVIOUS
<1>1. call # None /\ call.at = "next" /\ UNCHANGED <<turn, left>> /\ CatalogTypeOK
  BY DEF Attempt, CallStep, CallInd, TypeOK
<1>2. UNCHANGED catalogVars => CatalogTypeOK'
  BY <1>1 DEF CatalogTypeOK, catalogVars
<1>3. CASE ThinkingRefused
  <2>1. call' = [call EXCEPT !.at = "over", !.log = Logged("failed")] /\ UNCHANGED catalogVars
    BY <1>3 DEF Attempt
  <2>2. call' = [call EXCEPT !.at = "over", !.log = Logged("failed"), !.voices = call.voices]
    BY <1>1, <2>1, CallParts DEF Call
  <2> QED BY <1>1, <1>2, <2>1, <2>2, HeardType, OverStep
<1>4. CASE ~ThinkingRefused /\ StreamMissing
  <2>1. /\ UNCHANGED catalogVars
        /\ call' = AfterFailure(IF More THEN call.log ELSE Logged("failed"), FALSE, call.voices)
    BY <1>4 DEF Attempt
  <2>2. CASE ~More
    BY <1>1, <1>2, <2>1, <2>2, HeardType, FailStep
  <2>3. CASE More
    <3>0. /\ call \in Call /\ turn # None
          /\ call.index \in 1..Len(call.candidates) /\ Len(call.candidates) \in 1..2
          /\ call.candidates \in Seq(Candidate) /\ call.log \in Seq(Event)
      BY <1>1, CallParts
    <3>1. call' = [call EXCEPT !.at = "next", !.index = call.index + 1, !.log = call.log,
                 !.voices = call.voices]
      BY <2>1, <2>3 DEF AfterFailure
    <3>2. AllowFallback(turn)
      BY <2>3 DEF More
    <3>3. call.index + 1 \in 1..2 /\ call.index + 1 \in 1..Len(call.candidates)
      <4>1. call.index < Len(call.candidates)
        BY <2>3 DEF More
      <4> QED BY <3>0, <4>1, NextIndex
    <3>4. call' \in Call
      BY <3>0, <3>1, <3>3 DEF Call
    <3>5. /\ call'.at = "next" /\ call'.index = call.index + 1 /\ call'.log = call.log
          /\ call'.candidates = call.candidates /\ call'.voices = call.voices
      BY <3>0, <3>1 DEF Call
    <3>6. OnlyNowHeard' /\ LogEnds' /\ AttemptsClosed'
      BY <1>1, <3>5 DEF CallInd, OnlyNowHeard, LogEnds, AttemptsClosed
    <3>7. Replacements'
      BY <1>1, <3>2, <3>5 DEF CallInd, Replacements, Primary, AllowFallback, Experiment
    <3>8. TypeOK'
      <4>1. CatalogTypeOK' /\ turn' = turn /\ left' = left
        BY <1>1, <1>2, <2>1
      <4>2. call'.index \in DOMAIN call'.candidates
        BY <3>0, <3>3, <3>5
      <4> QED BY <3>4, <4>1, <4>2 DEF CallInd, TypeOK
    <3>9. CallInTurn'
      BY <1>1, <3>0, <3>5 DEF CallInTurn
    <3> QED BY <3>6, <3>7, <3>8, <3>9 DEF CallInd
  <2> QED BY <2>2, <2>3
<1>5. CASE ~ThinkingRefused /\ ~StreamMissing
  <2>1. CatalogTypeOK'
    BY <1>1, <1>5 DEF Attempt, CatalogTypeOK
  <2> QED BY <1>1, <1>5, <2>1, RequestStep DEF Attempt
<1> QED BY <1>3, <1>4, <1>5

\* Steps that leave the turn and its call alone.
LEMMA OtherStep == CallInd /\ UNCHANGED <<turn, left, call>> /\ CatalogTypeOK' => CallInd'
<1> SUFFICES ASSUME CallInd, UNCHANGED <<turn, left, call>>, CatalogTypeOK' PROVE CallInd'
  OBVIOUS
<1>1. TypeOK' /\ CallInTurn'
  BY DEF CallInd, TypeOK, CallInTurn
<1>2. OnlyNowHeard' /\ LogEnds' /\ AttemptsClosed'
  BY DEF CallInd, OnlyNowHeard, LogEnds, AttemptsClosed, Now
<1>3. Replacements'
  BY DEF CallInd, Replacements, AllowFallback, Experiment, Primary
<1> QED BY <1>1, <1>2, <1>3 DEF CallInd

\* Steps after which no call is under way.
LEMMA NoCallStep ==
  ASSUME CallInd, CatalogTypeOK', turn' \in Options \cup {None}, left' \in 0..MaxCalls, call' = None
  PROVE  CallInd'
BY DEF CallInd, TypeOK, CallInTurn, OnlyNowHeard, LogEnds, AttemptsClosed, Replacements

LEMMA GenerateStep == CallInd /\ Generate => CallInd'
<1> SUFFICES ASSUME CallInd, Generate PROVE CallInd'
  OBVIOUS
<1>1. /\ CatalogTypeOK /\ CatalogTypeOK' /\ turn # None /\ turn \in Options /\ turn' = turn
      /\ left' \in 0..MaxCalls
  <2>1. CatalogTypeOK /\ CatalogTypeOK' /\ turn # None /\ turn \in Options /\ turn' = turn
    BY DEF Generate, CallInd, TypeOK, CatalogTypeOK, catalogVars
  <2>2. left > 0 /\ left \in 0..MaxCalls /\ left' = left - 1
    BY DEF Generate, CallInd, TypeOK
  <2> QED BY <2>1, <2>2, CallAssumption
<1>2. PICK cs \in Candidates(turn) :
        call' = [at |-> "next", candidates |-> cs, index |-> 1, ready |-> FALSE, text |-> FALSE,
                 visible |-> FALSE, parts |-> FALSE, tools |-> FALSE, log |-> <<>>, voices |-> {}]
  BY DEF Generate
<1>3. /\ cs \in Seq(Candidate) /\ Len(cs) \in 1..2
      /\ turn.pin # None => cs[1].profile = turn.pin
  BY <1>1, CandidatesType
<1>4. call' \in Call /\ 1 \in DOMAIN cs
  BY <1>2, <1>3 DEF Call
<1>5. TypeOK' /\ CallInTurn'
  BY <1>1, <1>2, <1>3, <1>4 DEF TypeOK, CallInTurn
<1>6. OnlyNowHeard' /\ LogEnds'
  BY <1>2 DEF OnlyNowHeard, LogEnds
<1>7. AttemptsClosed' /\ Replacements'
  BY <1>1, <1>2, <1>3 DEF AttemptsClosed, Replacements, Primary
<1> QED BY <1>5, <1>6, <1>7 DEF CallInd

LEMMA CallsInd == CallInd /\ Next => CallInd'
<1> SUFFICES ASSUME CallInd, Next PROVE CallInd'
  OBVIOUS
<1>0. /\ CatalogTypeOK /\ (UNCHANGED catalogVars => CatalogTypeOK')
      /\ turn \in Options \cup {None} /\ left \in 0..MaxCalls /\ 0 \in 0..MaxCalls
  BY CallAssumption DEF CallInd, TypeOK, CatalogTypeOK, catalogVars
<1>1. ASSUME NEW o \in Options, TurnStarts(o) PROVE CallInd'
  <2>1. call = None
    BY <1>1 DEF TurnStarts, CallInd, CallInTurn
  <2>2. MaxCalls \in 0..MaxCalls
    BY CallAssumption
  <2> QED BY <1>0, <1>1, <2>1, <2>2, NoCallStep DEF TurnStarts
<1>2. CASE TurnEnds
  BY <1>0, <1>2, NoCallStep DEF TurnEnds
<1>3. CASE Generate
  BY <1>3, GenerateStep
<1>4. CASE Attempt
  BY <1>4, AttemptStep
<1>5. ASSUME NEW blank \in BOOLEAN, TextChunk(blank) PROVE CallInd'
  <2>1. CASE blank
    <3>1. (Now.content.api = "responses") \in BOOLEAN
      OBVIOUS
    <3> QED BY <1>5, <2>1, <3>1, QuietStep DEF TextChunk
  <2>2. CASE ~blank
    BY <1>5, <2>2, ShownStep DEF TextChunk
  <2> QED BY <2>1, <2>2
<1>6. CASE ReasoningChunk
  BY <1>6, ShownStep DEF ReasoningChunk
<1>7. CASE ToolChunk
  BY <1>7, QuietStep DEF ToolChunk
<1>8. CASE FinalText
  BY <1>8, ShownStep DEF FinalText
<1>9. CASE StreamEnds
  <2>1. /\ Streaming /\ call # None /\ call.at = "open" /\ call \in Call
        /\ CatalogTypeOK' /\ UNCHANGED <<turn, left>>
    BY <1>9, StreamType DEF StreamEnds
  <2>2. CASE call.text
    BY <1>9, <2>1, <2>2, HeardType, OverStep DEF StreamEnds, Completed
  <2>3. CASE ~call.text
    <3>1. call' = AfterFailure(Logged("failed"), call.visible \/ call.tools, Heard)
      BY <1>9, <2>3 DEF StreamEnds
    <3>2. (call.visible \/ call.tools) \in BOOLEAN
      OBVIOUS
    <3> QED BY <2>1, <3>1, <3>2, HeardType, FailStep
  <2> QED BY <2>2, <2>3
<1>10. CASE StreamBreaks
  <2>1. /\ call # None /\ call.at = "open" /\ UNCHANGED <<turn, left>> /\ UNCHANGED catalogVars
        /\ call' = AfterFailure(Logged("failed"), call.visible, call.voices)
    BY <1>10 DEF StreamBreaks, CallStep
  <2>2. call.visible \in BOOLEAN
    BY <2>1, CallParts DEF Call
  <2> QED BY <1>0, <2>1, <2>2, HeardType, FailStep
<1>11. CASE CallReturns
  BY <1>0, <1>11, NoCallStep DEF CallReturns, CallStep
<1>12. CASE CancelTurn
  BY <1>0, <1>12, NoCallStep DEF CancelTurn
<1>13. CASE Command
  BY <1>0, <1>13, CommandType, OtherStep DEF Command
<1>14. CASE Restart
  BY <1>0, <1>14, RestartType, NoCallStep DEF Restart
<1> QED
  BY <1>1, <1>2, <1>3, <1>4, <1>5, <1>6, <1>7, <1>8, <1>9, <1>10, <1>11, <1>12, <1>13, <1>14
  DEF Next, CallsStep

-----------------------------------------------------------------------------
(* The directory of models. *)

\* Among as many locks as callers and one, one is free: a new lock is nobody's.
LEMMA LockFree ==
  ASSUME NEW k \in Listed, req \in [Callers -> Fetch \cup Probe \cup {None}]
  PROVE  NewLock(k) \in Locks /\ Free(k, NewLock(k))
<1> DEFINE Queued == {c \in Callers : Fetching(c) /\ req[c].key = k}
           Used == {req[c].lock : c \in Queued}
<1>1. IsFiniteSet(Callers) /\ Cardinality(Callers) \in Nat
  BY DirectoryAssumption, FS_CardinalityType
<1>2. IsFiniteSet(Queued) /\ Cardinality(Queued) <= Cardinality(Callers) /\ Cardinality(Queued) \in Nat
  BY <1>1, FS_Subset, FS_CardinalityType
<1>3. IsFiniteSet(Used) /\ Cardinality(Used) <= Cardinality(Queued) /\ Cardinality(Used) \in Nat
  <2> DEFINE f == [c \in Queued |-> req[c].lock]
  <2>1. f \in [Queued -> Used] /\ \A u \in Used : \E c \in Queued : f[c] = u
    OBVIOUS
  <2>2. f \in Surjection(Queued, Used)
    BY <2>1 DEF Surjection
  <2> QED BY <1>2, <2>2, FS_Surjection, FS_CardinalityType
<1>4. IsFiniteSet(Locks) /\ Cardinality(Locks) = Cardinality(Callers) + 1
  <2>1. 0 \in Int /\ Cardinality(Callers) \in Int /\ 0 <= Cardinality(Callers)
    BY <1>1
  <2>2. /\ IsFiniteSet(0..Cardinality(Callers))
        /\ Cardinality(0..Cardinality(Callers)) =
             IF 0 > Cardinality(Callers) THEN 0 ELSE Cardinality(Callers) - 0 + 1
    BY <2>1, FS_Interval
  <2> QED BY <2>1, <2>2 DEF Locks
<1>5. \E l \in Locks : l \notin Used
  <2> SUFFICES ASSUME Locks \subseteq Used PROVE FALSE
    OBVIOUS
  <2>1. Cardinality(Locks) <= Cardinality(Used)
    BY <1>3, FS_Subset
  <2> QED BY <1>1, <1>2, <1>3, <1>4, <2>1
<1>6. \A l \in Locks : l \notin Used => Free(k, l)
  BY DEF Free
<1> QED BY <1>5, <1>6 DEF NewLock

\* A request that holds a lock fetches for a listed key.
LEMMA HolderType ==
  ASSUME DirectoryInd, NEW c \in Callers, Holds(c)
  PROVE  req[c] \in Fetch /\ req[c].key \in Listed /\ req[c].key[1] \in Profiles
<1>1. req[c] \in Fetch \cup Probe \cup {None} /\ req[c] # None /\ req[c].at \in {"room", "asking"}
  BY DEF DirectoryInd, Holds, AtRequest
<1>2. req[c] \notin Probe
  BY <1>1 DEF Probe
<1>3. req[c] \in Fetch /\ req[c].key \in Listed
  BY <1>1, <1>2 DEF Fetch
<1> QED BY <1>3, DirectoryAssumption

\* The registered objects stay registered.
ObjectsKept ==
  \A p \in Profiles : Registered(p) => profiles'[p] # None /\ profiles'[p][1] = profiles[p][1]

\* One request changes: what it holds then is current and nobody else's.
LEMMA ReqStep ==
  ASSUME DirectoryInd, NEW c \in Callers, NEW r \in Fetch \cup Probe \cup {None},
         req' = [req EXCEPT ![c] = r], lock' = lock,
         cache' \in [Listed -> Kept \cup {None}], ObjectsKept,
         r # None /\ r.at \in {"room", "asking"} =>
           /\ r.lock = lock[r.key] => profiles'[r.key[1]] # None /\ r.object = profiles'[r.key[1]][1]
           /\ \A d \in Callers \ {c} : ~(Holds(d) /\ req[d].key = r.key /\ req[d].lock = r.lock)
  PROVE  DirectoryInd'
<1>1. /\ req' \in [Callers -> Fetch \cup Probe \cup {None}]
      /\ req'[c] = r /\ \A d \in Callers \ {c} : req'[d] = req[d]
  BY DEF DirectoryInd
<1>2. \A d \in Callers \ {c} : Holds(d)' <=> Holds(d)
  BY <1>1 DEF Holds, AtRequest
<1>3. Holds(c)' <=> r # None /\ r.at \in {"room", "asking"}
  BY <1>1 DEF Holds, AtRequest
<1>4. HoldersAreCurrent'
  <2> SUFFICES ASSUME NEW d \in Callers, Holds(d)', req'[d].lock = lock'[req'[d].key]
               PROVE  /\ profiles'[req'[d].key[1]] # None
                      /\ req'[d].object = profiles'[req'[d].key[1]][1]
    BY DEF HoldersAreCurrent, Registered
  <2>1. CASE d = c
    BY <1>1, <1>3, <2>1
  <2>2. CASE d # c
    <3>1. Holds(d) /\ req'[d] = req[d] /\ req[d].lock = lock[req[d].key]
      BY <1>1, <1>2, <2>2
    <3>2. req[d].key[1] \in Profiles
      BY <3>1, HolderType
    <3>3. Registered(req[d].key[1]) /\ req[d].object = profiles[req[d].key[1]][1]
      BY <3>1 DEF DirectoryInd, HoldersAreCurrent
    <3> QED BY <3>1, <3>2, <3>3 DEF ObjectsKept
  <2> QED BY <2>1, <2>2
<1>5. OneHolder'
  <2> SUFFICES ASSUME NEW d \in Callers, NEW e \in Callers, Holds(d)', Holds(e)',
                      req'[d].key = req'[e].key, req'[d].lock = req'[e].lock
               PROVE  d = e
    BY DEF OneHolder
  <2>1. CASE d = c \/ e = c
    BY <1>1, <1>2, <1>3, <2>1
  <2>2. CASE d # c /\ e # c
    <3>1. Holds(d) /\ Holds(e) /\ req'[d] = req[d] /\ req'[e] = req[e]
      BY <1>1, <1>2, <2>2
    <3> QED BY <3>1 DEF DirectoryInd, OneHolder
  <2> QED BY <2>1, <2>2
<1>6. lock' \in [Listed -> Locks]
  BY DEF DirectoryInd
<1> QED BY <1>1, <1>4, <1>5, <1>6 DEF DirectoryInd

\* The catalogue does not change.
LEMMA SameCatalog == UNCHANGED catalogVars => ObjectsKept
BY DEF catalogVars, ObjectsKept, Registered

\* A request ends.
LEMMA EndsStep ==
  ASSUME DirectoryInd, NEW c \in Callers, req' = [req EXCEPT ![c] = None], lock' = lock,
         cache' \in [Listed -> Kept \cup {None}], ObjectsKept
  PROVE  DirectoryInd'
BY ReqStep

\* A request that comes to its lock, which nobody holds.
LEMMA LockedStep ==
  ASSUME DirectoryInd, CatalogTypeOK, NEW c \in Callers, NEW k \in Listed, NEW l \in Locks,
         NEW refresh, NEW waiting, Locked(c, k, l, refresh, waiting),
         UNCHANGED <<catalogVars, cache, lock>>,
         \A d \in Callers \ {c} : ~(Holds(d) /\ req[d].key = k /\ req[d].lock = l)
  PROVE  DirectoryInd'
<1>0. ObjectsKept /\ profiles' = profiles /\ lock' = lock /\ k[1] \in Profiles
      /\ cache' \in [Listed -> Kept \cup {None}]
  BY SameCatalog, DirectoryAssumption DEF catalogVars, DirectoryInd
<1>1. CASE req' = [req EXCEPT ![c] = None]
  BY <1>0, <1>1, EndsStep
<1>2. CASE ~(req' = [req EXCEPT ![c] = None])
  <2> DEFINE room == Cardinality(Asking) < Room /\ Waiting("room") = {}
             fetch == [at |-> IF room THEN "asking" ELSE "room", key |-> k, lock |-> l,
                       refresh |-> FALSE, object |-> profiles[k[1]][1]]
  <2>1. Registered(k[1]) /\ req' = [req EXCEPT ![c] = fetch]
    BY <1>2 DEF Locked
  <2>2. profiles[k[1]][1] \in 0..MaxEdits
    BY <1>0, <2>1, RegisteredType
  <2>3. fetch \in Fetch
    BY <2>2 DEF Fetch
  <2>4. fetch.key = k /\ fetch.lock = l /\ fetch.object = profiles[k[1]][1]
    OBVIOUS
  <2> HIDE DEF fetch
  <2> QED BY <1>0, <2>1, <2>3, <2>4, ReqStep DEF Registered
<1> QED BY <1>1, <1>2

LEMMA AskStep ==
  ASSUME DirectoryInd, CatalogTypeOK, NEW c \in Callers, NEW k \in Listed,
         NEW refresh \in BOOLEAN, Ask(c, k, refresh)
  PROVE  DirectoryInd'
<1>0. lock[k] \in Locks /\ UNCHANGED <<catalogVars, cache, lock>>
  BY DEF DirectoryInd, Ask
<1>1. CASE Free(k, lock[k])
  <2>1. Locked(c, k, lock[k], refresh, line)
    BY <1>1 DEF Ask
  <2>2. \A d \in Callers \ {c} : ~(Holds(d) /\ req[d].key = k /\ req[d].lock = lock[k])
    BY <1>1 DEF Free, Fetching, Holds, AtRequest
  <2> QED BY <1>0, <2>1, <2>2, LockedStep
<1>2. CASE ~Free(k, lock[k])
  <2> DEFINE r == [at |-> "lock", key |-> k, lock |-> lock[k], refresh |-> refresh, object |-> 0]
  <2>1. req' = [req EXCEPT ![c] = r]
    BY <1>2 DEF Ask
  <2>2. r \in Fetch /\ r.at = "lock"
    BY <1>0, CatalogAssumption DEF Fetch
  <2>3. ObjectsKept /\ lock' = lock /\ cache' \in [Listed -> Kept \cup {None}]
    BY <1>0, SameCatalog DEF DirectoryInd
  <2> HIDE DEF r
  <2> QED BY <2>1, <2>2, <2>3, ReqStep
<1> QED BY <1>1, <1>2

LEMMA AcquireStep ==
  ASSUME DirectoryInd, CatalogTypeOK, NEW c \in Callers, Acquire(c)
  PROVE  DirectoryInd'
<1>1. /\ AtRequest(c, "lock") /\ Locked(c, req[c].key, req[c].lock, req[c].refresh, Leave(c))
      /\ UNCHANGED <<catalogVars, cache, lock>>
      /\ \A d \in Callers : ~(Holds(d) /\ req[d].key = req[c].key /\ req[d].lock = req[c].lock)
  BY DEF Acquire
<1>2. req[c] \in Fetch
  BY <1>1 DEF DirectoryInd, AtRequest, Probe
<1>3. req[c].key \in Listed /\ req[c].lock \in Locks
  BY <1>2 DEF Fetch
<1> QED BY <1>1, <1>3, LockedStep

LEMMA EnterRoomStep ==
  ASSUME DirectoryInd, NEW c \in Callers, EnterRoom(c)
  PROVE  DirectoryInd'
<1> DEFINE r == [req[c] EXCEPT !.at = "asking"]
<1>1. Holds(c) /\ req' = [req EXCEPT ![c] = r] /\ UNCHANGED <<catalogVars, cache, lock>>
  BY DEF EnterRoom, First, Waiting, Holds
<1>2. req[c] \in Fetch /\ req[c].key \in Listed
  BY <1>1, HolderType
<1>3. r \in Fetch /\ r.key = req[c].key /\ r.lock = req[c].lock /\ r.object = req[c].object
  BY <1>2 DEF Fetch
<1>4. ObjectsKept /\ profiles' = profiles /\ lock' = lock /\ cache' \in [Listed -> Kept \cup {None}]
  BY <1>1, SameCatalog DEF DirectoryInd, catalogVars
<1> HIDE DEF r
<1>5. req[c].lock = lock[req[c].key] =>
        profiles[req[c].key[1]] # None /\ req[c].object = profiles[req[c].key[1]][1]
  BY <1>1 DEF DirectoryInd, HoldersAreCurrent, Registered
<1>6. \A d \in Callers \ {c} :
        ~(Holds(d) /\ req[d].key = req[c].key /\ req[d].lock = req[c].lock)
  BY <1>1 DEF DirectoryInd, OneHolder
<1> QED BY <1>1, <1>3, <1>4, <1>5, <1>6, ReqStep

LEMMA AnsweredStep ==
  ASSUME DirectoryInd, NEW c \in Callers, Answered(c)
  PROVE  DirectoryInd'
<1>1. Holds(c)
  BY DEF Answered, Holds
<1>2. req[c] \in Fetch
  BY <1>1, HolderType
<1>3. [of |-> req[c].object, recent |-> TRUE] \in Kept
  BY <1>2 DEF Fetch, Kept
<1>4. cache' \in [Listed -> Kept \cup {None}]
  BY <1>3 DEF Answered, DirectoryInd
<1>5. ObjectsKept
  BY DEF Answered, ObjectsKept, Registered
<1> QED BY <1>4, <1>5, EndsStep DEF Answered

LEMMA ProbedStep ==
  ASSUME DirectoryInd, CatalogTypeOK, NEW c \in Callers, Probed(c)
  PROVE  DirectoryInd' /\ CatalogTypeOK'
<1> DEFINE p == req[c].key[1]
<1>1. req[c] \in Probe
  BY DEF Probed, AtRequest, DirectoryInd, Fetch
<1>2. p \in Profiles
  BY <1>1 DEF Probe
<1>3. CASE profiles' = profiles
  <2>1. ObjectsKept
    BY <1>3 DEF ObjectsKept, Registered
  <2>2. CatalogTypeOK'
    BY <1>3 DEF CatalogTypeOK, Probed
  <2> QED BY <2>1, <2>2, EndsStep DEF Probed, DirectoryInd
<1>4. CASE Registered(p) /\ profiles' = [profiles EXCEPT ![p][2].stream = "yes"]
  <2>1. profiles[p] \in (0..MaxEdits) \X Content
    BY <1>2, <1>4, RegisteredType
  <2> DEFINE new == [profiles[p] EXCEPT ![2].stream = "yes"]
  <2>2. new = <<profiles[p][1], [profiles[p][2] EXCEPT !.stream = "yes"]>>
    BY <2>1
  <2>3. [profiles[p][2] EXCEPT !.stream = "yes"] \in Content
    BY <2>1 DEF Content
  <2>4. new \in (0..MaxEdits) \X Content /\ new[1] = profiles[p][1]
    BY <2>1, <2>2, <2>3
  <2>5. profiles' = [profiles EXCEPT ![p] = new]
    BY <1>4
  <2>6. new # None
    BY <2>4, CatalogAssumption
  <2> HIDE DEF new
  <2>7. CatalogTypeOK'
    BY <2>4, <2>5 DEF CatalogTypeOK, Probed
  <2>8. ObjectsKept
    BY <2>4, <2>5, <2>6 DEF ObjectsKept, Registered, CatalogTypeOK
  <2> QED BY <2>7, <2>8, EndsStep DEF Probed, DirectoryInd
<1> QED BY <1>3, <1>4 DEF Probed

LEMMA DirectoryStepInd ==
  ASSUME DirectoryInd, CatalogTypeOK, DirectoryStep
  PROVE  DirectoryInd' /\ CatalogTypeOK'
<1>0. /\ UNCHANGED catalogVars => CatalogTypeOK' /\ ObjectsKept
      /\ UNCHANGED cache => cache' \in [Listed -> Kept \cup {None}]
  BY SameCatalog DEF CatalogTypeOK, catalogVars, DirectoryInd
<1>1. ASSUME NEW k \in Listed, Expire(k) PROVE DirectoryInd' /\ CatalogTypeOK'
  <2>1. cache' \in [Listed -> Kept \cup {None}]
    <3>1. cache[k] \in Kept \cup {None} /\ cache[k] # None
      BY <1>1 DEF Expire, Fresh, DirectoryInd
    <3>2. [cache[k] EXCEPT !.recent = FALSE] \in Kept
      BY <3>1 DEF Kept
    <3> QED BY <1>1, <3>2 DEF Expire, DirectoryInd
  <2>2. HoldersAreCurrent' /\ OneHolder'
    BY <1>1 DEF Expire, DirectoryInd, HoldersAreCurrent, OneHolder, Holds, AtRequest, Registered,
       catalogVars
  <2> QED BY <1>0, <1>1, <2>1, <2>2 DEF Expire, DirectoryInd
<1>2. ASSUME NEW c \in Callers, NEW k \in Listed, NEW refresh \in BOOLEAN, Ask(c, k, refresh)
      PROVE  DirectoryInd' /\ CatalogTypeOK'
  BY <1>0, <1>2, AskStep DEF Ask
<1>3. ASSUME NEW c \in Callers, NEW p \in Profiles, StartProbe(c, p)
      PROVE  DirectoryInd' /\ CatalogTypeOK'
  <2> DEFINE r == [at |-> "probing", key |-> <<p, NoModel>>, stream |-> Of(p).stream]
  <2>1. r \in Probe /\ r.at = "probing"
    BY <1>3, RegisteredType DEF StartProbe, Probe, Content
  <2>2. /\ req' = [req EXCEPT ![c] = r] /\ UNCHANGED <<catalogVars, cache, lock>>
    BY <1>3 DEF StartProbe
  <2> HIDE DEF r
  <2> QED BY <1>0, <2>1, <2>2, ReqStep
<1>4. ASSUME NEW c \in Callers, Works(c) PROVE DirectoryInd' /\ CatalogTypeOK'
  <2>1. CASE Acquire(c)
    BY <1>0, <2>1, AcquireStep DEF Acquire
  <2>2. CASE EnterRoom(c)
    BY <1>0, <2>2, EnterRoomStep DEF EnterRoom
  <2>3. CASE Answered(c)
    <3>1. file' \in [Profiles -> {None} \cup Content]
      BY <2>3, ToFileType DEF Answered, CatalogTypeOK
    <3>2. CatalogTypeOK'
      BY <2>3, <3>1 DEF Answered, CatalogTypeOK
    <3> QED BY <2>3, <3>2, AnsweredStep
  <2>4. CASE Failed(c)
    BY <1>0, <2>4, EndsStep DEF Failed
  <2>5. CASE Probed(c)
    BY <2>5, ProbedStep
  <2>6. CASE ProbeFails(c)
    BY <1>0, <2>6, EndsStep DEF ProbeFails
  <2> QED BY <1>4, <2>1, <2>2, <2>3, <2>4, <2>5, <2>6 DEF Works
<1> QED BY <1>1, <1>2, <1>3, <1>4 DEF DirectoryStep

\* An edit or a removal touches one service, and sends the newcomers of its keys
\* to locks that nobody holds.
LEMMA FollowStep ==
  ASSUME DirectoryInd, EditOrRemove, Follow
  PROVE  DirectoryInd'
<1>1. CASE profiles' = profiles /\ UNCHANGED directoryVars
  BY <1>1 DEF directoryVars, DirectoryInd, HoldersAreCurrent, OneHolder, Holds, AtRequest, Registered
<1>2. ASSUME NEW p \in Profiles, profiles'[p] # profiles[p], Invalidate(p) PROVE DirectoryInd'
  <2>1. \A q \in Profiles \ {p} : profiles'[q] = profiles[q]
    <3>1. ASSUME NEW k \in Listed, NEW c \in Edited, UpsertProvider(k[1], c, FALSE)
          PROVE  \A q \in Profiles \ {k[1]} : profiles'[q] = profiles[q]
      BY <3>1 DEF UpsertProvider, Save
    <3>2. ASSUME NEW k \in Listed, NEW q \in Profiles, DeleteProvider(k[1], q, NoModel)
          PROVE  \A r \in Profiles \ {k[1]} : profiles'[r] = profiles[r]
      BY <3>2 DEF DeleteProvider
    <3>3. ASSUME NEW d \in deleting, FinishDelete(d) PROVE profiles' = profiles
      BY <3>3 DEF FinishDelete
    <3> QED BY <1>2, <3>1, <3>2, <3>3 DEF EditOrRemove
  <2>2. /\ req' = req
        /\ cache' = [k \in Listed |-> IF Dropped(k, p) THEN None ELSE cache[k]]
        /\ lock' = [k \in Listed |-> IF k[1] = p THEN NewLock(k) ELSE lock[k]]
    BY <1>2 DEF Invalidate
  <2>3. \A k \in Listed : NewLock(k) \in Locks /\ Free(k, NewLock(k))
    BY LockFree DEF DirectoryInd
  <2>4. cache' \in [Listed -> Kept \cup {None}] /\ lock' \in [Listed -> Locks]
    BY <2>2, <2>3 DEF DirectoryInd
  <2>5. OneHolder'
    BY <2>2 DEF DirectoryInd, OneHolder, Holds, AtRequest
  <2>6. HoldersAreCurrent'
    <3> SUFFICES ASSUME NEW c \in Callers, Holds(c), req[c].lock = lock'[req[c].key]
                 PROVE  /\ profiles'[req[c].key[1]] # None
                        /\ req[c].object = profiles'[req[c].key[1]][1]
      BY <2>2 DEF HoldersAreCurrent, Registered, Holds, AtRequest
    <3>1. req[c].key \in Listed /\ req[c].key[1] \in Profiles
      BY HolderType
    <3>2. req[c].key[1] # p
      <4> SUFFICES ASSUME req[c].key[1] = p PROVE FALSE
        OBVIOUS
      <4>1. Free(req[c].key, req[c].lock)
        BY <2>2, <2>3, <3>1
      <4> QED BY <4>1 DEF Free, Fetching, Holds, AtRequest
    <3>3. req[c].lock = lock[req[c].key]
      BY <2>2, <3>1, <3>2
    <3> QED BY <2>1, <3>1, <3>2, <3>3 DEF DirectoryInd, HoldersAreCurrent, Registered
  <2> QED BY <2>2, <2>4, <2>5, <2>6 DEF DirectoryInd
<1> QED BY <1>1, <1>2 DEF Follow

\* Nobody asks: the current locks are nobody's.
LEMMA NobodyAsks ==
  ASSUME cache' \in [Listed -> Kept \cup {None}], lock' \in [Listed -> Locks],
         req' = [c \in Callers |-> None]
  PROVE  DirectoryInd'
BY DEF DirectoryInd, HoldersAreCurrent, OneHolder, Holds, AtRequest

LEMMA ServicesInit_Ind == ServicesInit => ServicesInd
<1> SUFFICES ASSUME ServicesInit PROVE ServicesInd
  OBVIOUS
<1>1. CatalogTypeOK
  BY CatalogInitType DEF ServicesInit, Init
<1>2. 0 \in 0..MaxCalls /\ 0 \in Locks
  BY CallAssumption, DirectoryAssumption, FS_CardinalityType DEF Locks
<1>3. CallInd
  BY <1>1, <1>2 DEF ServicesInit, Init, CallInd, TypeOK, CallInTurn, OnlyNowHeard, LogEnds,
     AttemptsClosed, Replacements
<1>4. DirectoryInd
  BY <1>2 DEF ServicesInit, DirectoryInit, DirectoryInd, HoldersAreCurrent, OneHolder, Holds,
     AtRequest
<1> QED BY <1>3, <1>4 DEF ServicesInd, ServicesInit, DirectoryInit

LEMMA ServicesNext_Ind == ServicesInd /\ [ServicesNext]_servicesVars => ServicesInd'
<1> SUFFICES ASSUME ServicesInd, [ServicesNext]_servicesVars PROVE ServicesInd'
  OBVIOUS
<1>0. CallInd /\ DirectoryInd /\ CatalogTypeOK
  BY DEF ServicesInd, CallInd, TypeOK
<1>1. CASE UNCHANGED servicesVars
  <2>1. UNCHANGED <<turn, left, call>> /\ UNCHANGED catalogVars /\ UNCHANGED directoryVars
        /\ scene' = scene
    BY <1>1 DEF servicesVars, vars
  <2>2. CatalogTypeOK'
    BY <1>0, <2>1 DEF CatalogTypeOK, catalogVars
  <2>3. DirectoryInd'
    BY <1>0, <2>1 DEF directoryVars, catalogVars, DirectoryInd, HoldersAreCurrent, OneHolder, Holds,
       AtRequest, Registered
  <2> QED BY <1>0, <2>1, <2>2, <2>3, OtherStep DEF ServicesInd, directoryVars
<1>2. CASE scene' = scene /\ scene = "calls" /\ Next /\ UNCHANGED directoryVars
  <2>1. CallInd'
    BY <1>0, <1>2, CallsInd
  <2>2. \A c \in Callers : req'[c] = None
    BY <1>2 DEF ServicesInd, directoryVars
  <2>3. DirectoryInd'
    BY <1>0, <1>2, <2>2 DEF directoryVars, DirectoryInd, HoldersAreCurrent, OneHolder, Holds, AtRequest
  <2> QED BY <2>1, <2>2, <2>3 DEF ServicesInd
<1>3. CASE scene' = scene /\ scene = "listing" /\ EditOrRemove /\ UNCHANGED <<turn, left, call>> /\ Follow
  <2>1. CatalogTypeOK'
    BY <1>0, <1>3, EditType
  <2>2. CallInd' /\ DirectoryInd'
    BY <1>0, <1>3, <2>1, OtherStep, FollowStep
  <2> QED BY <1>3, <2>2 DEF ServicesInd
<1>4. CASE scene' = scene /\ scene = "listing" /\ Restart /\ DirectoryRestart
  <2>1. CallInd'
    BY <1>0, <1>4, CallsInd DEF Next
  <2>2. 0 \in Locks
    BY DirectoryAssumption, FS_CardinalityType DEF Locks
  <2>3. DirectoryInd'
    BY <1>4, <2>2, NobodyAsks DEF DirectoryRestart
  <2> QED BY <1>4, <2>1, <2>3 DEF ServicesInd
<1>5. CASE scene' = scene /\ scene = "listing" /\ DirectoryStep /\ UNCHANGED <<turn, left, call>>
  <2>1. DirectoryInd' /\ CatalogTypeOK'
    BY <1>0, <1>5, DirectoryStepInd
  <2> QED BY <1>0, <1>5, <2>1, OtherStep DEF ServicesInd
<1> QED BY <1>1, <1>2, <1>3, <1>4, <1>5 DEF ServicesNext

-----------------------------------------------------------------------------
\* The inductive invariant holds in every reachable state, through every
\* interleaving of calls, chunks, failures, commands, listings and restarts.
THEOREM ServicesInvariant == ServicesSpec => []ServicesInd
BY ServicesInit_Ind, ServicesNext_Ind, PTL DEF ServicesSpec

\* The catalogue, its files and the call under way stay well formed.
THEOREM ServicesTypeCorrect == ServicesSpec => []TypeOK
<1>1. ServicesInd => TypeOK
  BY DEF ServicesInd, CallInd
<1> QED BY <1>1, ServicesInvariant, PTL

\* The reader of one answer hears one service: RuntimeService.generate never
\* turns to the fallback once something of an answer was shown.
THEOREM OneVoiceHeard == ServicesSpec => []OneVoice
<1>1. ServicesInd => OneVoice
  <2> SUFFICES ASSUME ServicesInd, call # None
               PROVE  /\ Cardinality(call.voices) <= 1
                      /\ call.at = "open" /\ call.voices # {} => Now.profile \in call.voices
    BY DEF OneVoice
  <2>1. call.voices = {} \/ call.voices = {Now.profile}
    BY DEF ServicesInd, CallInd, OnlyNowHeard
  <2>2. Cardinality({}) = 0 /\ Cardinality({Now.profile}) = 1
    BY FS_EmptySet, FS_Singleton
  <2> QED BY <2>1, <2>2
<1> QED BY <1>1, ServicesInvariant, PTL

\* Every model.requested event is closed by model.completed or model.failed
\* before the next service is asked or the call returns.
THEOREM AttemptsAreClosed == ServicesSpec => []AttemptsClosed
<1>1. ServicesInd => AttemptsClosed
  BY DEF ServicesInd, CallInd
<1> QED BY <1>1, ServicesInvariant, PTL

\* A call that experiments, or forbids a fallback, asks its own service only;
\* any other fallback is logged with the service it replaces.
THEOREM FallbackIsTold == ServicesSpec => []NoSilentFallback
<1>1. ServicesInd => NoSilentFallback
  <2> SUFFICES ASSUME ServicesInd, call # None, NEW i \in 1..Len(call.log)
               PROVE  /\ turn.experiment \/ ~turn.fallback => call.log[i].profile = Primary
                      /\ call.log[i].type = "requested" /\ call.log[i].profile # Primary
                           => call.log[i].degraded = Primary
                      /\ turn.pin # None => Primary = turn.pin
    BY DEF NoSilentFallback
  <2>1. Replacements
    BY DEF ServicesInd, CallInd
  <2> QED BY <2>1 DEF Replacements, AllowFallback, Experiment
<1> QED BY <1>1, ServicesInvariant, PTL

\* A request under the current lock of a key asks the provider object that is
\* registered, alone: an edit of a service sends the clients that ask after it
\* to a lock that no earlier request holds.
THEOREM LockAsksCurrent == ServicesSpec => []CurrentLockAsksCurrent
<1>1. ServicesInd => CurrentLockAsksCurrent
  BY DEF ServicesInd, DirectoryInd, HoldersAreCurrent, OneHolder, CurrentLockAsksCurrent, Asking, Holds
<1> QED BY <1>1, ServicesInvariant, PTL
=============================================================================
