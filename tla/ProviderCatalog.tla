-------------------------- MODULE ProviderCatalog ---------------------------
(***************************************************************************)
(* The model services a gateway knows: runtime/providers/registry.py, the  *)
(* commands of api/providers.py that change it, and the two files of       *)
(* runtime/providers/factory.py it is built from at start-up.              *)
(*                                                                         *)
(* Every command runs without an await, except the deletion of a service,  *)
(* which closes the service's connections between taking it out of the     *)
(* registry and writing the file.  A refused command is a stuttering step. *)
(***************************************************************************)
EXTENDS Naturals

CONSTANTS
  None,       \* no service, no binding
  Profiles,   \* profile ids
  Models,     \* model ids, NoModel apart
  NoModel,    \* the empty model name
  Refs,       \* names of stored keys
  Contents,   \* bound: the profile contents a command may carry
  Installed,  \* bound: what providers.json may hold at first
  Chains,     \* bound: the fallbacks that may be set, as pairs
  MaxEdits    \* bound: provider objects made by commands

VARIABLES
  profiles,   \* registered services
  fallbacks,  \* _fallbacks: the service tried after one (bound: one), or None
  role,       \* the binding of tutor.default, or None
  file,       \* providers.json
  roleFile,   \* provider_roles of config.json
  keys,       \* key references a secret is stored under
  deleting,   \* deletions that wait for connections to close
  edits,      \* provider objects made so far: the last one's identity
  closed      \* provider objects whose connections were closed

catalogVars == <<profiles, fallbacks, role, file, roleFile, keys, deleting, edits, closed>>

\* What a client sends: an undeclared stream capability is "unknown"; reasoning
\* and api are what _model_capabilities and _uses_responses_api make of it.
Content == [enabled : BOOLEAN, stream : {"yes", "no", "unknown"}, models : SUBSET Models,
            default : Models \cup {NoModel}, manual : BOOLEAN, ref : Refs,
            reasoning : {"toggle", "always", "unknown"}, api : {"chat", "responses"}]
Binding == [profile : Profiles, model : Models \cup {NoModel}]

ASSUME CatalogAssumption ==
  /\ None \notin Profiles \cup (0..MaxEdits) \X Content /\ NoModel \notin Models
  /\ Contents \subseteq Content
  /\ Installed \subseteq [Profiles -> {None} \cup Content]
  /\ Chains \subseteq Profiles \X Profiles
  /\ MaxEdits \in Nat

CatalogTypeOK ==
  /\ profiles \in [Profiles -> {None} \cup (0..MaxEdits) \X Content]
  /\ fallbacks \in [Profiles -> Profiles \cup {None}]
  /\ role \in Binding \cup {None}
  /\ file \in [Profiles -> {None} \cup Content]
  /\ roleFile \in Binding \cup {None}
  /\ keys \in SUBSET Refs
  /\ deleting \in SUBSET (Profiles \X Refs)
  /\ edits \in 0..MaxEdits
  /\ closed \in SUBSET (Profiles \X (0..MaxEdits))

\* A registered service is its provider object and its content; the object of
\* a service that was built at start-up is 0.
Registered(p) == profiles[p] # None
Object(p) == <<p, profiles[p][1]>>
Of(p) == profiles[p][2]
EnabledNow(p) == Registered(p) /\ Of(p).enabled
Others(p) == {q \in Profiles \ {p} : EnabledNow(q)}
ToFile(ps) == [p \in Profiles |-> IF ps[p] = None THEN None ELSE ps[p][2]]

\* build_registry: enabled services only; a binding needs its service.
Loaded(files) == [p \in Profiles |->
  IF files[p] # None /\ files[p].enabled THEN <<0, files[p]>> ELSE None]
LoadedRole(files, binding) ==
  IF binding # None /\ Loaded(files)[binding.profile] # None THEN binding ELSE None

CatalogInit ==
  /\ file \in Installed
  /\ profiles = Loaded(file)
  /\ roleFile = None /\ role = None
  /\ fallbacks = [p \in Profiles |-> None]
  /\ keys = {file[p].ref : p \in {q \in Profiles : file[q] # None}}
  /\ deleting = {} /\ edits = 0 /\ closed = {}

\* add, the binding saved when it changes, save_profiles.  The provider object
\* that add replaces is retired: it is closed only when the gateway stops.
Save(p, new, binding) ==
  /\ edits < MaxEdits
  /\ edits' = edits + 1
  /\ profiles' = [profiles EXCEPT ![p] = <<edits + 1, new>>]
  /\ file' = ToFile(profiles')
  /\ role' = binding
  /\ roleFile' = IF binding = role THEN roleFile ELSE binding
  /\ UNCHANGED <<fallbacks, deleting, closed>>

-----------------------------------------------------------------------------
(* upsert_provider *)

Bound(p) == role # None /\ role.profile = p
DefaultAdded(new) == (new.models # {} /\ new.default # NoModel) => new.default \in new.models

\* The edits of the default service that move or drop the binding.
Rebinds(p, new) ==
  /\ Registered(p) /\ Bound(p)
  /\ IF new.models # {}
       THEN role.model \notin new.models \/ new.default # Of(p).default
       ELSE ~new.manual \/ new.default # Of(p).default

UpsertProvider(p, new, withKey) ==
  /\ DefaultAdded(new)
  /\ Rebinds(p, new) => IF new.models # {} THEN new.default \in new.models ELSE Others(p) = {}
  /\ Save(p, new, IF Rebinds(p, new) \/ role = None
                    THEN [profile |-> p, model |-> new.default] ELSE role)
  /\ keys' = IF withKey THEN keys \cup {new.ref} ELSE keys

(* set_default_provider *)
SetDefault(p, m) ==
  /\ Registered(p)
  /\ LET model == IF m = NoModel THEN Of(p).default ELSE m
     IN  /\ (model # NoModel /\ Of(p).models # {}) => model \in Of(p).models
         /\ role' = [profile |-> p, model |-> model]
         /\ roleFile' = role'
  /\ UNCHANGED <<profiles, fallbacks, file, keys, deleting, edits, closed>>

(* set_fallback *)
SetFallback(p, q) ==
  /\ Registered(q)
  /\ fallbacks' = [fallbacks EXCEPT ![p] = q]
  /\ UNCHANGED <<profiles, role, file, roleFile, keys, deleting, edits, closed>>

-----------------------------------------------------------------------------
(* update_models, delete_model, delete_provider.  A command names the model *)
(* n or the service q that stands in for what it removes.                   *)

FirstModel(ms) == IF ms = {} THEN {NoModel} ELSE ms

UpdateModels(p, ms, d) ==
  /\ Registered(p)
  /\ d # NoModel => d \in ms
  /\ (Of(p).default \notin ms \cup {NoModel} /\ ms # {}) => d # NoModel
  /\ LET drops == Bound(p) /\ role.model \notin ms
     IN  /\ drops => IF ms # {} THEN d # NoModel ELSE Others(p) = {}
         /\ \E first \in FirstModel(ms) :
              Save(p, [Of(p) EXCEPT !.models = ms, !.default = IF d # NoModel THEN d ELSE first],
                   IF Bound(p) /\ d # NoModel THEN [profile |-> p, model |-> d]
                   ELSE IF drops THEN None ELSE role)
  /\ UNCHANGED keys

\* A service that may stand in for p, with the model it is to be used with.
StandIn(p, q, model) ==
  /\ q \in Others(p)
  /\ Of(q).models # {} => model \in Of(q).models

\* What delete_model asks before it removes the default or the bound model.
Replaced(p, rest, q, n, needsModel) ==
  IF rest # {} THEN n \in rest
  ELSE IF q = None THEN Others(p) = {}
  ELSE LET model == IF n # NoModel THEN n ELSE Of(q).default
       IN  StandIn(p, q, model) /\ (needsModel => model # NoModel)

DeleteModel(p, m, q, n) ==
  /\ Registered(p)
  /\ LET old == Of(p)
         rest == old.models \ {m}
         current == role = [profile |-> p, model |-> m]
         isDefault == old.default = m
     IN  /\ m \in old.models \/ (old.models = {} /\ old.manual /\ isDefault)
         /\ (current \/ isDefault) => Replaced(p, rest, q, n, ~current)
         /\ Save(p, [old EXCEPT !.models = rest, !.manual = @ /\ rest # {},
                                !.default = IF ~isDefault THEN @
                                            ELSE IF rest # {} THEN n ELSE NoModel],
                 IF ~current THEN role
                 ELSE IF rest # {} THEN [profile |-> p, model |-> n]
                 ELSE IF q = None THEN None
                 ELSE [profile |-> q, model |-> IF n # NoModel THEN n ELSE Of(q).default])
  /\ UNCHANGED keys

\* Up to the await of remove_and_close: the binding moves, the service leaves
\* the registry and its object starts to close.
DeleteProvider(p, q, n) ==
  /\ Registered(p)
  /\ LET model == IF n # NoModel THEN n ELSE Of(q).default
         binding == IF ~Bound(p) THEN role
                    ELSE IF q = None THEN None ELSE [profile |-> q, model |-> model]
     IN  /\ Bound(p) => IF q = None THEN Others(p) = {}
                        ELSE StandIn(p, q, model) /\ model # NoModel
         /\ role' = binding
         /\ roleFile' = IF Bound(p) THEN binding ELSE roleFile
  /\ profiles' = [profiles EXCEPT ![p] = None]
  /\ fallbacks' = [fallbacks EXCEPT ![p] = None]
  /\ closed' = closed \cup {Object(p)}
  /\ deleting' = deleting \cup {<<p, Of(p).ref>>}
  /\ UNCHANGED <<file, keys, edits>>

\* The references that keep a key when a deletion ends.
RefsStillUsed(d) == {Of(p).ref : p \in {q \in Profiles : Registered(q)}}

\* After the await.
FinishDelete(d) ==
  /\ d \in deleting
  /\ deleting' = deleting \ {d}
  /\ keys' = IF d[2] \in RefsStillUsed(d) THEN keys ELSE keys \ {d[2]}
  /\ file' = ToFile(profiles)
  /\ UNCHANGED <<profiles, fallbacks, role, roleFile, edits, closed>>

\* The gateway stops, orderly or not, and is started from its two files.
RestartCatalog ==
  /\ profiles' = Loaded(file)
  /\ role' = LoadedRole(file, roleFile)
  /\ fallbacks' = [p \in Profiles |-> None]
  /\ deleting' = {} /\ closed' = {}
  /\ UNCHANGED <<file, roleFile, keys, edits>>

-----------------------------------------------------------------------------
(* Properties *)
=============================================================================
