--------------------------- MODULE ModelDirectory ---------------------------
(***************************************************************************)
(* What a gateway learns of the models of its services:                    *)
(* list_model_catalog, describe_model_options and probe of                 *)
(* runtime/providers/registry.py, under the commands of ProviderCatalog.   *)
(*                                                                         *)
(* The directory of a service (model NoModel) and the options of one of    *)
(* its models are fetched alike: one request per lock, at most Room at a   *)
(* time, and the answer is kept for a while.  An edit or a removal of the  *)
(* service drops what is kept and the locks, but not the requests that     *)
(* hold or await them.  What is kept is known by the provider object that  *)
(* was asked.                                                              *)
(***************************************************************************)
EXTENDS ProviderCatalog, FiniteSets, Sequences

CONSTANTS
  Callers,    \* bound: requests of clients at one time
  Listed,     \* bound: the keys they ask for
  Room        \* _model_option_semaphore

ASSUME DirectoryAssumption ==
  /\ Room \in Nat \ {0} /\ None \notin Callers /\ IsFiniteSet(Callers)
  /\ Listed \subseteq Profiles \X (Models \cup {NoModel})

VARIABLES
  cache,      \* per key, what is kept: the object that was asked and whether it is recent
  lock,       \* per key, the lock that newcomers take
  line,       \* the requests that wait for a lock or for room, first come first
  req         \* per caller, its request, or None

directoryVars == <<cache, lock, line, req>>

Locks == 0..Cardinality(Callers)
Kept == [of : 0..MaxEdits, recent : BOOLEAN]
Fetch == [at : {"lock", "room", "asking"}, key : Listed, lock : Locks, refresh : BOOLEAN,
          object : 0..MaxEdits]
Probe == [at : {"probing"}, key : Profiles \X {NoModel}, stream : {"yes", "no", "unknown"}]

DirectoryTypeOK ==
  /\ cache \in [Listed -> Kept \cup {None}] /\ lock \in [Listed -> Locks]
  /\ req \in [Callers -> Fetch \cup Probe \cup {None}]
  /\ \A i, j \in DOMAIN line : line[i] = line[j] => i = j

DirectoryInit ==
  /\ cache = [k \in Listed |-> None] /\ lock = [k \in Listed |-> 0]
  /\ line = <<>> /\ req = [c \in Callers |-> None]

-----------------------------------------------------------------------------
Fetching(c) == req[c] # None /\ req[c].at # "probing"
AtRequest(c, at) == req[c] # None /\ req[c].at = at
Holds(c) == AtRequest(c, "room") \/ AtRequest(c, "asking")
Asking == {c \in Callers : AtRequest(c, "asking")}

\* A lock is free for a newcomer if nobody holds it or waits for it.
Free(k, l) == \A c \in Callers : ~(Fetching(c) /\ req[c].key = k /\ req[c].lock = l)
Waiting(at) == {c \in Callers : AtRequest(c, at)}
First(cs, c) == c \in cs /\
  \E i \in DOMAIN line : line[i] = c /\ \A j \in 1..(i - 1) : line[j] \notin cs
Leave(c) == SelectSeq(line, LAMBDA d : d # c)

Fresh(k) == cache[k] # None /\ cache[k].recent

\* With the lock: an answer that was kept meanwhile, a service that is gone, or
\* the provider object registered now, asked as soon as there is room.
Locked(c, k, l, refresh, waiting) ==
  LET served == Fresh(k) /\ ~refresh
      room == Cardinality(Asking) < Room /\ Waiting("room") = {}
      fetch == [at |-> IF room THEN "asking" ELSE "room", key |-> k, lock |-> l,
                refresh |-> FALSE,
                object |-> IF Registered(k[1]) THEN profiles[k[1]][1] ELSE 0]
  IN  IF served \/ ~Registered(k[1])
        THEN req' = [req EXCEPT ![c] = None] /\ line' = waiting
        ELSE /\ req' = [req EXCEPT ![c] = fetch]
             /\ line' = IF room THEN waiting ELSE Append(waiting, c)

\* GET model-catalog, GET models, and the description of one model: what is kept
\* and recent is the answer; else the lock is taken or awaited.
Ask(c, k, refresh) ==
  /\ req[c] = None /\ Registered(k[1])
  /\ ~Fresh(k) \/ refresh
  /\ IF Free(k, lock[k]) THEN Locked(c, k, lock[k], refresh, line)
     ELSE /\ req' = [req EXCEPT ![c] =
               [at |-> "lock", key |-> k, lock |-> lock[k], refresh |-> refresh, object |-> 0]]
          /\ line' = Append(line, c)
  /\ UNCHANGED <<catalogVars, cache, lock>>

\* Its turn at the lock.
Acquire(c) ==
  LET r == req[c]
      same == {d \in Waiting("lock") : req[d].key = r.key /\ req[d].lock = r.lock} IN
  /\ AtRequest(c, "lock") /\ First(same, c)
  /\ \A d \in Callers : ~(Holds(d) /\ req[d].key = r.key /\ req[d].lock = r.lock)
  /\ Locked(c, r.key, r.lock, r.refresh, Leave(c))
  /\ UNCHANGED <<catalogVars, cache, lock>>

EnterRoom(c) ==
  /\ First(Waiting("room"), c) /\ Cardinality(Asking) < Room
  /\ req' = [req EXCEPT ![c].at = "asking"] /\ line' = Leave(c)
  /\ UNCHANGED <<catalogVars, cache, lock>>

\* The service answers with something to keep, for the key, whatever became of
\* the service; the catalogue of some vendors is then written to the file.
Answered(c) ==
  /\ AtRequest(c, "asking")
  /\ cache' = [cache EXCEPT ![req[c].key] = [of |-> req[c].object, recent |-> TRUE]]
  /\ file' \in {file, ToFile(profiles)}
  /\ req' = [req EXCEPT ![c] = None]
  /\ UNCHANGED <<profiles, fallbacks, role, roleFile, keys, deleting, edits, closed, lock, line>>

\* It fails, is silent for its timeout, or answers with nothing: what was kept is
\* the answer, or there is none.  What is kept stays.
Failed(c) ==
  /\ AtRequest(c, "asking")
  /\ req' = [req EXCEPT ![c] = None]
  /\ UNCHANGED <<catalogVars, cache, lock, line>>

\* ttl_seconds later
Expire(k) ==
  /\ Fresh(k)
  /\ cache' = [cache EXCEPT ![k].recent = FALSE]
  /\ UNCHANGED <<catalogVars, lock, line, req>>

-----------------------------------------------------------------------------
(* probe: a short request, whose answer confirms what the profile declared  *)
(* when it was sent.                                                        *)

StartProbe(c, p) ==
  /\ req[c] = None /\ Registered(p)
  /\ req' = [req EXCEPT ![c] = [at |-> "probing", key |-> <<p, NoModel>>, stream |-> Of(p).stream]]
  /\ UNCHANGED <<catalogVars, cache, lock, line>>

\* A capability that was declared is merged into the profile of that name now.
Probed(c) ==
  /\ AtRequest(c, "probing")
  /\ LET p == req[c].key[1] IN
     profiles' = IF req[c].stream = "yes" /\ Registered(p)
                   THEN [profiles EXCEPT ![p][2].stream = "yes"] ELSE profiles
  /\ req' = [req EXCEPT ![c] = None]
  /\ UNCHANGED <<fallbacks, role, file, roleFile, keys, deleting, edits, closed, cache, lock, line>>

\* It fails or is inconclusive.
ProbeFails(c) ==
  /\ AtRequest(c, "probing")
  /\ req' = [req EXCEPT ![c] = None]
  /\ UNCHANGED <<catalogVars, cache, lock, line>>

-----------------------------------------------------------------------------
\* Mutant: the locks stay.
NewLock_Same(k) == lock[k]
\* A lock that nobody holds or awaits.
NewLock(k) == CHOOSE l \in Locks : Free(k, l)

\* invalidate_model_options(p)
Dropped(k, p) == k[1] = p

\* add and remove, in a command that changes the service p.
Invalidate(p) ==
  /\ cache' = [k \in Listed |-> IF Dropped(k, p) THEN None ELSE cache[k]]
  /\ lock' = [k \in Listed |-> IF k[1] = p THEN NewLock(k) ELSE lock[k]]
  /\ UNCHANGED <<line, req>>

\* A command beside the requests.
Follow ==
  \/ \E p \in Profiles : profiles'[p] # profiles[p] /\ Invalidate(p)
  \/ profiles' = profiles /\ UNCHANGED directoryVars

DirectoryRestart ==
  /\ cache' = [k \in Listed |-> None] /\ lock' = [k \in Listed |-> 0]
  /\ line' = <<>> /\ req' = [c \in Callers |-> None]

Works(c) == Acquire(c) \/ EnterRoom(c) \/ Answered(c) \/ Failed(c) \/ Probed(c) \/ ProbeFails(c)

DirectoryStep ==
  \/ \E k \in Listed : Expire(k)
  \/ \E c \in Callers :
       \/ Works(c)
       \/ \E k \in Listed, refresh \in BOOLEAN : Ask(c, k, refresh)
       \/ \E p \in Profiles : StartProbe(c, p)

-----------------------------------------------------------------------------
(* Properties *)

Outdated(k) == cache[k] # None /\ Registered(k[1]) /\ cache[k].of # profiles[k[1]][1]

\* An edit sends newcomers to another lock, so that nobody who asks after it
\* shares the answer of a request that was under way before: a request under the
\* current lock asks the service that is registered.
CurrentLockAsksCurrent ==
  \A c \in Asking : req[c].lock = lock[req[c].key] =>
    /\ Registered(req[c].key[1]) /\ req[c].object = profiles[req[c].key[1]][1]
    /\ \A d \in Asking : req[d].key = req[c].key /\ req[d].lock = req[c].lock => d = c

(* The inductive invariant behind it. *)

\* A request that holds the current lock, with room or without, will ask or asks
\* the object that is registered; nobody shares its lock.
HoldersAreCurrent ==
  \A c \in Callers : Holds(c) /\ req[c].lock = lock[req[c].key] =>
    Registered(req[c].key[1]) /\ req[c].object = profiles[req[c].key[1]][1]
OneHolder ==
  \A c, d \in Callers :
    Holds(c) /\ Holds(d) /\ req[c].key = req[d].key /\ req[c].lock = req[d].lock => c = d

DirectoryInd ==
  /\ cache \in [Listed -> Kept \cup {None}] /\ lock \in [Listed -> Locks]
  /\ req \in [Callers -> Fetch \cup Probe \cup {None}]
  /\ HoldersAreCurrent /\ OneHolder
=============================================================================
