------------------------------ MODULE PythonSetup ------------------------------
(* The Python environment under ~/.deepprof/runtime/<version> that several   *)
(* command-line processes prepare, use and remove                            *)
(* (apps/cli/src/packaged_runtime.ts, and "uninstall" of index.ts).          *)
(*                                                                           *)
(* On disk: the directory setup.lock with its owner.json, the directory venv *)
(* and the file install-state.json, which records what was installed.  A     *)
(* process may be killed between any two steps; its child (venv or pip) ends *)
(* with it.  Clocks are kept to what the code asks of them: a lock is young  *)
(* or old (30 minutes when it has an owner, one minute when it has not), and *)
(* a waiter may have waited for its ten minutes; reading the owner and, if   *)
(* there is none, the directory's age is one look.                           *)
EXTENDS CliProcesses, FiniteSets

VARIABLES
  lock,      \* setup.lock: who made the directory, whether owner.json is there, its age
  venv,      \* the parts of the environment on disk
  record,    \* install-state.json: what it says is installed ({}: no file)
  setup,     \* each process: where it is in preparePythonEnvironment
  read,      \* each process: the install-state it read
  wants      \* each process: the parts it was asked for

setupVars == <<lock, venv, record, setup, read, wants>>

\* "python" is the interpreter, "pip" the rest of "python -m venv".
Parts == {"python", "pip", "runtime", "ocr"}
Hashes == {"runtime", "ocr"}

NoLock == [maker |-> None, owned |-> FALSE, old |-> FALSE]
LockOf(p) == [maker |-> p, owned |-> FALSE, old |-> FALSE]

Holding == {"own", "undo", "read", "make", "pip", "runtime", "ocr", "write"}

\* A first run, or a home where an earlier one has prepared everything.
SetupInit(installed) ==
  /\ lock = NoLock
  /\ venv = IF installed THEN {"python", "pip", "runtime"} ELSE {}
  /\ record = IF installed THEN {"runtime"} ELSE {}
  /\ setup = [p \in Clis |-> "off"]
  /\ read = [p \in Clis |-> {}]
  /\ wants = [p \in Clis |-> {}]

SetupTypeOK ==
  /\ lock \in [maker : Clis \cup {None, Dead}, owned : BOOLEAN, old : BOOLEAN]
  /\ venv \subseteq Parts
  /\ record \subseteq Hashes
  /\ setup \in [Clis -> Holding \cup {"off", "find", "lock", "judge", "remove", "ready", "failed"}]
  /\ read \in [Clis -> SUBSET Hashes]
  /\ wants \in [Clis -> SUBSET Hashes]

To(p, step) == setup' = [setup EXCEPT ![p] = step]

(* The lock ---------------------------------------------------------------- *)

\* mkdirSync makes the directory.
Acquire(p) ==
  /\ setup[p] = "lock" /\ lock.maker = None
  /\ lock' = LockOf(p)
  /\ To(p, "own")
  /\ UNCHANGED <<venv, record, read, wants>>

\* owner.json is a second write: it fails when the directory is gone.
Own(p) ==
  /\ setup[p] = "own"
  /\ IF lock.maker = None
     THEN To(p, "undo") /\ UNCHANGED lock
     ELSE lock' = [lock EXCEPT !.owned = TRUE, !.maker = p, !.old = FALSE] /\ To(p, "read")
  /\ UNCHANGED <<venv, record, read, wants>>

\* Then the directory is removed, whatever is there by now.
Undo(p) ==
  /\ setup[p] = "undo"
  /\ lock' = NoLock
  /\ To(p, "failed")
  /\ UNCHANGED <<venv, record, read, wants>>

\* mkdirSync says EEXIST; the look at what there is comes after it.
LockExists(p) ==
  /\ setup[p] = "lock" /\ lock.maker # None
  /\ To(p, "judge")
  /\ UNCHANGED <<lock, venv, record, read, wants>>

\* An old lock is stale when its owner is dead or was never written.  No lock
\* at all is stale, too: one that was given up since mkdirSync.
Stale == lock.old /\ (lock.owned => lock.maker = Dead)

Judge(p) ==
  /\ setup[p] = "judge" /\ (Stale \/ lock.maker = None)
  /\ To(p, "remove")
  /\ UNCHANGED <<lock, venv, record, read, wants>>

\* The directory is removed, whatever is there by now.
RemoveStale(p) ==
  /\ setup[p] = "remove"
  /\ lock' = NoLock
  /\ To(p, "lock")
  /\ UNCHANGED <<venv, record, read, wants>>

\* It waits for a lock that is not stale, for ten minutes at most.
Wait(p) ==
  /\ setup[p] = "judge" /\ lock.maker # None /\ ~Stale
  /\ To(p, "lock") \/ To(p, "failed")
  /\ UNCHANGED <<lock, venv, record, read, wants>>

\* Time passes.  A living process writes owner.json within the minute.
LockAges ==
  /\ lock.maker # None /\ ~lock.old
  /\ lock.owned \/ lock.maker = Dead
  /\ lock' = [lock EXCEPT !.old = TRUE]
  /\ UNCHANGED <<venv, record, setup, read, wants>>

(* preparePythonEnvironment ------------------------------------------------ *)

StartSetup(p, parts) ==
  /\ setup[p] = "off"
  /\ To(p, "find")
  /\ wants' = [wants EXCEPT ![p] = parts]
  /\ UNCHANGED <<lock, venv, record, read>>

\* The runtime's files and an interpreter are looked for before the lock.
FilesFound(p) ==
  /\ setup[p] = "find"
  /\ To(p, "lock")
  /\ UNCHANGED <<lock, venv, record, read, wants>>

NoPython(p) ==
  /\ setup[p] = "find"
  /\ To(p, "failed")
  /\ UNCHANGED <<lock, venv, record, read, wants>>

\* The finally block gives the lock up, whoever holds it by now.
Release(p, outcome) ==
  /\ lock' = NoLock
  /\ To(p, outcome)
  /\ read' = [read EXCEPT ![p] = {}]

\* Mutant of ReadyIsInstalled: the ocr packages are not asked for again.
Covers_Runtime(state, parts) == "runtime" \in state

\* Nothing is to be done when the record covers what is wanted and the
\* interpreter is there.
Covers(state, parts) == "runtime" \in state /\ parts \subseteq state

ReadRecord(p) ==
  /\ setup[p] = "read"
  /\ IF Covers(record, wants[p]) /\ "python" \in venv
     THEN Release(p, "ready")
     ELSE /\ To(p, IF "python" \in venv THEN "runtime" ELSE "make")
          /\ read' = [read EXCEPT ![p] = record]
          /\ UNCHANGED lock
  /\ UNCHANGED <<venv, record, wants>>

\* "python -m venv" writes the interpreter first.
MakeVenv(p) ==
  /\ setup[p] = "make"
  /\ venv' = venv \cup {"python"}
  /\ To(p, "pip")
  /\ UNCHANGED <<lock, record, read, wants>>

FinishVenv(p) ==
  /\ setup[p] = "pip"
  /\ venv' = venv \cup {"pip"}
  /\ To(p, "runtime")
  /\ UNCHANGED <<lock, record, read, wants>>

\* pip installs a requirements file whole.
Install(p, part, next) ==
  /\ setup[p] = part
  /\ {"python", "pip"} \subseteq venv
  /\ venv' = venv \cup {part}
  /\ To(p, next)
  /\ UNCHANGED <<lock, record, read, wants>>

InstallRuntime(p) == Install(p, "runtime", IF "ocr" \in wants[p] THEN "ocr" ELSE "write")
InstallOcr(p) == Install(p, "ocr", "write")

\* A command fails: no network, no pip, an interpreter that is gone.
CommandFails(p) ==
  /\ setup[p] \in {"make", "pip", "runtime", "ocr"}
  /\ Release(p, "failed")
  /\ UNCHANGED <<venv, record, wants>>

\* The record keeps the ocr hash that was read, installed this time or not.
WriteRecord(p) ==
  /\ setup[p] = "write"
  /\ record' = {"runtime"} \cup wants[p] \cup (read[p] \cap {"ocr"})
  /\ Release(p, "ready")
  /\ UNCHANGED <<venv, wants>>

SetupSteps(p) ==
  \/ FilesFound(p) \/ NoPython(p)
  \/ Acquire(p) \/ Own(p) \/ Undo(p) \/ LockExists(p) \/ Judge(p) \/ RemoveStale(p) \/ Wait(p)
  \/ ReadRecord(p) \/ MakeVenv(p) \/ FinishVenv(p)
  \/ InstallRuntime(p) \/ InstallOcr(p) \/ CommandFails(p)
  \/ WriteRecord(p)

\* "uninstall" removes the environment and takes no lock.  The record stays.
RemoveVenv ==
  /\ venv' = {}
  /\ UNCHANGED <<lock, record, setup, read, wants>>

LeaveSetup(p) ==
  /\ To(p, "off")
  /\ wants' = [wants EXCEPT ![p] = {}]
  /\ UNCHANGED <<lock, venv, record, read>>

\* The process is killed; what it made stays.
KillSetup(p) ==
  /\ To(p, "off")
  /\ lock' = [lock EXCEPT !.maker = IF @ = p THEN Dead ELSE @]
  /\ read' = [read EXCEPT ![p] = {}]
  /\ wants' = [wants EXCEPT ![p] = {}]
  /\ UNCHANGED <<venv, record>>
===============================================================================
