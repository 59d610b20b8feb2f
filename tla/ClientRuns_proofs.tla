--------------------------- MODULE ClientRuns_proofs ---------------------------
(* Proofs about ClientRuns.  Its three parts share no variable, so each has  *)
(* an invariant of its own: the environment with its lock (LockKept,         *)
(* RecordKept), the types of the home directory, and the session's events    *)
(* with what the processes received of them (AskInd).                        *)
EXTENDS ClientRuns, FiniteSetTheorems, TLAPS

(* The environment and its lock. *)

SetupInd == SetupTypeOK /\ LockKept /\ RecordKept

LEMMA SetupInitInd ==
  ASSUME NEW installed \in BOOLEAN, SetupInit(installed), removed = {}, raced = FALSE
  PROVE  SetupInd
<1> USE DEF SetupInit, NoLock, Parts, Hashes, Holding
<1>1. SetupTypeOK
  BY DEF SetupTypeOK
<1>2. LockKept
  BY DEF LockKept, Alone, Preparers
<1>3. RecordKept
  BY DEF RecordKept
<1> QED BY <1>1, <1>2, <1>3 DEF SetupInd

Unsigned == lock.old => lock.owned \/ lock.maker = Dead

\* Only what a step does to the lock and to who is past it matters.
LEMMA HolderEnters ==
  ASSUME SetupTypeOK, Unsigned, NEW p \in Clis, Acquire(p) \/ Own(p)
  PROVE  Unsigned' /\ (Alone => Alone')
<1> USE DEF Preparers, Unsigned
<1>1. CASE Acquire(p)
  <2>1. lock.maker = None /\ lock' = LockOf(p) /\ setup' = [setup EXCEPT ![p] = "own"]
    BY <1>1 DEF Acquire, To
  <2>2. lock'.maker = p /\ ~lock'.owned /\ ~lock'.old /\ setup'[p] = "own"
    BY <2>1 DEF LockOf, SetupTypeOK
  <2>3. ASSUME Alone, NEW q \in Clis, q # p, setup'[q] \in Holding
        PROVE  FALSE
    <3>1. setup[q] \in Holding
      BY <2>1, <2>3 DEF SetupTypeOK
    <3> QED BY <2>1, <2>3, <3>1, NamesAssumption DEF Alone
  <2> QED BY <2>2, <2>3 DEF Alone
<1>2. CASE Own(p) /\ lock.maker = None
  <2>1. ~Alone
    BY <1>2, NamesAssumption DEF Own, Alone, Holding
  <2>2. lock' = lock
    BY <1>2 DEF Own
  <2> QED BY <2>1, <2>2
<1>3. CASE Own(p) /\ lock.maker # None
  <2>1. lock' = [lock EXCEPT !.owned = TRUE, !.maker = p, !.old = FALSE] /\ To(p, "read") /\ setup[p] = "own"
    BY <1>3 DEF Own
  <2>2. lock'.maker = p /\ lock'.owned /\ ~lock'.old
    BY <2>1 DEF SetupTypeOK
  <2>3. ASSUME Alone, NEW q \in Clis, setup'[q] \in Holding
        PROVE  q = p
    <3>1. CASE q # p
      <4>1. setup[q] \in Holding
        BY <2>1, <2>3, <3>1 DEF To, SetupTypeOK
      <4> QED BY <2>1, <2>3, <4>1 DEF Alone, Holding
    <3> QED BY <3>1
  <2> QED BY <2>2, <2>3 DEF Alone
<1> QED BY <1>1, <1>2, <1>3

LEMMA HolderLeaves ==
  ASSUME SetupTypeOK, NEW p \in Clis, setup[p] \in Holding,
         NEW outcome \in {"ready", "failed"}, lock' = NoLock, To(p, outcome)
  PROVE  Unsigned' /\ (Alone => Alone')
<1>1. lock' = NoLock /\ setup' = [setup EXCEPT ![p] = outcome]
  BY DEF To
<1>2. ASSUME Alone, NEW q \in Clis, setup'[q] \in Holding
      PROVE  FALSE
  <2>1. q # p
    BY <1>1, <1>2 DEF Holding, SetupTypeOK
  <2>2. setup[q] \in Holding
    BY <1>1, <1>2, <2>1 DEF SetupTypeOK
  <2> QED BY <1>2, <2>1, <2>2 DEF Alone, Preparers
<1> QED BY <1>1, <1>2 DEF Alone, Preparers, Unsigned, NoLock

\* A process that is past the lock goes on, or one that is not moves, with the lock as it is.
LEMMA HolderGoesOn ==
  ASSUME SetupTypeOK, Unsigned, NEW p \in Clis, NEW next, To(p, next),
         (setup[p] \in Holding /\ setup[p] # "own") \/ next \notin Holding,
         UNCHANGED lock
  PROVE  Unsigned' /\ (Alone => Alone')
<1>1. ASSUME NEW q \in Clis, setup'[q] \in Holding
      PROVE  setup[q] \in Holding /\ (setup[q] = "own" => setup'[q] = "own")
  BY <1>1 DEF To, SetupTypeOK
<1> QED BY <1>1 DEF Alone, Preparers, Unsigned

\* What was judged stale is removed while it is still there: nobody was past it.
LEMMA StaleGoes ==
  ASSUME SetupTypeOK, Unsigned, NEW p \in Clis, RemoveStale(p)
  PROVE  Unsigned' /\ (Alone /\ ~RemovesAnother(p) => Alone')
<1>1. lock' = NoLock /\ setup' = [setup EXCEPT ![p] = "lock"] /\ setup[p] = "remove"
  BY DEF RemoveStale, To
<1>2. ASSUME Alone, ~RemovesAnother(p), NEW q \in Clis, setup'[q] \in Holding
      PROVE  FALSE
  <2>1. q # p
    BY <1>1, <1>2 DEF Holding, SetupTypeOK
  <2>2. setup[q] \in Holding
    BY <1>1, <1>2, <2>1 DEF SetupTypeOK
  <2>3. lock.maker = q
    BY <1>2, <2>2 DEF Alone, Preparers
  <2>4. lock.maker # None /\ lock.maker # Dead
    BY <2>3, NamesAssumption
  <2>5. lock.old /\ (lock.owned => lock.maker = Dead)
    BY <1>1, <1>2, <2>4 DEF RemovesAnother, Stale
  <2> QED BY <2>4, <2>5 DEF Unsigned
<1> QED BY <1>1, <1>2 DEF Alone, Preparers, Unsigned, NoLock

LEMMA LockStep ==
  ASSUME SetupTypeOK, LockKept, NEW p \in Clis, Prepare(p)
  PROVE  LockKept'
<1>u. Unsigned
  BY DEF LockKept, Unsigned
<1>r. raced' = ((raced \/ RemovesAnother(p)) /\ Preparers' # {})
  BY DEF Prepare
<1>s. SUFFICES Unsigned' /\ (Alone /\ ~RemovesAnother(p) => Alone')
  <2>1. ASSUME ~raced', Preparers' # {}
        PROVE  ~raced /\ ~RemovesAnother(p)
    BY <1>r, <2>1
  <2>2. Preparers' = {} => Alone'
    BY DEF Alone
  <2>3. raced' \in BOOLEAN
    BY <1>r
  <2> QED BY <1>s, <2>1, <2>2, <2>3 DEF LockKept, Unsigned
<1>1. CASE RemoveStale(p)
  BY <1>1, <1>u, StaleGoes
<1>2. CASE Acquire(p) \/ Own(p)
  BY <1>2, <1>u, HolderEnters
<1>3. CASE ReadRecord(p) /\ Covers(record, wants[p]) /\ "python" \in venv
  <2>1. setup[p] \in Holding /\ lock' = NoLock /\ To(p, "ready")
    BY <1>3 DEF ReadRecord, Release, Holding
  <2> QED BY <2>1, HolderLeaves
<1>4. CASE CommandFails(p) \/ Undo(p)
  <2>1. setup[p] \in Holding /\ lock' = NoLock /\ To(p, "failed")
    BY <1>4 DEF CommandFails, Undo, Release, Holding
  <2> QED BY <2>1, HolderLeaves
<1>5. CASE WriteRecord(p)
  <2>1. setup[p] \in Holding /\ lock' = NoLock /\ To(p, "ready")
    BY <1>5 DEF WriteRecord, Release, Holding
  <2> QED BY <2>1, HolderLeaves
<1>6. CASE FilesFound(p)
  BY <1>6, <1>u, HolderGoesOn DEF FilesFound, Holding
<1>7. CASE NoPython(p)
  BY <1>7, <1>u, HolderGoesOn DEF NoPython, Holding
<1>8. CASE LockExists(p)
  BY <1>8, <1>u, HolderGoesOn DEF LockExists, Holding
<1>9. CASE Judge(p)
  BY <1>9, <1>u, HolderGoesOn DEF Judge, Holding
<1>10. CASE Wait(p)
  <2>1. PICK next \in {"lock", "failed"} : To(p, next)
    BY <1>10 DEF Wait
  <2> QED BY <1>10, <1>u, <2>1, HolderGoesOn DEF Wait, Holding
<1>11. CASE ReadRecord(p) /\ ~(Covers(record, wants[p]) /\ "python" \in venv)
  <2> DEFINE next == IF "python" \in venv THEN "runtime" ELSE "make"
  <2>1. setup[p] \in Holding /\ setup[p] # "own" /\ To(p, next) /\ UNCHANGED lock
    BY <1>11 DEF ReadRecord, Holding
  <2> HIDE DEF next
  <2> QED BY <1>u, <2>1, HolderGoesOn
<1>12. CASE MakeVenv(p)
  BY <1>12, <1>u, HolderGoesOn DEF MakeVenv, Holding
<1>13. CASE FinishVenv(p)
  BY <1>13, <1>u, HolderGoesOn DEF FinishVenv, Holding
<1>14. CASE InstallRuntime(p)
  <2> DEFINE next == IF "ocr" \in wants[p] THEN "ocr" ELSE "write"
  <2>1. setup[p] \in Holding /\ setup[p] # "own" /\ To(p, next) /\ UNCHANGED lock
    BY <1>14 DEF InstallRuntime, Install, Holding
  <2> HIDE DEF next
  <2> QED BY <1>u, <2>1, HolderGoesOn
<1>15. CASE InstallOcr(p)
  BY <1>15, <1>u, HolderGoesOn DEF InstallOcr, Install, Holding
<1>16. SetupSteps(p)
  BY DEF Prepare
<1> QED
  BY <1>1, <1>2, <1>3, <1>4, <1>5, <1>6, <1>7, <1>8, <1>9, <1>10, <1>11, <1>12, <1>13, <1>14, <1>15, <1>16
  DEF SetupSteps

LEMMA SetupTyped ==
  ASSUME SetupTypeOK, NEW p \in Clis,
         \/ SetupSteps(p) \/ RemoveVenv \/ LeaveSetup(p) \/ KillSetup(p) \/ LockAges
         \/ \E parts \in SUBSET Hashes : StartSetup(p, parts)
  PROVE  SetupTypeOK'
<1> USE DEF SetupTypeOK
<1>0. NoLock \in [maker : Clis \cup {None, Dead}, owned : BOOLEAN, old : BOOLEAN]
  BY DEF NoLock
<1>1. CASE FilesFound(p) \/ NoPython(p) \/ LockExists(p) \/ Judge(p) \/ Wait(p)
  BY <1>1 DEF FilesFound, NoPython, LockExists, Judge, Wait, To
<1>1a. CASE Acquire(p)
  BY <1>1a DEF Acquire, To, LockOf, Holding
<1>1b. CASE Own(p)
  <2>1. /\ lock' = lock \/ lock' = [lock EXCEPT !.owned = TRUE, !.maker = p, !.old = FALSE]
        /\ To(p, "undo") \/ To(p, "read")
        /\ UNCHANGED <<venv, record, read, wants>>
    BY <1>1b DEF Own
  <2>2. setup' \in [Clis -> Holding \cup {"off", "find", "lock", "judge", "remove", "ready", "failed"}]
    BY <2>1 DEF To, Holding
  <2> QED BY <1>0, <2>1, <2>2
<1>2. CASE RemoveStale(p) \/ Undo(p)
  BY <1>0, <1>2 DEF RemoveStale, Undo, To
<1>3. CASE ReadRecord(p)
  <2>1. /\ lock' = NoLock \/ lock' = lock
        /\ UNCHANGED <<venv, record, wants>>
        /\ read' = [read EXCEPT ![p] = {}] \/ read' = [read EXCEPT ![p] = record]
        /\ \E next \in {"ready", "runtime", "make"} : To(p, next)
    BY <1>3 DEF ReadRecord, Release
  <2>2. setup' \in [Clis -> Holding \cup {"off", "find", "lock", "judge", "remove", "ready", "failed"}]
    BY <2>1 DEF To, Holding
  <2> QED BY <1>0, <2>1, <2>2
<1>4. CASE MakeVenv(p) \/ FinishVenv(p)
  BY <1>4 DEF MakeVenv, FinishVenv, To, Parts, Holding
<1>5. CASE InstallRuntime(p) \/ InstallOcr(p)
  BY <1>5 DEF InstallRuntime, InstallOcr, Install, To, Parts, Holding
<1>6. CASE CommandFails(p)
  BY <1>6 DEF CommandFails, Release, To, NoLock
<1>7. CASE WriteRecord(p)
  BY <1>7 DEF WriteRecord, Release, To, NoLock, Hashes
<1>8. CASE RemoveVenv
  BY <1>8 DEF RemoveVenv
<1>9. CASE LeaveSetup(p)
  BY <1>9 DEF LeaveSetup, To
<1>10. CASE KillSetup(p)
  BY <1>10 DEF KillSetup, To
<1>11. CASE LockAges
  BY <1>11 DEF LockAges
<1>12. ASSUME NEW parts \in SUBSET Hashes, StartSetup(p, parts)
       PROVE  SetupTypeOK'
  BY <1>12 DEF StartSetup, To
<1> QED
  BY <1>1, <1>1a, <1>1b, <1>2, <1>3, <1>4, <1>5, <1>6, <1>7, <1>8, <1>9, <1>10, <1>11, <1>12 DEF SetupSteps

\* The record never runs ahead of the environment.
LEMMA RecordStep ==
  ASSUME SetupTypeOK, RecordKept, NEW p \in Clis, SetupSteps(p), removed' = removed \ venv'
  PROVE  RecordKept'
<1> DEFINE had == venv \cup removed
           has == venv' \cup removed'
<1> USE DEF SetupTypeOK
<1>0. /\ removed' \subseteq Hashes /\ record \subseteq had
      /\ \A q \in Clis :
           /\ read[q] \subseteq had
           /\ setup[q] \in {"ocr", "write"} => "runtime" \in had
           /\ setup[q] \in {"write", "ready"} => wants[q] \subseteq had
  BY DEF RecordKept
<1>h. venv \subseteq venv' => had \subseteq has
  OBVIOUS
<1>s. SUFFICES /\ record' \subseteq has
               /\ \A q \in Clis :
                    /\ read'[q] \subseteq has
                    /\ setup'[q] \in {"ocr", "write"} => "runtime" \in has
                    /\ setup'[q] \in {"write", "ready"} => wants'[q] \subseteq has
  BY <1>0 DEF RecordKept
<1>v. venv' \subseteq has
  OBVIOUS
<1> HIDE DEF had, has
<1>1. CASE \/ FilesFound(p) \/ NoPython(p) \/ Acquire(p) \/ Own(p) \/ Undo(p) \/ LockExists(p)
           \/ Judge(p) \/ RemoveStale(p) \/ Wait(p)
  <2>1. /\ UNCHANGED <<venv, record, read, wants>>
        /\ \A q \in Clis : setup'[q] # setup[q] => setup'[q] \notin {"ocr", "write", "ready"}
    BY <1>1 DEF FilesFound, NoPython, Acquire, Own, Undo, LockExists, Judge, RemoveStale, Wait, To
  <2> QED BY <1>0, <1>h, <2>1
<1>2. CASE ReadRecord(p)
  <2>1. UNCHANGED <<venv, record, wants>> /\ had \subseteq has
    BY <1>2, <1>h DEF ReadRecord
  <2>2. CASE Covers(record, wants[p]) /\ "python" \in venv
    <3>1. setup' = [setup EXCEPT ![p] = "ready"] /\ read' = [read EXCEPT ![p] = {}]
      BY <1>2, <2>2 DEF ReadRecord, Release, To
    <3>2. wants[p] \subseteq had
      BY <1>0, <2>2 DEF Covers
    <3> QED BY <1>0, <2>1, <3>1, <3>2
  <2>3. CASE ~(Covers(record, wants[p]) /\ "python" \in venv)
    <3> DEFINE next == IF "python" \in venv THEN "runtime" ELSE "make"
    <3>1. read' = [read EXCEPT ![p] = record] /\ setup' = [setup EXCEPT ![p] = next]
      BY <1>2, <2>3 DEF ReadRecord, To
    <3>2. next \notin {"ocr", "write", "ready"}
      OBVIOUS
    <3> HIDE DEF next
    <3> QED BY <1>0, <2>1, <3>1, <3>2
  <2> QED BY <2>2, <2>3
<1>3. CASE MakeVenv(p) \/ FinishVenv(p)
  <2>1. /\ venv \subseteq venv' /\ UNCHANGED <<record, read, wants>>
        /\ \A q \in Clis : setup'[q] # setup[q] => setup'[q] \in {"pip", "runtime"}
    BY <1>3 DEF MakeVenv, FinishVenv, To
  <2> QED BY <1>0, <1>h, <2>1
<1>4. CASE InstallRuntime(p)
  <2>1. /\ venv \subseteq venv' /\ "runtime" \in venv' /\ UNCHANGED <<record, read, wants>>
        /\ \A q \in Clis : q # p => setup'[q] = setup[q]
        /\ setup'[p] = IF "ocr" \in wants[p] THEN "ocr" ELSE "write"
    BY <1>4 DEF InstallRuntime, Install, To
  <2>2. setup'[p] = "write" => wants[p] \subseteq venv'
    BY <2>1 DEF Hashes
  <2> QED BY <1>0, <1>h, <1>v, <2>1, <2>2
<1>5. CASE InstallOcr(p)
  <2>1. /\ setup[p] = "ocr" /\ venv' = venv \cup {"ocr"} /\ UNCHANGED <<record, read, wants>>
        /\ \A q \in Clis : q # p => setup'[q] = setup[q]
        /\ setup'[p] = "write"
    BY <1>5 DEF InstallOcr, Install, To
  <2>2. had \subseteq has /\ "runtime" \in has /\ "ocr" \in has
    BY <1>0, <1>h, <1>v, <2>1
  <2>3. wants[p] \subseteq {"runtime", "ocr"}
    BY DEF Hashes
  <2> QED BY <1>0, <2>1, <2>2, <2>3
<1>6. CASE CommandFails(p)
  <2>1. /\ UNCHANGED <<venv, record, wants>>
        /\ setup' = [setup EXCEPT ![p] = "failed"] /\ read' = [read EXCEPT ![p] = {}]
    BY <1>6 DEF CommandFails, Release, To
  <2> QED BY <1>0, <1>h, <2>1
<1>7. CASE WriteRecord(p)
  <2>1. /\ setup[p] = "write" /\ UNCHANGED <<venv, wants>>
        /\ record' = {"runtime"} \cup wants[p] \cup (read[p] \cap {"ocr"})
        /\ setup' = [setup EXCEPT ![p] = "ready"] /\ read' = [read EXCEPT ![p] = {}]
    BY <1>7 DEF WriteRecord, Release, To
  <2>2. record' \subseteq had /\ wants[p] \subseteq had
    BY <1>0, <2>1
  <2> QED BY <1>0, <1>h, <2>1, <2>2
<1> QED BY <1>1, <1>2, <1>3, <1>4, <1>5, <1>6, <1>7 DEF SetupSteps

\* What the other steps of a process, and time, do to the environment.
LEMMA SetupAround ==
  ASSUME SetupInd, NEW p \in Clis,
         \/ \E parts \in SUBSET Hashes : StartSetup(p, parts) /\ UNCHANGED <<removed, raced>>
         \/ RemoveVenv /\ removed' = removed \cup (venv \cap Hashes) /\ UNCHANGED raced
         \/ LeaveSetup(p) /\ UNCHANGED <<removed, raced>>
         \/ KillSetup(p) /\ UNCHANGED removed /\ raced' = (raced /\ Preparers' # {})
         \/ LockAges /\ UNCHANGED <<removed, raced>>
  PROVE  SetupInd'
<1>0. SetupTypeOK /\ LockKept /\ RecordKept /\ Unsigned
  BY DEF SetupInd, LockKept, Unsigned
<1>1. ASSUME NEW parts \in SUBSET Hashes, StartSetup(p, parts), UNCHANGED <<removed, raced>>
      PROVE  SetupInd'
  <2>1. /\ UNCHANGED <<lock, venv, record, read>> /\ wants' = [wants EXCEPT ![p] = parts]
        /\ setup' = [setup EXCEPT ![p] = "find"]
    BY <1>1 DEF StartSetup, To
  <2>2. SetupTypeOK'
    BY <1>0, <1>1, SetupTyped
  <2>3. Unsigned' /\ (Alone => Alone')
    BY <1>0, <1>1, HolderGoesOn DEF StartSetup, Holding
  <2>4. LockKept'
    BY <1>0, <1>1, <2>3 DEF LockKept, Unsigned
  <2>5. RecordKept'
    BY <1>0, <1>1, <2>1 DEF RecordKept, SetupTypeOK
  <2> QED BY <2>2, <2>4, <2>5 DEF SetupInd
<1>2. CASE RemoveVenv /\ removed' = removed \cup (venv \cap Hashes) /\ UNCHANGED raced
  <2>1. SetupTypeOK'
    BY <1>0, <1>2, SetupTyped
  <2>2. UNCHANGED <<lock, record, setup, read, wants>> /\ venv' = {}
    BY <1>2 DEF RemoveVenv
  <2>3. LockKept'
    BY <1>0, <1>2, <2>2 DEF LockKept, Alone, Preparers
  <2>4. "runtime" \in Hashes
    BY DEF Hashes
  <2>5. \A X \in SUBSET Hashes : X \subseteq venv \cup removed => X \subseteq removed'
    BY <1>2
  <2>6. \A x \in Hashes : x \in venv \cup removed => x \in removed'
    BY <1>2
  <2>7. RecordKept'
    BY <1>0, <1>2, <2>2, <2>4, <2>5, <2>6 DEF RecordKept, SetupTypeOK
  <2> QED BY <2>1, <2>3, <2>7 DEF SetupInd
<1>3. CASE LeaveSetup(p) /\ UNCHANGED <<removed, raced>>
  <2>1. /\ UNCHANGED <<lock, venv, record, read>> /\ wants' = [wants EXCEPT ![p] = {}]
        /\ setup' = [setup EXCEPT ![p] = "off"]
    BY <1>3 DEF LeaveSetup, To
  <2>2. SetupTypeOK'
    BY <1>0, <1>3, SetupTyped
  <2>3. Unsigned' /\ (Alone => Alone')
    BY <1>0, <1>3, HolderGoesOn DEF LeaveSetup, Holding
  <2>4. LockKept'
    BY <1>0, <1>3, <2>3 DEF LockKept, Unsigned
  <2>5. RecordKept'
    BY <1>0, <1>3, <2>1 DEF RecordKept, SetupTypeOK
  <2> QED BY <2>2, <2>4, <2>5 DEF SetupInd
<1>4. CASE KillSetup(p) /\ UNCHANGED removed /\ raced' = (raced /\ Preparers' # {})
  <2>1. /\ UNCHANGED <<venv, record>> /\ wants' = [wants EXCEPT ![p] = {}]
        /\ read' = [read EXCEPT ![p] = {}] /\ setup' = [setup EXCEPT ![p] = "off"]
        /\ lock' = [lock EXCEPT !.maker = IF @ = p THEN Dead ELSE @]
    BY <1>4 DEF KillSetup, To
  <2>2. SetupTypeOK'
    BY <1>0, <1>4, SetupTyped
  <2>3. ASSUME Alone, NEW q \in Preparers'
        PROVE  lock'.maker = q /\ (setup'[q] # "own" => lock'.owned)
    <3>1. q # p /\ setup'[q] = setup[q] /\ q \in Preparers
      BY <1>0, <2>1, <2>3 DEF SetupTypeOK, Holding, Preparers
    <3>2. lock.maker = q /\ (setup[q] # "own" => lock.owned)
      BY <2>3, <3>1 DEF Alone
    <3> QED BY <1>0, <2>1, <3>1, <3>2 DEF SetupTypeOK
  <2>4. Unsigned'
    BY <1>0, <2>1 DEF Unsigned, SetupTypeOK
  <2>5. Alone => Alone'
    BY <2>3 DEF Alone
  <2>6. Preparers' = {} => Alone'
    BY DEF Alone
  <2>7. LockKept'
    BY <1>0, <1>4, <2>4, <2>5, <2>6 DEF LockKept, Unsigned
  <2>8. RecordKept'
    BY <1>0, <1>4, <2>1 DEF RecordKept, SetupTypeOK
  <2> QED BY <2>2, <2>7, <2>8 DEF SetupInd
<1>5. CASE LockAges /\ UNCHANGED <<removed, raced>>
  <2>1. SetupTypeOK'
    BY <1>0, <1>5, SetupTyped
  <2>2. LockKept'
    BY <1>0, <1>5 DEF LockAges, LockKept, Alone, Preparers, SetupTypeOK
  <2> QED BY <1>0, <1>5, <2>1, <2>2 DEF SetupInd, LockAges, RecordKept
<1> QED BY <1>1, <1>2, <1>3, <1>4, <1>5

LEMMA ReadyHolds == SetupInd => ReadyIsInstalled
<1> SUFFICES ASSUME SetupInd PROVE ReadyIsInstalled
  OBVIOUS
<1>1. raced \/ Cardinality(Preparers) <= 1
  <2> SUFFICES ASSUME ~raced PROVE Cardinality(Preparers) <= 1
    OBVIOUS
  <2>1. Preparers \subseteq {lock.maker}
    BY DEF SetupInd, LockKept, Alone
  <2>2. Preparers = {} \/ Preparers = {lock.maker}
    BY <2>1
  <2>3. Cardinality({}) = 0 /\ Cardinality({lock.maker}) = 1
    BY FS_EmptySet, FS_Singleton
  <2> QED BY <2>2, <2>3
<1>2. \A p \in Clis : setup[p] = "ready" => wants[p] \ removed \subseteq venv
  BY DEF SetupInd, RecordKept
<1> QED BY <1>1, <1>2 DEF ReadyIsInstalled
-----------------------------------------------------------------------------
(* The session's events and what the processes have received of them. *)

Entries == [trace : Turns, kind : {"started", "delta", "ok", "failed"}]

LogInd ==
  /\ log \in Seq(Entries) /\ active \in Turns \cup {None}
  /\ runs \in [Turns -> Gateways \cup {None}] /\ ended \subseteq Turns
  /\ \A i \in DOMAIN log : log[i].trace \notin Fresh /\ (log[i].kind = "ok" => EndedAt(i))
  /\ \A t \in Fresh : runs[t] = None /\ active # t

ReadersTyped ==
  /\ ask \in [Clis -> {"none", "get", "send", "listen", "transcript", "done", "failed"}]
  /\ trace \in [Clis -> Turns \cup {None}]
  /\ cursor \in [Clis -> 0 .. Len(log)]
  /\ answer \in [Clis -> Seq(1 .. Len(log))]

ReaderInd(p) ==
  /\ ask[p] \in {"none", "get", "send"} => answer[p] = <<>>
  /\ ask[p] \in {"listen", "transcript", "done"} => Follows(p)

LEMMA AskParts == AskInd <=> LogInd /\ ReadersTyped /\ \A p \in Clis : ReaderInd(p)
BY DEF AskInd, AskTypeOK, LogInd, ReadersTyped, ReaderInd, Entries

LEMMA AskPartsNext == AskInd' <=> LogInd' /\ ReadersTyped' /\ \A p \in Clis : ReaderInd(p)'
BY DEF AskInd, AskTypeOK, LogInd, ReadersTyped, ReaderInd, Entries

\* A step adds one event at most.
LogMoves == log' = log \/ \E e \in Entries : log' = Append(log, e)

LEMMA Appended ==
  ASSUME log \in Seq(Entries), NEW e \in Entries, log' = Append(log, e)
  PROVE  /\ log' \in Seq(Entries) /\ Len(log) \in Nat /\ Len(log') = Len(log) + 1
         /\ DOMAIN log = 1..Len(log) /\ DOMAIN log' = 1..Len(log) + 1
         /\ \A i \in 1..Len(log) : log'[i] = log[i]
         /\ log'[Len(log) + 1] = e
OBVIOUS

LEMMA EventsGrow ==
  ASSUME log \in Seq(Entries), NEW e \in Entries, log' = Append(log, e)
  PROVE  /\ \A t \in Turns, kind \in {"started", "delta", "ok", "failed"} :
              /\ EventsOf(t, kind) = {i \in EventsOf(t, kind)' : i <= Len(log)}
              /\ EventsOf(t, kind)' = IF e = Event(t, kind) THEN EventsOf(t, kind) \cup {Len(log) + 1}
                                                           ELSE EventsOf(t, kind)
         /\ Fresh' = Fresh \ (IF e.kind = "started" THEN {e.trace} ELSE {})
<1> USE Appended
<1>1. ASSUME NEW t \in Turns, NEW kind \in {"started", "delta", "ok", "failed"}
      PROVE  /\ EventsOf(t, kind) = {i \in EventsOf(t, kind)' : i <= Len(log)}
             /\ EventsOf(t, kind)' = IF e = Event(t, kind) THEN EventsOf(t, kind) \cup {Len(log) + 1}
                                                          ELSE EventsOf(t, kind)
  <2>1. EventsOf(t, kind) = {i \in 1..Len(log) : log[i] = Event(t, kind)}
    BY DEF EventsOf
  <2>2. EventsOf(t, kind)' = {i \in 1..Len(log) + 1 : log'[i] = Event(t, kind)}
    BY DEF EventsOf, Event
  <2> HIDE DEF EventsOf
  <2>3. EventsOf(t, kind) = {i \in EventsOf(t, kind)' : i <= Len(log)}
    BY <2>1, <2>2
  <2>4. CASE e = Event(t, kind)
    <3>1. EventsOf(t, kind)' = EventsOf(t, kind) \cup {Len(log) + 1}
      BY <2>1, <2>2, <2>4
    <3> QED BY <2>3, <2>4, <3>1
  <2>5. CASE e # Event(t, kind)
    <3>1. EventsOf(t, kind)' = EventsOf(t, kind)
      BY <2>1, <2>2, <2>5
    <3> QED BY <2>3, <2>5, <3>1
  <2> QED BY <2>4, <2>5
<1>2. \A t \in Turns : EventsOf(t, "started")' = {} <=>
         EventsOf(t, "started") = {} /\ ~(e.kind = "started" /\ e.trace = t)
  <2> TAKE t \in Turns
  <2>1. e = Event(t, "started") <=> e.kind = "started" /\ e.trace = t
    BY DEF Event, Entries
  <2> QED BY <1>1, <2>1
<1>3. e.trace \in Turns
  BY DEF Entries
<1> QED BY <1>1, <1>2, <1>3 DEF Fresh

LEMMA LogGrows ==
  ASSUME LogInd, NEW t \in Turns, NEW kind \in {"started", "delta", "ok", "failed"},
         log' = Append(log, Event(t, kind)),
         runs' \in [Turns -> Gateways \cup {None}], ended' \subseteq Turns, ended \subseteq ended',
         active' \in {None, active, t},
         kind = "started" \/ t \notin Fresh,
         \A u \in Turns : runs'[u] # None => runs[u] # None \/ u = t,
         kind = "delta" => t \notin ended,
         kind = "ok" => t \in ended'
  PROVE  LogInd'
<1> DEFINE e == Event(t, kind)
<1>e. e \in Entries /\ e.trace = t /\ e.kind = kind
  BY DEF Event, Entries
<1> HIDE DEF e
<1>0. log \in Seq(Entries) /\ log' = Append(log, e)
  BY DEF LogInd, e
<1>1. /\ log' \in Seq(Entries) /\ Len(log) \in Nat
      /\ DOMAIN log = 1..Len(log) /\ DOMAIN log' = 1..Len(log) + 1
      /\ \A i \in 1..Len(log) : log'[i] = log[i]
      /\ log'[Len(log) + 1] = e
  BY <1>0, <1>e, Appended
<1>2. Fresh' \subseteq Fresh /\ t \notin Fresh'
  <2>1. Fresh' = Fresh \ (IF e.kind = "started" THEN {e.trace} ELSE {})
    BY <1>0, <1>e, EventsGrow
  <2> QED BY <2>1, <1>e
<1>3. ASSUME NEW u \in Turns
      PROVE  EventsOf(u, "delta")' = IF u = t /\ kind = "delta" THEN EventsOf(u, "delta") \cup {Len(log) + 1}
                                                                ELSE EventsOf(u, "delta")
  <2>1. e = Event(u, "delta") <=> u = t /\ kind = "delta"
    BY DEF e, Event
  <2> QED BY <1>0, <1>e, <2>1, EventsGrow
<1>4. ASSUME NEW i \in DOMAIN log'
      PROVE  log'[i].trace \notin Fresh' /\ (log'[i].kind = "ok" => EndedAt(i)')
  <2>1. CASE i \in 1..Len(log)
    <3>1. log'[i] = log[i] /\ log[i].trace \notin Fresh /\ (log[i].kind = "ok" => EndedAt(i))
      BY <1>1, <2>1 DEF LogInd
    <3>2. PICK u \in Turns : u = log[i].trace
      <4>1. log[i] \in Entries
        BY <1>0, <1>1, <2>1
      <4> QED BY <4>1 DEF Entries
    <3>3. ASSUME log[i].kind = "ok"
          PROVE  EndedAt(i)'
      <4>1. u \in ended /\ \A j \in EventsOf(u, "delta") : j < i
        BY <3>1, <3>2, <3>3 DEF EndedAt
      <4>2. EventsOf(u, "delta")' = EventsOf(u, "delta")
        BY <1>3, <4>1
      <4>3. u \in ended' /\ \A j \in EventsOf(u, "delta")' : j < i
        BY <4>1, <4>2
      <4> QED BY <3>1, <3>2, <4>3 DEF EndedAt, EventsOf, Event
    <3> QED BY <1>2, <3>1, <3>3
  <2>2. CASE i = Len(log) + 1
    <3>1. ASSUME kind = "ok"
          PROVE  EndedAt(i)'
      <4>1. \A j \in EventsOf(t, "delta")' : j \in 1..Len(log)
        BY <1>1, <1>3, <3>1 DEF EventsOf
      <4>2. t \in ended' /\ \A j \in EventsOf(t, "delta")' : j < i
        BY <1>1, <2>2, <3>1, <4>1
      <4>3. log'[i].trace = t
        BY <1>1, <1>e, <2>2
      <4> QED BY <4>2, <4>3 DEF EndedAt, EventsOf, Event
    <3> QED BY <1>1, <1>2, <1>e, <2>2, <3>1
  <2> QED BY <1>1, <1>4, <2>1, <2>2
<1>5. ASSUME NEW u \in Fresh'
      PROVE  runs'[u] = None /\ active' # u
  <2>1. u \in Fresh /\ u # t /\ u \in Turns
    BY <1>2, <1>5 DEF Fresh
  <2> QED BY <2>1, NamesAssumption, TurnAssumption DEF LogInd
<1>6. active' \in Turns \cup {None}
  BY DEF LogInd
<1> QED BY <1>1, <1>4, <1>5, <1>6 DEF LogInd

LEMMA LogStands ==
  ASSUME LogInd, UNCHANGED log, runs' \in [Turns -> Gateways \cup {None}],
         ended' \subseteq Turns, ended \subseteq ended', active' \in {None, active},
         \A u \in Turns : runs'[u] # None => runs[u] # None
  PROVE  LogInd'
<1>1. Fresh' = Fresh /\ DOMAIN log' = DOMAIN log /\ Fresh \subseteq Turns
  BY DEF Fresh, EventsOf, Event
<1>2. ASSUME NEW i \in DOMAIN log, log[i].kind = "ok"
      PROVE  EndedAt(i)'
  BY <1>2 DEF LogInd, EndedAt, EventsOf, Event
<1>3. \A t \in Fresh : runs'[t] = None /\ active' # t
  BY <1>1, TurnAssumption DEF LogInd
<1>4. log' \in Seq(Entries) /\ active' \in Turns \cup {None}
  BY DEF LogInd
<1>5. \A i \in DOMAIN log' : log'[i].trace \notin Fresh' /\ (log'[i].kind = "ok" => EndedAt(i)')
  BY <1>1, <1>2 DEF LogInd
<1> QED BY <1>1, <1>3, <1>4, <1>5 DEF LogInd

\* What a process has received stays what it was when the log grows.
LEMMA ReadersStay ==
  ASSUME LogInd, ReadersTyped, NEW p \in Clis, ReaderInd(p), LogMoves,
         ask'[p] = ask[p], trace'[p] = trace[p], cursor'[p] = cursor[p],
         answer'[p] = answer[p]
  PROVE  ReaderInd(p)'
<1>1. ASSUME NEW e \in Entries, log' = Append(log, e)
      PROVE  ReaderInd(p)'
  <2>0. log \in Seq(Entries)
    BY DEF LogInd
  <2>1. Fresh' \subseteq Fresh
    BY <1>1, <2>0, EventsGrow
  <2>2. \A u \in Turns, kind \in {"started", "delta", "ok", "failed"} :
          EventsOf(u, kind) = {i \in EventsOf(u, kind)' : i <= Len(log)}
    BY <1>1, <2>0, EventsGrow
  <2>3. Len(log) \in Nat /\ cursor[p] \in 0..Len(log)
    BY <2>0 DEF ReadersTyped
  <2>4. ASSUME Follows(p)
        PROVE  Follows(p)'
    <3>0. PICK u \in Turns \ Fresh : u = trace[p]
      BY <2>4 DEF Follows
    <3>1. {i \in EventsOf(u, "delta")' : i <= cursor[p]} = {i \in EventsOf(u, "delta") : i <= cursor[p]}
      <4>1. EventsOf(u, "delta") = {i \in EventsOf(u, "delta")' : i <= Len(log)}
        BY <2>2, <3>0
      <4>2. \A i \in EventsOf(u, "delta")' : i \in Nat
        BY <1>1, <2>0, Appended DEF EventsOf
      <4> QED BY <4>1, <4>2, <2>3
    <3>2. EventsOf(u, "ok") \subseteq EventsOf(u, "ok")'
      BY <2>2, <3>0
    <3>3. /\ Exactly(answer[p], {i \in EventsOf(u, "delta")' : i <= cursor[p]})
          /\ ask[p] # "listen" => cursor[p] \in EventsOf(u, "ok")'
      BY <2>4, <3>0, <3>1, <3>2 DEF Follows
    <3>4. u \notin Fresh' /\ trace'[p] = u
      BY <2>1, <3>0
    <3> QED BY <3>0, <3>3, <3>4 DEF Follows, EventsOf, Exactly
  <2> QED BY <2>4 DEF ReaderInd
<1>2. CASE log' = log
  BY <1>2 DEF ReaderInd, Follows, Fresh, EventsOf, Event, Exactly
<1> QED BY <1>1, <1>2 DEF LogMoves

LEMMA OthersStay ==
  ASSUME AskInd, NEW p \in Clis, LogMoves,
         LogInd', ReadersTyped', ReaderInd(p)',
         \A q \in Clis : q # p => /\ ask'[q] = ask[q] /\ trace'[q] = trace[q] /\ cursor'[q] = cursor[q]
                                  /\ answer'[q] = answer[q]
  PROVE  AskInd'
<1>1. ASSUME NEW q \in Clis
      PROVE  ReaderInd(q)'
  <2>1. CASE q = p
    BY <2>1
  <2>2. CASE q # p
    BY <2>2, AskParts, ReadersStay
  <2> QED BY <2>1, <2>2
<1> QED BY <1>1, AskPartsNext

LEMMA TypesStay ==
  ASSUME LogInd, ReadersTyped, LogMoves
  PROVE  /\ cursor \in [Clis -> 0 .. Len(log')]
         /\ answer \in [Clis -> Seq(1 .. Len(log'))]
         /\ 0 \in 0 .. Len(log')
<1>0. log \in Seq(Entries)
  BY DEF LogInd
<1>1. Len(log) \in Nat /\ Len(log') \in Nat /\ Len(log) <= Len(log')
  BY <1>0, Appended DEF LogMoves
<1>2. 0 .. Len(log) \subseteq 0 .. Len(log') /\ 1 .. Len(log) \subseteq 1 .. Len(log')
  BY <1>1
<1>3. ASSUME NEW s \in Seq(1 .. Len(log)) PROVE s \in Seq(1 .. Len(log'))
  <2> DEFINE few == 1 .. Len(log)  many == 1 .. Len(log')
  <2>1. s \in Seq(few) /\ few \subseteq many
    BY <1>2
  <2> HIDE DEF few, many
  <2>2. Len(s) \in Nat /\ s \in [1 .. Len(s) -> many]
    BY <2>1
  <2>3. s \in Seq(many)
    BY <2>2
  <2> QED BY <2>3 DEF many
<1> QED BY <1>1, <1>2, <1>3 DEF ReadersTyped

LEMMA NobodyReads ==
  ASSUME AskInd, LogMoves, LogInd', UNCHANGED askVars
  PROVE  AskInd'
<1>0. LogInd /\ ReadersTyped /\ \A p \in Clis : ReaderInd(p)
  BY AskParts
<1>1. ReadersTyped'
  BY <1>0, TypesStay DEF ReadersTyped, askVars
<1>2. ASSUME NEW q \in Clis
      PROVE  ReaderInd(q)'
  BY <1>0, ReadersStay DEF askVars
<1> QED BY <1>1, <1>2, AskPartsNext

LEMMA Dropped ==
  ASSUME AskInd, NEW p \in Clis, NEW step \in {"none", "failed"}, Drop(p, step),
         LogMoves, LogInd'
  PROVE  AskInd'
<1>0. LogInd /\ ReadersTyped
  BY AskParts
<1>1. /\ ask' = [ask EXCEPT ![p] = step] /\ trace' = [trace EXCEPT ![p] = None]
      /\ cursor' = [cursor EXCEPT ![p] = 0] /\ answer' = [answer EXCEPT ![p] = <<>>]
  BY DEF Drop, Move
<1>2. /\ cursor \in [Clis -> 0 .. Len(log')]
      /\ answer \in [Clis -> Seq(1 .. Len(log'))] /\ 0 \in 0 .. Len(log')
  BY <1>0, TypesStay
<1>3. ReadersTyped'
  BY <1>0, <1>1, <1>2 DEF ReadersTyped
<1>4. ReaderInd(p)'
  BY <1>0, <1>1 DEF ReadersTyped, ReaderInd
<1>5. \A q \in Clis : q # p => /\ ask'[q] = ask[q] /\ trace'[q] = trace[q] /\ cursor'[q] = cursor[q]
                               /\ answer'[q] = answer[q]
  BY <1>0, <1>1 DEF ReadersTyped
<1> QED BY <1>3, <1>4, <1>5, OthersStay

\* The gateway's side: a turn goes on, ends and is saved, or a resume clears the mark.
LEMMA TurnStep ==
  ASSUME AskInd, NEW t \in Turns, StreamDelta(t) \/ EndTurn(t) \/ SaveTurn(t)
  PROVE  AskInd'
<1>0. LogInd
  BY AskParts
<1>1. ASSUME NEW kind \in {"delta", "ok", "failed"},
             runs[t] # None, log' = Append(log, Event(t, kind)), UNCHANGED <<active, runs, askVars>>,
             t \notin ended, ended' = ended \/ ended' = ended \cup {t}, kind = "ok" => t \in ended'
      PROVE  AskInd'
  <2>1. t \notin Fresh
    BY <1>0, <1>1 DEF LogInd
  <2>2. /\ kind \in {"started", "delta", "ok", "failed"} /\ active' \in {None, active, t}
        /\ runs' \in [Turns -> Gateways \cup {None}] /\ ended' \subseteq Turns /\ ended \subseteq ended'
        /\ \A u \in Turns : runs'[u] # None => runs[u] # None \/ u = t
    BY <1>0, <1>1 DEF LogInd
  <2>3. LogInd'
    BY <1>0, <1>1, <2>1, <2>2, LogGrows
  <2>4. Event(t, kind) \in Entries
    BY DEF Event, Entries
  <2> QED BY <1>1, <2>3, <2>4, NobodyReads DEF LogMoves
<1>2. CASE StreamDelta(t)
  BY <1>1, <1>2 DEF StreamDelta
<1>3. CASE EndTurn(t)
  BY <1>1, <1>3 DEF EndTurn
<1>4. CASE SaveTurn(t)
  <2>1. /\ runs' = [runs EXCEPT ![t] = None] /\ active' = None /\ UNCHANGED <<log, ended, askVars>>
    BY <1>4 DEF SaveTurn
  <2>2. LogInd'
    BY <1>0, <2>1, LogStands DEF LogInd
  <2> QED BY <2>1, <2>2, NobodyReads DEF LogMoves
<1> QED BY <1>2, <1>3, <1>4

LEMMA ResumeStep ==
  ASSUME AskInd, NEW g, Resume(g)
  PROVE  AskInd'
<1>1. LogInd
  BY AskParts
<1>2. PICK t \in Turns : t = active
  BY <1>1 DEF Resume, LogInd
<1>3. PICK kind \in {"started", "delta", "ok", "failed"} : kind = "failed"
  OBVIOUS
<1>4. active' = None /\ log' = Append(log, Event(t, kind)) /\ UNCHANGED <<runs, ended, askVars>>
  BY <1>2, <1>3 DEF Resume
<1>5. t \notin Fresh /\ runs' \in [Turns -> Gateways \cup {None}] /\ ended' \subseteq Turns
  BY <1>1, <1>2, <1>4 DEF LogInd
<1>6. LogInd'
  BY <1>1, <1>3, <1>4, <1>5, LogGrows
<1>7. Event(t, kind) \in Entries
  BY DEF Event, Entries
<1> QED BY <1>4, <1>6, <1>7, NobodyReads DEF LogMoves

\* The tasks of a gateway that goes down end without an event.
LEMMA AbandonedStep ==
  ASSUME AskInd, NEW g, runs' = Abandoned(g), UNCHANGED <<log, active, ended>>
  PROVE  LogInd'
<1>1. LogInd
  BY AskParts
<1>2. /\ runs' \in [Turns -> Gateways \cup {None}]
      /\ \A u \in Turns : runs'[u] # None => runs[u] # None
  BY <1>1 DEF Abandoned, LogInd
<1> QED BY <1>1, <1>2, LogStands DEF LogInd

\* Where a process stands before its question is sent is of no account.
LEMMA BeforeSending ==
  ASSUME AskInd, NEW p \in Clis, StartAsk(p) \/ GetSummary(p)
  PROVE  AskInd'
<1>0. LogInd /\ ReadersTyped /\ ReaderInd(p)
  BY AskParts
<1>1. /\ \E step \in {"get", "send"} : ask' = [ask EXCEPT ![p] = step]
      /\ ask[p] \in {"none", "get"}
      /\ cursor' = cursor \/ cursor' = [cursor EXCEPT ![p] = Len(log)]
      /\ UNCHANGED <<turnVars, trace, answer>>
  BY DEF StartAsk, GetSummary, Move
<1>2. LogInd'
  BY <1>0, <1>1, LogStands DEF LogInd, turnVars
<1>3. Len(log) \in 0 .. Len(log) /\ Len(log') = Len(log)
  BY <1>0, <1>1 DEF LogInd, turnVars
<1>4. ReadersTyped'
  <2>1. cursor' \in [Clis -> 0 .. Len(log)] /\ ask' \in [Clis -> {"none", "get", "send", "listen", "transcript", "done", "failed"}]
    BY <1>0, <1>1, <1>3 DEF ReadersTyped
  <2> QED BY <1>0, <1>1, <1>3, <2>1 DEF ReadersTyped
<1>5. ReaderInd(p)'
  <2>1. ask'[p] \in {"get", "send"} /\ answer'[p] = <<>>
    BY <1>0, <1>1 DEF ReadersTyped, ReaderInd
  <2> QED BY <2>1 DEF ReaderInd
<1>6. \A q \in Clis : q # p => /\ ask'[q] = ask[q] /\ trace'[q] = trace[q] /\ cursor'[q] = cursor[q]
                               /\ answer'[q] = answer[q]
  BY <1>0, <1>1 DEF ReadersTyped
<1> QED BY <1>1, <1>2, <1>4, <1>5, <1>6, OthersStay DEF LogMoves, turnVars

\* The trace of an accepted question is new: no event of it is in the log.
LEMMA SendStep ==
  ASSUME AskInd, NEW p \in Clis, NEW g \in Gateways, Send(p, g)
  PROVE  AskInd'
<1>0. LogInd /\ ReadersTyped /\ ReaderInd(p)
  BY AskParts
<1>1. PICK t \in Fresh : t = NewTurn
  BY DEF Send, NewTurn
<1>2. /\ ask[p] = "send" /\ ask' = [ask EXCEPT ![p] = "listen"]
      /\ trace' = [trace EXCEPT ![p] = t] /\ UNCHANGED <<cursor, answer>>
      /\ active' = t /\ runs' = [runs EXCEPT ![t] = g]
      /\ log' = Append(log, Event(t, "started")) /\ UNCHANGED ended
  BY <1>1 DEF Send, Accept, Move
<1>t. t \in Turns
  BY <1>1 DEF Fresh
<1>e. Event(t, "started") \in Entries /\ Event(t, "started").kind = "started" /\ Event(t, "started").trace = t
  BY <1>t DEF Event, Entries
<1>3. LogInd'
  <2>1. PICK kind \in {"started", "delta", "ok", "failed"} : kind = "started"
    OBVIOUS
  <2>2. /\ runs' \in [Turns -> Gateways \cup {None}] /\ active' \in {None, active, t}
        /\ \A u \in Turns : runs'[u] # None => runs[u] # None \/ u = t
        /\ ended' \subseteq Turns /\ ended \subseteq ended'
    BY <1>0, <1>2, <1>t DEF LogInd
  <2>3. log' = Append(log, Event(t, kind))
    BY <1>2, <2>1
  <2>4. (kind = "delta" => t \notin ended) /\ (kind = "ok" => t \in ended')
    BY <2>1
  <2> QED BY <1>0, <1>t, <2>1, <2>2, <2>3, <2>4, LogGrows
<1>4. LogMoves
  BY <1>2, <1>e DEF LogMoves
<1>5. ReadersTyped'
  <2>1. /\ cursor \in [Clis -> 0 .. Len(log')] /\ answer \in [Clis -> Seq(1 .. Len(log'))]
    BY <1>0, <1>4, TypesStay
  <2> QED BY <1>0, <1>2, <1>t, <2>1 DEF ReadersTyped
<1>6. ReaderInd(p)'
  <2>0. log \in Seq(Entries) /\ Len(log) \in Nat /\ cursor[p] \in 0 .. Len(log)
    BY <1>0 DEF LogInd, ReadersTyped
  <2>1. t \notin Fresh'
    BY <1>2, <1>e, <2>0, EventsGrow
  <2>2. EventsOf(t, "delta") = {}
    <3>1. ASSUME NEW i \in DOMAIN log, log[i] = Event(t, "delta")
          PROVE  FALSE
      BY <1>0, <1>1, <3>1 DEF LogInd, Event
    <3> QED BY <3>1 DEF EventsOf
  <2>3. EventsOf(t, "delta")' = {}
    <3>1. Event(t, "started") # Event(t, "delta")
      BY DEF Event
    <3> QED BY <1>2, <1>e, <1>t, <2>0, <2>2, <3>1, EventsGrow
  <2>4. /\ ask'[p] = "listen" /\ trace'[p] = t /\ answer'[p] = <<>>
    BY <1>0, <1>2 DEF ReadersTyped, ReaderInd
  <2>5. {i \in EventsOf(t, "delta")' : i <= cursor'[p]} = {}
    BY <2>3
  <2>6. Exactly(answer'[p], {})
    BY <2>4 DEF Exactly
  <2>7. Follows(p)'
    BY <1>t, <2>1, <2>4, <2>5, <2>6 DEF Follows, EventsOf, Exactly
  <2> QED BY <2>4, <2>7 DEF ReaderInd
<1>7. \A q \in Clis : q # p => /\ ask'[q] = ask[q] /\ trace'[q] = trace[q] /\ cursor'[q] = cursor[q]
                               /\ answer'[q] = answer[q]
  BY <1>0, <1>2 DEF ReadersTyped
<1> QED BY <1>3, <1>4, <1>5, <1>6, <1>7, OthersStay

\* One event more of the stream, of the process's own turn or of another.
LEMMA ListenStep ==
  ASSUME AskInd, NEW p \in Clis, Listen(p)
  PROVE  AskInd'
<1>0. LogInd /\ ReadersTyped /\ ReaderInd(p)
  BY AskParts
<1>1. PICK next : next = cursor[p] + 1
  OBVIOUS
<1>2. PICK t \in Turns \ Fresh : t = trace[p]
  BY <1>0 DEF Listen, ReaderInd, Follows
<1> DEFINE own == log[next].trace = t
           piece == own /\ log[next].kind = "delta"
           step == IF own /\ log[next].kind = "ok" THEN "transcript"
                   ELSE IF own /\ log[next].kind = "failed" THEN "failed" ELSE "listen"
<1>3. /\ ask[p] = "listen" /\ cursor[p] < Len(log)
      /\ cursor' = [cursor EXCEPT ![p] = next]
      /\ answer' = [answer EXCEPT ![p] = IF piece THEN Append(answer[p], next) ELSE answer[p]]
      /\ ask' = [ask EXCEPT ![p] = step]
      /\ UNCHANGED <<turnVars, trace>>
  BY <1>1, <1>2 DEF Listen, Move
<1>4. /\ log \in Seq(Entries) /\ Len(log) \in Nat /\ cursor[p] \in Nat
      /\ next \in 1 .. Len(log) /\ DOMAIN log = 1 .. Len(log) /\ log[next] \in Entries
  BY <1>0, <1>1, <1>3 DEF LogInd, ReadersTyped
<1>5. log' = log /\ LogInd'
  BY <1>0, <1>3, LogStands DEF LogInd, turnVars
<1>6. step \in {"transcript", "failed", "listen"}
  OBVIOUS
<1>7. answer[p] \in Seq(1 .. Len(log))
  BY <1>0 DEF ReadersTyped
<1>8. Exactly(answer[p], {i \in EventsOf(t, "delta") : i <= cursor[p]})
  BY <1>0, <1>2, <1>3 DEF ReaderInd, Follows
<1>9. next \in EventsOf(t, "delta") <=> piece
  BY <1>4 DEF EventsOf, Event, Entries
<1>10. own /\ log[next].kind = "ok" => next \in EventsOf(t, "ok")
  BY <1>4 DEF EventsOf, Event, Entries
<1> HIDE DEF step, piece
<1>11. ReadersTyped'
  <2>1. cursor' \in [Clis -> 0 .. Len(log)]
    BY <1>0, <1>3, <1>4 DEF ReadersTyped
  <2>2. Append(answer[p], next) \in Seq(1 .. Len(log))
    BY <1>4, <1>7
  <2>3. answer' \in [Clis -> Seq(1 .. Len(log))]
    BY <1>0, <1>3, <1>7, <2>2 DEF ReadersTyped
  <2>4. ask' \in [Clis -> {"none", "get", "send", "listen", "transcript", "done", "failed"}]
    BY <1>0, <1>3, <1>6 DEF ReadersTyped
  <2> QED BY <1>0, <1>3, <1>5, <2>1, <2>3, <2>4 DEF ReadersTyped
<1>12. {i \in EventsOf(t, "delta") : i <= next} =
         {i \in EventsOf(t, "delta") : i <= cursor[p]} \cup (IF piece THEN {next} ELSE {})
  <2>1. \A i \in EventsOf(t, "delta") : i \in 1 .. Len(log)
    BY <1>4 DEF EventsOf
  <2>2. \A i \in EventsOf(t, "delta") : i <= next <=> i <= cursor[p] \/ i = next
    BY <1>1, <1>4, <2>1
  <2> QED BY <1>9, <2>2
<1>13. Exactly(answer'[p], {i \in EventsOf(t, "delta") : i <= next})
  <2>1. CASE piece
    <3>1. answer'[p] = Append(answer[p], next)
      BY <1>0, <1>3, <2>1 DEF ReadersTyped
    <3> DEFINE s == answer[p]
    <3>2. s \in Seq(1 .. Len(log)) /\ answer'[p] = Append(s, next)
      BY <1>7, <3>1
    <3> HIDE DEF s
    <3>3. /\ DOMAIN s = 1 .. Len(s) /\ Len(s) \in Nat
          /\ DOMAIN Append(s, next) = 1 .. Len(s) + 1
          /\ \A i \in 1 .. Len(s) : Append(s, next)[i] = s[i] /\ s[i] \in 1 .. Len(log)
          /\ Append(s, next)[Len(s) + 1] = next
      BY <3>2
    <3>4. {Append(s, next)[i] : i \in DOMAIN Append(s, next)} = {s[i] : i \in DOMAIN s} \cup {next}
      BY <3>3
    <3>5. \A i \in DOMAIN s : s[i] \in Nat /\ s[i] <= cursor[p]
      BY <1>4, <1>8, <3>3 DEF s, Exactly
    <3>6. \A i, j \in DOMAIN s : i < j => s[i] < s[j]
      BY <1>8 DEF s, Exactly
    <3>7. \A i, j \in DOMAIN Append(s, next) : i < j => Append(s, next)[i] < Append(s, next)[j]
      BY <1>1, <1>4, <3>3, <3>5, <3>6
    <3>8. {s[i] : i \in DOMAIN s} = {i \in EventsOf(t, "delta") : i <= cursor[p]}
      BY <1>8 DEF s, Exactly
    <3> QED BY <1>12, <2>1, <3>2, <3>4, <3>7, <3>8 DEF Exactly
  <2>2. CASE ~piece
    <3>1. answer'[p] = answer[p]
      BY <1>0, <1>3, <2>2 DEF ReadersTyped
    <3>2. {i \in EventsOf(t, "delta") : i <= next} = {i \in EventsOf(t, "delta") : i <= cursor[p]}
      BY <1>12, <2>2
    <3> QED BY <1>8, <3>1, <3>2
  <2> QED BY <2>1, <2>2
<1>14. ReaderInd(p)'
  <2>1. ask'[p] = step /\ cursor'[p] = next /\ trace'[p] = t
    BY <1>0, <1>2, <1>3 DEF ReadersTyped
  <2>2. CASE step = "failed"
    BY <2>1, <2>2 DEF ReaderInd
  <2>3. CASE step # "failed"
    <3>1. step # "listen" => next \in EventsOf(t, "ok")
      BY <1>10, <2>3 DEF step
    <3>2. step # "done" /\ step \notin {"none", "get", "send"}
      BY <1>6
    <3>3. Follows(p)'
      BY <1>2, <1>5, <1>13, <2>1, <3>1, <3>2 DEF Follows, Fresh, EventsOf, Event
    <3> QED BY <2>1, <3>2, <3>3 DEF ReaderInd
  <2> QED BY <2>2, <2>3
<1>15. \A q \in Clis : q # p => /\ ask'[q] = ask[q] /\ trace'[q] = trace[q] /\ cursor'[q] = cursor[q]
                                /\ answer'[q] = answer[q]
  BY <1>0, <1>3 DEF ReadersTyped
<1> QED BY <1>5, <1>11, <1>14, <1>15, OthersStay DEF LogMoves

\* What a process returns are the pieces of its own turn.
LEMMA TranscriptStep ==
  ASSUME AskInd, NEW p \in Clis, ReadTranscript(p)
  PROVE  AskInd'
<1>0. LogInd /\ ReadersTyped /\ ReaderInd(p)
  BY AskParts
<1>1. /\ ask[p] = "transcript" /\ ask' = [ask EXCEPT ![p] = "done"]
      /\ UNCHANGED <<turnVars, trace, cursor, answer>>
  BY DEF ReadTranscript, Move
<1>2. log' = log /\ LogInd'
  BY <1>0, <1>1, LogStands DEF LogInd, turnVars
<1>3. ReadersTyped'
  BY <1>0, <1>1, <1>2 DEF ReadersTyped
<1>4. ReaderInd(p)'
  <2>1. ask'[p] = "done"
    BY <1>0, <1>1 DEF ReadersTyped
  <2>2. Follows(p)'
    BY <1>0, <1>1, <1>2, <2>1 DEF ReaderInd, Follows, Fresh, EventsOf, Event, Exactly
  <2> QED BY <2>1, <2>2 DEF ReaderInd
<1>5. \A q \in Clis : q # p => /\ ask'[q] = ask[q] /\ trace'[q] = trace[q] /\ cursor'[q] = cursor[q]
                                /\ answer'[q] = answer[q]
  BY <1>0, <1>1 DEF ReadersTyped
<1> QED BY <1>2, <1>3, <1>4, <1>5, OthersStay DEF LogMoves

\* Ctrl-C ends what its gateway runs, and the process drops its question.
LEMMA AbortStep ==
  ASSUME AskInd, NEW p \in Clis, NEW g \in Gateways, Abort(p, g)
  PROVE  AskInd'
<1>0. LogInd
  BY AskParts
<1> DEFINE cancelled == {t \in Turns : runs[t] = g /\ (t \in ended => EventsOf(t, "ok") # {})}
<1>1. /\ log' = IF cancelled = {} THEN log
                 ELSE Append(log, Event(CHOOSE t \in cancelled : TRUE, "failed"))
      /\ ended' = ended \cup cancelled
      /\ Drop(p, "failed") /\ UNCHANGED <<active, runs>>
  BY DEF Abort
<1>2. /\ runs' \in [Turns -> Gateways \cup {None}] /\ active' = active
      /\ ended' \subseteq Turns /\ ended \subseteq ended'
  BY <1>0, <1>1 DEF LogInd
<1>3. \A t \in cancelled : t \in Turns /\ runs[t] # None
  BY NamesAssumption
<1> HIDE DEF cancelled
<1>4. CASE cancelled = {}
  <2>1. log' = log
    BY <1>1, <1>4
  <2>2. LogInd'
    BY <1>0, <1>1, <1>2, <2>1, LogStands
  <2> QED BY <1>1, <2>1, <2>2, Dropped DEF LogMoves
<1>5. CASE cancelled # {}
  <2>1. PICK t \in cancelled : t = CHOOSE u \in cancelled : TRUE
    BY <1>5
  <2>2. PICK kind \in {"started", "delta", "ok", "failed"} : kind = "failed"
    OBVIOUS
  <2>3. t \in Turns /\ runs[t] # None /\ log' = Append(log, Event(t, kind))
    BY <1>1, <1>3, <1>5, <2>1, <2>2
  <2>4. t \notin Fresh
    BY <1>0, <2>3 DEF LogInd
  <2>5. \A u \in Turns : runs'[u] # None => runs[u] # None \/ u = t
    BY <1>1
  <2>6. LogInd'
    BY <1>0, <1>2, <2>2, <2>3, <2>4, <2>5, LogGrows
  <2>7. LogMoves
    BY <2>2, <2>3 DEF LogMoves, Event, Entries
  <2> QED BY <1>1, <2>6, <2>7, Dropped
<1> QED BY <1>4, <1>5

-----------------------------------------------------------------------------
(* The gateways of a home directory. *)

LEMMA HomeStep ==
  ASSUME HomeTypeOK, NEW p \in Clis,
         \/ SupervisorSteps(p) \/ Stop(p) \/ Unlink(p) \/ KillSupervisor(p)
         \/ \E g \in Gateways : UseConfigured(p, g)
  PROVE  HomeTypeOK'
<1> USE DEF HomeTypeOK
<1>1. CASE ReadGateway(p) \/ Probe(p)
  BY <1>1 DEF ReadGateway, Probe, At
<1>2. CASE Spawn(p)
  <2>1. PICK new \in Gateways : new = CHOOSE g \in Gateways : gateway[g] = "unused"
    BY <1>2 DEF Spawn
  <2>2. /\ gateway' = [gateway EXCEPT ![new] = "starting"] /\ token' = [token EXCEPT ![p] = new]
        /\ url' = [url EXCEPT ![p] = new] /\ runtime' = [runtime EXCEPT ![p] = "STARTING"]
        /\ UNCHANGED file
    BY <1>2, <2>1 DEF Spawn, At
  <2> QED BY <2>2
<1>3. CASE BecomeReady(p)
  BY <1>3 DEF BecomeReady, At, gatewayHealthy
<1>4. CASE Stop(p)
  BY <1>4 DEF Stop, At, Killed
<1>5. CASE Unlink(p) \/ KillSupervisor(p)
  BY <1>5 DEF Unlink, KillSupervisor, At
<1>6. ASSUME NEW g \in Gateways, UseConfigured(p, g)
      PROVE  HomeTypeOK'
  BY <1>6 DEF UseConfigured, At
<1> QED BY <1>1, <1>2, <1>3, <1>4, <1>5, <1>6 DEF SupervisorSteps

LEMMA GatewayStep ==
  ASSUME HomeTypeOK, NEW g \in Gateways, ServeRequests(g) \/ GatewayDies(g)
  PROVE  HomeTypeOK'
BY DEF HomeTypeOK, ServeRequests, GatewayDies, Killed

-----------------------------------------------------------------------------
(* The runs of the client. *)

LEMMA ClientInit == Init => ClientInd
<1> SUFFICES ASSUME Init PROVE ClientInd
  OBVIOUS
<1>1. SetupInd
  <2>1. scene.installed \in BOOLEAN
    BY SceneAssumption DEF Init
  <2> QED BY <2>1, SetupInitInd DEF Init
<1>2. HomeTypeOK
  BY DEF Init, HomeInit, HomeTypeOK
<1>3. AskInd
  <2>1. log = <<>> /\ Len(log) = 0 /\ DOMAIN log = {}
    BY DEF Init, AskInit
  <2>2. LogInd
    <3>1. log \in Seq(Entries)
      BY <2>1
    <3>2. \A t \in Fresh : t \in Turns
      BY DEF Fresh
    <3> QED BY <2>1, <3>1, <3>2, TurnAssumption DEF Init, AskInit, LogInd
  <2>3. 0 \in 0 .. Len(log) /\ <<>> \in Seq(1 .. Len(log))
    BY <2>1
  <2>4. ReadersTyped
    BY <2>3 DEF Init, AskInit, ReadersTyped
  <2>5. \A p \in Clis : ReaderInd(p)
    BY DEF Init, AskInit, ReaderInd
  <2> QED BY <2>2, <2>4, <2>5, AskParts
<1> QED BY <1>1, <1>2, <1>3 DEF ClientInd, SetupInd

LEMMA SetupNext ==
  ASSUME SetupInd, [Next]_vars
  PROVE  SetupInd'
<1>u. ASSUME UNCHANGED <<setupVars, removed, raced>>
      PROVE  SetupInd'
  BY <1>u DEF SetupInd, SetupTypeOK, LockKept, Alone, Preparers, RecordKept, setupVars
<1>1. ASSUME NEW p \in Clis, Begin(p)
      PROVE  SetupInd'
  <2>1. PICK j \in scene.jobs : IF j = "uninstall" THEN UNCHANGED setupVars
                                ELSE \E parts \in Asked(j) : StartSetup(p, parts)
    BY <1>1 DEF Begin
  <2>2. UNCHANGED <<removed, raced>>
    BY <1>1 DEF Begin
  <2>3. Asked(j) \subseteq SUBSET Hashes
    BY DEF Asked, Hashes
  <2> QED BY <1>u, <2>1, <2>2, <2>3, SetupAround
<1>2. ASSUME NEW p \in Clis, Prepare(p)
      PROVE  SetupInd'
  <2>1. SetupSteps(p) /\ removed' = removed \ venv' /\ SetupTypeOK /\ LockKept /\ RecordKept
    BY <1>2 DEF Prepare, SetupInd
  <2>2. SetupTypeOK'
    BY <2>1, SetupTyped
  <2>3. LockKept'
    BY <1>2, <2>1, LockStep
  <2>4. RecordKept'
    BY <2>1, RecordStep
  <2> QED BY <2>2, <2>3, <2>4 DEF SetupInd
<1>3. ASSUME NEW p \in Clis, Uninstall(p)
      PROVE  SetupInd'
  BY <1>3, SetupAround DEF Uninstall
<1>4. ASSUME NEW p \in Clis, EndRun(p)
      PROVE  SetupInd'
  BY <1>4, SetupAround DEF EndRun
<1>5. ASSUME NEW p \in Clis, Kill(p)
      PROVE  SetupInd'
  BY <1>5, SetupAround DEF Kill
<1>6. CASE TimePasses
  <2>1. LockAges /\ UNCHANGED <<removed, raced>>
    BY <1>6 DEF TimePasses
  <2>2. SetupTypeOK'
    BY <2>1 DEF SetupInd, SetupTypeOK, LockAges
  <2>3. LockKept'
    BY <2>1 DEF SetupInd, LockAges, LockKept, Alone, Preparers, SetupTypeOK
  <2> QED BY <2>1, <2>2, <2>3 DEF SetupInd, LockAges, RecordKept
<1>7. ASSUME NEW p \in Clis,
             \/ StartRuntime(p) \/ StartTimesOut(p) \/ Asking(p) \/ RemoveRecord(p)
             \/ FinishRun(p) \/ ConfiguredFails(p) \/ Interrupt(p) \/ NextLine(p) \/ SendResume(p)
      PROVE  SetupInd'
  BY <1>7, <1>u DEF StartRuntime, StartTimesOut, StopRuntime, Asking, RemoveRecord, FinishRun,
                    ConfiguredFails, Interrupt, NextLine, SendResume
<1>8. ASSUME NEW g \in Gateways, GatewayRuns(g)
      PROVE  SetupInd'
  BY <1>8, <1>u DEF GatewayRuns
<1>9. ASSUME NEW t \in Turns, TurnRuns(t)
      PROVE  SetupInd'
  BY <1>9, <1>u DEF TurnRuns
<1>10. CASE UNCHANGED vars
  BY <1>10, <1>u DEF vars
<1> QED
  BY <1>1, <1>2, <1>3, <1>4, <1>5, <1>6, <1>7, <1>8, <1>9, <1>10 DEF Next, OwnSteps

LEMMA HomeNext ==
  ASSUME HomeTypeOK, [Next]_vars
  PROVE  HomeTypeOK'
<1>u. ASSUME UNCHANGED homeVars
      PROVE  HomeTypeOK'
  BY <1>u DEF HomeTypeOK, homeVars
<1>1. ASSUME NEW p \in Clis,
             \/ Begin(p) \/ Prepare(p) \/ Uninstall(p) \/ ConfiguredFails(p) \/ Asking(p)
             \/ Interrupt(p) \/ NextLine(p) \/ SendResume(p) \/ EndRun(p)
      PROVE  HomeTypeOK'
  BY <1>1, <1>u DEF Begin, Prepare, Uninstall, ConfiguredFails, Asking, Interrupt, NextLine,
                    SendResume, EndRun
<1>2. ASSUME NEW p \in Clis, StartRuntime(p)
      PROVE  HomeTypeOK'
  BY <1>2, HomeStep DEF StartRuntime
<1>3. ASSUME NEW p \in Clis, StartTimesOut(p) \/ FinishRun(p)
      PROVE  HomeTypeOK'
  BY <1>3, HomeStep DEF StartTimesOut, FinishRun, StopRuntime
<1>4. ASSUME NEW p \in Clis, RemoveRecord(p)
      PROVE  HomeTypeOK'
  BY <1>4, HomeStep DEF RemoveRecord
<1>5. ASSUME NEW p \in Clis, Kill(p)
      PROVE  HomeTypeOK'
  BY <1>5, HomeStep DEF Kill
<1>6. ASSUME NEW g \in Gateways, GatewayRuns(g)
      PROVE  HomeTypeOK'
  BY <1>6, GatewayStep DEF GatewayRuns
<1>7. ASSUME NEW t \in Turns, TurnRuns(t)
      PROVE  HomeTypeOK'
  BY <1>7, <1>u DEF TurnRuns
<1>8. CASE TimePasses \/ UNCHANGED vars
  BY <1>8, <1>u DEF TimePasses, vars
<1> QED
  BY <1>1, <1>2, <1>3, <1>4, <1>5, <1>6, <1>7, <1>8 DEF Next, OwnSteps

LEMMA AskNext ==
  ASSUME AskInd, HomeTypeOK, [Next]_vars
  PROVE  AskInd'
<1>u. ASSUME UNCHANGED <<turnVars, askVars>>
      PROVE  AskInd'
  <2>1. LogInd'
    BY <1>u, AskParts, LogStands DEF LogInd, turnVars
  <2> QED BY <1>u, <2>1, NobodyReads DEF LogMoves, turnVars
<1>g. \A p \in Clis : Reaches(p) => url[p] \in Gateways
  BY DEF Reaches, gatewayHealthy, HomeTypeOK
<1>1. ASSUME NEW p \in Clis,
             \/ Begin(p) \/ Prepare(p) \/ Uninstall(p) \/ StartRuntime(p) \/ ConfiguredFails(p)
             \/ RemoveRecord(p) \/ EndRun(p)
      PROVE  AskInd'
  BY <1>1, <1>u DEF Begin, Prepare, Uninstall, StartRuntime, ConfiguredFails, RemoveRecord, EndRun
<1>2. ASSUME NEW p \in Clis, StartTimesOut(p) \/ FinishRun(p)
      PROVE  AskInd'
  <2>1. Drop(p, "none") /\ runs' = Abandoned(token[p]) /\ UNCHANGED <<log, active, ended>>
    BY <1>2 DEF StartTimesOut, FinishRun, StopRuntime
  <2>2. LogInd'
    BY <2>1, AbandonedStep
  <2> QED BY <2>1, <2>2, Dropped DEF LogMoves
<1>3. ASSUME NEW p \in Clis, Asking(p)
      PROVE  AskInd'
  <2>1. CASE StartAsk(p) \/ GetSummary(p)
    BY <2>1, BeforeSending
  <2>2. CASE AskFails(p)
    <3>1. Drop(p, "failed") /\ UNCHANGED turnVars
      BY <2>2 DEF AskFails
    <3>2. LogInd'
      BY <3>1, AskParts, LogStands DEF LogInd, turnVars
    <3> QED BY <3>1, <3>2, Dropped DEF LogMoves, turnVars
  <2>3. CASE Reaches(p) /\ Send(p, url[p])
    <3>1. PICK g \in Gateways : g = url[p]
      BY <1>g, <2>3
    <3> QED BY <2>3, <3>1, SendStep
  <2>4. CASE Listen(p)
    BY <2>4, ListenStep
  <2>5. CASE ReadTranscript(p)
    BY <2>5, TranscriptStep
  <2> QED BY <1>3, <2>1, <2>2, <2>3, <2>4, <2>5 DEF Asking
<1>4. ASSUME NEW p \in Clis, Interrupt(p)
      PROVE  AskInd'
  <2>1. PICK g \in Gateways : g = url[p]
    BY <1>4, <1>g DEF Interrupt
  <2> QED BY <1>4, <2>1, AbortStep DEF Interrupt
<1>5. ASSUME NEW p \in Clis, NextLine(p) \/ Kill(p)
      PROVE  AskInd'
  <2>1. Drop(p, "none") /\ UNCHANGED turnVars
    BY <1>5 DEF NextLine, Kill
  <2>2. LogInd'
    BY <2>1, AskParts, LogStands DEF LogInd, turnVars
  <2> QED BY <2>1, <2>2, Dropped DEF LogMoves, turnVars
<1>6. ASSUME NEW p \in Clis, SendResume(p)
      PROVE  AskInd'
  BY <1>6, ResumeStep DEF SendResume
<1>7. ASSUME NEW g \in Gateways, GatewayRuns(g)
      PROVE  AskInd'
  <2>1. UNCHANGED <<log, active, ended, askVars>> /\ (runs' = runs \/ runs' = Abandoned(g))
    BY <1>7 DEF GatewayRuns
  <2>2. CASE runs' = runs
    BY <1>u, <2>1, <2>2 DEF turnVars
  <2>3. CASE runs' = Abandoned(g)
    <3>1. LogInd'
      BY <2>1, <2>3, AbandonedStep
    <3> QED BY <2>1, <3>1, NobodyReads DEF LogMoves
  <2> QED BY <2>1, <2>2, <2>3
<1>8. ASSUME NEW t \in Turns, TurnRuns(t)
      PROVE  AskInd'
  BY <1>8, TurnStep DEF TurnRuns
<1>9. CASE TimePasses \/ UNCHANGED vars
  BY <1>9, <1>u DEF TimePasses, vars
<1> QED
  BY <1>1, <1>2, <1>3, <1>4, <1>5, <1>6, <1>7, <1>8, <1>9 DEF Next, OwnSteps

LEMMA AnswerHolds == AskInd => AnswerIsOwn
<1> SUFFICES ASSUME AskInd, NEW p \in Clis, ask[p] = "done"
             PROVE  Exactly(answer[p], EventsOf(trace[p], "delta"))
  BY DEF AnswerIsOwn
<1>1. LogInd /\ ReadersTyped /\ Follows(p)
  BY AskParts DEF ReaderInd
<1>2. /\ log[cursor[p]].kind = "ok" /\ log[cursor[p]].trace = trace[p]
      /\ cursor[p] \in DOMAIN log /\ DOMAIN log \subseteq Nat
  BY <1>1 DEF Follows, EventsOf, Event, LogInd
<1>3. \A i \in EventsOf(trace[p], "delta") : i < cursor[p]
  BY <1>1, <1>2 DEF LogInd, EndedAt
<1>4. EventsOf(trace[p], "delta") \subseteq Nat
  BY <1>2 DEF EventsOf
<1>5. {i \in EventsOf(trace[p], "delta") : i <= cursor[p]} = EventsOf(trace[p], "delta")
  BY <1>2, <1>3, <1>4
<1> QED BY <1>1, <1>5 DEF Follows

\* Environment, gateways and questions of all processes keep their invariant,
\* wherever one of them, or a gateway, is killed.
THEOREM ClientInvariant == Spec => []ClientInd
<1>1. Init => ClientInd
  BY ClientInit
<1>2. ClientInd /\ [Next]_vars => ClientInd'
  BY SetupNext, HomeNext, AskNext DEF ClientInd, SetupInd
<1> QED BY <1>1, <1>2, PTL DEF Spec

\* Whoever leaves preparePythonEnvironment without an error finds what it asked
\* for, but for what an uninstall took away since; and one process at a time
\* prepares it, but while a lock that was removed instead of the one judged is
\* missed (packaged_runtime.ts).
THEOREM ReadyMeansInstalled == Spec => []ReadyIsInstalled
<1>1. ClientInd => ReadyIsInstalled
  BY ReadyHolds DEF ClientInd, SetupInd
<1> QED BY <1>1, ClientInvariant, PTL

\* A question that returns has received every piece its turn streamed, each once
\* and in order, and no piece of another turn, whoever is killed, interrupted or
\* resumed meanwhile (onEvent of ask, session_runner.ts, under the promise of the
\* event stream).  Of an answer that is taken from the transcript, because its
\* turn streamed none, it says nothing.
THEOREM AnswersAreOwn == Spec => []AnswerIsOwn
<1>1. ClientInd => AnswerIsOwn
  BY AnswerHolds DEF ClientInd
<1> QED BY <1>1, ClientInvariant, PTL
===============================================================================
