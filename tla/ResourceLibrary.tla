--------------------------- MODULE ResourceLibrary ---------------------------
(***************************************************************************)
(* The resource library: library/service.py over the tables of             *)
(* runtime/storage/resource_store.py and the copies under files/, with the *)
(* commands of api/library.py, api/courses.py and library.import.          *)
(*                                                                         *)
(* All callers share ONE database connection, hence one transaction, and   *)
(* every statement is a step.  Gateway commands and searches run on the    *)
(* event loop, one at a time; the import of a course's textbook runs on a  *)
(* pool thread beside it.  Only ingest and activate take the store's lock: *)
(* an audit row of one thread is written, and committed, in the middle of  *)
(* an import of another.  An import refused for its path, size, format or  *)
(* empty text changes nothing and is left out.                             *)
(***************************************************************************)
EXTENDS Naturals, FiniteSets, FiniteSetsExt

CONSTANTS
  Nobody,
  Loop, Pool,   \* the event loop; the pool threads that import
  Learners,     \* learners that import, activate and search
  Contents,     \* file contents, known by their SHA-256
  Unreliable,   \* the contents whose text no page is reliable of
  Profiles,     \* retrieval profiles a gateway may be started with
  LegacyProfile,\* the one that chunks without an index record are taken for
  Strategies,   \* "dense", "hybrid_rrf"
  Textbook,     \* the import of the course's textbook
  Imports,      \* bound: the imports asked for by library.import
  MaxResources  \* bound: resources created

ImportRequests == [owner : Learners, content : Contents, public : BOOLEAN,
             newVersion : BOOLEAN, activate : BOOLEAN]

ASSUME LibraryAssumption ==
  /\ Unreliable \subseteq Contents
  /\ Strategies \subseteq {"dense", "hybrid_rrf"}
  /\ Imports \subseteq ImportRequests
  /\ Textbook \in ImportRequests
  /\ MaxResources \in Nat
  /\ Loop \notin Pool
  /\ Nobody \notin {Loop} \cup Pool \cup Learners \cup Profiles

Threads == {Loop} \cup Pool
Ids == 1..MaxResources        \* resource ids, by creation time

\* The statements of ingest, in order; "active" is the status column of a row.
Inserts == <<"row", "document", "chunks", "import", "index">>
Parts == {"row", "document", "chunks", "import", "index"}
Facts == Ids \X (Parts \cup {"active"})

VARIABLES
  table,    \* what the connection sees
  stored,   \* what is committed
  inTx,     \* the connection has an open transaction
  lock,     \* the thread that holds the store's lock, or Nobody
  files,    \* resources with a copy under files/
  meta,     \* the record of each resource made so far
  pc, rid,  \* per thread: where it stands, and on which resource
  profile,  \* the gateway's retrieval profile
  cited,    \* one piece of evidence handed out, whichever, or Nobody
  cut       \* imports another thread committed a part of, and that did not
            \* get to their own commit (history)

libraryVars == <<table, stored, inTx, lock, files, meta, pc, rid, profile, cited, cut>>

Idle == "idle"
ImportStages == {Idle, "copy", "begin", "commit", "activate", "set_active",
           "record_duplicate", "record_activate", "commit_record"} \cup Parts

Minted == DOMAIN meta
Rows(t) == {i \in Ids : <<i, "row">> \in t}
Whole(t, i) == \A p \in Parts : <<i, p>> \in t

\* An import between its copy and its last commit.
InIngest(t) == pc[t] \in {"begin", "commit"} \cup Parts
UnderWay(i) == \E t \in Threads : rid[t] = i /\ InIngest(t)

LibraryTypeOK ==
  /\ table \subseteq Facts /\ stored \subseteq Facts
  /\ inTx \in BOOLEAN /\ lock \in Threads \cup {Nobody}
  /\ Minted = 1..Cardinality(Minted) /\ Minted \subseteq Ids
  /\ \A i \in Minted : meta[i].profile \in Profiles
  /\ files \subseteq Minted
  /\ pc \in [Threads -> ImportStages] /\ rid \in [Threads -> Ids \cup {Nobody}]
  /\ profile \in Profiles
  /\ cited # Nobody => cited \in Learners \X Ids \X (Profiles \cup {Nobody}) \X BOOLEAN
  /\ cut \subseteq Minted

LibraryInit ==
  /\ table = {} /\ stored = {} /\ files = {} /\ cited = Nobody /\ cut = {}
  /\ inTx = FALSE /\ lock = Nobody
  /\ meta = [i \in {} |-> Nobody]
  /\ pc = [t \in Threads |-> Idle] /\ rid = [t \in Threads |-> Nobody]
  /\ profile \in Profiles

MoveTo(t, next) == pc' = [pc EXCEPT ![t] = next]
Done(t) == MoveTo(t, Idle) /\ rid' = [rid EXCEPT ![t] = Nobody]
CommitTx == stored' = table /\ inTx' = FALSE
RollbackTx == table' = stored /\ inTx' = FALSE

-----------------------------------------------------------------------------
(* Importing. *)

Visible(i, who) == meta[i].public \/ meta[i].owner = who
SameContent(c) == {i \in Rows(table) : meta[i].content = c}

\* existing[-1] of find_by_hash, which orders by creation time.
Latest(c) == IF SameContent(c) = {} THEN Nobody ELSE Max(SameContent(c))

\* Known bytes are recorded as a duplicate of the latest resource that has them,
\* unless a new version of it is asked for.
IngestBytes(t, q) ==
  /\ LET old == Latest(q.content)
         new == Cardinality(Minted) + 1
     IN IF old # Nobody /\ ~q.newVersion
        THEN /\ rid' = [rid EXCEPT ![t] = old]
             /\ MoveTo(t, "record_duplicate")
             /\ UNCHANGED meta
        ELSE /\ new \in Ids
             /\ rid' = [rid EXCEPT ![t] = new]
             /\ meta' = [i \in Minted \cup {new} |-> IF i \in Minted THEN meta[i] ELSE
                  [owner |-> q.owner, content |-> q.content, public |-> q.public,
                   activate |-> q.activate, profile |-> profile]]
             /\ MoveTo(t, "copy")
  /\ UNCHANGED <<table, stored, inTx, lock, files, profile, cited, cut>>

ImportPath(t, q) == pc[t] = Idle /\ IngestBytes(t, q)

\* library.import, for the learner who sent the command.
ImportCommand(q) == ImportPath(Loop, q)

\* The import of a course's textbook: public, active, never a new version.
ImportCourse(t) ==
  /\ Textbook.public /\ Textbook.activate /\ ~Textbook.newVersion
  /\ ImportPath(t, Textbook)

\* The copy under files/, or none if it cannot be written.
CopyFile(t) ==
  /\ pc[t] = "copy"
  /\ \/ files' = files \cup {rid[t]} /\ MoveTo(t, "begin") /\ rid' = rid
     \/ files' = files /\ Done(t)
  /\ UNCHANGED <<table, stored, inTx, lock, meta, profile, cited, cut>>

\* Mutant: only the copy is undone.
IngestFails_NoRollback(t) ==
  /\ InIngest(t)
  /\ IF pc[t] = "begin" THEN lock = Nobody ELSE lock = t
  /\ CommitTx
  /\ lock' = Nobody
  /\ files' = files \ {rid[t]}
  /\ Done(t)
  /\ UNCHANGED <<table, meta, profile, cited, cut>>
\* A failed ingest rolls the connection back, and the copy is removed.
IngestFails(t) ==
  /\ InIngest(t)
  /\ IF pc[t] = "begin" THEN lock = Nobody ELSE lock = t
  /\ RollbackTx
  /\ lock' = Nobody
  /\ files' = files \ {rid[t]}
  /\ Done(t)
  /\ UNCHANGED <<stored, meta, profile, cited, cut>>

\* BEGIN fails inside a transaction another call left open: see IngestFails.
IngestBegins(t) ==
  /\ pc[t] = "begin" /\ lock = Nobody /\ ~inTx
  /\ lock' = t /\ inTx' = TRUE
  /\ MoveTo(t, "row")
  /\ UNCHANGED <<table, stored, files, meta, rid, profile, cited, cut>>

\* One INSERT; it opens a transaction if somebody committed the last one.
Inserted(i, part) ==
  {<<i, part>>} \cup (IF part = "row" /\ meta[i].activate THEN {<<i, "active">>} ELSE {})
IngestInserts(t) ==
  /\ pc[t] \in Parts
  /\ table' = table \cup Inserted(rid[t], pc[t])
  /\ inTx' = TRUE
  /\ LET k == CHOOSE k \in 1..5 : Inserts[k] = pc[t]
     IN MoveTo(t, IF k = 5 THEN "commit" ELSE Inserts[k + 1])
  /\ UNCHANGED <<stored, lock, files, meta, rid, profile, cited, cut>>

IngestCommits(t) ==
  /\ pc[t] = "commit"
  /\ CommitTx
  /\ lock' = Nobody
  /\ cut' = cut \ {rid[t]}
  /\ Done(t)
  /\ UNCHANGED <<table, files, meta, profile, cited>>

-----------------------------------------------------------------------------
(* Activating, and the audit rows that are written outside the lock. *)

Activate(i, who) ==
  /\ pc[Loop] = Idle
  /\ i \in Rows(table) /\ Visible(i, who)
  /\ rid' = [rid EXCEPT ![Loop] = i]
  /\ MoveTo(Loop, "activate")
  /\ UNCHANGED <<table, stored, inTx, lock, files, meta, profile, cited, cut>>

\* The UPDATE of store.activate; the row may be gone with its import by now.
ActivateSets(t) ==
  /\ pc[t] = "activate" /\ lock = Nobody
  /\ lock' = t /\ inTx' = TRUE
  /\ table' = table \cup ({<<rid[t], "active">>} \cap (Rows(table) \X {"active"}))
  /\ MoveTo(t, "set_active")
  /\ UNCHANGED <<stored, files, meta, rid, profile, cited, cut>>

\* Of a row that is gone no audit row is written.
ActivateCommits(t) ==
  /\ pc[t] = "set_active"
  /\ CommitTx
  /\ lock' = Nobody
  /\ IF rid[t] \in Rows(table) THEN MoveTo(t, "record_activate") /\ rid' = rid ELSE Done(t)
  /\ UNCHANGED <<table, files, meta, profile, cited, cut>>

\* The INSERT of record_operation, and its commit.  No statement reads the audit
\* rows of duplicates and activations: only the transaction they open is kept.
RecordOperation(t) ==
  /\ pc[t] \in {"record_duplicate", "record_activate"}
  /\ inTx' = TRUE
  /\ MoveTo(t, "commit_record")
  /\ UNCHANGED <<table, stored, lock, files, meta, rid, profile, cited, cut>>

\* It commits what another thread's import has written so far, too.
CommitRecord(t) ==
  /\ pc[t] = "commit_record"
  /\ CommitTx
  /\ cut' = cut \cup {i \in Rows(table) : UnderWay(i)}
  /\ Done(t)
  /\ UNCHANGED <<table, lock, files, meta, profile, cited>>

\* Nobody rolls back when the UPDATE of activate or the INSERT of
\* record_operation fails: its transaction stays open.
RecordFails(t) ==
  /\ \/ pc[t] = "activate" /\ lock = Nobody
     \/ pc[t] \in {"record_duplicate", "record_activate"}
  /\ inTx' = TRUE
  /\ Done(t)
  /\ UNCHANGED <<table, stored, lock, files, meta, profile, cited, cut>>

-----------------------------------------------------------------------------
(* Searching. *)

\* A page whose extracted text looks garbled is stored, but is no evidence.
Reliable(c) == c \notin Unreliable

\* Only chunks with reliable text of active resources the learner may read.
Eligible(who) ==
  {i \in Rows(table) : /\ {<<i, "chunks">>, <<i, "active">>} \subseteq table
                       /\ Visible(i, who)
                       /\ Reliable(meta[i].content)}

\* Mutant: the profile of the vectors is not compared.
Compatible_Any(i) == <<i, "index">> \in table \/ profile = LegacyProfile
\* The last index operation names the profile its vectors were made with; chunks
\* that have none pass for those of the profile from before there were any.
Compatible(i) ==
  IF <<i, "index">> \in table THEN meta[i].profile = profile ELSE profile = LegacyProfile

\* Vectors of another profile are passed over; if there are no others, the
\* search is refused, whatever its strategy.
DenseHits(who) == {i \in Eligible(who) : Compatible(i)}
Mismatch(who) == Eligible(who) # {} /\ DenseHits(who) = {}

\* BM25 compares no vectors; fusion and reranking order what the two have found.
LexicalHits(who) == Eligible(who)
HybridRank(dense, lexical) == dense \cup lexical
Candidates(who, strategy) ==
  IF Mismatch(who) THEN {}
  ELSE IF strategy = "dense" THEN DenseHits(who)
  ELSE HybridRank(DenseHits(who), LexicalHits(who))

\* Hits are the candidates above the score limit, unless they do not support the
\* claim asked for: any candidate may be a hit, none need be.  Kept are the
\* reader, the resource, the profile its vectors were compared under, and
\* whether its import was still under way.
SearchLibrary(who, strategy) ==
  /\ pc[Loop] = Idle
  /\ \E i \in Candidates(who, strategy) :
       cited' = <<who, i, IF strategy = "dense" THEN profile ELSE Nobody, UnderWay(i)>>
  /\ UNCHANGED <<table, stored, inTx, lock, files, meta, pc, rid, profile, cut>>

-----------------------------------------------------------------------------
\* The process dies and is started again, perhaps with other settings.
Restart ==
  /\ table' = stored /\ inTx' = FALSE /\ lock' = Nobody
  /\ pc' = [t \in Threads |-> Idle] /\ rid' = [t \in Threads |-> Nobody]
  /\ profile' \in Profiles
  /\ UNCHANGED <<stored, files, meta, cited, cut>>

LibraryNext ==
  \/ Restart
  \/ \E q \in Imports : ImportCommand(q)
  \/ \E t \in Pool : ImportCourse(t)
  \/ \E i \in Ids, who \in Learners : Activate(i, who)
  \/ \E who \in Learners, strategy \in Strategies : SearchLibrary(who, strategy)
  \/ \E t \in Threads :
       \/ CopyFile(t) \/ IngestBegins(t) \/ IngestInserts(t)
       \/ IngestCommits(t) \/ IngestFails(t)
       \/ ActivateSets(t) \/ ActivateCommits(t)
       \/ RecordOperation(t) \/ CommitRecord(t) \/ RecordFails(t)

-----------------------------------------------------------------------------
(* Properties. *)

\* "Transaction rollback": a resource is in the database as a whole, with the
\* copy of its file, or not at all -- whatever failed or crashed on the way, and
\* whichever threads wrote over the one connection.  The exception is an import
\* that was cut: an audit row of another thread was committed in its middle,
\* and it failed or died before its own commit.
WholeImports == \A i \in Rows(stored) \ cut : Whole(stored, i) /\ i \in files

\* What a learner was shown as evidence stays where the citation points: active,
\* readable by the learner, reliable, and found by vectors of its own index.
\* Only a hit read out of an import that was under way can vanish, with the
\* import, and only of an import that was cut can less than this be left.
EvidenceStands ==
  cited # Nobody =>
    LET i == cited[2] IN
    /\ i \notin Rows(stored) => cited[4]
    /\ Visible(i, cited[1]) /\ Reliable(meta[i].content)
    /\ i \in Rows(stored) \ cut =>
         /\ Whole(stored, i) /\ <<i, "active">> \in stored /\ i \in files
         /\ cited[3] # Nobody => meta[i].profile = cited[3]

-----------------------------------------------------------------------------
(* The inductive invariant behind both.  What is not committed yet belongs to  *)
(* the thread that has the lock.                                               *)

Uncommitted(f) ==
  /\ lock # Nobody /\ f[1] = rid[lock]
  /\ IF pc[lock] = "set_active" THEN f[2] = "active"
     ELSE f[2] = "active" => f[1] \notin Rows(stored)

Importing(t) == pc[t] = "copy" \/ InIngest(t)

ThreadInd(t) ==
  /\ lock = t <=> pc[t] \in Parts \cup {"commit", "set_active"}
  /\ pc[t] \in {"activate", "set_active"} => t = Loop
  /\ pc[t] # Idle => rid[t] \in Minted
  /\ pc[t] \in {"copy", "begin", "row"} => rid[t] \notin Rows(table)
  /\ Importing(t) =>
       /\ meta[rid[t]].profile = profile
       /\ rid[t] \in Rows(stored) => rid[t] \in cut
       /\ \A s \in Threads : rid[s] = rid[t] /\ Importing(s) => s = t
  /\ InIngest(t) => rid[t] \in files
  /\ \A k \in 1..5 : (\E j \in k+1..5 : pc[t] = Inserts[j]) \/ pc[t] = "commit"
                      => <<rid[t], Inserts[k]>> \in table

\* What makes a citation stand once its import is committed.
CitedInd ==
  LET i == cited[2] IN
  /\ i \in Minted /\ Visible(i, cited[1]) /\ Reliable(meta[i].content)
  /\ \A t \in Threads : rid[t] = i =>
       /\ pc[t] \notin {"copy", "begin", "row"}
       /\ InIngest(t) => cited[4]
  /\ i \in Rows(stored) \/ cited[4]
  /\ i \in Rows(table) => <<i, "active">> \in table
  /\ i \in Rows(stored) => <<i, "active">> \in stored
  /\ (cited[4] \/ i \notin cut) /\ cited[3] # Nobody => meta[i].profile = cited[3]

LibraryInd ==
  /\ LibraryTypeOK
  /\ stored \subseteq table
  /\ \A f \in table : f[1] \in Minted
  /\ \A f \in table \ stored : Uncommitted(f)
  /\ \A i \in Rows(stored) \ cut : Whole(stored, i) /\ i \in files
  /\ \A t \in Threads : ThreadInd(t)
  /\ cited # Nobody => CitedInd
=============================================================================
